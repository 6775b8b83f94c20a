---------------------------- MODULE MCClientSlot ----------------------------
EXTENDS ClientSlot

=============================================================================
