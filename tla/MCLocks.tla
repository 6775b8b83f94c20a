------------------------------ MODULE MCLocks -------------------------------
EXTENDS Locks

=============================================================================
