---------------------------- MODULE MCMatchmaking ---------------------------
EXTENDS Matchmaking

=============================================================================
