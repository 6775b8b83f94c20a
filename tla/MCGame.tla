------------------------------- MODULE MCGame -------------------------------
EXTENDS Game

=============================================================================
