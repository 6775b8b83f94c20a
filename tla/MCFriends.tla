----------------------------- MODULE MCFriends ------------------------------
EXTENDS Friends, TLC

(* Accounts are interchangeable, and so are connections.                   *)
Symmetry == Permutations(Users) \cup Permutations(Conns)

=============================================================================
