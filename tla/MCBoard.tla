------------------------------ MODULE MCBoard -------------------------------
EXTENDS Board

(* A ledge that two worms stand on, over a pit and between a hole on its   *)
(* left and a step and rock on its right.  A client's own explosion misses *)
(* everything or hits the step, into which its worm may then walk.         *)
MCGround == {<<1, 2>>, <<2, 2>>, <<3, 1>>}
MCRock == {<<3, 3>>}
MCPlace == <<<<1, 1>>, <<2, 1>>>>
MCSpeeds == {<<6, -8>>, <<-10, -4>>}
MCImpacts == {<<0, 0>>, <<3, 1>>}
MCThrown == {<<0, 3>>}
MCLoss == [d \in 0 .. 1 |-> IF d = 0 THEN 2 ELSE 0]

=============================================================================
