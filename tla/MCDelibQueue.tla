---------------------------- MODULE MCDelibQueue ----------------------------
(***************************************************************************)
(* Instances of DelibQueue for TLC.                                        *)
(***************************************************************************)
EXTENDS DelibQueue

CONSTANTS a1, a2, b1, x1, u1, u2

MCOwnerOf == [j \in Jobs |-> IF j = b1 THEN u2 ELSE u1]

\* a1 and x1 are small, a2 alone exceeds the cap of 3, b1 fits beside a1.
MCEst == [j \in Jobs |-> CASE j = a2 -> 4 [] j = b1 -> 2 [] OTHER -> 1]

Cap(r, u, q, s) == [run |-> r, user |-> u, queue |-> q, seats |-> s]

MCLimits == {Cap(2, 2, 1, 3), Cap(2, 1, 2, 0)}
LiveLimits == {Cap(2, 1, 2, 3)}
=============================================================================
