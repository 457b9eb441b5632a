------------------------------ MODULE MCLogger ------------------------------
(* Two producers and a threshold low enough to be crossed. *)
EXTENDS Logger

CONSTANTS p1, p2, m1, m2, m3

MCProducer == {p1, p2}
MCOne == {p1}
MCLog2 == {m1, m2}
MCLog3 == {m1, m2, m3}
=============================================================================
