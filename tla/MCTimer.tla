------------------------------ MODULE MCTimer ------------------------------
(* Instances of TimerClient: the callbacks are the users. *)
EXTENDS TimerClient

CONSTANTS a1, a2, a3, c1, c2

MCAddr == {a1, a2, a3}
MCCallback == {c1, c2}
MCDurations == {1, 2}
=============================================================================
