---------------------------- MODULE MCCacheRace ----------------------------
(* Two threads and two resources of which one fits at a time. *)
EXTENDS CacheRace, TLC

CONSTANTS u1, u2, d1, th1, th2

MCUrl == {u1, u2}
MCData == {d1}
MCSize == d1 :> 1
MCThread == {th1, th2}
=============================================================================
