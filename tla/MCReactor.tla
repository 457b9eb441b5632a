----------------------------- MODULE MCReactor -----------------------------
(* Instances of Reactor: clients, descriptors (the callbacks of the timers) *)
(* and addresses for SingleTimer objects.                                   *)
EXTENDS Reactor

CONSTANTS a1, a2, a3, c1, c2, fd1, fd2

MCAddr3 == {a1, a2, a3}
MCClient1 == {c1}
MCClient2 == {c1, c2}
MCFd1 == {fd1}
MCFd2 == {fd1, fd2}
=============================================================================
