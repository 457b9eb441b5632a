------------------------------- MODULE MCTidy -------------------------------
(* Two workers and three entries, one file compiled twice: the queue fills  *)
(* up, and workers and main meet in every order.                            *)
EXTENDS Tidy

CONSTANTS f1, f2

MCFile == {f1, f2}
MCEntries == <<f1, f2, f1>>
=============================================================================
