---------------------------- MODULE MCThreadPool ----------------------------
(* Two workers, as MIN_NUM_THREADS_IN_POOL has it, an owner and a second *)
(* submitter.                                                            *)
EXTENDS ThreadPool

CONSTANTS w1, w2, main, other, t1, t2, t3

MCWorker == {w1, w2}
MCOne == {main}
MCTwo == {main, other}
MCTask1 == {t1}
MCTask3 == {t1, t2, t3}
=============================================================================
