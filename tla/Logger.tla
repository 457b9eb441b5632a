------------------------------- MODULE Logger -------------------------------
(***************************************************************************)
(* Turtle's asynchronous Logger (log/logger.cpp): producers push logs into *)
(* queue_ and sometimes notify; one writer thread swaps the queue out and  *)
(* writes it; the destructor sets done_, notifies and joins the writer.    *)
(*                                                                         *)
(* Of the clock only one fact matters: whether more than REFRESH_THRESHOLD *)
(* has passed since last_flush_ ("stale").  last_flush_ is written without *)
(* mtx_, and done_ is an atomic set without mtx_.                          *)
(***************************************************************************)
EXTENDS Naturals, Sequences

CONSTANTS
    Producer,       \* threads that log
    Log,            \* log records, each pushed at most once
    CountThreshold  \* COUNT_THRESHOLD

ASSUME LoggerAssumption == CountThreshold \in Nat

VARIABLES
    queue_,
    writer_queue,
    mtx_,     \* the writer holds mtx_
    done_,
    stale,    \* GetCurrentTime() - last_flush_ > REFRESH_THRESHOLD
    wpc,      \* where the writer is in LogWriting
    ppc,      \* Producer -> where it is in PushLog
    dpc,      \* where the destructor is
    written,  \* what log_strategy_ has written
    pushed    \* history: logs in the order they entered the queue

vars == <<queue_, writer_queue, mtx_, done_, stale, wpc, ppc, dpc, written, pushed>>

\* Every variable has its type, and the writer holds mtx_ while it tests and swaps but not
\* while it waits and writes: "producer may continue".
TypeOK ==
    /\ queue_ \in Seq(Log)
    /\ writer_queue \in Seq(Log)
    /\ mtx_ \in BOOLEAN
    /\ done_ \in BOOLEAN
    /\ stale \in BOOLEAN
    /\ wpc \in {"lock", "test", "block", "waiting", "swap", "write", "stamp", "check", "done"}
    /\ ppc \in [Producer -> {"idle", "notify"}]
    /\ dpc \in {"alive", "notify", "join", "gone"}
    /\ written \in Seq(Log)
    /\ pushed \in Seq(Log)
    /\ wpc \in {"test", "block", "swap"} => mtx_
    /\ wpc \in {"lock", "waiting", "write", "stamp", "done"} => ~mtx_

Init ==
    /\ queue_ = <<>>
    /\ writer_queue = <<>>
    /\ mtx_ = FALSE
    /\ done_ = FALSE
    /\ stale = FALSE
    /\ wpc = "lock"
    /\ ppc = [p \in Producer |-> "idle"]
    /\ dpc = "alive"
    /\ written = <<>>
    /\ pushed = <<>>
-----------------------------------------------------------------------------
(* Producers: PushLog. *)

\* Mutant: only the time counts.
FlushDue_TimeOnly(q) == stale

\* The flush criteria, of a queue q.
FlushDue(q) == stale \/ Len(q) > CountThreshold

\* Append under mtx_ and decide whether to notify.
PushLog(p, log) ==
    /\ dpc = "alive"
    /\ ppc[p] = "idle"
    /\ ~mtx_
    /\ \A i \in DOMAIN pushed : pushed[i] # log
    /\ queue_' = Append(queue_, log)
    /\ pushed' = Append(pushed, log)
    /\ ppc' = [ppc EXCEPT ![p] = IF FlushDue(queue_') THEN "notify" ELSE "idle"]
    /\ UNCHANGED <<writer_queue, mtx_, done_, stale, wpc, dpc, written>>

\* cv_.notify_one reaches the writer if it is blocked.
Notified == IF wpc = "waiting" THEN "lock" ELSE wpc

Notify(p) ==
    /\ ppc[p] = "notify"
    /\ ppc' = [ppc EXCEPT ![p] = "idle"]
    /\ wpc' = Notified
    /\ UNCHANGED <<queue_, writer_queue, mtx_, done_, stale, dpc, written, pushed>>

TimePasses ==
    /\ ~stale
    /\ stale' = TRUE
    /\ UNCHANGED <<queue_, writer_queue, mtx_, done_, wpc, ppc, dpc, written, pushed>>
-----------------------------------------------------------------------------
(* The writer's thread: LogWriting. *)

Lock ==
    /\ wpc = "lock"
    /\ ~mtx_
    /\ mtx_' = TRUE
    /\ wpc' = "test"
    /\ UNCHANGED <<queue_, writer_queue, done_, stale, ppc, dpc, written, pushed>>

\* The predicate of cv_.wait.
Test ==
    /\ wpc = "test"
    /\ wpc' = IF done_ \/ FlushDue(queue_) THEN "swap" ELSE "block"
    /\ UNCHANGED <<queue_, writer_queue, mtx_, done_, stale, ppc, dpc, written, pushed>>

\* The wait itself: from here on a notification reaches the writer.
Block ==
    /\ wpc = "block"
    /\ mtx_' = FALSE
    /\ wpc' = "waiting"
    /\ UNCHANGED <<queue_, writer_queue, done_, stale, ppc, dpc, written, pushed>>

SpuriousWakeup ==
    /\ wpc = "waiting"
    /\ wpc' = "lock"
    /\ UNCHANGED <<queue_, writer_queue, mtx_, done_, stale, ppc, dpc, written, pushed>>

\* Mutant: mtx_ is not released before the logs are written.
Swap_KeepsLock ==
    /\ wpc = "swap"
    /\ queue_' = writer_queue
    /\ writer_queue' = queue_
    /\ wpc' = IF queue_ = <<>> THEN "check" ELSE "write"
    /\ UNCHANGED <<mtx_, done_, stale, ppc, dpc, written, pushed>>

\* writer_queue.swap(queue_), if there is something to write.
Swap ==
    /\ wpc = "swap"
    /\ \/ /\ queue_ = <<>>
          /\ wpc' = "check"
          /\ UNCHANGED <<queue_, writer_queue, mtx_>>
       \/ /\ queue_ # <<>>
          /\ queue_' = writer_queue
          /\ writer_queue' = queue_
          /\ mtx_' = FALSE
          /\ wpc' = "write"
    /\ UNCHANGED <<done_, stale, ppc, dpc, written, pushed>>

\* log_strategy_ writes the logs of the queue one by one.
Write ==
    /\ wpc = "write"
    /\ written' = written \o writer_queue
    /\ wpc' = "stamp"
    /\ UNCHANGED <<queue_, writer_queue, mtx_, done_, stale, ppc, dpc, pushed>>

\* Mutant: writer_queue is not cleared.
Stamp_NoClear ==
    /\ wpc = "stamp"
    /\ stale' = FALSE
    /\ wpc' = "check"
    /\ UNCHANGED <<queue_, writer_queue, mtx_, done_, ppc, dpc, written, pushed>>

\* last_flush_ = GetCurrentTime(), then clear.
Stamp ==
    /\ wpc = "stamp"
    /\ stale' = FALSE
    /\ writer_queue' = <<>>
    /\ wpc' = "check"
    /\ UNCHANGED <<queue_, mtx_, done_, ppc, dpc, written, pushed>>

\* Leave if done_; the end of the loop's body releases mtx_ if it is still held.
CheckDone ==
    /\ wpc = "check"
    /\ wpc' = IF done_ THEN "done" ELSE "lock"
    /\ mtx_' = FALSE
    /\ UNCHANGED <<queue_, writer_queue, done_, stale, ppc, dpc, written, pushed>>
-----------------------------------------------------------------------------
(* ~Logger, called when no producer is inside PushLog any more. *)

SetDone ==
    /\ dpc = "alive"
    /\ \A p \in Producer : ppc[p] = "idle"
    /\ done_' = TRUE
    /\ dpc' = "notify"
    /\ UNCHANGED <<queue_, writer_queue, mtx_, stale, wpc, ppc, written, pushed>>

NotifyDone ==
    /\ dpc = "notify"
    /\ wpc' = Notified
    /\ dpc' = "join"
    /\ UNCHANGED <<queue_, writer_queue, mtx_, done_, stale, ppc, written, pushed>>

Join ==
    /\ dpc = "join"
    /\ wpc = "done"
    /\ dpc' = "gone"
    /\ UNCHANGED <<queue_, writer_queue, mtx_, done_, stale, wpc, ppc, written, pushed>>
-----------------------------------------------------------------------------
WriterStep == Lock \/ Test \/ Block \/ Swap \/ Write \/ Stamp \/ CheckDone

Next ==
    \/ \E p \in Producer : Notify(p) \/ \E log \in Log : PushLog(p, log)
    \/ WriterStep
    \/ SpuriousWakeup
    \/ TimePasses
    \/ SetDone
    \/ NotifyDone
    \/ Join

\* Running threads are scheduled and time passes; nobody has to log or to
\* destroy the logger, and no spurious wakeup is promised.
Fairness ==
    /\ WF_vars(WriterStep)
    /\ \A p \in Producer : WF_vars(Notify(p))
    /\ WF_vars(TimePasses)
    /\ WF_vars(NotifyDone)
    /\ WF_vars(Join)

Spec == Init /\ [][Next]_vars /\ Fairness
-----------------------------------------------------------------------------
\* The part of writer_queue that is not in the file yet.
InFlight == IF wpc = "stamp" THEN <<>> ELSE writer_queue

\* Logs reach the file in the order they were pushed, each once: what is
\* written, being written and queued is what was pushed, through the swap and
\* the clear that LogWriting makes without mtx_.
FirstInFirstOut == pushed = written \o InFlight \o queue_

\* A queue longer than COUNT_THRESHOLD is flushed while the logger is in use:
\* the push that crosses the threshold notifies, or the writer sees the length
\* when it tests next.
BacklogIsFlushed ==
    Len(queue_) > CountThreshold ~> Len(queue_) <= CountThreshold \/ done_

\* Once the destructor has joined the writer every log is written: "need to
\* record the remaining log in either case".
AllWrittenAtExit == dpc = "gone" => written = pushed

=============================================================================
