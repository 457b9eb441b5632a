---------------------------- MODULE LoggerProofs ----------------------------
(***************************************************************************)
(* The logger keeps its logs in order, for any number of producers and     *)
(* logs and any threshold.                                                 *)
(***************************************************************************)
EXTENDS Logger, SequenceTheorems, TLAPS

\* The deque that LogWriting swaps with queue_ is empty except from the swap to
\* the clear; without that, the swap would put written logs back into queue_.
WriterQueueEmpty == wpc \notin {"write", "stamp"} => writer_queue = <<>>

Inv == TypeOK /\ WriterQueueEmpty /\ FirstInFirstOut

\* push_back extends what has been written followed by what is queued.
LEMMA PushBack ==
    ASSUME NEW S, NEW s \in Seq(S), NEW q \in Seq(S), NEW e \in S
    PROVE  s \o Append(q, e) = Append(s \o q, e)
OBVIOUS

\* The empty queues of the constructor satisfy the invariant.
LEMMA InitInv == Init => Inv
<1> SUFFICES ASSUME Init PROVE Inv
  OBVIOUS
<1>1. TypeOK
  BY EmptySeq DEF Init, TypeOK
<1>2. WriterQueueEmpty
  BY DEF Init, WriterQueueEmpty
<1>3. FirstInFirstOut
  BY ConcatEmptySeq, EmptySeq DEF Init, FirstInFirstOut, InFlight
<1>4. QED
  BY <1>1, <1>2, <1>3 DEF Inv

\* A step that only moves a thread's position, or a flag, keeps the order.
LEMMA QueuesUntouched ==
    ASSUME Inv, TypeOK', UNCHANGED <<queue_, writer_queue, written, pushed>>,
           wpc \notin {"write", "stamp"}, wpc' \notin {"write", "stamp"}
    PROVE  Inv'
BY DEF Inv, WriterQueueEmpty, FirstInFirstOut, InFlight

\* PushLog appends the same log to the queue and to the history.
LEMMA PushLogInv ==
    ASSUME Inv, NEW p \in Producer, NEW log \in Log, PushLog(p, log)
    PROVE  Inv'
<1> USE DEF Inv
<1>1. TypeOK'
  <2>1. queue_' \in Seq(Log) /\ pushed' \in Seq(Log)
    BY AppendProperties DEF PushLog, TypeOK
  <2>2. ppc' \in [Producer -> {"idle", "notify"}]
    BY DEF PushLog, TypeOK
  <2>3. QED
    BY <2>1, <2>2 DEF PushLog, TypeOK
<1>2. WriterQueueEmpty'
  BY DEF PushLog, WriterQueueEmpty
<1>3. FirstInFirstOut'
  <2>1. InFlight' = InFlight /\ InFlight \in Seq(Log) /\ written \o InFlight \in Seq(Log)
    BY EmptySeq, ConcatProperties DEF PushLog, InFlight, TypeOK
  <2>2. (written \o InFlight) \o Append(queue_, log) = Append((written \o InFlight) \o queue_, log)
    BY <2>1, PushBack DEF TypeOK
  <2>3. QED
    BY <2>1, <2>2 DEF PushLog, FirstInFirstOut
<1>4. QED
  BY <1>1, <1>2, <1>3

\* The swap moves the whole queue, and the write the whole writer_queue.
LEMMA SwapInv ==
    ASSUME Inv, Swap
    PROVE  Inv'
<1> USE DEF Inv
<1>1. TypeOK'
  BY DEF Swap, TypeOK
<1>2. writer_queue = <<>>
  BY DEF Swap, WriterQueueEmpty
<1>3. CASE queue_ = <<>>
  BY <1>1, <1>3, QueuesUntouched DEF Swap
<1>4. CASE queue_ # <<>>
  <2>1. queue_' = <<>> /\ writer_queue' = queue_ /\ wpc' = "write" /\ UNCHANGED <<written, pushed>>
    BY <1>2, <1>4 DEF Swap
  <2>2. WriterQueueEmpty'
    BY <2>1 DEF WriterQueueEmpty
  <2>3. pushed = (written \o <<>>) \o queue_
    BY <1>2 DEF FirstInFirstOut, InFlight, Swap
  <2>4. /\ written \o <<>> = written
        /\ (written \o queue_) \o <<>> = written \o queue_
    BY ConcatEmptySeq, ConcatProperties DEF TypeOK
  <2>5. FirstInFirstOut'
    BY <2>1, <2>3, <2>4 DEF FirstInFirstOut, InFlight
  <2>6. QED
    BY <1>1, <2>2, <2>5
<1>5. QED
  BY <1>3, <1>4

\* Write keeps the invariant: what was in flight is now in the file.
LEMMA WriteInv ==
    ASSUME Inv, Write
    PROVE  Inv'
<1> USE DEF Inv
<1>1. written' \in Seq(Log)
  BY ConcatProperties DEF Write, TypeOK
<1>2. TypeOK'
  BY <1>1 DEF Write, TypeOK
<1>3. WriterQueueEmpty'
  BY DEF Write, WriterQueueEmpty
<1>4. FirstInFirstOut'
  <2>1. pushed = written' \o queue_
    BY DEF Write, FirstInFirstOut, InFlight
  <2>2. written' \o <<>> = written'
    BY <1>1, ConcatEmptySeq
  <2>3. QED
    BY <2>1, <2>2 DEF Write, FirstInFirstOut, InFlight
<1>5. QED
  BY <1>2, <1>3, <1>4

\* Stamp keeps the invariant: the queue it clears is already in the file.
LEMMA StampInv ==
    ASSUME Inv, Stamp
    PROVE  Inv'
<1> USE DEF Inv
<1>1. TypeOK'
  BY EmptySeq DEF Stamp, TypeOK
<1>2. WriterQueueEmpty'
  BY DEF Stamp, WriterQueueEmpty
<1>3. FirstInFirstOut'
  BY DEF Stamp, FirstInFirstOut, InFlight
<1>4. QED
  BY <1>1, <1>2, <1>3

\* A notification wakes the writer only if it waits.
LEMMA NotifiedInv ==
    ASSUME Inv, TypeOK', wpc' = Notified, UNCHANGED <<queue_, writer_queue, written, pushed>>
    PROVE  Inv'
BY DEF Inv, Notified, WriterQueueEmpty, FirstInFirstOut, InFlight

\* Every step of a producer, the writer, the destructor or the clock keeps the
\* invariant.
LEMMA NextInv == Inv /\ [Next]_vars => Inv'
<1> SUFFICES ASSUME Inv, [Next]_vars PROVE Inv'
  OBVIOUS
<1>1. ASSUME NEW p \in Producer, Notify(p) PROVE Inv'
  <2>1. TypeOK'
    BY <1>1 DEF Notify, Notified, Inv, TypeOK
  <2>2. QED
    BY <1>1, <2>1, NotifiedInv DEF Notify
<1>2. ASSUME NEW p \in Producer, NEW log \in Log, PushLog(p, log) PROVE Inv'
  BY <1>2, PushLogInv
<1>3. CASE Lock \/ Test \/ Block \/ SpuriousWakeup \/ CheckDone
  <2>1. TypeOK'
    <3>1. CASE Lock
      BY <3>1 DEF Lock, Inv, TypeOK
    <3>2. CASE Test
      <4>1. wpc = "test" /\ wpc' \in {"swap", "block"}
        BY <3>2, Zenon DEF Test
      <4>2. UNCHANGED <<queue_, writer_queue, mtx_, done_, stale, ppc, dpc, written, pushed>>
        BY <3>2 DEF Test
      <4>3. QED
        BY <4>1, <4>2 DEF Inv, TypeOK
    <3>3. CASE Block \/ SpuriousWakeup
      <4>1. wpc' \in {"waiting", "lock"} /\ mtx_' = FALSE
        BY <3>3 DEF Block, SpuriousWakeup, Inv, TypeOK
      <4>2. UNCHANGED <<queue_, writer_queue, done_, stale, ppc, dpc, written, pushed>>
        BY <3>3 DEF Block, SpuriousWakeup
      <4>3. QED
        BY <4>1, <4>2 DEF Inv, TypeOK
    <3>4. CASE CheckDone
      BY <3>4 DEF CheckDone, Inv, TypeOK
    <3>5. QED
      BY <1>3, <3>1, <3>2, <3>3, <3>4
  <2>2. QED
    BY <1>3, <2>1, QueuesUntouched DEF Lock, Test, Block, SpuriousWakeup, CheckDone
<1>4. CASE Swap
  BY <1>4, SwapInv
<1>5. CASE Write
  BY <1>5, WriteInv
<1>6. CASE Stamp
  BY <1>6, StampInv
<1>7. CASE TimePasses \/ SetDone \/ Join
  <2>1. UNCHANGED <<queue_, writer_queue, mtx_, wpc, ppc, written, pushed>>
    BY <1>7 DEF TimePasses, SetDone, Join
  <2>2. stale' \in BOOLEAN /\ done_' \in BOOLEAN /\ dpc' \in {"alive", "notify", "join", "gone"}
    BY <1>7 DEF TimePasses, SetDone, Join, Inv, TypeOK
  <2>3. QED
    BY <2>1, <2>2 DEF Inv, TypeOK, WriterQueueEmpty, FirstInFirstOut, InFlight
<1>8. CASE NotifyDone
  <2>1. TypeOK'
    BY <1>8 DEF NotifyDone, Notified, Inv, TypeOK
  <2>2. QED
    BY <1>8, <2>1, NotifiedInv DEF NotifyDone
<1>9. CASE UNCHANGED vars
  BY <1>9 DEF vars, Inv, TypeOK, WriterQueueEmpty, FirstInFirstOut, InFlight
<1>10. QED
  BY <1>1, <1>2, <1>3, <1>4, <1>5, <1>6, <1>7, <1>8, <1>9 DEF Next, WriterStep

\* Types are kept in every behaviour of PushLog, LogWriting and ~Logger, and LogWriting writes
\* to the file without mtx_.
THEOREM TypeCorrect == Spec => []TypeOK
<1>1. Inv => TypeOK
  BY DEF Inv
<1>2. QED
  BY <1>1, InitInv, NextInv, PTL DEF Spec

\* Logs reach the file in the order they were pushed, none lost, repeated or
\* overtaken, although LogWriting writes and clears without mtx_.
THEOREM LogsInOrder == Spec => []FirstInFirstOut
<1>1. Inv => FirstInFirstOut
  BY DEF Inv
<1>2. QED
  BY <1>1, InitInv, NextInv, PTL DEF Spec
=============================================================================
