-------------------------- MODULE ThreadPoolProofs --------------------------
(***************************************************************************)
(* The pool starts its tasks in order, and its destructor leaves none      *)
(* undone when nobody is in SubmitTask as Exit is called: for any number   *)
(* of workers, submitters and tasks.                                       *)
(***************************************************************************)
EXTENDS ThreadPool, SequenceTheorems, TLAPS

\* A worker between cv_.wait's test and the end of its critical section holds
\* mtx_, so no other worker takes a task and no submitter adds one meanwhile.
Mutex == \A w \in Worker : wpc[w] \in {"test", "block", "take"} => mtx_ = w

\* The predicate of cv_.wait still holds when the worker acts on it: exit_ is
\* never reset and the queue is not emptied behind the worker's back.
TakeReady == \A w \in Worker : wpc[w] = "take" => exit_ \/ tasks_ # <<>>

\* next_task and the packaged task are there when they are used.
HoldsTask ==
    /\ \A w \in Worker : wpc[w] = "run" => wtask[w] \in Task
    /\ \A s \in Submitter : spc[s] = "enqueue" => stask[s] \in Task

Inv == TypeOK /\ Mutex /\ TakeReady /\ HoldsTask /\ FirstInFirstOut

\* What the destructor relies on.  After exit_ nobody is about to enqueue;
QueueClosed == exit_ => \A s \in Submitter : spc[s] # "enqueue"

\* a worker that has left saw the queue empty, and it stays so;
LeftEmpty == \A w \in Worker : wpc[w] = "done" => exit_ /\ tasks_ = <<>>

\* a task that was taken is done or being run;
StartedRuns ==
    \A i \in DOMAIN started :
        started[i] \in finished \/ \E w \in Worker : wpc[w] = "run" /\ wtask[w] = started[i]

\* and the joins have seen every worker leave.
Joined == opc = "gone" => \A w \in Worker : wpc[w] = "done"

ExitInv == QueueClosed /\ LeftEmpty /\ StartedRuns /\ Joined
-----------------------------------------------------------------------------
\* push_back extends what has been started followed by what is queued.
LEMMA PushBack ==
    ASSUME NEW S, NEW s \in Seq(S), NEW q \in Seq(S), NEW e \in S
    PROVE  s \o Append(q, e) = Append(s \o q, e)
OBVIOUS

\* Taking the front of the queue leaves what has been started followed by what is queued.
LEMMA PopFront ==
    ASSUME NEW S, NEW s \in Seq(S), NEW q \in Seq(S), q # <<>>
    PROVE  Append(s, Head(q)) \o Tail(q) = s \o q
OBVIOUS

\* A pool that has just been made satisfies the invariants.
LEMMA InitInv == Init => Inv /\ ExitInv
<1> SUFFICES ASSUME Init PROVE Inv /\ ExitInv
  OBVIOUS
<1>1. TypeOK
  BY EmptySeq DEF Init, TypeOK
<1>2. Mutex /\ TakeReady /\ HoldsTask
  BY DEF Init, Mutex, TakeReady, HoldsTask
<1>3. FirstInFirstOut
  BY ConcatEmptySeq, EmptySeq DEF Init, FirstInFirstOut
<1>4. DOMAIN started = {}
  BY EmptySeq, LenProperties DEF Init
<1>5. ExitInv
  BY <1>4 DEF Init, ExitInv, QueueClosed, LeftEmpty, StartedRuns, Joined
<1>6. QED
  BY <1>1, <1>2, <1>3, <1>5 DEF Inv

\* The steps of a worker that leave the queue alone.
LEMMA IdleWorkerInv ==
    ASSUME Inv, NEW w \in Worker, Lock(w) \/ Test(w) \/ Block(w) \/ SpuriousWakeup(w)
    PROVE  Inv'
<1> USE PoolAssumption DEF Inv
<1>1. TypeOK'
  BY DEF Lock, Test, Block, SpuriousWakeup, TypeOK, submitVars, history
<1>2. Mutex'
  BY DEF Lock, Test, Block, SpuriousWakeup, TypeOK, Mutex
<1>3. TakeReady'
  BY DEF Lock, Test, Block, SpuriousWakeup, TypeOK, TakeReady
<1>4. HoldsTask'
  BY DEF Lock, Test, Block, SpuriousWakeup, TypeOK, HoldsTask, submitVars
<1>5. FirstInFirstOut'
  BY DEF Lock, Test, Block, SpuriousWakeup, FirstInFirstOut, history
<1>6. QED
  BY <1>1, <1>2, <1>3, <1>4, <1>5

\* A worker that takes a task moves the front of the queue to "started".
LEMMA TakeInv ==
    ASSUME Inv, NEW w \in Worker, Take(w)
    PROVE  Inv'
<1> USE PoolAssumption DEF Inv
<1>1. ~Leaves => /\ tasks_ # <<>>
                 /\ Head(tasks_) \in Task
                 /\ Tail(tasks_) \in Seq(Task)
                 /\ Append(started, Head(tasks_)) \in Seq(Task)
  BY HeadTailProperties, AppendProperties DEF Take, Leaves, TakeReady, TypeOK
<1>2. TypeOK'
  <2>1. CASE Leaves
    <3>1. wpc' \in [Worker -> {"lock", "test", "block", "waiting", "take", "run", "done"}]
      BY <2>1 DEF Take, TypeOK
    <3>2. QED
      BY <2>1, <3>1 DEF Take, TypeOK, submitVars
  <2>2. CASE ~Leaves
    <3>1. /\ wpc' \in [Worker -> {"lock", "test", "block", "waiting", "take", "run", "done"}]
          /\ wtask' \in [Worker -> Task \cup {Nobody}]
      BY <1>1, <2>2 DEF Take, TypeOK
    <3>2. tasks_' \in Seq(Task) /\ started' \in Seq(Task)
      BY <1>1, <2>2 DEF Take
    <3>3. QED
      BY <3>1, <3>2 DEF Take, TypeOK, submitVars
  <2>3. QED
    BY <2>1, <2>2
<1>3. \A v \in Worker : v # w => wpc[v] \notin {"test", "block", "take"}
  BY DEF Take, Mutex
<1>4. Mutex' /\ TakeReady'
  BY <1>3 DEF Take, TypeOK, Mutex, TakeReady
<1>5. HoldsTask'
  BY <1>1 DEF Take, TypeOK, HoldsTask, submitVars
<1>6. FirstInFirstOut'
  <2>1. CASE Leaves
    BY <2>1 DEF Take, FirstInFirstOut
  <2>2. CASE ~Leaves
    <3>1. Append(started, Head(tasks_)) \o Tail(tasks_) = started \o tasks_
      BY <1>1, <2>2, PopFront DEF TypeOK
    <3>2. QED
      BY <2>2, <3>1 DEF Take, FirstInFirstOut
  <2>3. QED
    BY <2>1, <2>2
<1>7. QED
  BY <1>2, <1>4, <1>5, <1>6

\* RunTask keeps the invariant: the worker runs the task it holds, without mtx_.
LEMMA RunTaskInv ==
    ASSUME Inv, NEW w \in Worker, RunTask(w)
    PROVE  Inv'
<1> USE PoolAssumption DEF Inv
<1>1. TypeOK'
  BY DEF RunTask, TypeOK, HoldsTask, submitVars
<1>2. Mutex' /\ TakeReady'
  BY DEF RunTask, TypeOK, Mutex, TakeReady
<1>3. HoldsTask' /\ FirstInFirstOut'
  BY DEF RunTask, TypeOK, HoldsTask, FirstInFirstOut, submitVars
<1>4. QED
  BY <1>1, <1>2, <1>3

\* The steps of SubmitTask keep the invariant: the new task is the last of tasks_.
LEMMA SubmitInv ==
    ASSUME Inv, NEW s \in Submitter, NEW t \in Task, Submit(s, t)
    PROVE  Inv'
<1> USE PoolAssumption DEF Inv
<1>1. TypeOK'
  BY DEF Submit, TypeOK, workerVars, submitVars
<1>2. Mutex' /\ TakeReady' /\ FirstInFirstOut'
  BY DEF Submit, TypeOK, Mutex, TakeReady, FirstInFirstOut, workerVars
<1>3. HoldsTask'
  BY DEF Submit, TypeOK, HoldsTask, workerVars, submitVars
<1>4. QED
  BY <1>1, <1>2, <1>3

\* SubmitTask appends the task to the queue while no worker is between its test
\* and its take.
LEMMA EnqueueInv ==
    ASSUME Inv, NEW s \in Submitter, Enqueue(s)
    PROVE  Inv'
<1> USE PoolAssumption DEF Inv
<1>1. /\ stask[s] \in Task
      /\ Append(tasks_, stask[s]) \in Seq(Task)
      /\ Append(accepted, stask[s]) \in Seq(Task)
  BY AppendProperties DEF Enqueue, HoldsTask, TypeOK
<1>2. TypeOK'
  BY <1>1 DEF Enqueue, TypeOK, workerVars
<1>3. Mutex' /\ TakeReady'
  BY DEF Enqueue, TypeOK, Mutex, TakeReady, workerVars
<1>4. HoldsTask'
  BY DEF Enqueue, TypeOK, HoldsTask, workerVars
<1>5. FirstInFirstOut'
  <2>1. started \o Append(tasks_, stask[s]) = Append(started \o tasks_, stask[s])
    BY <1>1, PushBack DEF TypeOK
  <2>2. QED
    BY <2>1 DEF Enqueue, FirstInFirstOut
<1>6. QED
  BY <1>2, <1>3, <1>4, <1>5

\* Notifications only move waiting workers back to taking mtx_.
LEMMA NotifyInv ==
    ASSUME Inv, (\E s \in Submitter : NotifyOne(s)) \/ NotifyAll
    PROVE  Inv'
<1> USE PoolAssumption DEF Inv
<1>1. TypeOK'
  BY DEF NotifyOne, NotifyAll, TypeOK, history, submitVars
<1>2. Mutex' /\ TakeReady'
  BY DEF NotifyOne, NotifyAll, TypeOK, Mutex, TakeReady
<1>3. HoldsTask'
  BY DEF NotifyOne, NotifyAll, TypeOK, HoldsTask, submitVars
<1>4. FirstInFirstOut'
  BY DEF NotifyOne, NotifyAll, FirstInFirstOut, history
<1>5. QED
  BY <1>1, <1>2, <1>3, <1>4

\* Exit and the destructor keep the invariant: they touch neither tasks_ nor mtx_.
LEMMA OwnerInv ==
    ASSUME Inv, SetExit \/ Join \/ UNCHANGED vars
    PROVE  Inv'
<1> USE PoolAssumption DEF Inv, workerVars, submitVars, history, vars
<1>1. TypeOK'
  BY DEF SetExit, Join, TypeOK
<1>2. Mutex' /\ TakeReady' /\ HoldsTask' /\ FirstInFirstOut'
  BY DEF SetExit, Join, TypeOK, Mutex, TakeReady, HoldsTask, FirstInFirstOut
<1>3. QED
  BY <1>1, <1>2

\* Every step of a worker, a submitter or the owner keeps the invariant.
LEMMA NextInv == Inv /\ [Next]_vars => Inv'
<1> SUFFICES ASSUME Inv, [Next]_vars PROVE Inv'
  OBVIOUS
<1>1. ASSUME NEW w \in Worker, WorkerStep(w) \/ SpuriousWakeup(w) PROVE Inv'
  BY <1>1, IdleWorkerInv, TakeInv, RunTaskInv DEF WorkerStep
<1>2. ASSUME NEW s \in Submitter, SubmitStep(s) PROVE Inv'
  BY <1>2, EnqueueInv, NotifyInv DEF SubmitStep
<1>3. ASSUME NEW s \in Submitter, NEW t \in Task, Submit(s, t) PROVE Inv'
  BY <1>3, SubmitInv
<1>4. CASE SetExit \/ Join \/ UNCHANGED vars
  BY <1>4, OwnerInv
<1>5. CASE NotifyAll
  BY <1>5, NotifyInv
<1>6. QED
  BY <1>1, <1>2, <1>3, <1>4, <1>5 DEF Next

\* Types are kept: in particular a worker never runs an empty next_task.
THEOREM TypeCorrect == Spec => []TypeOK
<1>1. Inv => TypeOK
  BY DEF Inv
<1>2. QED
  BY <1>1, InitInv, NextInv, PTL DEF Spec

\* Tasks start in the order SubmitTask queued them, none lost or taken twice,
\* for any number of workers and submitters.
THEOREM TasksInOrder == Spec => []FirstInFirstOut
<1>1. Inv => FirstInFirstOut
  BY DEF Inv
<1>2. QED
  BY <1>1, InitInv, NextInv, PTL DEF Spec
-----------------------------------------------------------------------------
\* exit_ is set while nobody is in SubmitTask, and SubmitTask throws after it.
LEMMA QueueClosedInv ==
    ASSUME ExitWaits, Inv, QueueClosed, [Next]_vars
    PROVE  QueueClosed'
<1> USE DEF QueueClosed, workerVars, submitVars, history
<1>1. ASSUME NEW w \in Worker, WorkerStep(w) \/ SpuriousWakeup(w) PROVE QueueClosed'
  BY <1>1 DEF WorkerStep, Lock, Test, Block, Take, RunTask, SpuriousWakeup
<1>2. ASSUME NEW s \in Submitter, SubmitStep(s) PROVE QueueClosed'
  BY <1>2 DEF SubmitStep, Enqueue, NotifyOne, Inv, TypeOK
<1>3. ASSUME NEW s \in Submitter, NEW t \in Task, Submit(s, t) PROVE QueueClosed'
  BY <1>3 DEF Submit, Inv, TypeOK
<1>4. CASE SetExit
  BY <1>4 DEF SetExit, NobodySubmits
<1>5. CASE NotifyAll \/ Join \/ UNCHANGED vars
  BY <1>5 DEF NotifyAll, Join, vars
<1>6. QED
  BY <1>1, <1>2, <1>3, <1>4, <1>5 DEF Next

\* A worker leaves when the queue is empty, and nothing enters it afterwards.
LEMMA LeftEmptyInv ==
    ASSUME Inv, QueueClosed, LeftEmpty, [Next]_vars
    PROVE  LeftEmpty'
<1> USE DEF LeftEmpty, workerVars, submitVars, history, Inv, TypeOK
<1>1. ASSUME NEW w \in Worker, Lock(w) \/ Test(w) \/ Block(w) \/ RunTask(w) \/ SpuriousWakeup(w)
      PROVE  LeftEmpty'
  BY <1>1 DEF Lock, Test, Block, RunTask, SpuriousWakeup
<1>2. ASSUME NEW w \in Worker, Take(w) PROVE LeftEmpty'
  <2>1. CASE Leaves
    BY <1>2, <2>1 DEF Take, Leaves
  <2>2. CASE ~Leaves
    <3>1. \A v \in Worker : wpc[v] # "done"
      BY <1>2, <2>2 DEF Take, Leaves, TakeReady
    <3>2. QED
      BY <1>2, <2>2, <3>1 DEF Take
  <2>3. QED
    BY <2>1, <2>2
<1>3. ASSUME NEW s \in Submitter, Enqueue(s) PROVE LeftEmpty'
  <2>1. \A w \in Worker : wpc[w] # "done"
    BY <1>3 DEF Enqueue, QueueClosed
  <2>2. QED
    BY <1>3, <2>1 DEF Enqueue
<1>4. ASSUME NEW s \in Submitter, NotifyOne(s) PROVE LeftEmpty'
  BY <1>4 DEF NotifyOne
<1>5. ASSUME NEW s \in Submitter, NEW t \in Task, Submit(s, t) PROVE LeftEmpty'
  BY <1>5 DEF Submit
<1>6. CASE SetExit \/ NotifyAll \/ Join \/ UNCHANGED vars
  BY <1>6 DEF SetExit, NotifyAll, Join, vars
<1>7. QED
  BY <1>1, <1>2, <1>3, <1>4, <1>5, <1>6 DEF Next, WorkerStep, SubmitStep

\* A worker that takes a task runs it before it does anything else.
LEMMA StartedRunsInv ==
    ASSUME Inv, StartedRuns, [Next]_vars
    PROVE  StartedRuns'
<1> USE DEF StartedRuns, workerVars, submitVars, history
<1>1. ASSUME NEW w \in Worker, Lock(w) \/ Test(w) \/ Block(w) \/ SpuriousWakeup(w)
      PROVE  StartedRuns'
  <2>1. /\ UNCHANGED <<started, finished, wtask>>
        /\ \A v \in Worker : wpc[v] = "run" => wpc'[v] = "run"
    BY <1>1 DEF Lock, Test, Block, SpuriousWakeup, Inv, TypeOK
  <2>2. QED
    BY <2>1
<1>2. ASSUME NEW w \in Worker, Take(w) PROVE StartedRuns'
  <2>1. CASE Leaves
    <3>1. /\ UNCHANGED <<started, finished, wtask>>
          /\ \A v \in Worker : wpc[v] = "run" => wpc'[v] = "run"
      BY <1>2, <2>1 DEF Take, Inv, TypeOK
    <3>2. QED
      BY <3>1
  <2>2. CASE ~Leaves
    <3>1. tasks_ # <<>> /\ Head(tasks_) \in Task
      BY <1>2, <2>2, HeadTailProperties DEF Take, Leaves, Inv, TakeReady, TypeOK
    <3>2. /\ started' = Append(started, Head(tasks_))
          /\ finished' = finished
          /\ wpc'[w] = "run" /\ wtask'[w] = Head(tasks_)
          /\ \A v \in Worker : wpc[v] = "run" => wpc'[v] = "run" /\ wtask'[v] = wtask[v]
      BY <1>2, <2>2 DEF Take, Inv, TypeOK
    <3>3. /\ started \in Seq(Task) /\ Len(started) \in Nat
          /\ DOMAIN started = 1 .. Len(started)
          /\ DOMAIN started' = 1 .. Len(started) + 1
          /\ \A i \in 1 .. Len(started) : started'[i] = started[i]
          /\ started'[Len(started) + 1] = Head(tasks_)
      BY <3>1, <3>2, AppendProperties, LenProperties DEF Inv, TypeOK
    <3>4. ASSUME NEW i \in DOMAIN started'
          PROVE  started'[i] \in finished' \/ \E v \in Worker : wpc'[v] = "run" /\ wtask'[v] = started'[i]
      <4>1. CASE i = Len(started) + 1
        BY <3>2, <3>3, <4>1
      <4>2. CASE i # Len(started) + 1
        <5>1. i \in DOMAIN started /\ started'[i] = started[i]
          BY <3>3, <4>2
        <5>2. QED
          BY <3>2, <5>1
      <4>3. QED
        BY <4>1, <4>2
    <3>5. QED
      BY <3>4
  <2>3. QED
    BY <2>1, <2>2
<1>3. ASSUME NEW w \in Worker, RunTask(w) PROVE StartedRuns'
  <2>1. /\ started' = started
        /\ finished' = finished \cup {wtask[w]}
        /\ \A v \in Worker : v # w /\ wpc[v] = "run" => wpc'[v] = "run" /\ wtask'[v] = wtask[v]
    BY <1>3 DEF RunTask, Inv, TypeOK
  <2>2. QED
    BY <2>1
<1>4. ASSUME NEW s \in Submitter, Enqueue(s) PROVE StartedRuns'
  BY <1>4 DEF Enqueue
<1>5. CASE (\E s \in Submitter : NotifyOne(s)) \/ NotifyAll
  <2>1. /\ UNCHANGED <<started, finished, wtask>>
        /\ \A v \in Worker : wpc[v] = "run" => wpc'[v] = "run"
    BY <1>5 DEF NotifyOne, NotifyAll, Inv, TypeOK
  <2>2. QED
    BY <2>1
<1>6. ASSUME NEW s \in Submitter, NEW t \in Task, Submit(s, t) PROVE StartedRuns'
  BY <1>6 DEF Submit
<1>7. CASE SetExit \/ Join \/ UNCHANGED vars
  BY <1>7 DEF SetExit, Join, vars
<1>8. QED
  BY <1>1, <1>2, <1>3, <1>4, <1>5, <1>6, <1>7 DEF Next, WorkerStep, SubmitStep

\* Join waits for every worker, and a worker that has left does not come back.
LEMMA JoinedInv ==
    ASSUME Inv, Joined, [Next]_vars
    PROVE  Joined'
<1> USE DEF Joined, workerVars, submitVars, history, Inv, TypeOK
<1>1. ASSUME NEW w \in Worker, WorkerStep(w) \/ SpuriousWakeup(w) PROVE Joined'
  BY <1>1 DEF WorkerStep, Lock, Test, Block, Take, RunTask, SpuriousWakeup
<1>2. ASSUME NEW s \in Submitter, SubmitStep(s) PROVE Joined'
  BY <1>2 DEF SubmitStep, Enqueue, NotifyOne
<1>3. ASSUME NEW s \in Submitter, NEW t \in Task, Submit(s, t) PROVE Joined'
  BY <1>3 DEF Submit
<1>4. CASE SetExit \/ NotifyAll \/ Join \/ UNCHANGED vars
  BY <1>4 DEF SetExit, NotifyAll, Join, vars
<1>5. QED
  BY <1>1, <1>2, <1>3, <1>4 DEF Next

\* With the joins done the queue is empty and no worker runs a task, so every
\* task that was queued has been started and is done.
LEMMA ExitInvImpliesDone == Inv /\ ExitInv => DoneWhenDestroyed
<1> SUFFICES ASSUME Inv, ExitInv, opc = "gone", NEW i \in DOMAIN accepted
             PROVE  accepted[i] \in finished
  BY DEF DoneWhenDestroyed
<1>1. tasks_ = <<>> /\ \A w \in Worker : wpc[w] # "run"
  BY PoolAssumption DEF ExitInv, LeftEmpty, Joined
<1>2. accepted = started
  BY <1>1, ConcatEmptySeq DEF Inv, TypeOK, FirstInFirstOut
<1>3. QED
  BY <1>1, <1>2 DEF ExitInv, StartedRuns

\* "here thread_pool's dtor should finish all the tasks": it does, for every
\* number of workers, submitters and tasks, provided that nobody is inside
\* SubmitTask when Exit is called.
THEOREM DestructorFinishesTasks ==
    ASSUME ExitWaits
    PROVE  Spec => []DoneWhenDestroyed
<1>1. Inv /\ ExitInv /\ [Next]_vars => ExitInv'
  BY QueueClosedInv, LeftEmptyInv, StartedRunsInv, JoinedInv DEF ExitInv
<1>2. QED
  BY <1>1, InitInv, NextInv, ExitInvImpliesDone, PTL DEF Spec
=============================================================================
