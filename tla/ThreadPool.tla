----------------------------- MODULE ThreadPool -----------------------------
(***************************************************************************)
(* Turtle's ThreadPool (core/thread_pool.cpp, thread_pool.h): workers that *)
(* wait on one condition variable for a task or for exit_, threads that    *)
(* call SubmitTask, and the owner, which may call Exit and at last         *)
(* destroys the pool.                                                      *)
(*                                                                         *)
(* cv_.wait with a predicate is a test of the predicate under mtx_, then a *)
(* step that releases mtx_ and blocks.  exit_ is an atomic that Exit sets  *)
(* without mtx_, so it may change between the two.                         *)
(***************************************************************************)
EXTENDS Naturals, Sequences

CONSTANTS
    Worker,      \* threads of the pool
    Submitter,   \* threads that call SubmitTask; the owner is one of them
    Owner,       \* the thread that calls Exit and the destructor
    Task,        \* tasks, each submitted at most once
    Nobody,      \* no thread, no task
    ExitWaits    \* the owner calls Exit only while nobody is in SubmitTask

ASSUME PoolAssumption ==
    /\ Owner \in Submitter
    /\ Worker # {}
    /\ ExitWaits \in BOOLEAN
    /\ Nobody \notin Worker \cup Task

VARIABLES
    tasks_,    \* the queue
    mtx_,      \* the worker that holds mtx_, or Nobody
    exit_,
    wpc,       \* Worker -> where it is
    wtask,     \* Worker -> next_task
    spc,       \* Submitter -> where it is in SubmitTask
    stask,     \* Submitter -> the task it submits
    opc,       \* where the owner is in Exit and ~ThreadPool
    \* history
    accepted,  \* tasks put into the queue, in that order
    started,   \* tasks taken from the queue, in that order
    finished,  \* tasks that have returned
    refused    \* tasks for which SubmitTask threw

workerVars == <<wpc, wtask>>
submitVars == <<spc, stask>>
history == <<accepted, started, finished, refused>>
vars == <<tasks_, mtx_, exit_, workerVars, submitVars, opc, history>>

TypeOK ==
    /\ tasks_ \in Seq(Task)
    /\ mtx_ \in Worker \cup {Nobody}
    /\ exit_ \in BOOLEAN
    /\ wpc \in [Worker -> {"lock", "test", "block", "waiting", "take", "run", "done"}]
    /\ wtask \in [Worker -> Task \cup {Nobody}]
    /\ spc \in [Submitter -> {"idle", "enqueue", "notify"}]
    /\ stask \in [Submitter -> Task \cup {Nobody}]
    /\ opc \in {"using", "exiting", "destroying", "joining", "gone"}
    /\ accepted \in Seq(Task)
    /\ started \in Seq(Task)
    /\ finished \subseteq Task
    /\ refused \subseteq Task

Init ==
    /\ tasks_ = <<>>
    /\ mtx_ = Nobody
    /\ exit_ = FALSE
    /\ wpc = [w \in Worker |-> "lock"]
    /\ wtask = [w \in Worker |-> Nobody]
    /\ spc = [s \in Submitter |-> "idle"]
    /\ stask = [s \in Submitter |-> Nobody]
    /\ opc = "using"
    /\ accepted = <<>>
    /\ started = <<>>
    /\ finished = {}
    /\ refused = {}
-----------------------------------------------------------------------------
(* The thread routine of the constructor. *)

Lock(w) ==
    /\ wpc[w] = "lock"
    /\ mtx_ = Nobody
    /\ mtx_' = w
    /\ wpc' = [wpc EXCEPT ![w] = "test"]
    /\ UNCHANGED <<tasks_, exit_, wtask, submitVars, opc, history>>

\* The predicate of cv_.wait.
Test(w) ==
    /\ wpc[w] = "test"
    /\ wpc' = [wpc EXCEPT ![w] = IF exit_ \/ tasks_ # <<>> THEN "take" ELSE "block"]
    /\ UNCHANGED <<tasks_, mtx_, exit_, wtask, submitVars, opc, history>>

\* The wait itself: from here on a notification reaches w.
Block(w) ==
    /\ wpc[w] = "block"
    /\ mtx_' = Nobody
    /\ wpc' = [wpc EXCEPT ![w] = "waiting"]
    /\ UNCHANGED <<tasks_, exit_, wtask, submitVars, opc, history>>

\* The standard lets a wait return without a notification.
SpuriousWakeup(w) ==
    /\ wpc[w] = "waiting"
    /\ wpc' = [wpc EXCEPT ![w] = "lock"]
    /\ UNCHANGED <<tasks_, mtx_, exit_, wtask, submitVars, opc, history>>

\* Mutant: the worker leaves as soon as the pool exits.
Leaves_OnExit == exit_

Leaves == exit_ /\ tasks_ = <<>>

\* Leave, or take the first task; mtx_ is released either way.
Take(w) ==
    /\ wpc[w] = "take"
    /\ mtx_' = Nobody
    /\ \/ /\ Leaves
          /\ wpc' = [wpc EXCEPT ![w] = "done"]
          /\ UNCHANGED <<tasks_, wtask, started>>
       \/ /\ ~Leaves
          /\ wpc' = [wpc EXCEPT ![w] = "run"]
          /\ wtask' = [wtask EXCEPT ![w] = Head(tasks_)]
          /\ started' = Append(started, Head(tasks_))
          /\ tasks_' = Tail(tasks_)
    /\ UNCHANGED <<exit_, submitVars, opc, accepted, finished, refused>>

\* Mutant: the worker runs next_task again.
RunTask_Again(w) ==
    /\ wpc[w] = "run"
    /\ finished' = finished \cup {wtask[w]}
    /\ wtask' = [wtask EXCEPT ![w] = Nobody]
    /\ UNCHANGED <<tasks_, mtx_, exit_, wpc, submitVars, opc, accepted, started, refused>>

\* next_task() returns.
RunTask(w) ==
    /\ wpc[w] = "run"
    /\ finished' = finished \cup {wtask[w]}
    /\ wtask' = [wtask EXCEPT ![w] = Nobody]
    /\ wpc' = [wpc EXCEPT ![w] = "lock"]
    /\ UNCHANGED <<tasks_, mtx_, exit_, submitVars, opc, accepted, started, refused>>
-----------------------------------------------------------------------------
(* SubmitTask. *)

\* The test of exit_, made without mtx_; it throws or goes on.
Submit(s, t) ==
    /\ spc[s] = "idle"
    /\ s = Owner => opc = "using"
    /\ opc \in {"using", "exiting"}
    /\ t \notin refused
    /\ \A i \in DOMAIN accepted : accepted[i] # t
    /\ \A r \in Submitter : stask[r] # t
    /\ IF exit_
       THEN refused' = refused \cup {t} /\ UNCHANGED submitVars
       ELSE /\ spc' = [spc EXCEPT ![s] = "enqueue"]
            /\ stask' = [stask EXCEPT ![s] = t]
            /\ UNCHANGED refused
    /\ UNCHANGED <<tasks_, mtx_, exit_, workerVars, opc, accepted, started, finished>>

\* Mutant: the newest task goes first.
Enqueue_Front(s) ==
    /\ spc[s] = "enqueue"
    /\ mtx_ = Nobody
    /\ tasks_' = <<stask[s]>> \o tasks_
    /\ accepted' = Append(accepted, stask[s])
    /\ stask' = [stask EXCEPT ![s] = Nobody]
    /\ spc' = [spc EXCEPT ![s] = "notify"]
    /\ UNCHANGED <<mtx_, exit_, workerVars, opc, started, finished, refused>>

Enqueue(s) ==
    /\ spc[s] = "enqueue"
    /\ mtx_ = Nobody
    /\ tasks_' = Append(tasks_, stask[s])
    /\ accepted' = Append(accepted, stask[s])
    /\ stask' = [stask EXCEPT ![s] = Nobody]
    /\ spc' = [spc EXCEPT ![s] = "notify"]
    /\ UNCHANGED <<mtx_, exit_, workerVars, opc, started, finished, refused>>

\* Mutant: nobody is notified.
NotifyOne_Forgotten(s) ==
    /\ spc[s] = "notify"
    /\ spc' = [spc EXCEPT ![s] = "idle"]
    /\ UNCHANGED <<tasks_, mtx_, exit_, workerVars, stask, opc, history>>

\* cv_.notify_one: one of the waiting workers, if any.
NotifyOne(s) ==
    /\ spc[s] = "notify"
    /\ \/ /\ \A w \in Worker : wpc[w] # "waiting"
          /\ UNCHANGED wpc
       \/ \E w \in Worker : wpc[w] = "waiting" /\ wpc' = [wpc EXCEPT ![w] = "lock"]
    /\ spc' = [spc EXCEPT ![s] = "idle"]
    /\ UNCHANGED <<tasks_, mtx_, exit_, wtask, stask, opc, history>>
-----------------------------------------------------------------------------
(* Exit and ~ThreadPool, which begins with a call of Exit. *)

NobodySubmits == \A s \in Submitter : spc[s] = "idle"

SetExit ==
    /\ opc = "using"
    /\ spc[Owner] = "idle"
    /\ \/ opc' = "exiting" /\ ~exit_ /\ (ExitWaits => NobodySubmits)
       \/ opc' = "destroying" /\ NobodySubmits
    /\ exit_' = TRUE
    /\ UNCHANGED <<tasks_, mtx_, workerVars, submitVars, history>>

NotifyAll ==
    /\ opc \in {"exiting", "destroying"}
    /\ wpc' = [w \in Worker |-> IF wpc[w] = "waiting" THEN "lock" ELSE wpc[w]]
    /\ opc' = IF opc = "exiting" THEN "using" ELSE "joining"
    /\ UNCHANGED <<tasks_, mtx_, exit_, wtask, submitVars, history>>

\* The last join returns.
Join ==
    /\ opc = "joining"
    /\ \A w \in Worker : wpc[w] = "done"
    /\ opc' = "gone"
    /\ UNCHANGED <<tasks_, mtx_, exit_, workerVars, submitVars, history>>
-----------------------------------------------------------------------------
WorkerStep(w) == Lock(w) \/ Test(w) \/ Block(w) \/ Take(w) \/ RunTask(w)

SubmitStep(s) == Enqueue(s) \/ NotifyOne(s)

Next ==
    \/ \E w \in Worker : WorkerStep(w) \/ SpuriousWakeup(w)
    \/ \E s \in Submitter : SubmitStep(s) \/ \E t \in Task : Submit(s, t)
    \/ SetExit
    \/ NotifyAll
    \/ Join

\* Every thread that can run is scheduled, and one that keeps asking for mtx_
\* gets it in the end.  Nobody has to submit or to exit, tasks return, and no
\* spurious wakeup is promised.
Fairness ==
    /\ \A w \in Worker : SF_vars(Lock(w)) /\ WF_vars(WorkerStep(w))
    /\ \A s \in Submitter : SF_vars(Enqueue(s)) /\ WF_vars(SubmitStep(s))
    /\ WF_vars(NotifyAll) /\ WF_vars(Join)

Spec == Init /\ [][Next]_vars /\ Fairness
-----------------------------------------------------------------------------
\* Tasks start in the order SubmitTask queued them; none is lost, taken twice
\* or overtaken, whichever workers and submitters meet at mtx_.
FirstInFirstOut == accepted = started \o tasks_

\* When the destructor has joined the workers every task is done: "here
\* thread_pool's dtor should finish all the tasks".
DoneWhenDestroyed ==
    opc = "gone" => \A i \in DOMAIN accepted : accepted[i] \in finished

\* A task that SubmitTask has queued is run to its end, if no Exit overtakes the
\* call: its notify_one comes after the task is in the queue, so a worker that
\* found the queue empty is woken or finds the task.
AcceptedIsRun ==
    \A t \in Task :
        (\E i \in DOMAIN accepted : accepted[i] = t) ~> t \in finished

\* The destructor returns.
DestructorReturns == opc = "destroying" ~> opc = "gone"

=============================================================================
