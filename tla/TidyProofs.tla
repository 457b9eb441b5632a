----------------------------- MODULE TidyProofs -----------------------------
(***************************************************************************)
(* When queue.join has returned, failed_files is exactly the list of the   *)
(* files that failed, and exit status 0 means there were none: for any     *)
(* database, any -j and any number of workers, dying ones included.        *)
(***************************************************************************)
EXTENDS Tidy, FiniteSetTheorems, SequenceTheorems, TLAPS

USE DEF get_tidy_invocation, should_skip

\* f is an entry main has put into the queue.
Known(f) == \E k \in 1 .. i : Entries[k] = f

\* f waits in the queue, or is with a worker that has not reported on it.
Queued(f) == \E k \in DOMAIN queue : queue[k] = f
Held(f) == \E w \in Worker : wpc[w] \in {"taken", "got", "run", "dead"} /\ name[w] = f

ToReport == input.failing \ input.skipped

\* Every unfinished task is a file in the queue or a file some worker has taken.
Counted == unfinished = Len(queue) + Cardinality(Busy)

\* Files come from the database, and only those that failed are listed.
Origins ==
    /\ \A f \in File : Queued(f) => Known(f)
    /\ \A w \in Busy : name[w] \in File /\ Known(name[w])
    /\ \A w \in Worker : wpc[w] = "run" => name[w] \notin input.skipped
    /\ \A f \in File : Listed(f) => Known(f) /\ f \in ToReport

\* A file that will be reported is on its way or listed.
Accounted == \A f \in ToReport : Known(f) => Queued(f) \/ Held(f) \/ Listed(f)

\* What main knows after the queue is filled, and after join.
MainKnows ==
    /\ mpc \in {"join", "export", "fix", "cleanup"} => i = Len(Entries)
    /\ Joined => unfinished = 0 /\ (return_code = 0 => failed_files = <<>>)

Inv == TypeOK /\ Counted /\ Origins /\ Accounted /\ MainKnows /\ ZeroMeansClean
-----------------------------------------------------------------------------
\* There are finitely many workers, so those that are busy can be counted.
LEMMA FiniteWorkers == max_task \in Int /\ IsFiniteSet(Worker)
BY TidyAssumption, FS_Interval DEF max_task, Worker

\* The busy workers are a finite set.
LEMMA FiniteBusy == IsFiniteSet(Busy) /\ Cardinality(Busy) \in Nat
<1>1. Busy \subseteq Worker
  BY DEF Busy
<1>2. QED
  BY <1>1, FiniteWorkers, FS_Subset, FS_CardinalityType

\* When no task is unfinished the queue is empty and no worker is busy.
LEMMA NothingLeft ==
    ASSUME TypeOK, Counted, unfinished = 0
    PROVE  queue = <<>> /\ Busy = {}
<1>1. Len(queue) \in Nat /\ Cardinality(Busy) \in Nat
  BY FiniteBusy, LenProperties DEF TypeOK
<1>2. Len(queue) = 0 /\ Cardinality(Busy) = 0
  BY <1>1, SMT DEF Counted
<1>3. QED
  BY <1>2, FiniteBusy, FS_EmptySet, EmptySeq DEF TypeOK

\* What the invariant says once join has returned.
LEMMA AfterJoin ==
    ASSUME Inv, Joined
    PROVE  JoinMeansChecked
<1>1. queue = <<>> /\ Busy = {}
  BY NothingLeft DEF Inv, MainKnows
<1>2. i = Len(Entries) /\ DOMAIN Entries = 1 .. Len(Entries)
  BY TidyAssumption, LenProperties DEF Inv, MainKnows, Joined
<1>3. \A f : ~Queued(f) /\ ~Held(f)
  BY <1>1, EmptySeq DEF Queued, Held, Busy
<1>4. ASSUME NEW f \in File
      PROVE  Listed(f) <=> Known(f) /\ f \in ToReport
  BY <1>3 DEF Inv, Origins, Accounted
<1>5. QED
  BY <1>1, <1>2, <1>4 DEF JoinMeansChecked, Known, ToReport

\* Before anything has been queued the invariant holds.
LEMMA InitInv == Init => Inv
<1> SUFFICES ASSUME Init PROVE Inv
  OBVIOUS
<1>1. TypeOK
  <2>1. Len(Entries) \in Nat
    BY TidyAssumption, LenProperties
  <2>2. queue \in Seq(File) /\ failed_files \in Seq(File)
    BY EmptySeq DEF Init
  <2>3. mpc \in {"find", "probe"} /\ input \in Input
    BY DEF Init
  <2>4. /\ i \in 0 .. Len(Entries) /\ unfinished \in Nat /\ return_code \in {0, 1}
        /\ lock \in Worker \cup {Nobody}
    BY <2>1 DEF Init
  <2>5. wpc \in [Worker -> {"get"}] /\ name \in [Worker -> {Nobody}]
    BY DEF Init
  <2>6. tmpdir \in {"none"} /\ replacements \in BOOLEAN
    BY DEF Init
  <2>7. QED
    BY <2>2, <2>3, <2>4, <2>5, <2>6 DEF TypeOK
<1>2. Busy = {} /\ Len(queue) = 0
  BY EmptySeq DEF Init, Busy
<1>3. Counted
  BY <1>2, FS_EmptySet DEF Init, Counted
<1>4. \A f : ~Queued(f) /\ ~Listed(f) /\ ~Known(f)
  BY EmptySeq DEF Init, Queued, Listed, Known
<1>5. Origins /\ Accounted
  BY <1>2, <1>4 DEF Init, Origins, Accounted
<1>6. MainKnows /\ ZeroMeansClean
  BY DEF Init, MainKnows, Joined, ZeroMeansClean
<1>7. QED
  BY <1>1, <1>3, <1>5, <1>6 DEF Inv

\* A step of main that leaves the queue and the workers alone keeps what is known
\* about them.
LEMMA QuietMain ==
    ASSUME Inv, UNCHANGED <<input, i, queue, unfinished, workerVars, failed_files>>
    PROVE  Counted' /\ Origins' /\ Accounted'
BY DEF Inv, Counted, Origins, Accounted, Busy, Known, Queued, Held, Listed, ToReport, workerVars

\* The steps before the threads start.
LEMMA SetupInv ==
    ASSUME Inv,
           find_compilation_database \/ ListChecks \/ LoadDatabase \/ MakeTmpdir \/ CompileRegex
    PROVE  Inv'
<1> USE DEF Inv, find_compilation_database, ListChecks, LoadDatabase, MakeTmpdir, CompileRegex,
            SetupStep, ExitWith
<1>1. TypeOK'
  BY DEF TypeOK, workerVars, tmpVars
<1>2. MainKnows' /\ ZeroMeansClean'
  BY DEF MainKnows, Joined, ZeroMeansClean
<1>3. Counted' /\ Origins' /\ Accounted'
  BY QuietMain
<1>4. QED
  BY <1>1, <1>2, <1>3

\* Main waits, joins, handles the fixes, exits or is interrupted.
LEMMA MainInv ==
    ASSUME Inv, BeginJoin \/ Join \/ ExportFixes \/ ApplyFixes \/ Cleanup \/ KeyboardInterrupt
    PROVE  Inv'
<1>1. Counted' /\ Origins' /\ Accounted'
  BY QuietMain DEF BeginJoin, Join, ExportFixes, ApplyFixes, Cleanup, KeyboardInterrupt
<1>2. TypeOK'
  BY DEF Inv, TypeOK, BeginJoin, Join, ExportFixes, ApplyFixes, Cleanup, KeyboardInterrupt,
         RemoveTmpdir, RmtreeFails, ExitWith, workerVars, tmpVars
<1>3. MainKnows'
  BY DEF Inv, TypeOK, MainKnows, Joined, BeginJoin, Join, JoinReturns, ExportFixes, ApplyFixes,
         Cleanup, KeyboardInterrupt, RmtreeFails, ExitWith
<1>4. ZeroMeansClean'
  <2>1. CASE Cleanup
    <3>1. SUFFICES ASSUME return_code = 0
                   PROVE  \A k \in DOMAIN Entries : Entries[k] \notin ToReport
      BY <2>1 DEF Cleanup, RmtreeFails, ExitWith, ZeroMeansClean, ToReport
    <3>2. Joined
      BY <2>1 DEF Cleanup, Joined
    <3>3. \A f : ~Listed(f)
      BY <3>1, <3>2, EmptySeq DEF Inv, MainKnows, Listed
    <3>4. \A k \in DOMAIN Entries : Entries[k] \in File
      BY TidyAssumption, ElementOfSeq, LenProperties
    <3>5. QED
      BY <3>2, <3>3, <3>4, AfterJoin DEF JoinMeansChecked, ToReport
  <2>2. CASE ~Cleanup
    BY <2>2 DEF Inv, ZeroMeansClean, BeginJoin, Join, ExportFixes, ApplyFixes, KeyboardInterrupt,
                RmtreeFails, ExitWith
  <2>3. QED
    BY <2>1, <2>2
<1>5. QED
  BY <1>1, <1>2, <1>3, <1>4 DEF Inv

\* Main puts the next entry into the queue.
LEMMA PutInv ==
    ASSUME Inv, PutFile
    PROVE  Inv'
<1> USE DEF Inv
<1>1. Len(Entries) \in Nat /\ Len(queue) \in Nat /\ i + 1 \in 1 .. Len(Entries) /\ Current \in File
  BY TidyAssumption, LenProperties, ElementOfSeq DEF TypeOK, PutFile, Current
<1>2. /\ queue' \in Seq(File) /\ Len(queue') = Len(queue) + 1
      /\ \A f : Queued(f)' <=> Queued(f) \/ f = Current
  <2>1. /\ queue' \in Seq(File) /\ Len(queue') = Len(queue) + 1
        /\ \A k \in 1 .. Len(queue) : queue'[k] = queue[k]
        /\ queue'[Len(queue) + 1] = Current
    BY <1>1, AppendProperties DEF PutFile, TypeOK
  <2>2. DOMAIN queue = 1 .. Len(queue) /\ DOMAIN queue' = 1 .. Len(queue) + 1
    BY <2>1, LenProperties DEF TypeOK
  <2>3. QED
    BY <1>1, <2>1, <2>2 DEF Queued
<1>3. \A f : Known(f)' <=> Known(f) \/ f = Current
  BY <1>1 DEF PutFile, Known, Current, TypeOK
<1>4. TypeOK'
  BY <1>1, <1>2 DEF TypeOK, PutFile, workerVars, tmpVars
<1>5. Counted'
  <2>1. Busy' = Busy
    BY DEF Busy, PutFile, workerVars
  <2>2. QED
    BY <1>1, <1>2, <2>1, FiniteBusy DEF Counted, PutFile
<1>6. /\ \A f : (Held(f)' <=> Held(f)) /\ (Listed(f)' <=> Listed(f))
      /\ Busy' = Busy /\ ToReport' = ToReport
  BY DEF Held, Listed, Busy, ToReport, PutFile, workerVars
<1>7. Origins'
  BY <1>2, <1>3, <1>6 DEF Origins, PutFile, workerVars
<1>8. Accounted'
  BY <1>2, <1>3, <1>6 DEF Accounted
<1>9. MainKnows' /\ ZeroMeansClean'
  BY DEF MainKnows, Joined, ZeroMeansClean, PutFile
<1>10. QED
  BY <1>4, <1>5, <1>7, <1>8, <1>9

\* A worker takes the front of the queue: still unfinished, now in its hands.
LEMMA GetInv ==
    ASSUME Inv, NEW w \in Worker, Get(w)
    PROVE  Inv'
<1> USE DEF Inv
<1>1. /\ Head(queue) \in File /\ queue' \in Seq(File)
      /\ Len(queue) \in Nat \ {0} /\ Len(queue') = Len(queue) - 1
      /\ \A f : Queued(f) <=> Queued(f)' \/ f = Head(queue)
  <2>1. /\ Head(queue) \in File /\ queue' \in Seq(File) /\ Len(queue) \in Nat \ {0}
        /\ Len(queue') = Len(queue) - 1 /\ Head(queue) = queue[1]
        /\ \A k \in 1 .. Len(queue) - 1 : queue'[k] = queue[k + 1]
    BY HeadTailProperties, LenProperties, EmptySeq DEF TypeOK, Get
  <2>2. DOMAIN queue = 1 .. Len(queue) /\ DOMAIN queue' = 1 .. Len(queue) - 1
    BY <2>1, LenProperties DEF TypeOK
  <2>3. ASSUME NEW f, NEW k \in DOMAIN queue, queue[k] = f, k # 1
        PROVE  Queued(f)'
    <3>1. k - 1 \in DOMAIN queue' /\ queue'[k - 1] = f
      BY <2>1, <2>2, <2>3
    <3>2. QED
      BY <3>1 DEF Queued
  <2>4. ASSUME NEW f, Queued(f)'
        PROVE  Queued(f)
    BY <2>1, <2>2, <2>4 DEF Queued
  <2>5. Queued(Head(queue))
    BY <2>1, <2>2 DEF Queued
  <2>6. QED
    BY <2>1, <2>3, <2>4, <2>5 DEF Queued
<1>2. /\ wpc' = [wpc EXCEPT ![w] = "taken"] /\ name' = [name EXCEPT ![w] = Head(queue)]
      /\ wpc[w] = "get" /\ w \in DOMAIN wpc /\ w \in DOMAIN name
  BY DEF Get, At, TypeOK
<1>3. TypeOK'
  BY <1>1, <1>2 DEF TypeOK, Get, tmpVars
<1>4. Counted'
  <2>1. Busy' = Busy \cup {w} /\ w \notin Busy
    BY <1>2 DEF Busy, TypeOK
  <2>2. Cardinality(Busy') = Cardinality(Busy) + 1
    BY <2>1, FiniteBusy, FS_AddElement
  <2>3. QED
    BY <1>1, <2>2, FiniteBusy DEF Counted, Get
<1>5. /\ \A f : (Known(f)' <=> Known(f)) /\ (Listed(f)' <=> Listed(f))
      /\ ToReport' = ToReport /\ input' = input
  BY DEF Known, Listed, ToReport, Get
<1>6. \A f : Held(f)' <=> Held(f) \/ f = Head(queue)
  BY <1>2 DEF Held, TypeOK
<1>7. Origins'
  <2>1. (\A v \in Busy : name[v] \in File /\ Known(name[v]))'
    <3>1. Known(Head(queue))
      BY <1>1 DEF Origins
    <3>2. ASSUME NEW v \in Busy'
          PROVE  v = w \/ (v \in Busy /\ name'[v] = name[v])
      BY <1>2 DEF Busy, TypeOK
    <3>3. name'[w] = Head(queue)
      BY <1>2
    <3>4. QED
      BY <1>1, <1>5, <3>1, <3>2, <3>3 DEF Origins
  <2>2. \A v \in Worker : wpc'[v] = "run" => name'[v] \notin input'.skipped
    BY <1>2, <1>5 DEF Origins, TypeOK
  <2>3. QED
    BY <1>1, <1>5, <2>1, <2>2 DEF Origins
<1>8. Accounted'
  BY <1>1, <1>5, <1>6 DEF Accounted
<1>9. MainKnows' /\ ZeroMeansClean'
  BY DEF MainKnows, Joined, ZeroMeansClean, Get
<1>10. QED
  BY <1>3, <1>4, <1>7, <1>8, <1>9

\* A worker is done with its file: skipped, or reported on.
LEMMA DoneInv ==
    ASSUME Inv, NEW w \in Worker, Skip(w) \/ TaskDone(w)
    PROVE  Inv'
<1> USE DEF Inv
<1>1. /\ wpc' = [wpc EXCEPT ![w] = "get"] /\ name' = [name EXCEPT ![w] = Nobody]
      /\ w \in DOMAIN wpc /\ w \in DOMAIN name /\ unfinished' = unfinished - 1
      /\ wpc[w] = "done" \/ (wpc[w] = "got" /\ name[w] \in input.skipped)
      /\ UNCHANGED <<input, mpc, i, queue, lock, failed_files, tmpdir, replacements, return_code>>
  BY DEF Skip, TaskDone, At, TypeOK, tmpVars
<1>2. Cardinality(Busy') = Cardinality(Busy) - 1 /\ Cardinality(Busy) \in Nat \ {0}
  <2>1. Busy' = Busy \ {w} /\ w \in Busy
    BY <1>1 DEF Busy, TypeOK
  <2>2. QED
    BY <2>1, FiniteBusy, FS_RemoveElement, FS_EmptySet
<1>3. Len(queue) \in Nat
  BY LenProperties DEF TypeOK
<1>4. Counted' /\ unfinished \in Nat \ {0}
  BY <1>1, <1>2, <1>3 DEF Counted
<1>5. TypeOK'
  BY <1>1, <1>4 DEF TypeOK
<1>6. /\ \A f : (Known(f)' <=> Known(f)) /\ (Listed(f)' <=> Listed(f)) /\ (Queued(f)' <=> Queued(f))
      /\ ToReport' = ToReport
  BY <1>1 DEF Known, Listed, Queued, ToReport
<1>7. \A f \in ToReport : Held(f) => Held(f)'
  BY <1>1 DEF Held, ToReport, TypeOK
<1>8. Origins'
  BY <1>1, <1>6 DEF Origins, Busy, TypeOK
<1>9. Accounted'
  BY <1>6, <1>7 DEF Accounted
<1>10. MainKnows' /\ ZeroMeansClean'
  BY <1>1, <1>4 DEF MainKnows, Joined, ZeroMeansClean
<1>11. QED
  BY <1>4, <1>5, <1>8, <1>9, <1>10

\* Steps of a worker that keep its file and change no list.
LEMMA QuietWorker ==
    ASSUME Inv, NEW w \in Worker, Invoke(w) \/ Launch(w) \/ Acquire(w) \/ Output(w) \/ Die(w)
    PROVE  Inv'
<1> USE DEF Inv
<1>1. /\ w \in DOMAIN wpc /\ wpc[w] # "get"
      /\ \E pc \in {"got", "run", "print", "done", "dead"} :
            /\ wpc' = [wpc EXCEPT ![w] = pc]
            /\ pc = "run" => wpc[w] = "got" /\ name[w] \notin input.skipped
            /\ wpc[w] \in {"taken", "got", "run"} => pc \in {"got", "run", "dead"}
      /\ UNCHANGED <<input, mpc, i, queue, unfinished, name, failed_files, tmpdir, return_code>>
  BY DEF Invoke, Launch, Acquire, Output, Die, At, TypeOK, tmpVars
<1>2. TypeOK'
  <2>1. lock' \in Worker \cup {Nobody} /\ replacements' \in BOOLEAN
    BY DEF Invoke, Launch, Acquire, Output, Die, TypeOK, tmpVars
  <2>2. QED
    BY <1>1, <2>1 DEF TypeOK
<1>3. Busy' = Busy
  BY <1>1 DEF Busy, TypeOK
<1>4. Counted'
  BY <1>1, <1>3 DEF Counted
<1>5. /\ \A f : (Known(f)' <=> Known(f)) /\ (Listed(f)' <=> Listed(f)) /\ (Queued(f)' <=> Queued(f))
      /\ ToReport' = ToReport
  BY <1>1 DEF Known, Listed, Queued, ToReport
<1>6. ASSUME NEW f, Held(f) PROVE Held(f)'
  <2>1. PICK v \in Worker : wpc[v] \in {"taken", "got", "run", "dead"} /\ name[v] = f
    BY <1>6 DEF Held
  <2>2. wpc[w] = "dead" => wpc'[w] = "dead"
    BY DEF Invoke, Launch, Acquire, Output, Die, At
  <2>3. wpc'[v] \in {"taken", "got", "run", "dead"} /\ name'[v] = f
    BY <1>1, <2>1, <2>2 DEF TypeOK
  <2>4. QED
    BY <2>3 DEF Held
<1>7. Origins'
  <2>1. \A v \in Worker : wpc'[v] = "run" => name'[v] \notin input'.skipped
    BY <1>1 DEF Origins, TypeOK
  <2>2. QED
    BY <1>1, <1>3, <1>5, <2>1 DEF Origins
<1>8. Accounted'
  BY <1>5, <1>6 DEF Accounted
<1>9. MainKnows' /\ ZeroMeansClean'
  BY <1>1 DEF MainKnows, Joined, ZeroMeansClean
<1>10. QED
  BY <1>2, <1>4, <1>7, <1>8, <1>9

\* clang-tidy has returned: the file is listed if it failed.
LEMMA FinishInv ==
    ASSUME Inv, NEW w \in Worker, Finish(w)
    PROVE  Inv'
<1> USE DEF Inv
<1>1. /\ wpc' = [wpc EXCEPT ![w] = "acquire"] /\ wpc[w] = "run" /\ w \in DOMAIN wpc
      /\ UNCHANGED <<input, mpc, i, queue, unfinished, lock, name, tmpdir, replacements, return_code>>
  BY DEF Finish, At, TypeOK, tmpVars
<1>2. w \in Busy /\ Busy' = Busy
  BY <1>1 DEF Busy, TypeOK
<1>3. name[w] \in File /\ Known(name[w]) /\ name[w] \notin input.skipped
  BY <1>1, <1>2 DEF Origins
<1>4. /\ failed_files' \in Seq(File)
      /\ \A f : Listed(f)' <=> Listed(f) \/ (f = name[w] /\ f \in input.failing)
  <2>1. CASE name[w] \in input.failing
    <3>1. /\ failed_files' \in Seq(File) /\ Len(failed_files') = Len(failed_files) + 1
          /\ \A k \in 1 .. Len(failed_files) : failed_files'[k] = failed_files[k]
          /\ failed_files'[Len(failed_files) + 1] = name[w]
          /\ Len(failed_files) \in Nat
      BY <1>3, <2>1, AppendProperties, LenProperties DEF Finish, TypeOK
    <3>2. /\ DOMAIN failed_files = 1 .. Len(failed_files)
          /\ DOMAIN failed_files' = 1 .. Len(failed_files) + 1
      BY <3>1, LenProperties DEF TypeOK
    <3>3. QED
      BY <2>1, <3>1, <3>2 DEF Listed
  <2>2. CASE name[w] \notin input.failing
    BY <2>2 DEF Finish, Listed, TypeOK
  <2>3. QED
    BY <2>1, <2>2
<1>5. TypeOK'
  BY <1>1, <1>4 DEF TypeOK
<1>6. Counted'
  BY <1>1, <1>2 DEF Counted
<1>7. /\ \A f : (Known(f)' <=> Known(f)) /\ (Queued(f)' <=> Queued(f))
      /\ ToReport' = ToReport
  BY <1>1 DEF Known, Queued, ToReport
<1>8. \A f : Held(f) => Held(f)' \/ f = name[w]
  BY <1>1 DEF Held, TypeOK
<1>9. Origins'
  <2>1. \A v \in Worker : wpc'[v] = "run" => name'[v] \notin input'.skipped
    BY <1>1 DEF Origins, TypeOK
  <2>2. \A f \in File : Listed(f)' => Known(f)' /\ f \in ToReport'
    BY <1>3, <1>4, <1>7 DEF Origins, ToReport
  <2>3. QED
    BY <1>1, <1>2, <1>7, <2>1, <2>2 DEF Origins
<1>10. Accounted'
  BY <1>4, <1>7, <1>8 DEF Accounted, ToReport
<1>11. MainKnows' /\ ZeroMeansClean'
  <2>1. ~Joined
    <3>1. SUFFICES ASSUME Joined PROVE FALSE
      OBVIOUS
    <3>2. Busy = {}
      BY <3>1, NothingLeft DEF MainKnows
    <3>3. QED
      BY <1>2, <3>2
  <2>2. QED
    BY <1>1, <2>1 DEF MainKnows, Joined, ZeroMeansClean
<1>12. QED
  BY <1>5, <1>6, <1>9, <1>10, <1>11

\* Every step of the script preserves the invariant.
LEMMA NextInv == Inv /\ [Next]_vars => Inv'
<1> SUFFICES ASSUME Inv, [Next]_vars PROVE Inv'
  OBVIOUS
<1>1. CASE MainStep
  BY <1>1, SetupInv, MainInv, PutInv DEF MainStep
<1>2. CASE KeyboardInterrupt
  BY <1>2, MainInv
<1>3. ASSUME NEW w \in Worker, WorkerStep(w) \/ Die(w)
      PROVE  Inv'
  BY <1>3, GetInv, DoneInv, QuietWorker, FinishInv DEF WorkerStep
<1>4. CASE UNCHANGED vars
  <2>1. Counted' /\ Origins' /\ Accounted'
    BY <1>4, QuietMain DEF vars
  <2>2. TypeOK' /\ MainKnows' /\ ZeroMeansClean'
    BY <1>4 DEF Inv, TypeOK, MainKnows, Joined, ZeroMeansClean, vars, workerVars, tmpVars
  <2>3. QED
    BY <2>1, <2>2 DEF Inv
<1>5. QED
  BY <1>1, <1>2, <1>3, <1>4 DEF Next, SpinOnUnmatched

\* The invariant holds in every state of the script.
LEMMA Invariance == Spec => []Inv
BY InitInv, NextInv, PTL DEF Spec

\* The types of run_clang_tidy.py's state: among others unfinished_tasks, which
\* task_done would raise ValueError for, never falls below zero.
THEOREM TypeCorrect == Spec => []TypeOK
BY Invariance, PTL DEF Inv

\* When task_queue.join() has returned, failed_files holds exactly the files of the
\* database that were checked and failed, and no worker is still busy.
THEOREM JoinIsComplete == Spec => []JoinMeansChecked
<1>1. Inv => JoinMeansChecked
  <2>1. CASE Joined
    BY <2>1, AfterJoin
  <2>2. CASE ~Joined
    BY <2>2 DEF JoinMeansChecked
  <2>3. QED
    BY <2>1, <2>2
<1>2. QED
  BY <1>1, Invariance, PTL

\* Exit status 0 of the script means that no file that was to be checked failed.
THEOREM ZeroIsClean == Spec => []ZeroMeansClean
BY Invariance, PTL DEF Inv
=============================================================================
