-------------------------------- MODULE Tidy --------------------------------
(***************************************************************************)
(* build_support/run_clang_tidy.py, what "make tidy" runs: the main thread *)
(* puts the files of the compilation database into a bounded queue, daemon *)
(* threads take them and run clang-tidy, and main waits in queue.join, the *)
(* count of unfinished tasks, before it reports and cleans up.             *)
(*                                                                         *)
(* A file is a name; what the run depends on is chosen once, in "input":   *)
(* which names the regular expressions match, which CheckConfig skips, on  *)
(* which clang-tidy returns non-zero, and the options about fixes.         *)
(***************************************************************************)
EXTENDS Integers, Sequences

CONSTANTS
    File,      \* absolute names of source files
    Entries,   \* the "file" entries of compile_commands.json, after make_absolute
    J,         \* the -j option
    CpuCount,  \* multiprocessing.cpu_count()
    Nobody     \* no thread, no file

max_task == IF J = 0 THEN CpuCount ELSE J

Worker == 1 .. max_task

ASSUME TidyAssumption ==
    /\ Entries \in Seq(File)
    /\ J \in Int
    /\ CpuCount \in Nat \ {0}
    /\ Nobody \notin File \cup Int

Input == [matched : SUBSET File, skipped : SUBSET File, failing : SUBSET File,
          export_fixes : BOOLEAN, fix : BOOLEAN, build_path : BOOLEAN]

VARIABLES
    input,
    mpc,           \* where main is
    i,             \* how many entries main has dealt with
    queue,         \* task_queue
    unfinished,    \* task_queue.unfinished_tasks
    lock,          \* the worker that holds lock, or Nobody
    wpc,           \* Worker -> where it is in run_tidy
    name,          \* Worker -> the file it works on
    failed_files,
    tmpdir,        \* the directory for replacement files: none, made, removed
    replacements,  \* some *.yaml file is in tmpdir
    return_code

workerVars == <<wpc, name>>
tmpVars == <<tmpdir, replacements>>
vars == <<input, mpc, i, queue, unfinished, lock, workerVars, failed_files, tmpVars, return_code>>

TypeOK ==
    /\ input \in Input
    /\ mpc \in {"find", "probe", "load", "tmpdir", "regex", "fill", "join", "export", "fix", "cleanup",
                "exited", "killed"}
    /\ i \in 0 .. Len(Entries)
    /\ queue \in Seq(File)
    /\ unfinished \in Nat
    /\ lock \in Worker \cup {Nobody}
    /\ wpc \in [Worker -> {"get", "taken", "got", "run", "acquire", "print", "done", "dead"}]
    /\ name \in [Worker -> File \cup {Nobody}]
    /\ failed_files \in Seq(File)
    /\ tmpdir \in {"none", "made", "removed"}
    /\ replacements \in BOOLEAN
    /\ return_code \in {0, 1}

Init ==
    /\ input \in Input
    /\ mpc = IF input.build_path THEN "probe" ELSE "find"
    /\ i = 0
    /\ queue = <<>>
    /\ unfinished = 0
    /\ lock = Nobody
    /\ wpc = [w \in Worker |-> "get"]
    /\ name = [w \in Worker |-> Nobody]
    /\ failed_files = <<>>
    /\ tmpdir = "none"
    /\ replacements = FALSE
    /\ return_code = 0
-----------------------------------------------------------------------------
(* main, up to the threads. *)

ExitWith(code) == mpc' = "exited" /\ return_code' = code

\* One of the steps before the threads start: it succeeds, or the script exits
\* with 1 (sys.exit or an exception nobody catches).
SetupStep(from, to) ==
    /\ mpc = from
    /\ \/ mpc' = to /\ UNCHANGED return_code
       \/ ExitWith(1)
    /\ UNCHANGED <<input, i, queue, unfinished, lock, workerVars, failed_files, tmpVars>>

\* Climb from "./" until the database is found, or give up at "/".
find_compilation_database == SetupStep("find", "probe")

\* clang-tidy -list-checks must run.
ListChecks == SetupStep("probe", "load")

LoadDatabase == SetupStep("load", "tmpdir")

WantsFixes == input.fix \/ input.export_fixes

\* With -fix or -export-fixes: clang-apply-replacements must run, then mkdtemp.
MakeTmpdir ==
    /\ mpc = "tmpdir"
    /\ \/ mpc' = "regex" /\ tmpdir' = (IF WantsFixes THEN "made" ELSE tmpdir) /\ UNCHANGED return_code
       \/ WantsFixes /\ ExitWith(1) /\ UNCHANGED tmpdir
    /\ UNCHANGED <<input, i, queue, unfinished, lock, workerVars, failed_files, replacements>>

\* A pattern that is no regular expression ends the script, tmpdir or not.
CompileRegex == SetupStep("regex", "fill")
-----------------------------------------------------------------------------
(* main, with the threads running. *)

\* The workers that have taken a file for which they have not called task_done.
Busy == {w \in Worker : wpc[w] # "get"}

Current == Entries[i + 1]

\* queue.Queue(maxsize) is unbounded when maxsize is not positive.
HasRoom == max_task <= 0 \/ Len(queue) < max_task

\* put.  While there is no room it blocks, and after each timeout the loop calls it
\* again, which changes nothing.
PutFile ==
    /\ mpc = "fill" /\ i < Len(Entries)
    /\ Current \in input.matched
    /\ HasRoom
    /\ queue' = Append(queue, Current)
    /\ unfinished' = unfinished + 1
    /\ i' = i + 1
    /\ UNCHANGED <<input, mpc, lock, workerVars, failed_files, tmpVars, return_code>>

\* A name that does not match: put_file stays False and the loop runs again.
SpinOnUnmatched ==
    /\ mpc = "fill" /\ i < Len(Entries)
    /\ Current \notin input.matched
    /\ UNCHANGED vars

BeginJoin ==
    /\ mpc = "fill" /\ i = Len(Entries)
    /\ mpc' = "join"
    /\ UNCHANGED <<input, i, queue, unfinished, lock, workerVars, failed_files, tmpVars, return_code>>

\* Mutant: main waits for the queue to drain instead of for its tasks.
JoinReturns_WhenEmpty == queue = <<>>

JoinReturns == unfinished = 0

\* join returns; the files that failed decide the return code.
Join ==
    /\ mpc = "join"
    /\ JoinReturns
    /\ return_code' = IF failed_files # <<>> THEN 1 ELSE 0
    /\ mpc' = "export"
    /\ UNCHANGED <<input, i, queue, unfinished, lock, workerVars, failed_files, tmpVars>>

\* tmpdir, if there is one, is removed; or rmtree fails, as it may when a worker makes a
\* file there meanwhile, and its exception ends the script.
RemoveTmpdir == tmpdir' = IF tmpdir = "made" THEN "removed" ELSE tmpdir
RmtreeFails == tmpdir = "made" /\ ExitWith(1) /\ UNCHANGED tmpdir

\* Ctrl-C while main fills the queue or waits: remove tmpdir, kill the whole process
\* group.
KeyboardInterrupt ==
    /\ mpc \in {"fill", "join"}
    /\ \/ RemoveTmpdir /\ mpc' = "killed" /\ UNCHANGED return_code
       \/ RmtreeFails
    /\ UNCHANGED <<input, i, queue, unfinished, lock, workerVars, failed_files, replacements>>
-----------------------------------------------------------------------------
(* main, after the threads. *)

\* With a replacement file it calls yaml, which the script does not import, so it always
\* fails; without one it may still fail to write mergefile.
merge_replacement_files == ~replacements

ExportFixes ==
    /\ mpc = "export"
    /\ \/ ~input.export_fixes /\ UNCHANGED return_code
       \/ input.export_fixes /\ merge_replacement_files /\ UNCHANGED return_code
       \/ input.export_fixes /\ return_code' = 1
    /\ mpc' = "fix"
    /\ UNCHANGED <<input, i, queue, unfinished, lock, workerVars, failed_files, tmpVars>>

\* Mutant: the return code becomes that of applying the fixes.
ApplyFixes_Overwrites ==
    /\ mpc = "fix"
    /\ return_code' \in IF input.fix THEN {0, 1} ELSE {return_code}
    /\ mpc' = "cleanup"
    /\ UNCHANGED <<input, i, queue, unfinished, lock, workerVars, failed_files, tmpVars>>

\* apply_fixes: what the tool returns is not looked at; only a failure to start it is.
ApplyFixes ==
    /\ mpc = "fix"
    /\ \/ UNCHANGED return_code
       \/ input.fix /\ return_code' = 1
    /\ mpc' = "cleanup"
    /\ UNCHANGED <<input, i, queue, unfinished, lock, workerVars, failed_files, tmpVars>>

Cleanup ==
    /\ mpc = "cleanup"
    /\ \/ RemoveTmpdir /\ ExitWith(return_code)
       \/ RmtreeFails
    /\ UNCHANGED <<input, i, queue, unfinished, lock, workerVars, failed_files, replacements>>
-----------------------------------------------------------------------------
(* run_tidy.  The threads are daemons: they run until the process ends. *)

Running == mpc \in {"fill", "join", "export", "fix", "cleanup"}

At(w, pc) == Running /\ wpc[w] = pc

\* The command line; with tmpdir it makes a replacement file there.
get_tidy_invocation == replacements' = (replacements \/ tmpdir = "made")

\* CheckConfig: a path that matches one of its patterns.
should_skip(f) == f \in input.skipped

\* queue.get.
Get(w) ==
    /\ At(w, "get")
    /\ queue # <<>>
    /\ name' = [name EXCEPT ![w] = Head(queue)]
    /\ queue' = Tail(queue)
    /\ wpc' = [wpc EXCEPT ![w] = "taken"]
    /\ UNCHANGED <<input, mpc, i, unfinished, lock, failed_files, tmpVars, return_code>>

\* The progress line is printed and the command line for the file made.
Invoke(w) ==
    /\ At(w, "taken")
    /\ get_tidy_invocation
    /\ wpc' = [wpc EXCEPT ![w] = "got"]
    /\ UNCHANGED <<input, mpc, i, queue, unfinished, lock, name, failed_files, tmpdir, return_code>>

\* Mutant: a skipped file is not marked as done.
Skip_NotDone(w) ==
    /\ At(w, "got")
    /\ should_skip(name[w])
    /\ wpc' = [wpc EXCEPT ![w] = "get"]
    /\ name' = [name EXCEPT ![w] = Nobody]
    /\ UNCHANGED <<input, mpc, i, queue, unfinished, lock, failed_files, tmpVars, return_code>>

\* task_done, and on to the next file.
Skip(w) ==
    /\ At(w, "got")
    /\ should_skip(name[w])
    /\ unfinished' = unfinished - 1
    /\ wpc' = [wpc EXCEPT ![w] = "get"]
    /\ name' = [name EXCEPT ![w] = Nobody]
    /\ UNCHANGED <<input, mpc, i, queue, lock, failed_files, tmpVars, return_code>>

Launch(w) ==
    /\ At(w, "got")
    /\ ~should_skip(name[w])
    /\ wpc' = [wpc EXCEPT ![w] = "run"]
    /\ UNCHANGED <<input, mpc, i, queue, unfinished, lock, name, failed_files, tmpVars, return_code>>

\* communicate returns.
Finish(w) ==
    /\ At(w, "run")
    /\ failed_files' = IF name[w] \in input.failing THEN Append(failed_files, name[w])
                                                     ELSE failed_files
    /\ wpc' = [wpc EXCEPT ![w] = "acquire"]
    /\ UNCHANGED <<input, mpc, i, queue, unfinished, lock, name, tmpVars, return_code>>

Acquire(w) ==
    /\ At(w, "acquire")
    /\ lock = Nobody
    /\ lock' = w
    /\ wpc' = [wpc EXCEPT ![w] = "print"]
    /\ UNCHANGED <<input, mpc, i, queue, unfinished, name, failed_files, tmpVars, return_code>>

\* The output is decoded and printed; "with lock" releases it.
Output(w) ==
    /\ At(w, "print")
    /\ lock' = Nobody
    /\ wpc' = [wpc EXCEPT ![w] = "done"]
    /\ UNCHANGED <<input, mpc, i, queue, unfinished, name, failed_files, tmpVars, return_code>>

\* Mutant: the exception escapes with the lock held.
Die_Locked(w) ==
    /\ At(w, "taken") \/ At(w, "run") \/ At(w, "print")
    /\ wpc' = [wpc EXCEPT ![w] = "dead"]
    /\ UNCHANGED <<input, mpc, i, queue, unfinished, lock, name, failed_files, tmpVars, return_code>>

\* print, mkstemp or Popen fails, or the output is not UTF-8: the exception ends the
\* thread, without task_done.
Die(w) ==
    /\ At(w, "taken") \/ At(w, "run") \/ At(w, "print")
    /\ lock' = IF wpc[w] = "print" THEN Nobody ELSE lock
    /\ wpc' = [wpc EXCEPT ![w] = "dead"]
    /\ UNCHANGED <<input, mpc, i, queue, unfinished, name, failed_files, tmpVars, return_code>>

\* Mutant: task_done is called again for a file that failed.
TaskDone_Twice(w) ==
    /\ At(w, "done")
    /\ unfinished' = unfinished - (IF name[w] \in input.failing THEN 2 ELSE 1)
    /\ wpc' = [wpc EXCEPT ![w] = "get"]
    /\ name' = [name EXCEPT ![w] = Nobody]
    /\ UNCHANGED <<input, mpc, i, queue, lock, failed_files, tmpVars, return_code>>

TaskDone(w) ==
    /\ At(w, "done")
    /\ unfinished' = unfinished - 1
    /\ wpc' = [wpc EXCEPT ![w] = "get"]
    /\ name' = [name EXCEPT ![w] = Nobody]
    /\ UNCHANGED <<input, mpc, i, queue, lock, failed_files, tmpVars, return_code>>
-----------------------------------------------------------------------------
MainStep ==
    \/ find_compilation_database \/ ListChecks \/ LoadDatabase \/ MakeTmpdir \/ CompileRegex
    \/ PutFile \/ BeginJoin \/ Join \/ ExportFixes \/ ApplyFixes \/ Cleanup

WorkerStep(w) ==
    Get(w) \/ Invoke(w) \/ Skip(w) \/ Launch(w) \/ Finish(w) \/ Acquire(w) \/ Output(w) \/ TaskDone(w)

Next ==
    \/ MainStep
    \/ SpinOnUnmatched
    \/ KeyboardInterrupt
    \/ \E w \in Worker : WorkerStep(w) \/ Die(w)

\* Every thread is scheduled, and clang-tidy comes to an end on every file.  Nobody
\* has to press Ctrl-C and no thread has to die.
Fairness == WF_vars(MainStep) /\ \A w \in Worker : WF_vars(WorkerStep(w))

Spec == Init /\ [][Next]_vars /\ Fairness
-----------------------------------------------------------------------------
Joined == mpc \in {"export", "fix", "cleanup"}

Listed(f) == \E k \in DOMAIN failed_files : failed_files[k] = f

\* When join has returned no file is queued or in a worker's hands, and failed_files
\* holds exactly the files of the database that were to be checked and failed: none
\* is lost between the queue, the workers and the list, however they interleave.
JoinMeansChecked ==
    Joined =>
        /\ queue = <<>> /\ Busy = {}
        /\ \A f \in File :
              Listed(f) <=> /\ \E k \in DOMAIN Entries : Entries[k] = f
                            /\ f \in input.failing \ input.skipped

\* The script's exit status tells of every file that failed, if the database could be
\* read: a zero status after the threads ran means that no checked file failed.
ZeroMeansClean ==
    mpc = "exited" /\ return_code = 0 =>
        \A k \in DOMAIN Entries : Entries[k] \notin input.failing \ input.skipped

\* If every entry matches, and there is a worker, and none dies, the script ends.
Terminates ==
    <>(mpc \in {"exited", "killed"})
    \/ <>(\E k \in DOMAIN Entries : Entries[k] \notin input.matched)
    \/ <>(\E w \in Worker : wpc[w] = "dead")

\* A worker that dies, even while it prints, does not stop the others: as long as one
\* lives, every file main has queued is taken.
SurvivorsDrain ==
    mpc = "join" ~> \/ queue = <<>>
                    \/ mpc \in {"exited", "killed"}
                    \/ \A w \in Worker : wpc[w] = "dead"

=============================================================================
