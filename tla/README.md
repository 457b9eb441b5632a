# A TLA+ verification of Turtle

Turtle is a C++17 network library for Linux: one reactor per thread on
edge-triggered epoll, a thread pool, a timer, an asynchronous logger, a cache,
and an HTTP server and two demos on top. Its build runs two Python programs of
some size, `run_clang_tidy.py` and `cpplint.py`. These modules model the
library's concurrent core, its HTTP server and those two programs, check them
with TLC on small instances, and prove part of it with TLAPS. Paths below are
relative to the repository; `core/` is `src/core/` together with its headers in
`src/include/core/`.

## The system and its parts

| Part | What it does | State it changes | Threads |
|---|---|---|---|
| Timer (`core/timer.cpp`) | callbacks at a given millisecond | `timer_queue_`, `next_expire_`, the timerfd, heap objects | reactor's; also listener's through `AddConnection` |
| Looper (`core/looper.cpp`) | the event loop of a thread | `connections_`, `timers_mapping_`, `exit_` | reactor's and listener's |
| Poller (`core/poller.cpp`) | epoll | interest set and ready list in the kernel | the looper's |
| Acceptor (`core/acceptor.cpp`) | accepts clients, gives them to a reactor | descriptors, the reactor's tables | listener's |
| Connection, Buffer (`core/`) | `Recv` and `Send` on a socket | its buffers | reactor's |
| Socket, NetAddress (`core/`) | system calls, addresses | their own fields | the caller's |
| ThreadPool (`core/thread_pool.*`) | runs tasks, one per reactor | `tasks_`, `exit_` | workers, submitters, owner |
| TurtleServer (`core/turtle_server.h`) | pool, reactors and listener put together | none of its own | main |
| Cache (`core/cache.cpp`) | LRU cache of files | linked list, hash map, `occupancy_` | every reactor |
| Logger (`log/logger.cpp`) | queues log lines, a thread writes them | two queues, `last_flush_`, `done_` | every thread and the writer |
| HTTP (`http/`) | request loop, responses, CGI | connection buffers, cache, child process and a file | reactors' |
| MySqler (`db/mysqler.cpp`) | wrapper of a database client | connection, `valid_` | the caller's and `std::async` |
| Demos (`demo/`) | echo, key-value store | the store | reactors' |
| `build_support/run_clang_tidy.py` | clang-tidy on every file of the database | a queue, `failed_files`, a temporary directory | main and workers |
| `build_support/cpplint.py` | style errors of C++ files | module-wide state, states of the rules per file | one |

A client connects; the listener's looper calls the Acceptor, which accepts,
chooses a reactor and calls `Looper::AddConnection` from the listener's thread.
From then on the reactor's thread polls, calls the connection's callback
(refresh of its timer, then the user's handler), and at the end of the round
handles the timerfd, whose callbacks delete inactive connections. Each reactor
is a task of the ThreadPool. The HTTP handlers of all reactors share one Cache,
and everybody logs.

## Modules

| Module | Models | Role |
|---|---|---|
| `Timer` | `Timer` and the timerfd | actions on the timer's state, conjoined by the modules that use it |
| `TimerClient` | `Timer` under users that keep its contract | closed system for `Timer` |
| `Reactor` | Looper, Poller, Acceptor, `Connection::Recv`, with a `Timer` | composition: clients, kernel, listener's and reactor's thread |
| `ThreadPool` | `ThreadPool` | workers, submitters, owner |
| `Logger` | `Logger` | producers, writer, destructor |
| `LRU` | what a cache promises | abstract specification |
| `Cache` | `Cache`, calls one after the other | implements `LRU` |
| `CacheRace` | `TryLoad` statement by statement, shared lock | overlapping calls |
| `HttpServer` | `ProcessHttpRequest`, `Cgier::Run`, `Buffer::FindAndPopTill`, with a `Cache` | composition: clients, disk, children, reactors' threads |
| `Tidy` | `run_clang_tidy.py` | main, workers, queue |
| `LintText`, `LintBrackets` | comments, strings, brackets in `cpplint.py` | operators |
| `LintNesting`, `LintFunctions`, `LintIncludes`, `LintGuard` | its rules that keep state | operators on that state |
| `LintFiles`, `LintErrors` | its file names; its filters, counts and suppressions | operators |
| `Cpplint` | one invocation of `cpplint.py` | composition, line by line |
| `LintReference` | nothing of the code | reference definitions: lexical structure, balanced brackets |
| `ReactorProofs` (with `Timer` and `TimerClient`), `ThreadPoolProofs`, `LoggerProofs`, `HttpServerProofs`, `HttpCacheProofs` (with `Cache`), `TidyProofs`, `LintProofs`, `CpplintProofs` | | theorems |
| `MC*` | | instances for TLC |

### How state and actions correspond to the code

*Timer.* A `SingleTimer` lives at an address: `heap` is what memory holds and
`live` what is allocated. Behind a freed address the comparator reads the old
bytes or what the allocator wrote over them (`KeysReadAt`), and the address may
be given out again, so a stale pointer may also lead to another timer. The map
is keyed by pointer but ordered by the expiration time behind it; `Emplace`
drops a timer whose time is taken and `Find` finds whatever timer has the
pointer's time. Every operation holds `Timer::mtx_` and is one action which
reads the clock at its start and again, up to `MaxDelay` later, when it sets the
timerfd. `ResetTimerFd` with a relative time of zero disarms the descriptor, as
timerfd_settime does. `HandleRead` is a prune, one `Run` per expired timer, and
the end of the vector (`FreeExpired`). In `TimerClient` the looper first reports
the timerfd (`PollTimer`) and then reads it; another thread may add or remove a
timer in between, and so reset the timerfd. A user whose timer is dropped for
another of the same millisecond keeps a pointer that leads to that other timer
(`dropped`, `collided`).

*Reactor.* A connection object is named by its client; descriptors are a small
set and are reused. `rdlist` is epoll's ready list. `Accept`,
`RegisterConnection`, `InsertConnection` are the listener's steps: the
connection can be reported between the last two. `LoopTest`, `Poll`,
`HandleConnection`, `Recv`, `HandlerDelete`, `HandleTimer`, `Kick`, `EndTimer`,
`EndRound` are the reactor's. `Insert` does not replace an entry, as
`std::map::insert` does not. A handler reads everything and deletes the
connection at the end of the stream, as the echo server's; it may also decide to
close earlier, as the HTTP server's. `GetCallback` returns a copy of the
callback, so a handler that deletes its own connection does not destroy the
function that runs. Between the report of the timerfd and its read the listener
may reset it, so `HandleTimer` does not require ticks to be left.

*ThreadPool and Logger.* A condition variable's wait is the test of the
predicate, then the wait itself (`Test`, `Block`): a notification in between
reaches nobody. `exit_` and `done_` are set and notified in two steps, without
the mutex. `SpuriousWakeup` is possible and never promised. In `Logger` the
clock is reduced to the fact `stale`: more than the refresh threshold has
passed since `last_flush_`. Its type invariant also says where the writer holds
`mtx_`.

*Cache.* `list` holds the `next_` and `prev_` pointers of all nodes; `TryInsert`
is a step per iteration of its eviction loop; sizes are counted modulo
`SizeModulus` as `size_t` is. Timestamps are left out: nothing reads them.
`CacheRace` makes each statement of the two list functions a step.

*HttpServer.* A request arrives as its head and an `END` (the empty line),
possibly apart and several at a time. `Handle` is the call of `Recv`; `Parse`
takes the text up to the first `END` out of `read_buffer_` and looks for the
resource; `NoRequest` is the return of the handler; `Make200Response`,
`CheckFileSize`, `LoadHit`, `Relink`, `LoadMiss`, `LoadFile`, `Insert`,
`InsertNothing`, `Evict` make the
response of a file, the cache's own actions conjoined; `OpenFile`, `Fork`,
`Collect`, `RunFails`, `WaitFails` are `Cgier::Run`; `Send` ends an iteration
and goes on or deletes the connection. The file is looked at three times, by
`Parse`, `Make200Response` and `CheckFileSize`, and may vanish in between. Files change at any moment, children end
at any moment, and a child whose waitpid failed goes on writing. `CallCache` is
the cache without a server, as its test uses it. `aborted` is a failed
assertion or a SIGPIPE: both end the process.

`TryLoad` holds the lock shared while it moves its node (`Relink`), so two
threads may relink at once: `raced`. That is a data race, after which the list
may be anything. The model then leaves the list alone and lets what reads it
find anything: `EvictAny` evicts any cached node, with any size, or fails its
assertion, and `Relink` succeeds or ends the process. What a write through a
pointer of such a list may destroy elsewhere is not followed. `CacheRace` has the
statements of the race.

*Tidy.* One action per statement of main and of the worker that another thread
can tell apart: `put`, `get`, the progress line and the command line (`Invoke`),
the invocation, the lock, the print, `task_done`. A worker dies where the code
may raise, before the invocation, in it, or while it prints; `rmtree` may fail
and end the script (`RmtreeFails`); Ctrl-C comes while main fills the queue or
waits. What the run depends on is chosen once (`input`).

*cpplint.* A line is a sequence of tokens, a path and a category the sequence of
their words. `Cpplint` has one action per file name (`BeginFile`), CPPLINT.cfg
(`ReadConfig`, `ApplyConfig`), opened or skipped file (`OpenFile`, `SkipFile`), line
(`ProcessLine`: what `ProcessLine` calls, in its order) and end
(`CheckLineEndings`, `EndFile`, `Exit`, `Die`). `cpp` is `_cpplint_state`
together with the two suppression tables, `g` the global settings. A rule that
matches one line against a regular expression and keeps nothing is a token of
`RuleOf`: its category and confidence, which is what the rest of the program
sees of it.

## Runs

| Run | Expected | Distinct states | Shows |
|---|---|---|---|
| `timer` | pass | 278,104 | no freed timer is in the map or in the vector; an armed timerfd is never late; each pending callback has one timer and runs once, when due, never after that timer was removed or dropped, also when two fall on one millisecond; until two do, pointers lead to their own timers |
| `timer_stranded` | violation | | a timer already due when the timerfd is set for it disarms it and is never served (`timer.cpp:34`) |
| `reactor` | pass | 582,060 | a round's pointers stay valid although timers close connections; tables match descriptors through closing and reuse; no edge is lost; messages are read, closed connections deleted, the loop ends after `SetExit` |
| `reactor_refresh` | violation | | the pointer of a refreshed timer is not stored (`looper.cpp:82`), a later refresh misses and an active connection is closed |
| `pool` | pass | 14,797 | tasks start in order, each is run, and none is left when the destructor has returned |
| `pool_join` | violation | | `Exit` between a worker's test and its wait: the destructor never returns (`thread_pool.cpp:49`) |
| `logger` | pass | 4,051 | logs reach the file in order and once; a queue over the count threshold is flushed |
| `logger_exit` | violation | | logs pushed while the writer writes are lost when `done_` is set meanwhile (`logger.cpp:162`) |
| `http` | pass | 761,018 | pipelined requests are answered in order and each is answered; the handler never goes on with a connection it has deleted; bodies and lengths are those of the file or of the program asked for; until two `TryLoad`s overlap the cache's list, map and occupancy agree and it implements `LRU` |
| `cache_race` | violation | | two `TryLoad`s break the list and an eviction fails its assertion (`cache.cpp:59`, `:105`) |
| `tidy` | pass | 150,892 | when `join` returns every file is checked and `failed_files` is exact; status 0 means clean; the script ends if every entry matches and no worker dies; a worker that dies does not stop the others |
| `lint` | pass | 588,083 | filters and suppressions of a file end with it; counts, output and status agree; `#else` restores the right blocks and no header is listed twice; the level of a long function passes the verbosity; comment removal and bracket matching agree with `LintReference` |

A violation run states what a comment, a test or the README says and finds the
code to differ; `PROJECT.json` quotes the line under "findings".

More disagreements are in the models without a run of their own.

- Two timers of one millisecond are one key of the map (`timer.cpp:92`, `:179`):
  the second is freed at once, its callback never runs, and removing it by its
  pointer removes the first. The `timer` run and the proofs include such
  collisions; without `~collided` the last conjunct of `PointersFaithful` fails.
- The Content-Length of a file is read from the disk and its body from the
  cache (`http_server.cpp:72`). `BodiesExact` is stated for files that do not
  change; for one that does, TLC finds an answer whose length is not its body's.
- `cpplint.py:253-254` says that a CPPLINT.cfg "has an effect on files in the same
  directory and all sub-directories". Its filters have; its `linelength`, `root`,
  `extensions` and `headers` stay for every later file, wherever that is
  (`cpplint.py:6286`), and so they do in `Cpplint`. `FiltersRestored` is about the
  filters.
- An entry of the compilation database that the expressions do not match is
  tried again for ever (`run_clang_tidy.py:314-318`, `SpinOnUnmatched`), and a
  worker that dies leaves `join` waiting. `Terminates` excuses both.

What reading the handler for the model shows besides: a request that arrives together with the
end of the stream is dropped; a HEAD of a CGI program is answered with a body; a
failed waitpid leaves the file for the thread's next run, whose answer may then
begin with the old output (`BodiesExact` leaves such threads out); a failed fork
leaves the descriptor open; a file that vanishes between the test and `LoadFile`
ends the process.

### Bounds

- `timer`: two users, three addresses (a refresh needs one more than the timers
  that exist), durations 1 and 2, clock to 4, operations of up to 1 ms. Two
  timers are enough for a collision (by `Add` or by `Refresh`), a reordering of
  deadlines, and a reuse of an address; three addresses for a stale pointer to a
  free and to a reused one.
- `reactor`: two clients, two descriptors, three addresses, expiration 1, clock
  to 2, one message. A descriptor is closed and reused while the other
  connection is open or being added; the message and the end of the stream fall
  before, between and after `Poll` and `Recv`. A reactor without a timer and
  more messages are left to the proofs.
- `reactor_refresh`: one client with two messages is enough for two refreshes.
- `pool`: two workers (`MIN_NUM_THREADS_IN_POOL`), two submitters of whom one
  is the owner, three tasks: both workers busy and one task waiting.
- `logger`: two producers, three logs, a count threshold of 1: it is crossed
  while the writer waits, tests, or writes.
- `http`: two clients on one reactor or on two, with one of two workloads. In the
  first they ask for two between them out of six (two files of which one fills
  the cache, a program, a missing resource, a bad head, a HEAD that closes) while
  one file changes; in the second for one file three times and then for the other,
  which is enough for two hits to overlap and for an eviction after that. One
  failed waitpid per thread. Requests are pipelined on one connection or run at
  once on two threads. The cache by itself has sizes 0, 1, 2, 3 and capacity 3: an insertion
  evicts none, one or several, and an empty resource is cached.
- `cache_race`: two threads, two resources of which one fits.
- `tidy`: two workers and three entries, one file twice: the queue (of two) is
  full, and workers and main meet in every order. Every set of files may match,
  be skipped or fail.
- `lint`: families of invocations, each over all files of a few lines from the
  alphabet its question calls for: for comments and brackets one line of three
  tokens, or of four without character quotes and escapes, or two lines; five
  lines of blocks and conditionals, and conditionals nested in both branches of
  another; four lines of includes, five of functions, three of guards; two files with every kind of NOLINT; two levels of
  CPPLINT.cfg. `NamespaceLines`, `NormalTrigger` and `TestTrigger` stand for 10,
  250 and 400 lines and are 2, 1 and 2, so that they are passed.

`CHECK_DEADLOCK FALSE` stands where the system may stop: a destroyed pool or
logger, a stopped loop, clients that ask for no more, a script that has exited,
or the bounded clock at its end, and in `cache_race`, where the failed assertion
ends the program. No run uses symmetry.

### Fairness

Weak fairness of each thread's own steps and of the clock: a thread that can
run is scheduled. For `ThreadPool`, strong fairness of the acquisitions of
`mtx_`: a thread that keeps asking gets it in the end. `Poll` returns after
`TIMEOUT` with nothing at the latest, so the loop's step is always enabled. In
`HttpServer` a CGI program ends and `Send`, which loops until the peer has taken
the bytes, gets rid of them: the first is about the programs, the second about
peers, and neither is promised by the code. No client, user, submitter or
producer has to act, nobody has to exit or destroy anything, and no spurious
wakeup is relied upon.

## Proofs

For every number of threads, timers, tasks, logs, connections, requests, files
and cached resources, every size, and every text; TLC checked the properties, and
the inductive invariants they rest on, on the bounds above first.

- **Timer.** `ReactorProofs` first shows for each operation that it keeps
  `TimerInv`: types, `NoDanglingTimer`, `next_expire_` is the first time of the
  map (`NextIsFirst`), and the timerfd, if armed, is armed for no later
  (`ArmedForNext`). The last two are needed because an operation compares the
  new first time with `next_expire_` and leaves the timerfd alone when they are
  equal. From it follow, for users of `TimerClient`, `ClientTypes`, `TimersAreAlive`,
  `NoOversleeping`, and `PointersStayFaithful` and `CallbacksRunOnceWhenDue` from
  `FaithfulInv`: expiration times are unique among timers yet to run, because
  `Emplace` drops the second of two; those pruned are past, so no later timer
  gets their time; and each callback has at most one of them. So `find` leads
  from a pointer to its own timer, until a timer was dropped and its user holds a
  pointer with another's time.
- **Reactor.** `TypeCorrect`, `ConnectionsAreAlive`, `TablesMatch`,
  `EdgesAreKept`, on top of the lemmas about the Timer. The invariant adds:
  open sockets have descriptors of their own and epoll watches only those
  (`Sockets`); the acceptor holds `mtx_` while a connection is registered and
  not yet in `connections_`, so nobody deletes it then (`Adding`); what a round
  has still to handle is registered, and the timer, whose callbacks delete other
  connections, comes when nothing is left to handle (`Round`). With or without a
  timer.
- **ThreadPool.** `TypeCorrect`; `TasksInOrder` (mutual exclusion and "a worker
  about to take finds a task" make it inductive); `DestructorFinishesTasks`,
  assuming that no `SubmitTask` overlaps `Exit` (`ExitWaits`): after `exit_`
  nobody is about to enqueue, a worker that left saw the queue empty and it
  stays so, and what was taken is done or being run.
- **Logger.** `TypeCorrect`, which includes that the writer holds `mtx_` from its
  test to its swap and not while it writes; `LogsInOrder`: `writer_queue` is empty whenever the
  writer is about to swap, so the swap hands producers an empty queue.
- **Cache.** In `HttpCacheProofs`: `CacheConsistent` (the list from `header_` to `tailer_` and back
  holds what the map holds, `occupancy_` is the sum of the sizes) and
  `CacheIsLRU`, the refinement: every operation is the step of the same name of
  `LRU`. The invariant (`CacheInv`) replaces what a walk along `next_` finds by
  the existence of a path: a sequence of resources, each once, whose neighbours
  point at each other (`Path`). What unlinking and appending do to pointers is
  then a statement about one sequence (`RemoveKeeps`, `AppendKeeps`), the walk
  returns that sequence (`WalkIs`), and its first element is the victim
  (`FirstIsVictim`). The sum over a set is defined by recursion; that it exists,
  does not depend on the order and grows by the size added (`SumExists`,
  `SumAny`, `TotalWith`, `TotalWithout`) is shown by taking a smallest set for
  which it would fail. Nothing overflows because `occupancy_` stays within the
  capacity, and that is because the eviction loop ends with room for the new
  resource.
- **HttpServer, order.** `RequestsInOrder`. The invariant (`Flow`) says where every
  request of an open connection is: the first ones answered, at most one in the
  thread's hands, the others in `read_buffer_` and the socket, in order, each
  head before its `END`, and a head without one at the very end. It follows that
  the first `END` of the buffer is the next request's (`NextRequestIsFirst`),
  which is what makes `FindAndPopTill` take exactly one. `Framed` adds that
  what it takes begins with a head.
- **HttpServer, bodies.** `ServerTypes`, `ResponsesExact`,
  `ServedListMatchesMap`, `ServedOccupancyExact`, `ServedCacheIsLRU`, from
  `ServerInv`: the two invariants of the order, `BodyInv`, what holds of the cache
  always (`StoreInv`: the hash map and its data match, whatever became of the
  list), and `CacheInv` as long as nothing `raced`. `BodyInv` says how far each thread's response is (`Built`), that the cached data of
  a file which did not change are that file's (`Coherent`; also those of an
  insertion that still evicts), that a thread's CGI file holds the output of the
  program it waits for and nothing else unless a waitpid has failed
  (`OwnOutput`), and that what was sent was right and stays so (`Sent`). Each
  step of the server changes the cache by a step of the cache's own
  specification or not at all, or is taken after a race (`CacheCalls`), so
  `CacheInv` and the refinement carry over from the cache alone up to the first
  overlap of two `TryLoad`s, and the three theorems about the cache say no more.
  `ResponsesExact` needs only `StoreInv`, and holds after a race too.
  `HttpServerProofs` has the steps that keep `BodyInv` by themselves,
  `HttpCacheProofs` the others and the theorems.
- **Tidy.** `TypeCorrect`, `JoinIsComplete`, `ZeroIsClean`: unfinished tasks are
  the queued files and those in workers' hands (`Counted`), and a file to be
  reported is queued, held or listed (`Accounted`), so when the count is zero it
  is listed.
- **cpplint.** `TypeCorrect`, `FiltersAreRestored`, `CountsAreReported`,
  `SuppressionsAreLocal`, `IncludesAreUnique` and `LongFunctionsAreReported`, for
  any command line, files and `CPPLINT.cfg`, from one invariant, `Inv`, with one
  lemma per step of `ProcessFile`. It adds to the properties what they rest on:
  - *Filters.* The filters of the command line are in `filters` between two
    files and in `_filters_backup` while one is processed (`StepOK`). A
    configuration may add filters and change settings, but `ReadOptionsKeeps`
    shows that no line of it touches the copy that is put back.
  - *Counts.* `error_count` and every count by category are the numbers of
    reported errors of that kind (`Counted`); `Error` keeps this by adding one to
    exactly the key it writes (`ErrorKeeps`), so does a list of errors
    (`ReportKeeps`), and every rule is shown to return a list.
  - *Suppressions.* A line is suppressed only if its own text or that of the
    line before says so (`Local`). The header guard is checked on a copy of the
    lines without raw strings, so this needs a lemma about every function that
    cleans text: it adds no line, loses none, and puts in no token but quotes
    (`CleanseRawStringsIs`, `RemoveMultiLineCommentsIs`, `CleansedLinesIs`).
  - *Headers.* No header stands at two places of the lists (`Unique`); `#if`
    opens an empty list, `#else` empties one, and `AddHeader` runs only when
    `FindHeader` has found the header nowhere (`ResetSectionIs`, `AddHeaderIs`).
    `FlatUnique` carries this over to the lists put together.
  - *Functions.* No more lines are counted than were read (`FnOK`), and
    `LevelPasses` compares the trigger with the level for any verbosity: beyond 5
    the level stays at 5.

  `LintProofs` has the lemmas about the operators. Most of them are loops: that a
  loop has a course at all is shown by induction on its length over a set of
  numbers (`EndHas`), and then what each round keeps. The nesting of blocks takes
  part only as far as its errors are lists; that the blocks are the right ones is
  model-checked.

Assumptions on constants: the named `ASSUME`s of the modules (bounds are
naturals, null values are none of the real ones, there is a worker, files and
programs are different resources, the capacity is below the modulus of
`size_t`). `InvocationsAssumption` says what an invocation of `cpplint.py` is:
the verbosity and the line length are numbers without a sign (its usage text asks
for `a number 0-5` and for `digits`), lists of extensions are finite, and files
and configurations are sequences of lines. Nothing is assumed about what the
lines say.

Only model-checked: liveness (out of the prover's reach), and three invariants of
`cpplint.py`. `ElidedIsCode` and `BracketsMatch` equate what two different
recursions over the tokens of a text compute, for which the induction would have
to be over the data. `FirstBranchCounts` holds for conditional directives that
stand alone on their lines, as in the texts of the run; a directive followed by
braces changes the blocks of one side only, so it is no invariant of every text.

## Not modelled

- `TurtleServer::Begin` and its destructor as a module: they start and join
  loops that nothing calls `SetExit` on. `Reactor` has one reactor, `HttpServer`
  several, with the owner of each connection given.
- The bytes of a partial `Send`; the 1024 events of one poll; the kqueue build.
- The text of a request (`Request`'s splitting), header texts, MIME types;
  execve failing, and targets that are directories.
- `Socket` and `NetAddress`: system calls and address formats without control
  worth checking. `MySqler`: it forwards calls to a database client. The
  key-value demo: its map is shared without a lock, so nothing of it is defined
  to check. `webbench` is third-party. `run_clang_format.py` is one loop.
- Of `cpplint.py`: the expressions of the stateless rules (`RuleOf`), `--help`
  and `--version`, a malformed exclusion, flymake's file names, `..` in
  `--root`, and two fields of `_ClassInfo` (`is_derived`, `last_line`).
- A thread pool `Exit` that overlaps `SubmitTask` is in `ThreadPool`
  (`ExitWaits = FALSE`) but in no run. `Cache::Clear` under concurrency: it
  takes no lock and the server does not call it.
- The clock is one clock; the code reads the system clock and arms a monotonic
  timerfd, so a clock that is set back or forth is outside the model.
  Data races on plain variables (`Looper::exit_`, `last_flush_`) are modelled as
  interleavings of whole reads and writes.
