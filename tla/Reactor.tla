------------------------------ MODULE Reactor ------------------------------
(***************************************************************************)
(* One reactor of a Turtle server: a Looper (core/looper.cpp) with its     *)
(* Poller and Timer on a thread of its own, and the Acceptor               *)
(* (core/acceptor.cpp) that adds connections to it from the listener's     *)
(* thread.  Clients connect, send and close at any time.                   *)
(*                                                                         *)
(* A Connection object is named by the client it serves.  Its descriptor   *)
(* is free for reuse as soon as it is closed.  The callback of a timer is  *)
(* the descriptor whose connection it deletes.                             *)
(*                                                                         *)
(* Epoll is edge triggered: rdlist holds the connections that became ready *)
(* since they were last reported; a report is given only if there is still *)
(* something to read.                                                      *)
(*                                                                         *)
(* RefreshConnection and DeleteConnection hold Looper::mtx_ from end to    *)
(* end and touch nothing that is read outside it, so each is one step.     *)
(* AddConnection is two: the connection can be reported as soon as it is   *)
(* registered with epoll, before it is in connections_.                    *)
(***************************************************************************)
EXTENDS Timer

CONSTANTS
    Client,           \* clients, and the Connection objects that serve them
    NoConn,           \* absent entry of connections_
    NoFd,             \* descriptor of a client that has none
    TimerExpiration,  \* timer_expiration_ of the Looper; 0 means no timer
    MaxSends          \* bound: messages the clients send

ASSUME ReactorAssumption ==
    /\ TimerExpiration \in Nat
    /\ MaxSends \in Nat
    /\ NoConn \notin Client
    /\ NoFd \notin Callback

VARIABLES
    \* the clients and the kernel
    sock,       \* Client -> "none", "backlog", "open" or "closed"
    inbox,      \* Client -> messages received by the kernel and not read
    sends,      \* messages sent so far
    fin,        \* Client -> the client has closed its end
    conn_fd,    \* Client -> descriptor of its accepted socket
    interest,   \* connections registered with epoll
    rdlist,     \* connections on epoll's ready list
    \* the Looper
    mtx_,            \* the acceptor holds Looper::mtx_
    connections_,    \* descriptor -> Connection
    timers_mapping_, \* descriptor -> pointer to its timer
    exit_,
    \* the reactor's thread, in Looper::Loop
    rpc,                \* where it is
    ready_connections,  \* connections reported and not handled yet
    timer_ready,        \* timer_conn # nullptr
    cur,                \* the connection whose callback is running
    \* the listener's thread, in BaseAcceptCallback
    apc,  \* where it is
    acc,  \* the connection being added
    \* history
    active_at  \* Client -> when its connection was added or last handled

kernelVars == <<sock, inbox, sends, fin, conn_fd, interest, rdlist>>
looperVars == <<connections_, timers_mapping_>>
reactorVars == <<rpc, ready_connections, timer_ready, cur>>
acceptorVars == <<mtx_, apc, acc>>
vars == <<timerVars, kernelVars, looperVars, exit_, reactorVars, acceptorVars, active_at>>

Fd == Callback

use_timer_ == TimerExpiration # 0

TypeOK ==
    /\ TimerTypeOK
    /\ sock \in [Client -> {"none", "backlog", "open", "closed"}]
    /\ inbox \in [Client -> 0 .. MaxSends]
    /\ sends \in 0 .. MaxSends
    /\ fin \in [Client -> BOOLEAN]
    /\ conn_fd \in [Client -> Fd \cup {NoFd}]
    /\ interest \subseteq Client
    /\ rdlist \subseteq interest
    /\ mtx_ \in BOOLEAN
    /\ connections_ \in [Fd -> Client \cup {NoConn}]
    /\ timers_mapping_ \in [Fd -> Addr \cup {NoAddr}]
    /\ exit_ \in BOOLEAN
    /\ rpc \in {"loop", "poll", "dispatch", "recv", "delete", "timer", "stopped"}
    /\ ready_connections \subseteq Client
    /\ timer_ready \in BOOLEAN
    /\ cur \in Client \cup {NoConn}
    /\ apc \in {"poll", "accepted", "registered"}
    /\ acc \in Client \cup {NoConn}
    /\ active_at \in [Client -> Nat]

Init ==
    /\ TimerInit
    /\ sock = [c \in Client |-> "none"]
    /\ inbox = [c \in Client |-> 0]
    /\ sends = 0
    /\ fin = [c \in Client |-> FALSE]
    /\ conn_fd = [c \in Client |-> NoFd]
    /\ interest = {}
    /\ rdlist = {}
    /\ mtx_ = FALSE
    /\ connections_ = [fd \in Fd |-> NoConn]
    /\ timers_mapping_ = [fd \in Fd |-> NoAddr]
    /\ exit_ = FALSE
    /\ rpc = "loop"
    /\ ready_connections = {}
    /\ timer_ready = FALSE
    /\ cur = NoConn
    /\ apc = "poll"
    /\ acc = NoConn
    /\ active_at = [c \in Client |-> 0]
-----------------------------------------------------------------------------
(* insert and erase of std::map<int, V>, "none" standing for no entry. *)

\* A key that is already there keeps its value.
Insert(map, fd, none, v) == IF map[fd] = none THEN [map EXCEPT ![fd] = v] ELSE map

\* Mutant: the entry is left behind.
Erase_Nothing(map, fd, none) == map

Erase(map, fd, none) == [map EXCEPT ![fd] = none]
-----------------------------------------------------------------------------
(* Clients. *)

Readable(c) == inbox[c] > 0 \/ fin[c]

\* An event on c's socket: epoll puts it on the ready list if it is registered.
Wake(c) == rdlist' = rdlist \cup ({c} \cap interest)

Connect(c) ==
    /\ sock[c] = "none"
    /\ sock' = [sock EXCEPT ![c] = "backlog"]
    /\ UNCHANGED <<timerVars, inbox, sends, fin, conn_fd, interest, rdlist>>
    /\ UNCHANGED <<looperVars, exit_, reactorVars, acceptorVars, active_at>>

ClientSend(c) ==
    /\ sock[c] \in {"backlog", "open"}
    /\ ~fin[c]
    /\ sends < MaxSends
    /\ inbox' = [inbox EXCEPT ![c] = @ + 1]
    /\ sends' = sends + 1
    /\ Wake(c)
    /\ UNCHANGED <<timerVars, sock, fin, conn_fd, interest>>
    /\ UNCHANGED <<looperVars, exit_, reactorVars, acceptorVars, active_at>>

ClientClose(c) ==
    /\ sock[c] \in {"backlog", "open"}
    /\ ~fin[c]
    /\ fin' = [fin EXCEPT ![c] = TRUE]
    /\ Wake(c)
    /\ UNCHANGED <<timerVars, sock, inbox, sends, conn_fd, interest>>
    /\ UNCHANGED <<looperVars, exit_, reactorVars, acceptorVars, active_at>>
-----------------------------------------------------------------------------
(* The listener's thread: Acceptor::BaseAcceptCallback, Looper::AddConnection. *)

\* accept fails and is tried again later when no descriptor is free.
Accept(c) ==
    /\ apc = "poll"
    /\ sock[c] = "backlog"
    /\ \E fd \in Fd \ {conn_fd[d] : d \in Client} :
        conn_fd' = [conn_fd EXCEPT ![c] = fd]
    /\ sock' = [sock EXCEPT ![c] = "open"]
    /\ apc' = "accepted"
    /\ acc' = c
    /\ UNCHANGED <<timerVars, inbox, sends, fin, interest, rdlist>>
    /\ UNCHANGED <<looperVars, exit_, reactorVars, mtx_, active_at>>

\* Take mtx_ and register with the poller: what has arrived is an event.
RegisterConnection ==
    /\ apc = "accepted"
    /\ ~mtx_
    /\ mtx_' = TRUE
    /\ interest' = interest \cup {acc}
    /\ rdlist' = IF Readable(acc) THEN rdlist \cup {acc} ELSE rdlist
    /\ apc' = "registered"
    /\ UNCHANGED <<timerVars, sock, inbox, sends, fin, conn_fd>>
    /\ UNCHANGED <<looperVars, exit_, reactorVars, acc, active_at>>

\* Mutant: mtx_ is not released.
InsertConnection_KeepsLock ==
    LET fd == conn_fd[acc] IN
    /\ apc = "registered"
    /\ connections_' = Insert(connections_, fd, NoConn, acc)
    /\ IF use_timer_
       THEN \E p \in Addr \ live, t \in ClockReads :
                /\ AddSingleTimer(p, TimerExpiration, fd, t)
                /\ timers_mapping_' = Insert(timers_mapping_, fd, NoAddr, p)
                /\ UNCHANGED <<expired, torun>>
       ELSE UNCHANGED <<timerVars, timers_mapping_>>
    /\ active_at' = [active_at EXCEPT ![acc] = now]
    /\ apc' = "poll"
    /\ acc' = NoConn
    /\ UNCHANGED <<mtx_, kernelVars, exit_, reactorVars>>

\* The rest of AddConnection: insert, start a timer, release mtx_.
InsertConnection ==
    LET fd == conn_fd[acc] IN
    /\ apc = "registered"
    /\ connections_' = Insert(connections_, fd, NoConn, acc)
    /\ IF use_timer_
       THEN \E p \in Addr \ live, t \in ClockReads :
                /\ AddSingleTimer(p, TimerExpiration, fd, t)
                /\ timers_mapping_' = Insert(timers_mapping_, fd, NoAddr, p)
                /\ UNCHANGED <<expired, torun>>
       ELSE UNCHANGED <<timerVars, timers_mapping_>>
    /\ active_at' = [active_at EXCEPT ![acc] = now]
    /\ mtx_' = FALSE
    /\ apc' = "poll"
    /\ acc' = NoConn
    /\ UNCHANGED <<kernelVars, exit_, reactorVars>>
-----------------------------------------------------------------------------
(* The reactor's thread: Looper::Loop and the callbacks it makes. *)

\* The test of while (!exit_).
LoopTest ==
    /\ rpc = "loop"
    /\ rpc' = IF exit_ THEN "stopped" ELSE "poll"
    /\ UNCHANGED <<timerVars, kernelVars, looperVars, exit_, acceptorVars, active_at>>
    /\ UNCHANGED <<ready_connections, timer_ready, cur>>

Reported == {c \in rdlist : Readable(c)}

TimerReported == use_timer_ /\ timer_fd_.ticks > 0

\* Poller::Poll: all that is ready, or nothing after TIMEOUT.
Poll ==
    /\ rpc = "poll"
    /\ ready_connections' = Reported
    /\ timer_ready' = TimerReported
    /\ rdlist' = {}
    /\ rpc' = "dispatch"
    /\ UNCHANGED <<timerVars, sock, inbox, sends, fin, conn_fd, interest>>
    /\ UNCHANGED <<looperVars, exit_, cur, acceptorVars, active_at>>

\* What the timer queue may find for the pointer that timers_mapping_ has for fd.
TimersOf(fd) == IF timers_mapping_[fd] = NoAddr THEN {{}} ELSE Lookups(timers_mapping_[fd])

\* Looper::RefreshConnection.  The insert of the new pointer does nothing when
\* the mapping already has the descriptor.
RefreshConnection(fd) ==
    IF ~use_timer_
    THEN UNCHANGED <<timerVars, timers_mapping_>>
    ELSE /\ ~mtx_
         /\ UNCHANGED <<expired, torun>>
         /\ \E found \in TimersOf(fd) :
            \/ found = {} /\ UNCHANGED <<queueVars, timers_mapping_>>
            \/ \E q \in found, p \in Addr \ live, t \in ClockReads :
                /\ RefreshSingleTimer(q, p, TimerExpiration, t)
                /\ timers_mapping_' = Insert(timers_mapping_, fd, NoAddr, p)

\* Looper::DeleteConnection: destroying the Connection closes its descriptor,
\* which takes it out of epoll; then its timer goes.
DeleteConnection(fd) ==
    LET c == connections_[fd] IN
    /\ ~mtx_
    /\ IF c = NoConn
       THEN UNCHANGED <<queueVars, kernelVars, looperVars>>
       ELSE /\ connections_' = Erase(connections_, fd, NoConn)
            /\ sock' = [sock EXCEPT ![c] = "closed"]
            /\ conn_fd' = [conn_fd EXCEPT ![c] = NoFd]
            /\ interest' = interest \ {c}
            /\ rdlist' = rdlist \ {c}
            /\ timers_mapping_' = Erase(timers_mapping_, fd, NoAddr)
            /\ \E found \in TimersOf(fd) :
                \/ found = {} /\ UNCHANGED queueVars
                \/ \E q \in found, t \in ClockReads : RemoveSingleTimer(q, t)
            /\ UNCHANGED <<inbox, sends, fin>>

\* The next callback of the round, set by Acceptor::SetCustomHandleCallback:
\* BaseHandleCallback first, then the handler the server was given.
HandleConnection(c) ==
    /\ rpc = "dispatch"
    /\ c \in ready_connections
    /\ RefreshConnection(conn_fd[c])
    /\ ready_connections' = ready_connections \ {c}
    /\ cur' = c
    /\ active_at' = [active_at EXCEPT ![c] = now]
    /\ rpc' = "recv"
    /\ UNCHANGED <<kernelVars, connections_, exit_, timer_ready, acceptorVars>>

\* Mutant: the handler does not call Recv.
Unread_Nothing(n) == n

\* Mutant: a message is taken from an empty buffer.
Unread_Underflow(n) == n - 1

\* What the loop of Connection::Recv leaves of n messages: it reads until the
\* kernel has no more.
Unread(n) == 0

\* Mutant: the end of the stream is not noticed.
EndOfStream_Ignored(c) == FALSE

\* recv returned 0, or an error that Recv treats alike.
EndOfStream(c) == fin[c]

\* Connection::Recv, which reads until there is nothing left.  The handler deletes
\* the connection if the client has closed it; otherwise it answers, and may
\* decide to close.
Recv ==
    /\ rpc = "recv"
    /\ inbox' = [inbox EXCEPT ![cur] = Unread(@)]
    /\ \/ rpc' = "delete" /\ UNCHANGED cur
       \/ ~EndOfStream(cur) /\ rpc' = "dispatch" /\ cur' = NoConn
    /\ UNCHANGED <<timerVars, sock, sends, fin, conn_fd, interest, rdlist>>
    /\ UNCHANGED <<looperVars, exit_, ready_connections, timer_ready, acceptorVars, active_at>>

\* The handler's call of DeleteConnection; it returns to Loop after it.
HandlerDelete ==
    /\ rpc = "delete"
    /\ DeleteConnection(conn_fd[cur])
    /\ rpc' = "dispatch"
    /\ cur' = NoConn
    /\ UNCHANGED <<expired, torun, exit_, ready_connections, timer_ready, acceptorVars, active_at>>

\* Mutant: the timer is handled when its turn comes among the connections.
HandleTimer_NotLast ==
    /\ rpc = "dispatch"
    /\ timer_ready
    /\ \E t \in ClockReads : \E s \in now .. t : PruneExpiredTimer(s, t)
    /\ timer_ready' = FALSE
    /\ rpc' = "timer"
    /\ UNCHANGED <<kernelVars, looperVars, exit_, ready_connections, cur, acceptorVars, active_at>>

\* All connections of the round are handled: the timer's turn, if reported.
HandleTimer ==
    /\ rpc = "dispatch"
    /\ ready_connections = {}
    /\ timer_ready
    /\ \E t \in ClockReads : \E s \in now .. t : PruneExpiredTimer(s, t)
    /\ timer_ready' = FALSE
    /\ rpc' = "timer"
    /\ UNCHANGED <<kernelVars, looperVars, exit_, ready_connections, cur, acceptorVars, active_at>>

\* HandleRead runs the callback of an expired timer, which deletes the
\* connection of the descriptor it was made for.
Kick ==
    /\ rpc = "timer"
    /\ \E a \in torun : Run(a) /\ DeleteConnection(heap[a].cb)
    /\ UNCHANGED <<exit_, reactorVars, acceptorVars, active_at>>

\* HandleRead returns.
EndTimer ==
    /\ rpc = "timer"
    /\ torun = {}
    /\ IF expired = {} THEN UNCHANGED timerVars ELSE FreeExpired
    /\ rpc' = "loop"
    /\ UNCHANGED <<kernelVars, looperVars, exit_, ready_connections, timer_ready, cur>>
    /\ UNCHANGED <<acceptorVars, active_at>>

EndRound ==
    /\ rpc = "dispatch"
    /\ ready_connections = {}
    /\ ~timer_ready
    /\ rpc' = "loop"
    /\ UNCHANGED <<timerVars, kernelVars, looperVars, exit_, ready_connections, timer_ready, cur>>
    /\ UNCHANGED <<acceptorVars, active_at>>

\* Another thread tells the Looper to stop.
SetExit ==
    /\ ~exit_
    /\ exit_' = TRUE
    /\ UNCHANGED <<timerVars, kernelVars, looperVars, reactorVars, acceptorVars, active_at>>
-----------------------------------------------------------------------------
Time ==
    /\ Tick
    /\ UNCHANGED <<kernelVars, looperVars, exit_, reactorVars, acceptorVars, active_at>>

ReactorStep ==
    \/ LoopTest
    \/ Poll
    \/ \E c \in Client : HandleConnection(c)
    \/ Recv
    \/ HandlerDelete
    \/ HandleTimer
    \/ Kick
    \/ EndTimer
    \/ EndRound

AcceptorStep ==
    \/ \E c \in Client : Accept(c)
    \/ RegisterConnection
    \/ InsertConnection

Next ==
    \/ \E c \in Client : Connect(c) \/ ClientSend(c) \/ ClientClose(c)
    \/ ReactorStep
    \/ AcceptorStep
    \/ SetExit
    \/ Time

\* Both threads are scheduled again and again and the clock keeps going.
\* Clients owe nothing, and nobody has to call SetExit.
Fairness == WF_vars(ReactorStep) /\ WF_vars(AcceptorStep) /\ WF_vars(Time)

Spec == Init /\ [][Next]_vars /\ Fairness
-----------------------------------------------------------------------------
\* Every Connection the reactor or epoll still refers to exists: the pointers
\* of a round stay valid until their callback has run, because the handler
\* deletes only its own connection and the timer, which deletes others, comes
\* last in Loop.
NoDanglingConnection ==
    \A c \in ready_connections \cup rdlist \cup ({cur} \ {NoConn}) : sock[c] = "open"

\* connections_ holds exactly the accepted connections under their descriptors
\* (the one still being added apart), and timers_mapping_ the same keys: a
\* descriptor closed and reused never meets its old entry, so the inserts of
\* AddConnection never find their key taken.
ConnectionTable ==
    /\ \A c \in Client \ {acc} :
        sock[c] = "open" <=> conn_fd[c] # NoFd /\ connections_[conn_fd[c]] = c
    /\ acc # NoConn => connections_[conn_fd[acc]] = NoConn
    /\ \A fd \in Fd : connections_[fd] # NoConn => conn_fd[connections_[fd]] = fd
    /\ use_timer_ => \A fd \in Fd : timers_mapping_[fd] # NoAddr <=> connections_[fd] # NoConn

\* No edge is lost: a registered connection with something to read is on the
\* ready list, waits for its callback, or is being handled, wherever the edge
\* falls between the acceptor's registration, Poll and the end of Recv.
NoLostEvent ==
    \A c \in interest : Readable(c) => c \in rdlist \cup ready_connections \/ cur = c

\* A connection whose client has closed is deleted and its descriptor freed,
\* unless the Looper is told to stop.
ClosedIsDeleted ==
    \A c \in Client : c \in interest /\ fin[c] ~> sock[c] = "closed" \/ exit_

\* What a client sends on a registered connection is read by a callback, unless
\* the handler had already decided to close it.
MessagesAreRead ==
    \A c \in Client : c \in interest /\ inbox[c] > 0 ~> inbox[c] = 0 \/ sock[c] = "closed" \/ exit_

\* After SetExit the loop ends: no callback or lock keeps it.
StopsOnExit == exit_ ~> rpc = "stopped"

\* The timer closes a connection only after it has been inactive for the whole
\* expiration time: "Support Timer to kill inactive client connections".
KickOnlyIdle ==
    [][\A c \in Client :
        rpc = "timer" /\ sock[c] = "open" /\ sock'[c] = "closed" =>
            now >= active_at[c] + TimerExpiration]_vars

=============================================================================
