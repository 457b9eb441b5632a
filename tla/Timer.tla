------------------------------- MODULE Timer -------------------------------
(***************************************************************************)
(* Turtle's Timer (core/timer.cpp): a map of SingleTimer objects ordered   *)
(* by their expiration time, and a timerfd armed for the earliest of them. *)
(*                                                                         *)
(* A SingleTimer is known to its user by a raw pointer, so objects live at *)
(* addresses: "heap" is what the memory holds, "live" the addresses now    *)
(* allocated.  A freed address may be allocated again; until then a read   *)
(* finds the old bytes or the allocator's.  The map is keyed by the        *)
(* pointer but its comparator reads the expiration time behind it, so two  *)
(* timers of the same millisecond are the same key.                        *)
(*                                                                         *)
(* Each operation holds Timer::mtx_ throughout and is one action; it reads *)
(* the clock more than once, so it ends at a time t between now and        *)
(* now + MaxDelay.  The modules that use a Timer conjoin these actions     *)
(* with their own.                                                         *)
(***************************************************************************)
EXTENDS Integers

CONSTANTS
    Addr,        \* addresses the allocator gives to SingleTimer objects
    Callback,    \* callbacks a timer may be given
    NoCallback,  \* the null std::function, content of untouched memory
    NoAddr,      \* the null pointer
    MaxTime,     \* bound: the clock stops here
    MaxDelay     \* bound: milliseconds that may pass inside one operation

ASSUME TimerAssumption ==
    /\ MaxTime \in Nat
    /\ MaxDelay \in Nat
    /\ NoAddr \notin Addr
    /\ NoCallback \notin Callback

VARIABLES
    now,           \* the clock, in milliseconds
    heap,          \* Addr -> the SingleTimer bytes at that address
    live,          \* addresses that hold an allocated SingleTimer
    timer_queue_,  \* addresses owned by the map
    next_expire_,  \* expiration time the timerfd was last set for, 0 if none
    timer_fd_,     \* kernel timer: deadline (0 = disarmed) and unread ticks
    expired,       \* the vector expired_timer of HandleRead
    torun          \* those of the vector whose callback has not been run yet

queueVars == <<now, heap, live, timer_queue_, next_expire_, timer_fd_>>
timerVars == <<queueVars, expired, torun>>

SingleTimer == [expire : Nat, cb : Callback \cup {NoCallback}]

TimerFd == [deadline : Nat, ticks : {0, 1}]

TimerTypeOK ==
    /\ now \in Nat \ {0}
    /\ heap \in [Addr -> SingleTimer]
    /\ live \subseteq Addr
    /\ timer_queue_ \subseteq Addr
    /\ next_expire_ \in Nat
    /\ timer_fd_ \in TimerFd
    /\ expired \subseteq Addr
    /\ torun \subseteq expired

TimerInit ==
    /\ now = 1
    /\ heap = [a \in Addr |-> [expire |-> 0, cb |-> NoCallback]]
    /\ live = {}
    /\ timer_queue_ = {}
    /\ next_expire_ = 0
    /\ timer_fd_ = [deadline |-> 0, ticks |-> 0]
    /\ expired = {}
    /\ torun = {}
-----------------------------------------------------------------------------
(* The clock and the timerfd. *)

\* The times an operation that starts now may end at.
ClockReads == {t \in now .. now + MaxDelay : t <= MaxTime}

FromNow(timestamp, t) == IF timestamp >= t THEN timestamp - t ELSE 0

\* timerfd_settime with a relative time: zero disarms, unread ticks are lost.
ResetTimerFd(ts, t) == [deadline |-> IF ts = 0 THEN 0 ELSE t + ts, ticks |-> 0]

\* The timerfd once the clock has reached t: it is one-shot.
Elapse(fd, t) ==
    IF fd.deadline # 0 /\ fd.deadline <= t
    THEN [deadline |-> 0, ticks |-> 1]
    ELSE fd

Tick ==
    /\ now < MaxTime
    /\ now' = now + 1
    /\ timer_fd_' = Elapse(timer_fd_, now + 1)
    /\ UNCHANGED <<heap, live, timer_queue_, next_expire_, expired, torun>>
-----------------------------------------------------------------------------
(* The map timer_queue_.  Q is its set of addresses, h the memory. *)

\* WhenExpire of the first element, 0 for an empty map.
NextExpireTime(Q, h) ==
    IF Q = {}
    THEN 0
    ELSE CHOOSE e \in {h[q].expire : q \in Q} : \A q \in Q : e <= h[q].expire

\* Mutant: expired one millisecond too soon.
Expired_Early(q, t) == t + 1 >= heap[q].expire

Expired(q, t) == t >= heap[q].expire

\* emplace: the new timer is dropped when its key is already there.
Emplace(Q, h, p) ==
    IF \E q \in Q : h[q].expire = h[p].expire THEN Q ELSE Q \cup {p}

\* What the comparator reads behind p.  After a free it is what was there or
\* what the allocator wrote, which is no timer's expiration time.
KeysReadAt(p) == IF p \in live THEN {heap[p].expire} ELSE {heap[p].expire, 0}

\* find, for a key read behind the pointer searched for: none or one timer.
Find(key) == {q \in timer_queue_ : heap[q].expire = key}

\* What looking p up in the map may find.
Lookups(p) == {Find(key) : key \in KeysReadAt(p)}

\* The lines that end every operation: when the first element has changed,
\* remember its time and set the timerfd for it.
UpdateNextExpire(Q, h, fd, t) ==
    LET new_next_expire == NextExpireTime(Q, h) IN
    /\ now' = t
    /\ next_expire_' = new_next_expire
    /\ timer_fd_' = IF new_next_expire # next_expire_
                    THEN ResetTimerFd(FromNow(new_next_expire, t), t)
                    ELSE Elapse(fd, t)
-----------------------------------------------------------------------------
(* The operations.  Add, Remove and Refresh say nothing of HandleRead's vector *)
(* (expired, torun): a callback that HandleRead runs may call them.            *)

\* Mutant: the timerfd is set only when the queue was empty before.
AddSingleTimer_ArmsOnlyFirst(p, expire_from_now, callback, t) ==
    LET h == [heap EXCEPT ![p] = [expire |-> now + expire_from_now, cb |-> callback]]
        Q == Emplace(timer_queue_, h, p)
    IN  /\ heap' = h
        /\ timer_queue_' = Q
        /\ live' = live \cup (Q \ timer_queue_)
        /\ IF timer_queue_ = {}
           THEN UpdateNextExpire(Q, h, timer_fd_, t)
           ELSE now' = t /\ timer_fd_' = Elapse(timer_fd_, t) /\ UNCHANGED next_expire_

\* Make a timer at the free address p; the caller gets p back, kept or not.
AddSingleTimer(p, expire_from_now, callback, t) ==
    LET h == [heap EXCEPT ![p] = [expire |-> now + expire_from_now, cb |-> callback]]
        Q == Emplace(timer_queue_, h, p)
    IN  /\ heap' = h
        /\ timer_queue_' = Q
        /\ live' = live \cup (Q \ timer_queue_)
        /\ UpdateNextExpire(Q, h, timer_fd_, t)

\* Erase the timer q that find returned.
RemoveSingleTimer(q, t) ==
    /\ timer_queue_' = timer_queue_ \ {q}
    /\ live' = live \ {q}
    /\ UpdateNextExpire(timer_queue_ \ {q}, heap, timer_fd_, t)
    /\ UNCHANGED heap

\* Mutant: the old timer stays in the map.
RefreshSingleTimer_KeepsOld(q, p, expire_from_now, t) ==
    LET h == [heap EXCEPT ![p] = [expire |-> now + expire_from_now, cb |-> heap[q].cb]]
        Q == Emplace(timer_queue_, h, p)
    IN  /\ heap' = h
        /\ timer_queue_' = Q
        /\ live' = live \cup (Q \ timer_queue_)
        /\ UpdateNextExpire(Q, h, timer_fd_, t)

\* Replace the timer q that find returned by a new one at the free address p
\* with the same callback.
RefreshSingleTimer(q, p, expire_from_now, t) ==
    LET h == [heap EXCEPT ![p] = [expire |-> now + expire_from_now, cb |-> heap[q].cb]]
        Q == Emplace(timer_queue_ \ {q}, h, p)
    IN  /\ heap' = h
        /\ timer_queue_' = Q
        /\ live' = (live \ {q}) \cup (Q \ timer_queue_)
        /\ UpdateNextExpire(Q, h, timer_fd_, t)

\* Mutant: the expired timers are moved to the vector but not erased.
PruneExpiredTimer_NoErase(s, t) ==
    LET due == {q \in timer_queue_ : Expired(q, s)} IN
    /\ expired' = due
    /\ torun' = due
    /\ UpdateNextExpire(timer_queue_, heap, [timer_fd_ EXCEPT !.ticks = 0], t)
    /\ UNCHANGED <<heap, live, timer_queue_>>

\* HandleRead up to its loop: read the timerfd, then PruneExpiredTimer, whose
\* last call of Expired reads the clock at s and whose FromNow reads it at t.
PruneExpiredTimer(s, t) ==
    LET due == {q \in timer_queue_ : Expired(q, s)} IN
    /\ timer_queue_' = timer_queue_ \ due
    /\ expired' = due
    /\ torun' = due
    /\ UpdateNextExpire(timer_queue_ \ due, heap, [timer_fd_ EXCEPT !.ticks = 0], t)
    /\ UNCHANGED <<heap, live>>

\* The loop of HandleRead runs the callbacks in the order of the map.  What
\* the callback does is up to the module that registered it.
Run(a) ==
    /\ a \in torun
    /\ \A b \in torun : heap[a].expire <= heap[b].expire
    /\ torun' = torun \ {a}
    /\ UNCHANGED expired

\* Mutant: the timers are freed before their callbacks have run.
FreeExpired_Early ==
    /\ expired # {}
    /\ live' = live \ expired
    /\ expired' = {}
    /\ UNCHANGED <<now, heap, timer_queue_, next_expire_, timer_fd_, torun>>

\* The vector is destroyed at the end of HandleRead, and its timers with it.
FreeExpired ==
    /\ torun = {}
    /\ expired # {}
    /\ live' = live \ expired
    /\ expired' = {}
    /\ UNCHANGED <<now, heap, timer_queue_, next_expire_, timer_fd_, torun>>
-----------------------------------------------------------------------------
(* What the Timer keeps true by itself, however its users behave. *)

\* The map and the vector own distinct allocated timers: no operation leaves
\* a freed timer where NextExpireTime, find or the callback loop reads it.
NoDanglingTimer ==
    /\ timer_queue_ \cup expired \subseteq live
    /\ timer_queue_ \cap expired = {}

\* An armed timerfd never fires after a timer of the map is due: Add, Remove,
\* Refresh and Prune compare next_expire_ with the new first element and set
\* the timerfd again whenever it must fire earlier.
NeverOversleeps ==
    timer_fd_.deadline # 0 =>
        \A q \in timer_queue_ : timer_fd_.deadline <= heap[q].expire

=============================================================================
