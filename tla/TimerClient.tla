---------------------------- MODULE TimerClient ----------------------------
(***************************************************************************)
(* A Timer and users that keep to its contract: a user adds a timer with a *)
(* callback of its own, keeps the pointer it is given, and passes it to    *)
(* RefreshSingleTimer and RemoveSingleTimer until its callback has run or  *)
(* the removal has succeeded.  The looper's thread reads the timerfd when  *)
(* epoll has reported it, whatever has become of its ticks since.          *)
(*                                                                         *)
(* Two users may ask for the same millisecond.  The second timer is then   *)
(* dropped, and the pointer its user holds leads to the first one.         *)
(***************************************************************************)
EXTENDS Timer

CONSTANT Durations  \* values of expire_from_now

ASSUME ClientAssumption == Durations \subseteq Nat \ {0}

VARIABLES
    reported,  \* epoll has reported the timerfd, and HandleRead is to follow
    handle,    \* Callback -> the pointer the user holds, NoAddr if none
    due,       \* Callback -> when its timer was last set to expire (history)
    status,    \* Callback -> what has become of its timer (history)
    collided   \* a timer was dropped because its key was taken (history)

userVars == <<handle, due, status, collided>>
clientVars == <<timerVars, reported, userVars>>

ClientTypeOK ==
    /\ TimerTypeOK
    /\ reported \in BOOLEAN
    /\ handle \in [Callback -> Addr \cup {NoAddr}]
    /\ due \in [Callback -> Nat]
    /\ status \in [Callback -> {"unused", "pending", "dropped", "ran", "removed"}]
    /\ collided \in BOOLEAN

ClientInit ==
    /\ TimerInit
    /\ reported = FALSE
    /\ handle = [c \in Callback |-> NoAddr]
    /\ due = [c \in Callback |-> 0]
    /\ status = [c \in Callback |-> "unused"]
    /\ collided = FALSE

\* The callback c is given a timer that expires at e, beside those of Q: it is kept,
\* or dropped when one of them has that key.
Given(c, Q, e) ==
    LET taken == \E q \in Q : heap[q].expire = e IN
    /\ due' = [due EXCEPT ![c] = e]
    /\ status' = [status EXCEPT ![c] = IF taken THEN "dropped" ELSE "pending"]
    /\ collided' = (collided \/ taken)

\* Any thread may add a timer, also while the looper runs callbacks.
Add(c) ==
    /\ status[c] = "unused"
    /\ \E p \in Addr \ live, d \in Durations, t \in ClockReads :
        /\ AddSingleTimer(p, d, c, t)
        /\ Given(c, timer_queue_, now + d)
        /\ handle' = [handle EXCEPT ![c] = p]
    /\ UNCHANGED <<reported, expired, torun>>

\* RemoveSingleTimer on the pointer held: true, or false and nothing happens.
\* The timer found need not be the user's own.
Remove(c) ==
    /\ handle[c] # NoAddr
    /\ \E found \in Lookups(handle[c]) : \E q \in found, t \in ClockReads :
        /\ RemoveSingleTimer(q, t)
        /\ status' = [status EXCEPT ![heap[q].cb] = "removed"]
    /\ handle' = [handle EXCEPT ![c] = NoAddr]
    /\ UNCHANGED <<reported, due, collided, expired, torun>>

\* The looper's thread refreshes, so it is not inside HandleRead.
Refresh(c) ==
    /\ handle[c] # NoAddr
    /\ expired = {}
    /\ \E found \in Lookups(handle[c]) :
       \E q \in found, p \in Addr \ live, d \in Durations, t \in ClockReads :
        /\ RefreshSingleTimer(q, p, d, t)
        /\ Given(heap[q].cb, timer_queue_ \ {q}, now + d)
        /\ handle' = [handle EXCEPT ![c] = p]
    /\ UNCHANGED <<reported, expired, torun>>

\* epoll reports the timerfd when it has unread ticks.
PollTimer ==
    /\ ~reported /\ expired = {}
    /\ timer_fd_.ticks > 0
    /\ reported' = TRUE
    /\ UNCHANGED <<timerVars, userVars>>

\* Another thread may have set the timerfd since, and the read then finds nothing;
\* HandleRead goes on all the same.
HandleRead ==
    /\ reported /\ expired = {}
    /\ \E t \in ClockReads : \E s \in now .. t : PruneExpiredTimer(s, t)
    /\ reported' = FALSE
    /\ UNCHANGED userVars

RunCallback ==
    \E a \in torun :
        /\ Run(a)
        /\ status' = [status EXCEPT ![heap[a].cb] = "ran"]
        /\ handle' = [handle EXCEPT ![heap[a].cb] = NoAddr]
        /\ UNCHANGED <<queueVars, reported, due, collided>>

EndHandleRead == FreeExpired /\ UNCHANGED <<reported, userVars>>

ClientTick == Tick /\ UNCHANGED <<reported, userVars>>

ClientNext ==
    \/ \E c \in Callback : Add(c) \/ Remove(c) \/ Refresh(c)
    \/ PollTimer
    \/ HandleRead
    \/ RunCallback
    \/ EndHandleRead
    \/ ClientTick

\* The looper's thread keeps polling and the clock keeps going; nobody is
\* obliged to add, refresh or remove a timer.
ClientFairness ==
    /\ WF_clientVars(PollTimer) /\ WF_clientVars(HandleRead)
    /\ WF_clientVars(RunCallback) /\ WF_clientVars(EndHandleRead)
    /\ WF_clientVars(ClientTick)

ClientSpec == ClientInit /\ [][ClientNext]_clientVars /\ ClientFairness
-----------------------------------------------------------------------------
\* The timers whose callback is still to run.
Waiting == timer_queue_ \cup torun

\* Each pending callback has one timer, due when it was last set, and no other timer is
\* in the map or in the vector, even if users who met in one millisecond remove or
\* refresh each other's timers.  Until two have met, the pointer that AddSingleTimer or
\* RefreshSingleTimer returned leads to the user's own timer.
PointersFaithful ==
    /\ \A a \in Waiting : status[heap[a].cb] = "pending" /\ due[heap[a].cb] = heap[a].expire
    /\ \A a, b \in Waiting : heap[a].cb = heap[b].cb => a = b
    /\ \A c \in Callback : status[c] = "pending" => \E a \in Waiting : heap[a].cb = c
    /\ ~collided => \A a \in Waiting : handle[heap[a].cb] = a

\* A callback runs at most once, never before its timer is due, and never after that
\* timer was removed, by whomever, or dropped, although Prune takes the timers out of the
\* map before HandleRead runs them.
RunsOnceWhenDue ==
    [][\A c \in Callback :
        /\ status[c] # status'[c] /\ status'[c] = "ran" => status[c] = "pending" /\ due[c] <= now
        /\ status[c] \in {"ran", "removed", "dropped"} => status'[c] = status[c]]_clientVars

\* A callback whose time has come is run, unless its timer is removed, dropped or
\* refreshed: the timerfd goes off for every timer of the map.
DueIsServed ==
    \A c \in Callback :
        status[c] = "pending" /\ due[c] <= now ~> status[c] # "pending" \/ due[c] > now

=============================================================================
