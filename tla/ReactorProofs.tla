--------------------------- MODULE ReactorProofs ---------------------------
(***************************************************************************)
(* First, what each operation of the Timer keeps true, whoever calls it.   *)
(* Then the Timer and users that keep to its contract (TimerClient), for   *)
(* any number of users, addresses and durations and any bound of the       *)
(* clock.  Last the reactor and its acceptor, which call the same          *)
(* operations, for any number of clients, descriptors, timers and          *)
(* messages.                                                               *)
(***************************************************************************)
EXTENDS Reactor, TimerClient, TLAPS, WellFoundedInduction

\* next_expire_ is the expiration time of the first timer of the map.
NextIsFirst == next_expire_ = NextExpireTime(timer_queue_, heap)

\* An armed timerfd is armed for next_expire_.
ArmedForNext == timer_fd_.deadline # 0 => timer_fd_.deadline = next_expire_

\* NeverOversleeps is not inductive: that the timerfd need not be set again when
\* next_expire_ stays the same rests on the two facts above.
TimerInv == TimerTypeOK /\ NoDanglingTimer /\ NextIsFirst /\ ArmedForNext
-----------------------------------------------------------------------------
\* A non-empty set of times has a first one.
LEMMA LeastNat ==
    ASSUME NEW T, T \subseteq Nat, T # {}
    PROVE  \E e \in T : \A f \in T : e <= f
<1>1. IsWellFoundedOn(OpToRel(<, Nat), Nat)
  BY NatLessThanWellFounded, Zenon
<1>2. PICK e \in T : \A f \in T : ~(<<f, e>> \in OpToRel(<, Nat))
  BY <1>1, WFMin, Zenon
<1>3. \A f \in T : ~(f < e)
  BY <1>2, Zenon DEF OpToRel
<1>4. QED
  BY <1>3

\* NextExpireTime returns a time, and no timer of the map expires before it.
LEMMA NextExpireTimeIsFirst ==
    ASSUME NEW Q, Q \subseteq Addr, NEW h \in [Addr -> SingleTimer]
    PROVE  /\ NextExpireTime(Q, h) \in Nat
           /\ \A q \in Q : NextExpireTime(Q, h) <= h[q].expire
<1>1. CASE Q = {}
  BY <1>1 DEF NextExpireTime
<1>2. CASE Q # {}
  <2> DEFINE T == {h[q].expire : q \in Q}
             First(e) == \A q \in Q : e <= h[q].expire
  <2>1. T \subseteq Nat /\ T # {}
    BY <1>2 DEF SingleTimer
  <2>2. PICK e \in T : \A f \in T : e <= f
    BY <2>1, LeastNat, Zenon
  <2>3. First(e)
    BY <2>2
  <2>4. (CHOOSE x \in T : First(x)) \in T /\ First(CHOOSE x \in T : First(x))
    <3> HIDE DEF T, First
    <3> QED
      BY <2>3
  <2>5. NextExpireTime(Q, h) = CHOOSE x \in T : First(x)
    BY <1>2, Zenon DEF NextExpireTime
  <2>6. QED
    BY <2>1, <2>4, <2>5, Zenon
<1>3. QED
  BY <1>1, <1>2

\* The lines that end every operation leave next_expire_ the time of the first
\* timer and the timerfd armed for it or not at all.
LEMMA UpdateNextExpireKeeps ==
    ASSUME TimerInv,
           NEW Q, Q \subseteq Addr, NEW h \in [Addr -> SingleTimer],
           NEW fd \in TimerFd, fd.deadline = timer_fd_.deadline,
           NEW t \in ClockReads,
           UpdateNextExpire(Q, h, fd, t), timer_queue_' = Q, heap' = h
    PROVE  /\ now' \in Nat \ {0} /\ now <= now'
           /\ next_expire_' \in Nat
           /\ timer_fd_' \in TimerFd
           /\ NextIsFirst'
           /\ ArmedForNext'
<1> DEFINE e == NextExpireTime(Q, h)
<1>1. t \in Nat \ {0} /\ now <= t
  BY TimerAssumption DEF ClockReads, TimerInv, TimerTypeOK
<1>2. e \in Nat
  BY NextExpireTimeIsFirst
<1>3. now' = t /\ next_expire_' = e
  BY DEF UpdateNextExpire
<1>4. timer_fd_' \in TimerFd /\ ArmedForNext'
  <2> HIDE DEF e
  <2>1. CASE e # next_expire_
    <3>1. timer_fd_' = ResetTimerFd(FromNow(e, t), t)
      BY <2>1 DEF UpdateNextExpire, e
    <3>2. QED
      BY <1>1, <1>2, <1>3, <3>1 DEF ResetTimerFd, FromNow, TimerFd, ArmedForNext
  <2>2. CASE e = next_expire_
    <3>1. timer_fd_' = Elapse(fd, t)
      BY <2>2 DEF UpdateNextExpire, e
    <3>2. QED
      BY <1>3, <2>2, <3>1 DEF Elapse, TimerFd, ArmedForNext, TimerInv
  <2>3. QED
    BY <2>1, <2>2
<1>5. NextIsFirst'
  BY <1>3 DEF NextIsFirst
<1>6. QED
  BY <1>1, <1>2, <1>3, <1>4, <1>5
-----------------------------------------------------------------------------
\* An empty Timer.
LEMMA TimerInitKeeps == TimerInit => TimerInv
<1> SUFFICES ASSUME TimerInit PROVE TimerInv
  OBVIOUS
<1>1. TimerTypeOK
  BY DEF TimerInit, TimerTypeOK, SingleTimer, TimerFd
<1>2. NoDanglingTimer /\ NextIsFirst /\ ArmedForNext
  BY DEF TimerInit, NoDanglingTimer, NextIsFirst, NextExpireTime, ArmedForNext
<1>3. QED
  BY <1>1, <1>2 DEF TimerInv

\* The clock moves, and the timerfd goes off when it is time.
LEMMA TickKeeps ==
    ASSUME TimerInv, Tick
    PROVE  TimerInv'
<1>1. TimerTypeOK'
  BY DEF TimerInv, TimerTypeOK, TimerFd, Tick, Elapse
<1>2. NoDanglingTimer' /\ NextIsFirst'
  BY DEF TimerInv, NoDanglingTimer, NextIsFirst, Tick
<1>3. ArmedForNext'
  BY DEF TimerInv, TimerTypeOK, TimerFd, ArmedForNext, Tick, Elapse
<1>4. QED
  BY <1>1, <1>2, <1>3 DEF TimerInv

\* A timer is put at a free address, so it takes over nobody's object.
LEMMA AddKeeps ==
    ASSUME TimerInv,
           NEW p \in Addr \ live, NEW d \in Nat, NEW c \in Callback, NEW t \in ClockReads,
           AddSingleTimer(p, d, c, t), UNCHANGED <<expired, torun>>
    PROVE  TimerInv'
<1> DEFINE h == [heap EXCEPT ![p] = [expire |-> now + d, cb |-> c]]
           Q == Emplace(timer_queue_, h, p)
<1>1. h \in [Addr -> SingleTimer]
  BY DEF TimerInv, TimerTypeOK, SingleTimer
<1>2. timer_queue_ \subseteq Q /\ Q \subseteq timer_queue_ \cup {p} /\ Q \subseteq Addr
  BY DEF Emplace, TimerInv, TimerTypeOK
<1>3. /\ heap' = h /\ timer_queue_' = Q /\ live' = live \cup (Q \ timer_queue_)
      /\ UpdateNextExpire(Q, h, timer_fd_, t)
  BY DEF AddSingleTimer
<1> HIDE DEF h, Q
<1>4. timer_fd_ \in TimerFd
  BY DEF TimerInv, TimerTypeOK
<1>5. /\ now' \in Nat \ {0} /\ next_expire_' \in Nat /\ timer_fd_' \in TimerFd
      /\ NextIsFirst' /\ ArmedForNext'
  BY <1>1, <1>2, <1>3, <1>4, UpdateNextExpireKeeps
<1>6. TimerTypeOK'
  BY <1>1, <1>2, <1>3, <1>5 DEF TimerInv, TimerTypeOK
<1>7. NoDanglingTimer'
  BY <1>2, <1>3 DEF TimerInv, NoDanglingTimer
<1>8. QED
  BY <1>5, <1>6, <1>7 DEF TimerInv

\* A timer of the map is erased and freed at once.
LEMMA RemoveKeeps ==
    ASSUME TimerInv, NEW q \in timer_queue_, NEW t \in ClockReads,
           RemoveSingleTimer(q, t), expired' = expired, torun' \subseteq torun
    PROVE  TimerInv'
<1>1. timer_fd_ \in TimerFd /\ heap \in [Addr -> SingleTimer] /\ timer_queue_ \ {q} \subseteq Addr
  BY DEF TimerInv, TimerTypeOK
<1>2. /\ now' \in Nat \ {0} /\ next_expire_' \in Nat /\ timer_fd_' \in TimerFd
      /\ NextIsFirst' /\ ArmedForNext'
  BY <1>1, UpdateNextExpireKeeps DEF RemoveSingleTimer
<1>3. TimerTypeOK'
  BY <1>2 DEF TimerInv, TimerTypeOK, RemoveSingleTimer
<1>4. NoDanglingTimer'
  BY DEF TimerInv, NoDanglingTimer, RemoveSingleTimer
<1>5. QED
  BY <1>2, <1>3, <1>4 DEF TimerInv

\* The old timer is erased, the new one put at a free address.
LEMMA RefreshKeeps ==
    ASSUME TimerInv,
           NEW q \in timer_queue_, NEW p \in Addr \ live, NEW d \in Nat, NEW t \in ClockReads,
           RefreshSingleTimer(q, p, d, t), UNCHANGED <<expired, torun>>
    PROVE  TimerInv'
<1> DEFINE h == [heap EXCEPT ![p] = [expire |-> now + d, cb |-> heap[q].cb]]
           Q == Emplace(timer_queue_ \ {q}, h, p)
<1>1. h \in [Addr -> SingleTimer]
  BY DEF TimerInv, TimerTypeOK, SingleTimer
<1>2. Q \subseteq (timer_queue_ \ {q}) \cup {p} /\ Q \subseteq Addr
  BY DEF Emplace, TimerInv, TimerTypeOK
<1>3. /\ heap' = h /\ timer_queue_' = Q /\ live' = (live \ {q}) \cup (Q \ timer_queue_)
      /\ UpdateNextExpire(Q, h, timer_fd_, t)
  BY DEF RefreshSingleTimer
<1> HIDE DEF h, Q
<1>4. timer_fd_ \in TimerFd
  BY DEF TimerInv, TimerTypeOK
<1>5. /\ now' \in Nat \ {0} /\ next_expire_' \in Nat /\ timer_fd_' \in TimerFd
      /\ NextIsFirst' /\ ArmedForNext'
  BY <1>1, <1>2, <1>3, <1>4, UpdateNextExpireKeeps
<1>6. TimerTypeOK'
  BY <1>1, <1>2, <1>3, <1>5 DEF TimerInv, TimerTypeOK
<1>7. NoDanglingTimer'
  BY <1>2, <1>3 DEF TimerInv, NoDanglingTimer
<1>8. QED
  BY <1>5, <1>6, <1>7 DEF TimerInv

\* The expired timers change owner, from the map to the vector.
LEMMA PruneKeeps ==
    ASSUME TimerInv, expired = {},
           NEW t \in ClockReads, NEW s \in now .. t, PruneExpiredTimer(s, t)
    PROVE  TimerInv'
<1> DEFINE over == {q \in timer_queue_ : Expired(q, s)}
           fd == [timer_fd_ EXCEPT !.ticks = 0]
<1>1. heap \in [Addr -> SingleTimer] /\ over \subseteq timer_queue_ /\ timer_queue_ \ over \subseteq Addr
  BY DEF TimerInv, TimerTypeOK
<1>2. fd \in TimerFd /\ fd.deadline = timer_fd_.deadline
  BY DEF TimerInv, TimerTypeOK, TimerFd
<1>3. /\ timer_queue_' = timer_queue_ \ over /\ expired' = over /\ torun' = over
      /\ UpdateNextExpire(timer_queue_ \ over, heap, fd, t)
      /\ heap' = heap /\ live' = live
  BY DEF PruneExpiredTimer
<1> HIDE DEF over, fd
<1>4. /\ now' \in Nat \ {0} /\ next_expire_' \in Nat /\ timer_fd_' \in TimerFd
      /\ NextIsFirst' /\ ArmedForNext'
  BY <1>1, <1>2, <1>3, UpdateNextExpireKeeps
<1>5. TimerTypeOK'
  BY <1>1, <1>3, <1>4 DEF TimerInv, TimerTypeOK
<1>6. NoDanglingTimer'
  BY <1>1, <1>3 DEF TimerInv, NoDanglingTimer
<1>7. QED
  BY <1>4, <1>5, <1>6 DEF TimerInv

\* Running a callback frees nothing; the vector's timers are freed together.
LEMMA RunKeeps ==
    ASSUME TimerInv, NEW a \in torun, Run(a), UNCHANGED queueVars
    PROVE  TimerInv'
BY DEF TimerInv, TimerTypeOK, NoDanglingTimer, NextIsFirst, ArmedForNext, Run, queueVars

\* FreeExpired keeps the invariant: it frees timers that are no longer in the queue.
LEMMA FreeExpiredKeeps ==
    ASSUME TimerInv, FreeExpired
    PROVE  TimerInv'
BY DEF TimerInv, TimerTypeOK, NoDanglingTimer, NextIsFirst, ArmedForNext, FreeExpired

\* A step that leaves the Timer alone keeps the invariant.
LEMMA TimerStutterKeeps ==
    ASSUME TimerInv, UNCHANGED timerVars
    PROVE  TimerInv'
BY DEF TimerInv, TimerTypeOK, NoDanglingTimer, NextIsFirst, ArmedForNext, timerVars, queueVars

\* The inductive invariant gives the property: an armed timerfd is armed for
\* the first timer of the map.
LEMMA TimerInvNeverOversleeps == TimerInv => NeverOversleeps
<1> SUFFICES ASSUME TimerInv, timer_fd_.deadline # 0, NEW q \in timer_queue_
             PROVE  timer_fd_.deadline <= heap[q].expire
  BY DEF NeverOversleeps
<1>1. timer_fd_.deadline = NextExpireTime(timer_queue_, heap)
  BY DEF TimerInv, ArmedForNext, NextIsFirst
<1>2. NextExpireTime(timer_queue_, heap) <= heap[q].expire
  BY NextExpireTimeIsFirst DEF TimerInv, TimerTypeOK
<1>3. QED
  BY <1>1, <1>2
-----------------------------------------------------------------------------
ClientInv == TimerInv /\ ClientTypeOK

\* Timers whose callback is still to be run have distinct expiration times, since a
\* second timer of the same millisecond is dropped;
Unique == \A a, b \in Waiting : heap[a].expire = heap[b].expire => a = b

\* those that Prune has taken out are over, so that no later one gets their time;
RunsPast == \A a \in torun : heap[a].expire <= now

\* they were all made by a user;
UsersOwn == \A a \in Waiting : heap[a].cb \in Callback

\* and until two users have met, a user who holds a pointer waits for a callback.
HoldersWait == ~collided => \A c \in Callback : handle[c] # NoAddr => status[c] = "pending"

FaithfulInv == Unique /\ RunsPast /\ UsersOwn /\ HoldersWait /\ PointersFaithful
-----------------------------------------------------------------------------
\* An unused Timer satisfies the invariants.
LEMMA ClientInitInv == ClientInit => ClientInv /\ FaithfulInv
<1> SUFFICES ASSUME ClientInit PROVE ClientInv /\ FaithfulInv
  OBVIOUS
<1>1. TimerInv
  BY TimerInitKeeps DEF ClientInit
<1>2. ClientTypeOK
  BY <1>1 DEF ClientInit, ClientTypeOK, TimerInv
<1>3. FaithfulInv
  BY DEF ClientInit, TimerInit, FaithfulInv, Waiting, Unique, RunsPast, UsersOwn, HoldersWait, PointersFaithful
<1>4. QED
  BY <1>1, <1>2, <1>3 DEF ClientInv

\* Every call of a user, every step of HandleRead and every tick keeps the
\* invariant of the Timer, collisions of expiration times included.
LEMMA ClientNextInv == ClientInv /\ [ClientNext]_clientVars => ClientInv'
<1> SUFFICES ASSUME ClientInv, [ClientNext]_clientVars PROVE ClientInv'
  OBVIOUS
<1> USE ClientAssumption
<1>1. ASSUME NEW c \in Callback, Add(c) PROVE ClientInv'
  <2>1. PICK p \in Addr \ live, d \in Durations, t \in ClockReads :
            /\ AddSingleTimer(p, d, c, t)
            /\ Given(c, timer_queue_, now + d)
            /\ handle' = [handle EXCEPT ![c] = p]
    BY <1>1, Zenon DEF Add
  <2>2. d \in Nat /\ UNCHANGED <<expired, torun>>
    BY <1>1 DEF Add
  <2>3. TimerInv'
    BY <2>1, <2>2, AddKeeps DEF ClientInv
  <2>4. now + d \in Nat
    BY <2>2 DEF ClientInv, ClientTypeOK, TimerTypeOK
  <2>5. ClientTypeOK'
    BY <1>1, <2>1, <2>3, <2>4 DEF Add, Given, ClientInv, ClientTypeOK, TimerInv
  <2>6. QED
    BY <2>3, <2>5 DEF ClientInv
<1>2. ASSUME NEW c \in Callback, Remove(c) PROVE ClientInv'
  <2>1. PICK q \in timer_queue_, t \in ClockReads : RemoveSingleTimer(q, t)
    BY <1>2 DEF Remove, Lookups, Find
  <2>2. TimerInv'
    BY <1>2, <2>1, RemoveKeeps DEF ClientInv, Remove
  <2>3. ClientTypeOK'
    BY <1>2, <2>2 DEF Remove, ClientInv, ClientTypeOK, TimerInv
  <2>4. QED
    BY <2>2, <2>3 DEF ClientInv
<1>3. ASSUME NEW c \in Callback, Refresh(c) PROVE ClientInv'
  <2>1. PICK q \in timer_queue_, p \in Addr \ live, d \in Durations, t \in ClockReads :
            /\ RefreshSingleTimer(q, p, d, t)
            /\ Given(heap[q].cb, timer_queue_ \ {q}, now + d)
            /\ handle' = [handle EXCEPT ![c] = p]
    BY <1>3, Zenon DEF Refresh, Lookups, Find
  <2>2. d \in Nat /\ UNCHANGED <<expired, torun>>
    BY <1>3 DEF Refresh
  <2>3. TimerInv'
    BY <2>1, <2>2, RefreshKeeps DEF ClientInv
  <2>4. now + d \in Nat
    BY <2>2 DEF ClientInv, ClientTypeOK, TimerTypeOK
  <2>5. ClientTypeOK'
    BY <1>3, <2>1, <2>3, <2>4 DEF Refresh, Given, ClientInv, ClientTypeOK, TimerInv
  <2>6. QED
    BY <2>3, <2>5 DEF ClientInv
<1>4. CASE HandleRead
  <2>1. TimerInv'
    BY <1>4, PruneKeeps DEF HandleRead, ClientInv
  <2>2. QED
    BY <1>4, <2>1 DEF HandleRead, ClientInv, ClientTypeOK, TimerInv, userVars
<1>5. CASE RunCallback
  <2>1. PICK a \in torun : Run(a) /\ status' = [status EXCEPT ![heap[a].cb] = "ran"]
                           /\ handle' = [handle EXCEPT ![heap[a].cb] = NoAddr]
                           /\ UNCHANGED <<queueVars, reported, due, collided>>
    BY <1>5, Zenon DEF RunCallback
  <2>2. TimerInv'
    BY <2>1, RunKeeps DEF ClientInv
  <2>3. ClientTypeOK'
    BY <2>1, <2>2 DEF ClientInv, ClientTypeOK, TimerInv
  <2>4. QED
    BY <2>2, <2>3 DEF ClientInv
<1>6. CASE EndHandleRead
  <2>1. TimerInv'
    BY <1>6, FreeExpiredKeeps DEF EndHandleRead, ClientInv
  <2>2. QED
    BY <1>6, <2>1 DEF EndHandleRead, ClientInv, ClientTypeOK, TimerInv, userVars
<1>7. CASE ClientTick
  <2>1. TimerInv'
    BY <1>7, TickKeeps DEF ClientTick, ClientInv
  <2>2. QED
    BY <1>7, <2>1 DEF ClientTick, ClientInv, ClientTypeOK, TimerInv, userVars
<1>8. CASE UNCHANGED clientVars
  <2>1. TimerInv'
    BY <1>8, TimerStutterKeeps DEF clientVars, ClientInv
  <2>2. QED
    BY <1>8, <2>1 DEF clientVars, ClientInv, ClientTypeOK, TimerInv, userVars
<1>9. CASE PollTimer
  <2>1. TimerInv'
    BY <1>9, TimerStutterKeeps DEF PollTimer, ClientInv
  <2>2. QED
    BY <1>9, <2>1 DEF PollTimer, ClientInv, ClientTypeOK, TimerInv, userVars
<1>10. QED
  BY <1>1, <1>2, <1>3, <1>4, <1>5, <1>6, <1>7, <1>8, <1>9 DEF ClientNext

\* Types are kept.
THEOREM ClientTypes == ClientSpec => []ClientTypeOK
<1>1. ClientInv => ClientTypeOK
  BY DEF ClientInv
<1>2. QED
  BY <1>1, ClientInitInv, ClientNextInv, PTL DEF ClientSpec

\* The map and the vector of HandleRead never hold a freed timer, nor the same
\* timer both, even when expiration times collide or users pass stale pointers.
THEOREM TimersAreAlive == ClientSpec => []NoDanglingTimer
<1>1. ClientInv => NoDanglingTimer
  BY DEF ClientInv, TimerInv
<1>2. QED
  BY <1>1, ClientInitInv, ClientNextInv, PTL DEF ClientSpec

\* An armed timerfd fires no later than the first timer of the map is due.
THEOREM NoOversleeping == ClientSpec => []NeverOversleeps
<1>1. ClientInv => NeverOversleeps
  BY TimerInvNeverOversleeps DEF ClientInv
<1>2. QED
  BY <1>1, ClientInitInv, ClientNextInv, PTL DEF ClientSpec
-----------------------------------------------------------------------------
\* Until two users have met, the pointer a user holds leads find to the user's own
\* timer, or to none when Prune has already taken that timer out.
LEMMA FindsOwnTimer ==
    ASSUME ClientInv, FaithfulInv, ~collided, NEW c \in Callback, handle[c] # NoAddr,
           NEW found \in Lookups(handle[c]), NEW q \in found
    PROVE  heap[q].cb = c
<1>1. PICK a \in Waiting : heap[a].cb = c
  BY Zenon DEF FaithfulInv, HoldersWait, PointersFaithful
<1>2. handle[c] = a
  BY <1>1, Zenon DEF FaithfulInv, PointersFaithful
<1>3. a \in live
  BY <1>1 DEF Waiting, ClientInv, TimerInv, TimerTypeOK, NoDanglingTimer
<1>4. q \in timer_queue_ /\ heap[q].expire = heap[a].expire
  BY <1>2, <1>3 DEF Lookups, KeysReadAt, Find
<1>5. q = a
  BY <1>1, <1>4 DEF Waiting, FaithfulInv, Unique
<1>6. QED
  BY <1>1, <1>5

\* The user b gets a timer at a free address for a later time, beside the timers R of
\* the map, and the pointer goes to the user c.  The timer joins the others or is dropped.
LEMMA NewTimerFaithful ==
    ASSUME ClientInv, FaithfulInv,
           NEW b \in Callback, NEW c \in Callback, NEW p \in Addr \ live, NEW e \in Nat, now < e,
           NEW R, R \subseteq timer_queue_,
           \A q \in R \cup torun : heap[q].cb # b,
           \A q \in timer_queue_ \ R : heap[q].cb = b,
           ~collided => b = c,
           heap' = [heap EXCEPT ![p] = [expire |-> e, cb |-> b]],
           timer_queue_' = Emplace(R, heap', p),
           now' \in Nat, now <= now', torun' = torun,
           handle' = [handle EXCEPT ![c] = p],
           Given(b, R, e)
    PROVE  FaithfulInv'
<1> USE DEF FaithfulInv
<1> DEFINE taken == \E q \in R : heap[q].expire = e
           New == IF taken THEN {} ELSE {p}
           Old == R \cup torun
<1>1. /\ Waiting \subseteq live
      /\ heap \in [Addr -> SingleTimer] /\ Waiting \subseteq Addr
      /\ now \in Nat
      /\ p \in Addr /\ p \notin live
  BY DEF Waiting, ClientInv, TimerInv, TimerTypeOK, NoDanglingTimer
<1>2. Old \subseteq Waiting /\ torun \subseteq Waiting
  BY DEF Waiting
<1>3. \A a \in Old : a # p /\ heap'[a] = heap[a]
  BY <1>1, <1>2
<1>4. heap'[p] = [expire |-> e, cb |-> b]
  BY <1>1
<1>5. Waiting' = Old \cup New
  <2>1. timer_queue_' = R \cup New
    BY <1>3, <1>4 DEF Emplace
  <2>2. QED
    BY <2>1 DEF Waiting
<1>6. \A a \in torun : heap[a].expire < e
  BY <1>1, <1>2 DEF RunsPast, SingleTimer
<1>7. ~taken => \A a \in Old : heap[a].expire # e
  BY <1>1, <1>2, <1>6 DEF SingleTimer
<1>8. /\ due' = [due EXCEPT ![b] = e]
      /\ status' = [status EXCEPT ![b] = IF taken THEN "dropped" ELSE "pending"]
      /\ collided' = (collided \/ taken)
  BY DEF Given
<1>9. \A a \in New : a = p /\ ~taken
  OBVIOUS
<1>10. p \in New <=> ~taken
  OBVIOUS
<1> HIDE DEF taken, New, Old
<1>11. \A a \in Waiting' : (a \in Old /\ heap'[a] = heap[a] /\ heap[a].cb # b) \/ (a = p /\ ~taken)
  BY <1>3, <1>5, <1>9 DEF Old
<1>12. Unique'
  BY <1>2, <1>4, <1>7, <1>11 DEF Unique
<1>13. RunsPast'
  BY <1>1, <1>2, <1>3 DEF RunsPast, SingleTimer, Old
<1>14. UsersOwn'
  BY <1>2, <1>4, <1>11 DEF UsersOwn
<1>15. \A x \in Callback : x # b => status'[x] = status[x] /\ due'[x] = due[x]
  BY <1>8 DEF ClientInv, ClientTypeOK
<1>16. due'[b] = e /\ status'[b] = IF taken THEN "dropped" ELSE "pending"
  BY <1>8 DEF ClientInv, ClientTypeOK
<1>17. handle'[c] = p /\ \A x \in Callback : x # c => handle'[x] = handle[x]
  BY DEF ClientInv, ClientTypeOK
<1>18. ~collided' => ~collided /\ ~taken /\ b = c
  BY <1>8
<1>19. HoldersWait'
  BY <1>15, <1>16, <1>17, <1>18 DEF HoldersWait
<1>20. \A a \in Waiting' : status'[heap'[a].cb] = "pending" /\ due'[heap'[a].cb] = heap'[a].expire
  BY <1>2, <1>4, <1>11, <1>15, <1>16 DEF UsersOwn, PointersFaithful
<1>21. \A x, y \in Waiting' : heap'[x].cb = heap'[y].cb => x = y
  BY <1>2, <1>4, <1>11 DEF PointersFaithful
<1>22. ASSUME NEW x \in Callback, status'[x] = "pending"
       PROVE  \E a \in Waiting' : heap'[a].cb = x
  <2>1. CASE x = b
    <3>1. p \in Waiting'
      BY <1>5, <1>10, <1>16, <1>22, <2>1
    <3>2. heap'[p].cb = x
      BY <1>4, <2>1
    <3>3. QED
      BY <3>1, <3>2
  <2>2. CASE x # b
    <3>1. PICK a \in Waiting : heap[a].cb = x
      BY <1>15, <1>22, <2>2 DEF PointersFaithful
    <3>2. a \in Old
      BY <2>2, <3>1 DEF Waiting, Old
    <3>3. heap'[a].cb = x /\ a \in Waiting'
      BY <1>3, <1>5, <3>1, <3>2
    <3>4. QED
      BY <3>3
  <2>3. QED
    BY <2>1, <2>2
<1>23. ASSUME ~collided', NEW a \in Waiting' PROVE handle'[heap'[a].cb] = a
  BY <1>2, <1>4, <1>11, <1>17, <1>18, <1>23 DEF UsersOwn, PointersFaithful
<1>24. PointersFaithful'
  BY <1>20, <1>21, <1>22, <1>23, Zenon DEF PointersFaithful
<1>25. QED
  BY <1>12, <1>13, <1>14, <1>19, <1>24

\* AddSingleTimer keeps pointers faithful, whether its timer is kept or dropped.
LEMMA AddFaithful ==
    ASSUME ClientInv, FaithfulInv, NEW c \in Callback, Add(c)
    PROVE  FaithfulInv'
<1>1. PICK p \in Addr \ live, d \in Durations, t \in ClockReads :
          /\ AddSingleTimer(p, d, c, t)
          /\ Given(c, timer_queue_, now + d)
          /\ handle' = [handle EXCEPT ![c] = p]
  BY Zenon DEF Add
<1> DEFINE e == now + d
           R == timer_queue_
<1>2. now \in Nat /\ e \in Nat /\ now < e
  BY ClientAssumption DEF ClientInv, ClientTypeOK, TimerTypeOK
<1>3. now' = t /\ now' \in Nat /\ now <= now'
  BY <1>1, TimerAssumption DEF AddSingleTimer, UpdateNextExpire, ClockReads, ClientInv, ClientTypeOK, TimerTypeOK
<1>4. \A q \in Waiting : heap[q].cb # c
  BY DEF Add, FaithfulInv, PointersFaithful
<1>5. /\ R \subseteq timer_queue_
      /\ \A q \in R \cup torun : heap[q].cb # c
      /\ \A q \in timer_queue_ \ R : heap[q].cb = c
  BY <1>4 DEF Waiting
<1>6. heap' = [heap EXCEPT ![p] = [expire |-> e, cb |-> c]] /\ timer_queue_' = Emplace(R, heap', p)
  BY <1>1 DEF AddSingleTimer
<1>7. torun' = torun /\ handle' = [handle EXCEPT ![c] = p] /\ Given(c, R, e)
  BY <1>1 DEF Add
<1> HIDE DEF e, R
<1>8. QED
  BY <1>2, <1>3, <1>5, <1>6, <1>7, NewTimerFaithful, Zenon

\* RefreshSingleTimer keeps pointers faithful: the user gets the pointer to the new
\* timer, which has the callback of the one that find returned.
LEMMA RefreshFaithful ==
    ASSUME ClientInv, FaithfulInv, NEW c \in Callback, Refresh(c)
    PROVE  FaithfulInv'
<1>1. PICK found \in Lookups(handle[c]) :
        \E q \in found, p \in Addr \ live, d \in Durations, t \in ClockReads :
          /\ RefreshSingleTimer(q, p, d, t)
          /\ Given(heap[q].cb, timer_queue_ \ {q}, now + d)
          /\ handle' = [handle EXCEPT ![c] = p]
  BY Zenon DEF Refresh
<1>2. PICK q \in found, p \in Addr \ live, d \in Durations, t \in ClockReads :
          /\ RefreshSingleTimer(q, p, d, t)
          /\ Given(heap[q].cb, timer_queue_ \ {q}, now + d)
          /\ handle' = [handle EXCEPT ![c] = p]
  BY <1>1, Zenon
<1> DEFINE e == now + d
           R == timer_queue_ \ {q}
           b == heap[q].cb
<1>3. q \in timer_queue_ /\ q \in Waiting
  BY DEF Lookups, Find, Waiting
<1>4. b \in Callback
  BY <1>3 DEF FaithfulInv, UsersOwn
<1>5. ~collided => b = c
  BY FindsOwnTimer DEF Refresh
<1>6. now \in Nat /\ e \in Nat /\ now < e
  BY ClientAssumption DEF ClientInv, ClientTypeOK, TimerTypeOK
<1>7. now' = t /\ now' \in Nat /\ now <= now'
  BY <1>2, TimerAssumption DEF RefreshSingleTimer, UpdateNextExpire, ClockReads, ClientInv, ClientTypeOK, TimerTypeOK
<1>8. q \notin torun
  BY <1>3 DEF ClientInv, TimerInv, TimerTypeOK, NoDanglingTimer
<1>9. \A x \in R \cup torun : heap[x].cb # b
  BY <1>3, <1>8 DEF Waiting, FaithfulInv, PointersFaithful
<1>10. heap' = [heap EXCEPT ![p] = [expire |-> e, cb |-> b]] /\ timer_queue_' = Emplace(R, heap', p)
  BY <1>2 DEF RefreshSingleTimer
<1>11. torun' = torun /\ handle' = [handle EXCEPT ![c] = p] /\ Given(b, R, e)
  BY <1>2 DEF Refresh
<1>12. R \subseteq timer_queue_ /\ \A a \in timer_queue_ \ R : heap[a].cb = b
  OBVIOUS
<1> HIDE DEF e, R, b
<1>13. QED
  BY <1>4, <1>5, <1>6, <1>7, <1>9, <1>10, <1>11, <1>12, NewTimerFaithful, Zenon

\* Taking out a timer, by Remove or after its callback, ends one user's wait; until two
\* users have met it is the user who gives up the pointer.
LEMMA LessTimersFaithful ==
    ASSUME ClientInv, FaithfulInv, NEW a \in Waiting, NEW c \in Callback, NEW end,
           Waiting' = Waiting \ {a}, torun' \subseteq torun,
           ~collided => heap[a].cb = c,
           status' = [status EXCEPT ![heap[a].cb] = end], end # "pending",
           handle' = [handle EXCEPT ![c] = NoAddr],
           UNCHANGED <<heap, due, collided>>, now' \in Nat, now <= now'
    PROVE  FaithfulInv'
<1> USE DEF FaithfulInv
<1>1. Unique' /\ UsersOwn'
  BY DEF Unique, UsersOwn
<1>2. RunsPast'
  BY DEF RunsPast, ClientInv, ClientTypeOK, TimerTypeOK, SingleTimer
<1>3. heap[a].cb \in Callback /\ status'[heap[a].cb] = end
  BY DEF UsersOwn, ClientInv, ClientTypeOK
<1>4. \A x \in Callback : x # heap[a].cb => status'[x] = status[x]
  BY DEF ClientInv, ClientTypeOK
<1>5. handle'[c] = NoAddr /\ \A x \in Callback : x # c => handle'[x] = handle[x]
  BY DEF ClientInv, ClientTypeOK
<1>6. \A x \in Waiting' : x \in Waiting /\ heap[x].cb \in Callback /\ heap[x].cb # heap[a].cb
  BY DEF PointersFaithful, UsersOwn
<1>7. HoldersWait'
  BY <1>3, <1>4, <1>5 DEF HoldersWait
<1>8. \A x \in Waiting' : status'[heap'[x].cb] = "pending" /\ due'[heap'[x].cb] = heap'[x].expire
  BY <1>4, <1>6 DEF PointersFaithful
<1>9. \A x, y \in Waiting' : heap'[x].cb = heap'[y].cb => x = y
  BY <1>6 DEF PointersFaithful
<1>10. ASSUME NEW x \in Callback, status'[x] = "pending" PROVE \E y \in Waiting' : heap'[y].cb = x
  <2>1. x # heap[a].cb /\ status[x] = "pending"
    BY <1>3, <1>4, <1>10
  <2>2. PICK y \in Waiting : heap[y].cb = x
    BY <2>1 DEF PointersFaithful
  <2>3. y \in Waiting' /\ heap'[y].cb = x
    BY <2>1, <2>2
  <2>4. QED
    BY <2>3
<1>11. ASSUME ~collided', NEW x \in Waiting' PROVE handle'[heap'[x].cb] = x
  BY <1>5, <1>6, <1>11 DEF PointersFaithful
<1>12. PointersFaithful'
  BY <1>8, <1>9, <1>10, <1>11, Zenon DEF PointersFaithful
<1>13. QED
  BY <1>1, <1>2, <1>7, <1>12

\* RemoveSingleTimer keeps pointers faithful: the timer it frees is the user's own,
\* until two users have met.
LEMMA RemoveFaithful ==
    ASSUME ClientInv, FaithfulInv, NEW c \in Callback, Remove(c)
    PROVE  FaithfulInv'
<1>1. PICK found \in Lookups(handle[c]) : \E q \in found, t \in ClockReads :
          RemoveSingleTimer(q, t) /\ status' = [status EXCEPT ![heap[q].cb] = "removed"]
  BY Zenon DEF Remove
<1>2. PICK q \in found, t \in ClockReads :
          RemoveSingleTimer(q, t) /\ status' = [status EXCEPT ![heap[q].cb] = "removed"]
  BY <1>1, Zenon
<1>3. ~collided => heap[q].cb = c
  BY FindsOwnTimer DEF Remove
<1>4. q \in timer_queue_ /\ q \in Waiting
  BY DEF Lookups, Find, Waiting
<1>5. q \notin torun
  BY <1>4 DEF ClientInv, TimerInv, TimerTypeOK, NoDanglingTimer
<1>6. /\ timer_queue_' = timer_queue_ \ {q} /\ torun' = torun
      /\ UNCHANGED <<heap, due, collided>>
      /\ handle' = [handle EXCEPT ![c] = NoAddr]
      /\ now' \in Nat /\ now <= now'
  BY <1>2, TimerAssumption
     DEF Remove, RemoveSingleTimer, UpdateNextExpire, ClockReads, ClientInv, ClientTypeOK, TimerTypeOK
<1>7. Waiting' = Waiting \ {q} /\ torun' \subseteq torun
  BY <1>5, <1>6 DEF Waiting
<1>8. QED
  BY <1>2, <1>3, <1>4, <1>6, <1>7, LessTimersFaithful

\* Run keeps pointers faithful: the callback that runs belongs to an expired timer.
LEMMA RunCallbackFaithful ==
    ASSUME ClientInv, FaithfulInv, RunCallback
    PROVE  FaithfulInv'
<1>1. PICK a \in torun : /\ Run(a)
                         /\ status' = [status EXCEPT ![heap[a].cb] = "ran"]
                         /\ handle' = [handle EXCEPT ![heap[a].cb] = NoAddr]
                         /\ UNCHANGED <<queueVars, reported, due, collided>>
  BY Zenon DEF RunCallback
<1>2. a \in Waiting /\ a \notin timer_queue_
  BY DEF Waiting, ClientInv, TimerInv, TimerTypeOK, NoDanglingTimer
<1>3. heap[a].cb \in Callback
  BY <1>2 DEF FaithfulInv, UsersOwn
<1>4. Waiting' = Waiting \ {a} /\ torun' \subseteq torun
  BY <1>1, <1>2 DEF Run, queueVars, Waiting
<1>5. UNCHANGED <<heap, due, collided>> /\ now' \in Nat /\ now <= now'
  BY <1>1 DEF queueVars, ClientInv, ClientTypeOK, TimerTypeOK
<1>6. QED
  BY <1>1, <1>2, <1>3, <1>4, <1>5, LessTimersFaithful

\* Prune moves timers from the map to the vector, with the clock at or past
\* their time.
LEMMA HandleReadFaithful ==
    ASSUME ClientInv, FaithfulInv, HandleRead
    PROVE  FaithfulInv'
<1> USE DEF FaithfulInv
<1>1. PICK t \in ClockReads : \E s \in now .. t : PruneExpiredTimer(s, t)
  BY DEF HandleRead
<1>2. PICK s \in now .. t : PruneExpiredTimer(s, t)
  BY <1>1
<1> DEFINE over == {q \in timer_queue_ : Expired(q, s)}
<1>3. torun = {} /\ heap \in [Addr -> SingleTimer] /\ timer_queue_ \subseteq Addr
  BY DEF HandleRead, ClientInv, ClientTypeOK, TimerTypeOK
<1>4. /\ timer_queue_' = timer_queue_ \ over /\ torun' = over
      /\ UNCHANGED <<heap, handle, due, status, collided>> /\ now' = t
  BY <1>2 DEF PruneExpiredTimer, UpdateNextExpire, HandleRead, userVars
<1>5. Waiting' = Waiting
  BY <1>3, <1>4 DEF Waiting
<1>6. RunsPast'
  <2>1. t \in Nat /\ s \in Nat /\ s <= t
    BY TimerAssumption DEF ClockReads, ClientInv, ClientTypeOK, TimerTypeOK
  <2>2. \A q \in over : heap[q].expire <= t
    BY <1>3, <2>1 DEF Expired, SingleTimer
  <2>3. QED
    BY <1>4, <2>2 DEF RunsPast
<1>7. Unique' /\ UsersOwn' /\ HoldersWait' /\ PointersFaithful'
  BY <1>4, <1>5 DEF Unique, UsersOwn, HoldersWait, PointersFaithful
<1>8. QED
  BY <1>6, <1>7

\* epoll, the end of HandleRead and the clock keep pointers faithful: the timers freed
\* are no longer in the queue.
LEMMA QuietStepFaithful ==
    ASSUME ClientInv, FaithfulInv, PollTimer \/ EndHandleRead \/ ClientTick \/ UNCHANGED clientVars
    PROVE  FaithfulInv'
<1> USE DEF FaithfulInv
<1>1. /\ UNCHANGED <<heap, timer_queue_, torun, handle, due, status, collided>>
      /\ now \in Nat /\ now' \in Nat /\ now <= now'
  BY DEF PollTimer, EndHandleRead, FreeExpired, ClientTick, Tick, clientVars, timerVars, queueVars, userVars,
         ClientInv, ClientTypeOK, TimerTypeOK
<1>2. Waiting' = Waiting
  BY <1>1 DEF Waiting
<1>3. RunsPast'
  BY <1>1 DEF RunsPast, ClientInv, ClientTypeOK, TimerTypeOK, SingleTimer
<1>4. Unique' /\ UsersOwn' /\ HoldersWait' /\ PointersFaithful'
  BY <1>1, <1>2 DEF Unique, UsersOwn, HoldersWait, PointersFaithful
<1>5. QED
  BY <1>3, <1>4

\* Every step keeps pointers faithful.
LEMMA NextFaithful == ClientInv /\ FaithfulInv /\ [ClientNext]_clientVars => FaithfulInv'
BY AddFaithful, RemoveFaithful, RefreshFaithful, HandleReadFaithful, RunCallbackFaithful,
   QuietStepFaithful DEF ClientNext

\* Whatever milliseconds the users ask for, each pending callback has exactly one timer,
\* due when it was last set; and until two timers have asked for the same millisecond,
\* the raw pointer that AddSingleTimer and RefreshSingleTimer return stands for the
\* user's timer until its callback has run or it is removed.
THEOREM PointersStayFaithful == ClientSpec => []PointersFaithful
<1>1. FaithfulInv => PointersFaithful
  BY DEF FaithfulInv
<1>2. QED
  BY <1>1, ClientInitInv, ClientNextInv, NextFaithful, PTL DEF ClientSpec

\* A callback runs at most once, not before it is due and not after its timer was
\* removed or dropped, collisions of expiration times included.
THEOREM CallbacksRunOnceWhenDue == ClientSpec => RunsOnceWhenDue
<1> DEFINE Step == \A c \in Callback :
             /\ status[c] # status'[c] /\ status'[c] = "ran" => status[c] = "pending" /\ due[c] <= now
             /\ status[c] \in {"ran", "removed", "dropped"} => status'[c] = status[c]
<1>1. ASSUME ClientInv, FaithfulInv, [ClientNext]_clientVars PROVE [Step]_clientVars
  <2> SUFFICES Step
    OBVIOUS
  <2>1. \A a \in Waiting : heap[a].cb \in Callback /\ status[heap[a].cb] = "pending"
    BY <1>1 DEF FaithfulInv, UsersOwn, PointersFaithful
  <2>2. status \in [Callback -> {"unused", "pending", "dropped", "ran", "removed"}]
    BY <1>1 DEF ClientInv, ClientTypeOK
  <2>3. ASSUME NEW c \in Callback, Add(c) PROVE Step
    <3>1. status[c] = "unused" /\ \E s \in {"dropped", "pending"} : status' = [status EXCEPT ![c] = s]
      BY <2>3 DEF Add, Given
    <3>2. QED
      BY <2>2, <3>1
  <2>4. ASSUME NEW c \in Callback, Remove(c) \/ Refresh(c) PROVE Step
    <3>1. \E q \in Waiting, s \in {"dropped", "pending", "removed"} :
              status' = [status EXCEPT ![heap[q].cb] = s]
      BY <2>4 DEF Remove, Refresh, Given, Lookups, Find, Waiting
    <3>2. QED
      BY <2>1, <2>2, <3>1
  <2>5. CASE RunCallback
    <3>1. PICK a \in torun : status' = [status EXCEPT ![heap[a].cb] = "ran"]
      BY <2>5, Zenon DEF RunCallback
    <3>2. a \in Waiting
      BY DEF Waiting
    <3>3. heap[a].expire <= now /\ due[heap[a].cb] = heap[a].expire
      BY <1>1, <3>2 DEF FaithfulInv, RunsPast, PointersFaithful
    <3>4. QED
      BY <2>1, <2>2, <3>1, <3>2, <3>3
  <2>6. CASE PollTimer \/ HandleRead \/ EndHandleRead \/ ClientTick \/ UNCHANGED clientVars
    BY <2>6 DEF PollTimer, HandleRead, EndHandleRead, ClientTick, clientVars, userVars
  <2>7. QED
    BY <1>1, <2>3, <2>4, <2>5, <2>6 DEF ClientNext
<1>2. ClientSpec => [][Step]_clientVars
  BY <1>1, ClientInitInv, ClientNextInv, NextFaithful, PTL DEF ClientSpec
<1>3. QED
  BY <1>2 DEF RunsOnceWhenDue
-----------------------------------------------------------------------------
(* The reactor and its acceptor. *)

\* Every timer was made for a descriptor.
Owned == \A a \in timer_queue_ \cup torun : heap[a].cb \in Fd

\* An open socket has a descriptor of its own, and epoll watches open sockets only.
Sockets ==
    /\ \A c \in Client : sock[c] = "open" <=> conn_fd[c] # NoFd
    /\ \A c, d \in Client : conn_fd[c] = conn_fd[d] /\ conn_fd[c] # NoFd => c = d
    /\ \A c \in interest : sock[c] = "open"

\* The acceptor holds mtx_ between the two halves of AddConnection, so that nobody
\* deletes a connection that is registered and not in connections_ yet.
Adding ==
    /\ mtx_ <=> apc = "registered"
    /\ apc = "poll" <=> acc = NoConn
    /\ acc # NoConn => sock[acc] = "open"
    /\ acc \in interest => apc = "registered"

\* What a round still has to handle is registered, and is done before the timer.
Round ==
    /\ ready_connections \subseteq interest
    /\ cur # NoConn => cur \in interest \ ready_connections
    /\ cur # NoConn <=> rpc \in {"recv", "delete"}
    /\ rpc \in {"loop", "poll", "timer", "stopped"} => ready_connections = {}
    /\ rpc # "timer" => expired = {}

Sent == \A c \in Client : inbox[c] <= sends

Tables == Sockets /\ Adding /\ ConnectionTable

Inv == TypeOK /\ TimerInv /\ Owned /\ Tables /\ Round /\ Sent
-----------------------------------------------------------------------------
(* What the calls of the Timer do. *)

\* RefreshConnection leaves every timer owned and timers_mapping_ as it is: its
\* insert finds the descriptor there already.
LEMMA RefreshEffect ==
    ASSUME TypeOK, TimerInv, Owned, NEW fd \in Fd, RefreshConnection(fd)
    PROVE  /\ TimerInv' /\ Owned'
           /\ UNCHANGED <<timers_mapping_, expired, torun>>
<1>1. CASE ~use_timer_
  <2>1. UNCHANGED <<timerVars, timers_mapping_>>
    BY <1>1 DEF RefreshConnection
  <2>2. QED
    BY <2>1, TimerStutterKeeps DEF Owned, timerVars, queueVars
<1>2. CASE use_timer_
  <2>1. UNCHANGED <<expired, torun>>
    BY <1>2 DEF RefreshConnection
  <2>2. PICK found \in TimersOf(fd) :
            \/ found = {} /\ UNCHANGED <<queueVars, timers_mapping_>>
            \/ \E q \in found, p \in Addr \ live, t \in ClockReads :
                /\ RefreshSingleTimer(q, p, TimerExpiration, t)
                /\ timers_mapping_' = Insert(timers_mapping_, fd, NoAddr, p)
    BY <1>2 DEF RefreshConnection
  <2>3. CASE found = {} /\ UNCHANGED <<queueVars, timers_mapping_>>
    BY <2>1, <2>3, TimerStutterKeeps DEF Owned, timerVars, queueVars
  <2>4. CASE \E q \in found, p \in Addr \ live, t \in ClockReads :
                /\ RefreshSingleTimer(q, p, TimerExpiration, t)
                /\ timers_mapping_' = Insert(timers_mapping_, fd, NoAddr, p)
    <3>1. PICK q \in found, p \in Addr \ live, t \in ClockReads :
                /\ RefreshSingleTimer(q, p, TimerExpiration, t)
                /\ timers_mapping_' = Insert(timers_mapping_, fd, NoAddr, p)
      BY <2>4
    <3>2. timers_mapping_[fd] # NoAddr /\ q \in timer_queue_
      BY <2>2, <3>1 DEF TimersOf, Lookups, Find
    <3>3. timers_mapping_' = timers_mapping_
      BY <3>1, <3>2 DEF Insert
    <3>4. TimerInv'
      BY <2>1, <3>1, <3>2, RefreshKeeps, ReactorAssumption
    <3>5. timer_queue_' \subseteq timer_queue_ \cup {p}
      BY <3>1 DEF RefreshSingleTimer, Emplace
    <3>6. /\ p \notin timer_queue_ \cup torun
          /\ heap \in [Addr -> SingleTimer] /\ torun \subseteq Addr /\ timer_queue_ \subseteq Addr
      BY DEF TimerInv, NoDanglingTimer, TimerTypeOK
    <3>7. heap' = [heap EXCEPT ![p] = [expire |-> now + TimerExpiration, cb |-> heap[q].cb]]
      BY <3>1 DEF RefreshSingleTimer
    <3>8. Owned'
      BY <2>1, <3>2, <3>5, <3>6, <3>7 DEF Owned
    <3>9. QED
      BY <2>1, <3>3, <3>4, <3>8
  <2>5. QED
    BY <2>2, <2>3, <2>4
<1>3. QED
  BY <1>1, <1>2

\* DeleteConnection removes at most one timer, its own or, after a stale pointer,
\* another's; the queue is sound all the same.
LEMMA DeleteEffect ==
    ASSUME TypeOK, TimerInv, Owned, NEW fd \in Fd, DeleteConnection(fd),
           expired' = expired, torun' \subseteq torun
    PROVE  TimerInv' /\ Owned'
<1>1. CASE UNCHANGED queueVars
  <2>1. TimerInv'
    BY <1>1 DEF TimerInv, TimerTypeOK, NoDanglingTimer, NextIsFirst, ArmedForNext, queueVars
  <2>2. QED
    BY <1>1, <2>1 DEF Owned, queueVars
<1>2. CASE \E q \in timer_queue_, t \in ClockReads : RemoveSingleTimer(q, t)
  <2>1. PICK q \in timer_queue_, t \in ClockReads : RemoveSingleTimer(q, t)
    BY <1>2
  <2>2. TimerInv'
    BY <2>1, RemoveKeeps
  <2>3. Owned'
    BY <2>1 DEF Owned, RemoveSingleTimer
  <2>4. QED
    BY <2>2, <2>3
<1>3. UNCHANGED queueVars \/ \E q \in timer_queue_, t \in ClockReads : RemoveSingleTimer(q, t)
  BY DEF DeleteConnection, TimersOf, Lookups, Find
<1>4. QED
  BY <1>1, <1>2, <1>3

\* DeleteConnection keeps the tables: it meets no connection that is being added.
LEMMA DeleteTables ==
    ASSUME TypeOK, Tables, NEW fd \in Fd, DeleteConnection(fd), UNCHANGED acceptorVars
    PROVE  /\ Tables'
           /\ \A c \in Client : connections_[fd] # c => sock'[c] = sock[c]
<1> USE ReactorAssumption
<1> DEFINE c == connections_[fd]
<1>1. CASE c = NoConn
  <2>1. UNCHANGED <<kernelVars, looperVars>>
    BY <1>1 DEF DeleteConnection
  <2>2. QED
    BY <2>1 DEF kernelVars, looperVars, acceptorVars, Tables, Sockets, Adding, ConnectionTable
<1>2. CASE c # NoConn
  <2>1. c \in Client /\ conn_fd[c] = fd /\ acc # c /\ ~mtx_
    BY <1>2 DEF TypeOK, Tables, ConnectionTable, DeleteConnection
  <2>2. /\ connections_' = [connections_ EXCEPT ![fd] = NoConn]
        /\ sock' = [sock EXCEPT ![c] = "closed"]
        /\ conn_fd' = [conn_fd EXCEPT ![c] = NoFd]
        /\ interest' = interest \ {c}
        /\ timers_mapping_' = [timers_mapping_ EXCEPT ![fd] = NoAddr]
    BY <1>2 DEF DeleteConnection, Erase
  <2>3. fd # NoFd /\ UNCHANGED <<mtx_, apc, acc>>
    BY DEF acceptorVars, Fd
  <2>4. Sockets'
    BY <2>1, <2>2, <2>3 DEF Tables, Sockets, TypeOK
  <2>5. Adding'
    BY <2>1, <2>2, <2>3 DEF Tables, Adding, TypeOK
  <2>6. ConnectionTable'
    BY <2>1, <2>2, <2>3 DEF Tables, Sockets, Adding, ConnectionTable, TypeOK
  <2>7. QED
    BY <2>1, <2>2, <2>4, <2>5, <2>6 DEF Tables, TypeOK
<1>3. QED
  BY <1>1, <1>2
-----------------------------------------------------------------------------
(* The invariant. *)

\* A Looper that has just been made satisfies the invariant.
LEMMA InitInv == Init => Inv
<1> SUFFICES ASSUME Init PROVE Inv
  OBVIOUS
<1> USE ReactorAssumption
<1>1. TimerInv
  BY TimerInitKeeps DEF Init
<1>2. TypeOK
  <2>1. inbox \in [Client -> 0 .. MaxSends] /\ sends \in 0 .. MaxSends
    BY DEF Init
  <2>2. /\ sock \in [Client -> {"none", "backlog", "open", "closed"}]
        /\ fin \in [Client -> BOOLEAN] /\ conn_fd \in [Client -> Fd \cup {NoFd}]
        /\ active_at \in [Client -> Nat]
        /\ connections_ \in [Fd -> Client \cup {NoConn}]
        /\ timers_mapping_ \in [Fd -> Addr \cup {NoAddr}]
    BY DEF Init
  <2>3. QED
    BY <1>1, <2>1, <2>2, Zenon DEF Init, TypeOK, TimerInv
<1>3. Owned /\ Sent
  BY DEF Init, TimerInit, Owned, Sent
<1>4. Tables
  BY DEF Init, Tables, Sockets, Adding, ConnectionTable, Fd
<1>5. Round
  BY DEF Init, TimerInit, Round
<1>6. QED
  BY <1>1, <1>2, <1>3, <1>4, <1>5 DEF Inv

\* The clients change their sockets only: what they send is counted, and what they
\* close stays open here until the reactor deletes it.
LEMMA ClientKeeps ==
    ASSUME Inv, NEW c \in Client, Connect(c) \/ ClientSend(c) \/ ClientClose(c)
    PROVE  Inv'
<1> USE ReactorAssumption DEF Inv
<1>1. /\ UNCHANGED <<timerVars, conn_fd, interest, looperVars, exit_, reactorVars, acceptorVars, active_at>>
      /\ rdlist' \subseteq interest
  BY DEF Connect, ClientSend, ClientClose, Wake, TypeOK
<1>2. TimerInv' /\ Owned'
  BY <1>1, TimerStutterKeeps DEF Owned, timerVars, queueVars
<1>3. /\ sock' \in [Client -> {"none", "backlog", "open", "closed"}]
      /\ fin' \in [Client -> BOOLEAN]
      /\ \A d \in Client : sock'[d] = "open" <=> sock[d] = "open"
  BY Zenon DEF Connect, ClientSend, ClientClose, TypeOK
<1>4. inbox' \in [Client -> 0 .. MaxSends] /\ sends' \in 0 .. MaxSends /\ Sent'
  BY DEF Connect, ClientSend, ClientClose, TypeOK, Sent
<1>5. TypeOK'
  BY <1>1, <1>2, <1>3, <1>4 DEF TypeOK, TimerInv, looperVars, reactorVars, acceptorVars
<1>6. Tables'
  BY <1>1, <1>3 DEF TypeOK, Tables, Sockets, Adding, ConnectionTable, looperVars, acceptorVars
<1>7. Round'
  BY <1>1 DEF Round, reactorVars, timerVars
<1>8. QED
  BY <1>2, <1>4, <1>5, <1>6, <1>7

\* A new connection gets a descriptor that no open one has, so its entry is free.
LEMMA AcceptKeeps ==
    ASSUME Inv, NEW c \in Client, Accept(c)
    PROVE  Inv'
<1> USE ReactorAssumption DEF Inv
<1>1. PICK fd \in Fd \ {conn_fd[d] : d \in Client} : conn_fd' = [conn_fd EXCEPT ![c] = fd]
  BY Zenon DEF Accept
<1>2. /\ UNCHANGED <<timerVars, inbox, sends, fin, interest, rdlist>>
      /\ UNCHANGED <<looperVars, exit_, reactorVars, mtx_, active_at>>
      /\ apc = "poll" /\ apc' = "accepted" /\ acc' = c
      /\ sock[c] = "backlog" /\ sock' = [sock EXCEPT ![c] = "open"]
  BY DEF Accept
<1>3. TimerInv' /\ Owned' /\ Sent' /\ Round'
  BY <1>2, TimerStutterKeeps DEF Owned, Sent, Round, reactorVars, timerVars, queueVars
<1>4. TypeOK'
  BY <1>1, <1>2, <1>3 DEF TypeOK, TimerInv, looperVars, reactorVars
<1>5. Sockets'
  BY <1>1, <1>2 DEF TypeOK, Tables, Sockets, Fd
<1>6. Adding'
  BY <1>2 DEF TypeOK, Tables, Sockets, Adding
<1>7. connections_[fd] = NoConn
  BY <1>1 DEF TypeOK, Tables, ConnectionTable
<1>8. ConnectionTable'
  BY <1>1, <1>2, <1>7 DEF TypeOK, Tables, Sockets, Adding, ConnectionTable, looperVars, Fd
<1>9. QED
  BY <1>3, <1>4, <1>5, <1>6, <1>8 DEF Tables

\* RegisterConnection takes mtx_.
LEMMA RegisterKeeps ==
    ASSUME Inv, RegisterConnection
    PROVE  Inv'
<1> USE ReactorAssumption DEF Inv
<1>1. /\ UNCHANGED <<timerVars, sock, inbox, sends, fin, conn_fd, looperVars, exit_, reactorVars, acc, active_at>>
      /\ apc = "accepted" /\ apc' = "registered" /\ mtx_' = TRUE
      /\ interest' = interest \cup {acc} /\ rdlist' \subseteq interest'
  BY DEF RegisterConnection, TypeOK
<1>2. acc \in Client /\ sock[acc] = "open"
  BY <1>1 DEF TypeOK, Tables, Adding
<1>3. TimerInv' /\ Owned' /\ Sent' /\ Round'
  BY <1>1, TimerStutterKeeps DEF Owned, Sent, Round, reactorVars, timerVars, queueVars
<1>4. TypeOK'
  BY <1>1, <1>2, <1>3 DEF TypeOK, TimerInv, looperVars, reactorVars
<1>5. Tables'
  BY <1>1, <1>2 DEF TypeOK, Tables, Sockets, Adding, ConnectionTable, looperVars
<1>6. QED
  BY <1>3, <1>4, <1>5

\* InsertConnection finds no entry under the descriptor, in either map.
LEMMA InsertKeeps ==
    ASSUME Inv, InsertConnection
    PROVE  Inv'
<1> USE ReactorAssumption, TimerAssumption DEF Inv
<1> DEFINE fd == conn_fd[acc]
<1>1. acc \in Client /\ sock[acc] = "open" /\ fd \in Fd
  BY DEF InsertConnection, TypeOK, Tables, Adding, Sockets
<1>2. connections_[fd] = NoConn /\ (use_timer_ => timers_mapping_[fd] = NoAddr)
  BY <1>1 DEF Tables, ConnectionTable
<1>3. connections_' = [connections_ EXCEPT ![fd] = acc]
  BY <1>2 DEF InsertConnection, Insert
<1>4. /\ TimerInv' /\ Owned' /\ UNCHANGED <<expired, torun>>
      /\ \/ ~use_timer_ /\ UNCHANGED timers_mapping_
         \/ use_timer_ /\ \E p \in Addr : timers_mapping_' = [timers_mapping_ EXCEPT ![fd] = p]
  <2>1. CASE ~use_timer_
    <3>1. UNCHANGED <<timerVars, timers_mapping_>>
      BY <2>1 DEF InsertConnection
    <3>2. QED
      BY <2>1, <3>1, TimerStutterKeeps DEF Owned, timerVars, queueVars
  <2>2. CASE use_timer_
    <3>1. PICK p \in Addr \ live, t \in ClockReads :
              /\ AddSingleTimer(p, TimerExpiration, fd, t)
              /\ timers_mapping_' = Insert(timers_mapping_, fd, NoAddr, p)
              /\ UNCHANGED <<expired, torun>>
      BY <2>2, Zenon DEF InsertConnection
    <3>2. TimerInv'
      BY <1>1, <3>1, AddKeeps DEF Fd
    <3>3. timers_mapping_' = [timers_mapping_ EXCEPT ![fd] = p]
      BY <1>2, <2>2, <3>1 DEF Insert
    <3>4. /\ timer_queue_' \subseteq timer_queue_ \cup {p}
          /\ heap' = [heap EXCEPT ![p] = [expire |-> now + TimerExpiration, cb |-> fd]]
      BY <3>1 DEF AddSingleTimer, Emplace
    <3>5. /\ p \notin timer_queue_ \cup torun
          /\ heap \in [Addr -> SingleTimer] /\ torun \subseteq Addr /\ timer_queue_ \subseteq Addr
      BY DEF TimerInv, NoDanglingTimer, TimerTypeOK
    <3>6. Owned'
      BY <1>1, <3>1, <3>4, <3>5, Zenon DEF Owned
    <3>7. QED
      BY <2>2, <3>1, <3>2, <3>3, <3>6, Zenon
  <2>3. QED
    BY <2>1, <2>2
<1>5. /\ UNCHANGED <<kernelVars, exit_, reactorVars>>
      /\ apc = "registered" /\ apc' = "poll" /\ acc' = NoConn /\ mtx_' = FALSE
      /\ active_at' = [active_at EXCEPT ![acc] = now]
  BY DEF InsertConnection
<1>6. Sent' /\ Round'
  BY <1>4, <1>5 DEF Sent, Round, reactorVars, kernelVars
<1>7. timers_mapping_' \in [Fd -> Addr \cup {NoAddr}]
  BY <1>1, <1>4 DEF TypeOK
<1>8. TypeOK'
  BY <1>1, <1>3, <1>4, <1>5, <1>7, Zenon DEF TypeOK, TimerInv, TimerTypeOK, kernelVars, reactorVars
<1>9. Sockets' /\ Adding'
  BY <1>5 DEF TypeOK, Tables, Sockets, Adding, kernelVars
<1>10. \A c \in Client : sock[c] = "open" <=> conn_fd'[c] # NoFd /\ connections_'[conn_fd'[c]] = c
  BY <1>1, <1>2, <1>3, <1>5 DEF TypeOK, Tables, Sockets, Adding, ConnectionTable, kernelVars
<1>11. \A f \in Fd : connections_'[f] # NoConn => conn_fd'[connections_'[f]] = f
  BY <1>1, <1>3, <1>5 DEF TypeOK, Tables, ConnectionTable, kernelVars
<1>12. use_timer_ => \A f \in Fd : timers_mapping_'[f] # NoAddr <=> connections_'[f] # NoConn
  BY <1>1, <1>2, <1>3, <1>4 DEF TypeOK, Tables, ConnectionTable
<1>13. ConnectionTable'
  BY <1>5, <1>10, <1>11, <1>12 DEF ConnectionTable, kernelVars, use_timer_
<1>14. QED
  BY <1>4, <1>6, <1>8, <1>9, <1>13 DEF Tables

\* Testing exit_, and leaving a round that has nothing more to do.
LEMMA LoopKeeps ==
    ASSUME Inv, LoopTest \/ EndRound
    PROVE  Inv'
<1> USE DEF Inv
<1>1. /\ UNCHANGED <<timerVars, kernelVars, looperVars, exit_, acceptorVars, active_at>>
      /\ UNCHANGED <<ready_connections, timer_ready, cur>>
      /\ rpc' \in {"loop", "poll", "stopped"}
      /\ rpc \in {"loop", "dispatch"} /\ ready_connections = {}
  BY DEF LoopTest, EndRound, Round
<1>2. TimerInv' /\ Owned'
  BY <1>1, TimerStutterKeeps DEF Owned, timerVars, queueVars
<1>3. Sent' /\ Round'
  BY <1>1 DEF Sent, Round, kernelVars, timerVars
<1>4. TypeOK'
  BY <1>1, <1>2 DEF TypeOK, TimerInv, kernelVars, looperVars, acceptorVars
<1>5. Tables'
  BY <1>1 DEF Tables, Sockets, Adding, ConnectionTable, kernelVars, looperVars, acceptorVars
<1>6. QED
  BY <1>2, <1>3, <1>4, <1>5

\* Poll reports what is on the ready list.
LEMMA PollKeeps ==
    ASSUME Inv, Poll
    PROVE  Inv'
<1> USE DEF Inv
<1>1. /\ UNCHANGED <<timerVars, sock, inbox, sends, fin, conn_fd, interest>>
      /\ UNCHANGED <<looperVars, exit_, cur, acceptorVars, active_at>>
      /\ rpc = "poll" /\ rpc' = "dispatch" /\ rdlist' = {}
      /\ ready_connections' \subseteq rdlist
      /\ timer_ready' \in BOOLEAN
  BY DEF Poll, Reported, TimerReported
<1>2. TimerInv' /\ Owned'
  BY <1>1, TimerStutterKeeps DEF Owned, timerVars, queueVars
<1>3. Sent' /\ Round'
  BY <1>1 DEF TypeOK, Sent, Round, timerVars
<1>4. TypeOK'
  BY <1>1, <1>2 DEF TypeOK, TimerInv, looperVars, acceptorVars
<1>5. Tables'
  BY <1>1 DEF Tables, Sockets, Adding, ConnectionTable, looperVars, acceptorVars
<1>6. QED
  BY <1>2, <1>3, <1>4, <1>5

\* A callback refreshes the timer of its own connection.
LEMMA HandleKeeps ==
    ASSUME Inv, NEW c \in Client, HandleConnection(c)
    PROVE  Inv'
<1> USE DEF Inv
<1>1. /\ UNCHANGED <<kernelVars, connections_, exit_, timer_ready, acceptorVars>>
      /\ rpc = "dispatch" /\ rpc' = "recv" /\ cur' = c
      /\ c \in ready_connections /\ ready_connections' = ready_connections \ {c}
      /\ active_at' = [active_at EXCEPT ![c] = now]
      /\ RefreshConnection(conn_fd[c])
  BY DEF HandleConnection
<1>2. conn_fd[c] \in Fd /\ c # NoConn
  BY <1>1, ReactorAssumption DEF TypeOK, Round, Tables, Sockets
<1>3. TimerInv' /\ Owned' /\ UNCHANGED <<timers_mapping_, expired, torun>>
  BY <1>1, <1>2, RefreshEffect
<1>4. Sent' /\ Round'
  BY <1>1, <1>2, <1>3, Zenon DEF Sent, Round, kernelVars
<1>5. TypeOK'
  BY <1>1, <1>3 DEF TypeOK, TimerInv, TimerTypeOK, kernelVars, acceptorVars
<1>6. Tables'
  BY <1>1, <1>3, Zenon DEF Tables, Sockets, Adding, ConnectionTable, kernelVars, acceptorVars
<1>7. QED
  BY <1>3, <1>4, <1>5, <1>6

\* Recv empties the socket.
LEMMA RecvKeeps ==
    ASSUME Inv, Recv
    PROVE  Inv'
<1> USE ReactorAssumption DEF Inv
<1>1. /\ UNCHANGED <<timerVars, sock, sends, fin, conn_fd, interest, rdlist>>
      /\ UNCHANGED <<looperVars, exit_, ready_connections, timer_ready, acceptorVars, active_at>>
      /\ rpc = "recv" /\ inbox' = [inbox EXCEPT ![cur] = 0]
      /\ \/ rpc' = "delete" /\ cur' = cur
         \/ rpc' = "dispatch" /\ cur' = NoConn
  BY DEF Recv, Unread
<1>2. TimerInv' /\ Owned'
  BY <1>1, TimerStutterKeeps DEF Owned, timerVars, queueVars
<1>3. inbox' \in [Client -> 0 .. MaxSends] /\ Sent'
  <2>1. 0 \in 0 .. MaxSends /\ 0 <= sends /\ inbox \in [Client -> 0 .. MaxSends]
    BY DEF TypeOK
  <2>2. inbox' \in [Client -> 0 .. MaxSends]
    BY <1>1, <2>1, Zenon
  <2>3. Sent'
    BY <1>1, <2>1 DEF Sent
  <2>4. QED
    BY <2>2, <2>3
<1>4. Round'
  BY <1>1 DEF Round, timerVars
<1>5. TypeOK'
  BY <1>1, <1>2, <1>3, Zenon DEF TypeOK, TimerInv, looperVars, acceptorVars
<1>6. Tables'
  BY <1>1, Zenon DEF Tables, Sockets, Adding, ConnectionTable, looperVars, acceptorVars
<1>7. QED
  BY <1>2, <1>3, <1>4, <1>5, <1>6

\* The state of the sockets after a DeleteConnection is of its type.
LEMMA DeleteTypes ==
    ASSUME TypeOK, NEW fd \in Fd, DeleteConnection(fd)
    PROVE  /\ sock' \in [Client -> {"none", "backlog", "open", "closed"}]
           /\ conn_fd' \in [Client -> Fd \cup {NoFd}]
           /\ interest' \subseteq interest /\ rdlist' \subseteq interest'
           /\ \A c \in interest : connections_[fd] # c => c \in interest'
           /\ connections_' \in [Fd -> Client \cup {NoConn}]
           /\ timers_mapping_' \in [Fd -> Addr \cup {NoAddr}]
           /\ UNCHANGED <<inbox, sends, fin>>
<1>1. CASE connections_[fd] = NoConn
  BY <1>1 DEF TypeOK, DeleteConnection, kernelVars, looperVars
<1>2. CASE connections_[fd] # NoConn
  BY <1>2 DEF TypeOK, DeleteConnection, Erase
<1>3. QED
  BY <1>1, <1>2

\* The handler deletes the connection it was called for and no other: under mtx_ no
\* connection is half added, so connections_ has the one that runs.
LEMMA HandlerDeleteEffect ==
    ASSUME Inv, HandlerDelete
    PROVE  /\ cur \in Client /\ conn_fd[cur] \in Fd
           /\ connections_[conn_fd[cur]] = cur
<1>1. ~mtx_ /\ rpc = "delete"
  BY DEF HandlerDelete, DeleteConnection
<1>2. cur \in Client /\ cur \in interest /\ sock[cur] = "open"
  BY <1>1 DEF Inv, TypeOK, Round, Tables, Sockets
<1>3. cur # acc
  BY <1>1, <1>2 DEF Inv, Tables, Adding
<1>4. QED
  BY <1>2, <1>3 DEF Inv, TypeOK, Tables, Sockets, ConnectionTable

\* The handler's own deletion.
LEMMA HandlerDeleteKeeps ==
    ASSUME Inv, HandlerDelete
    PROVE  Inv'
<1> USE ReactorAssumption DEF Inv
<1> DEFINE fd == conn_fd[cur]
<1>1. fd \in Fd /\ connections_[fd] = cur
  BY HandlerDeleteEffect
<1>2. /\ rpc = "delete" /\ rpc' = "dispatch" /\ cur' = NoConn
      /\ UNCHANGED <<expired, torun, exit_, ready_connections, timer_ready, acceptorVars, active_at>>
      /\ DeleteConnection(fd)
  BY DEF HandlerDelete
<1> HIDE DEF fd
<1>3. TimerInv' /\ Owned'
  BY <1>1, <1>2, DeleteEffect
<1>4. Tables'
  BY <1>1, <1>2, DeleteTables, Zenon
<1>5. TypeOK'
  BY <1>1, <1>2, <1>3, DeleteTypes DEF TypeOK, TimerInv, acceptorVars
<1>6. Sent'
  BY <1>1, <1>2, DeleteTypes, Zenon DEF Sent
<1>7. Round'
  BY <1>1, <1>2, DeleteTypes DEF Round, TypeOK
<1>8. QED
  BY <1>3, <1>4, <1>5, <1>6, <1>7

\* The timer comes when the round has handled every connection.
LEMMA HandleTimerKeeps ==
    ASSUME Inv, HandleTimer
    PROVE  Inv'
<1> USE DEF Inv
<1>1. PICK t \in ClockReads : \E s \in now .. t : PruneExpiredTimer(s, t)
  BY DEF HandleTimer
<1>2. PICK s \in now .. t : PruneExpiredTimer(s, t)
  BY <1>1
<1>3. /\ UNCHANGED <<kernelVars, looperVars, exit_, ready_connections, cur, acceptorVars, active_at>>
      /\ rpc = "dispatch" /\ rpc' = "timer" /\ ready_connections = {} /\ timer_ready' = FALSE
  BY DEF HandleTimer
<1>4. TimerInv'
  BY <1>1, <1>2, <1>3, PruneKeeps DEF Round
<1>5. Owned'
  BY <1>2 DEF Owned, PruneExpiredTimer
<1>6. Sent' /\ Round'
  BY <1>3 DEF Sent, Round, kernelVars
<1>7. TypeOK'
  BY <1>3, <1>4, Zenon DEF TypeOK, TimerInv, kernelVars, looperVars, acceptorVars
<1>8. Tables'
  BY <1>3 DEF Tables, Sockets, Adding, ConnectionTable, kernelVars, looperVars, acceptorVars
<1>9. QED
  BY <1>4, <1>5, <1>6, <1>7, <1>8

\* A timer's callback deletes whatever connection has its descriptor; the round refers
\* to none any more.
LEMMA KickKeeps ==
    ASSUME Inv, Kick
    PROVE  Inv'
<1> USE ReactorAssumption DEF Inv
<1>1. PICK a \in torun : Run(a) /\ DeleteConnection(heap[a].cb)
  BY DEF Kick
<1>2. rpc = "timer" /\ UNCHANGED <<exit_, reactorVars, acceptorVars, active_at>>
  BY DEF Kick
<1> DEFINE fd == heap[a].cb
<1>3. fd \in Fd /\ DeleteConnection(fd)
  BY <1>1 DEF Owned
<1>4. expired' = expired /\ torun' \subseteq torun
  BY <1>1 DEF Run
<1> HIDE DEF fd
<1>5. TimerInv' /\ Owned'
  BY <1>3, <1>4, DeleteEffect
<1>6. Tables'
  BY <1>2, <1>3, DeleteTables, Zenon
<1>7. TypeOK'
  BY <1>2, <1>3, <1>5, DeleteTypes DEF TypeOK, TimerInv, acceptorVars, reactorVars
<1>8. Sent'
  BY <1>3, DeleteTypes, Zenon DEF Sent
<1>9. Round'
  BY <1>2, <1>4 DEF Round, reactorVars
<1>10. QED
  BY <1>5, <1>6, <1>7, <1>8, <1>9

\* HandleRead returns, and its timers are freed.
LEMMA EndTimerKeeps ==
    ASSUME Inv, EndTimer
    PROVE  Inv'
<1> USE DEF Inv
<1>1. /\ UNCHANGED <<kernelVars, looperVars, exit_, ready_connections, timer_ready, cur>>
      /\ UNCHANGED <<acceptorVars, active_at>>
      /\ rpc = "timer" /\ rpc' = "loop"
      /\ IF expired = {} THEN UNCHANGED timerVars ELSE FreeExpired
  BY DEF EndTimer
<1>2. TimerInv' /\ Owned' /\ expired' = {}
  BY <1>1, TimerStutterKeeps, FreeExpiredKeeps, Zenon DEF Owned, timerVars, queueVars, FreeExpired
<1>3. Sent' /\ Round'
  BY <1>1, <1>2 DEF Sent, Round, kernelVars
<1>4. TypeOK'
  BY <1>1, <1>2, Zenon DEF TypeOK, TimerInv, kernelVars, looperVars, acceptorVars
<1>5. Tables'
  BY <1>1 DEF Tables, Sockets, Adding, ConnectionTable, kernelVars, looperVars, acceptorVars
<1>6. QED
  BY <1>2, <1>3, <1>4, <1>5

\* The clock, SetExit and steps of others.
LEMMA OutsideKeeps ==
    ASSUME Inv, Time \/ SetExit \/ UNCHANGED vars
    PROVE  Inv'
<1> USE DEF Inv
<1>1. /\ UNCHANGED <<kernelVars, looperVars, reactorVars, acceptorVars, active_at>>
      /\ Tick \/ UNCHANGED timerVars
      /\ exit_' \in BOOLEAN
  BY Zenon DEF Time, SetExit, vars, TypeOK
<1>2. TimerInv'
  BY <1>1, TickKeeps, TimerStutterKeeps
<1>3. Owned' /\ expired' = expired
  BY <1>1 DEF Owned, Tick, timerVars, queueVars
<1>4. Sent' /\ Round'
  BY <1>1, <1>3 DEF Sent, Round, kernelVars, reactorVars
<1>5. TypeOK'
  BY <1>1, <1>2, Zenon DEF TypeOK, TimerInv, kernelVars, looperVars, reactorVars, acceptorVars
<1>6. Tables'
  BY <1>1 DEF Tables, Sockets, Adding, ConnectionTable, kernelVars, looperVars, acceptorVars
<1>7. QED
  BY <1>2, <1>3, <1>4, <1>5, <1>6

\* Every step of the clients, the listener's thread, the reactor's thread and the clock
\* keeps the invariant.
LEMMA NextInv == Inv /\ [Next]_vars => Inv'
<1> SUFFICES ASSUME Inv, [Next]_vars PROVE Inv'
  OBVIOUS
<1>1. CASE \E c \in Client : Connect(c) \/ ClientSend(c) \/ ClientClose(c)
  BY <1>1, ClientKeeps
<1>2. CASE ReactorStep
  BY <1>2, LoopKeeps, PollKeeps, HandleKeeps, RecvKeeps, HandlerDeleteKeeps, HandleTimerKeeps,
     KickKeeps, EndTimerKeeps DEF ReactorStep
<1>3. CASE AcceptorStep
  BY <1>3, AcceptKeeps, RegisterKeeps, InsertKeeps DEF AcceptorStep
<1>4. CASE SetExit \/ Time \/ UNCHANGED vars
  BY <1>4, OutsideKeeps
<1>5. QED
  BY <1>1, <1>2, <1>3, <1>4 DEF Next

\* Types are kept: no lookup meets a descriptor that is none, and no count overflows.
THEOREM TypeCorrect == Spec => []TypeOK
<1>1. Inv => TypeOK
  BY DEF Inv
<1>2. QED
  BY <1>1, InitInv, NextInv, PTL DEF Spec

\* The pointers that a round and epoll hold are pointers to open connections, whenever
\* handlers and timers delete them.
THEOREM ConnectionsAreAlive == Spec => []NoDanglingConnection
<1>1. Inv => NoDanglingConnection
  BY DEF Inv, TypeOK, Round, Tables, Sockets, NoDanglingConnection
<1>2. QED
  BY <1>1, InitInv, NextInv, PTL DEF Spec

\* connections_ and timers_mapping_ have exactly the descriptors of the open connections,
\* closing and reuse of descriptors included.
THEOREM TablesMatch == Spec => []ConnectionTable
<1>1. Inv => ConnectionTable
  BY DEF Inv, Tables
<1>2. QED
  BY <1>1, InitInv, NextInv, PTL DEF Spec
-----------------------------------------------------------------------------
\* No step loses an edge: an event puts its connection on the ready list, Poll moves
\* the list to the round, a callback ends with nothing left to read or with the
\* connection deleted.
LEMMA NextNoLostEvent == Inv /\ NoLostEvent /\ [Next]_vars => NoLostEvent'
<1> SUFFICES ASSUME Inv, NoLostEvent, [Next]_vars PROVE NoLostEvent'
  OBVIOUS
<1> USE DEF NoLostEvent, Readable
<1>1. ASSUME NEW c \in Client, Connect(c) \/ ClientSend(c) \/ ClientClose(c) PROVE NoLostEvent'
  <2>1. CASE Connect(c)
    BY <2>1 DEF Connect, reactorVars
  <2>2. CASE ClientSend(c)
    BY <2>2 DEF ClientSend, Wake, reactorVars, Inv, TypeOK
  <2>3. CASE ClientClose(c)
    BY <2>3 DEF ClientClose, Wake, reactorVars, Inv, TypeOK
  <2>4. QED
    BY <1>1, <2>1, <2>2, <2>3
<1>2. CASE LoopTest \/ EndRound \/ HandleTimer \/ EndTimer \/ SetExit \/ Time \/ UNCHANGED vars
  BY <1>2, Zenon DEF LoopTest, EndRound, HandleTimer, EndTimer, SetExit, Time, vars, kernelVars, reactorVars
<1>3. CASE Poll
  <2>1. ready_connections = {} /\ cur = NoConn
    BY <1>3 DEF Poll, Inv, Round
  <2>2. QED
    BY <1>3, <2>1, ReactorAssumption, Zenon DEF Poll, Reported, Inv, TypeOK
<1>4. ASSUME NEW c \in Client, HandleConnection(c) PROVE NoLostEvent'
  <2>1. cur = NoConn
    BY <1>4, Zenon DEF HandleConnection, Inv, Round
  <2>2. QED
    BY <1>4, <2>1, ReactorAssumption DEF HandleConnection, kernelVars, Inv, TypeOK
<1>5. CASE Recv
  BY <1>5 DEF Recv, Unread, EndOfStream, Inv, TypeOK
<1>6. CASE HandlerDelete
  <2>1. conn_fd[cur] \in Fd /\ connections_[conn_fd[cur]] = cur /\ cur \in Client
    BY <1>6, HandlerDeleteEffect, Zenon
  <2>2. interest' = interest \ {cur} /\ rdlist' = rdlist \ {cur} /\ UNCHANGED <<inbox, fin>>
    BY <1>6, <2>1, ReactorAssumption, Zenon DEF HandlerDelete, DeleteConnection
  <2>3. QED
    BY <1>6, <2>2, Zenon DEF HandlerDelete
<1>7. CASE Kick
  <2>1. PICK a \in torun : DeleteConnection(heap[a].cb)
    BY <1>7 DEF Kick
  <2>2. UNCHANGED <<inbox, fin, ready_connections, cur>>
    BY <1>7, <2>1, Zenon DEF Kick, DeleteConnection, kernelVars, reactorVars
  <2>3. \A c \in interest' : c \in interest /\ (c \in rdlist => c \in rdlist')
    BY <2>1, Zenon DEF DeleteConnection, kernelVars
  <2>4. QED
    BY <2>2, <2>3
<1>8. CASE AcceptorStep
  <2>1. ASSUME NEW c \in Client, Accept(c) PROVE NoLostEvent'
    BY <2>1 DEF Accept, reactorVars
  <2>2. CASE RegisterConnection
    BY <2>2, Zenon DEF RegisterConnection, reactorVars
  <2>3. CASE InsertConnection
    BY <2>3 DEF InsertConnection, kernelVars, reactorVars
  <2>4. QED
    BY <1>8, <2>1, <2>2, <2>3 DEF AcceptorStep
<1>9. QED
  BY <1>1, <1>2, <1>3, <1>4, <1>5, <1>6, <1>7, <1>8, Zenon DEF Next, ReactorStep

\* A registered connection with something to read is never forgotten, wherever the event
\* falls between registration, Poll and the end of Recv.
THEOREM EdgesAreKept == Spec => []NoLostEvent
<1>1. Init => NoLostEvent
  BY DEF Init, NoLostEvent
<1>2. QED
  BY <1>1, InitInv, NextInv, NextNoLostEvent, PTL DEF Spec
=============================================================================
