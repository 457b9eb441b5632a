----------------------------- MODULE CacheRace -----------------------------
(***************************************************************************)
(* The Cache shared by threads, as the HTTP server shares one among its    *)
(* reactors.  TryLoad takes mtx_ in shared mode and yet relinks the list,  *)
(* so here it is one step per pointer it reads or writes; TryInsert takes  *)
(* mtx_ alone.  The steps interleave, which is the mildest outcome of the  *)
(* data race.  Clear, which takes no lock, is not called by the server.    *)
(***************************************************************************)
EXTENDS Cache

CONSTANT Thread

VARIABLES
    pc,         \* Thread -> the statement of TryLoad it is at, or "idle"
    node,       \* Thread -> the node it moves
    node_prev,  \* Thread -> local variable of the two list functions
    node_next   \* Thread -> local variable of RemoveFromList

threadVars == <<pc, node, node_prev, node_next>>
vars == <<cacheVars, threadVars>>

RaceInit ==
    /\ Init
    /\ pc = [t \in Thread |-> "idle"]
    /\ node = [t \in Thread |-> None]
    /\ node_prev = [t \in Thread |-> None]
    /\ node_next = [t \in Thread |-> None]

NoReader == \A t \in Thread : pc[t] = "idle"

\* mtx_ can be taken in shared mode.
SharedLock == incoming = None

\* mtx_ can be taken alone.
UniqueLock == incoming = None /\ NoReader

\* TryLoad finds u; from here t holds mtx_ in shared mode.
BeginLoad(t, u) ==
    /\ pc[t] = "idle"
    /\ SharedLock
    /\ u \in mapping_
    /\ pc' = [pc EXCEPT ![t] = "rm_prev"]
    /\ node' = [node EXCEPT ![t] = u]
    /\ UNCHANGED <<cacheVars, node_prev, node_next>>

\* One statement of t, from line "at" to line "to".
Goto(t, at, to) == pc[t] = at /\ pc' = [pc EXCEPT ![t] = to]

\* RemoveFromList, statement by statement.
Removing(t) ==
    \/ /\ Goto(t, "rm_prev", "rm_next")
       /\ node_prev' = [node_prev EXCEPT ![t] = list.prev[node[t]]]
       /\ UNCHANGED <<list, node, node_next>>
    \/ /\ Goto(t, "rm_next", "rm_set_next")
       /\ node_next' = [node_next EXCEPT ![t] = list.next[node[t]]]
       /\ UNCHANGED <<list, node, node_prev>>
    \/ /\ Goto(t, "rm_set_next", "rm_set_prev")
       /\ list' = [list EXCEPT !.next[node_prev[t]] = node_next[t]]
       /\ UNCHANGED <<node, node_prev, node_next>>
    \/ /\ Goto(t, "rm_set_prev", "ap_prev")
       /\ list' = [list EXCEPT !.prev[node_next[t]] = node_prev[t]]
       /\ UNCHANGED <<node, node_prev, node_next>>

\* AppendToListTail, statement by statement; then the shared lock is released.
Appending(t) ==
    \/ /\ Goto(t, "ap_prev", "ap_set_next")
       /\ node_prev' = [node_prev EXCEPT ![t] = list.prev[Tailer]]
       /\ UNCHANGED <<list, node, node_next>>
    \/ /\ Goto(t, "ap_set_next", "ap_set_tailer")
       /\ list' = [list EXCEPT !.next[node_prev[t]] = node[t]]
       /\ UNCHANGED <<node, node_prev, node_next>>
    \/ /\ Goto(t, "ap_set_tailer", "ap_node_prev")
       /\ list' = [list EXCEPT !.prev[Tailer] = node[t]]
       /\ UNCHANGED <<node, node_prev, node_next>>
    \/ /\ Goto(t, "ap_node_prev", "ap_node_next")
       /\ list' = [list EXCEPT !.prev[node[t]] = node_prev[t]]
       /\ UNCHANGED <<node, node_prev, node_next>>
    \/ /\ Goto(t, "ap_node_next", "idle")
       /\ list' = [list EXCEPT !.next[node[t]] = Tailer]
       /\ node' = [node EXCEPT ![t] = None]
       /\ node_prev' = [node_prev EXCEPT ![t] = None]
       /\ node_next' = [node_next EXCEPT ![t] = None]

LoadStep(t) ==
    /\ Removing(t) \/ Appending(t)
    /\ UNCHANGED <<mapping_, data_, occupancy_, incoming>>

InsertFirst(u) == UniqueLock /\ (\E d \in Data : TryInsert(u, d)) /\ UNCHANGED threadVars

InsertStep == (MakeRoom \/ EndInsert) /\ UNCHANGED threadVars

RaceNext ==
    \/ \E t \in Thread : LoadStep(t) \/ \E u \in Url : BeginLoad(t, u)
    \/ \E u \in Url : InsertFirst(u)
    \/ InsertStep

RaceSpec == RaceInit /\ [][RaceNext]_vars
-----------------------------------------------------------------------------
\* The node EvictOne takes is one of mapping_, whatever TryLoads went before:
\* "assert(iter != mapping_.end())".
VictimIsCached == incoming # None /\ NeedsRoom => Victim \in mapping_

=============================================================================
