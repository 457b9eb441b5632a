------------------------------- MODULE Cache -------------------------------
(***************************************************************************)
(* Turtle's Cache (core/cache.cpp): a hash map of nodes that are linked in *)
(* a doubly-linked list between a header and a tailer.  The node of a      *)
(* resource is named by its url.  Calls do not overlap here; HttpServer    *)
(* has threads whose calls do, and CacheRace their statements.             *)
(*                                                                         *)
(* TryInsert holds the lock alone.  Its eviction loop is one step per      *)
(* iteration, with "incoming" the resource being inserted.                 *)
(***************************************************************************)
EXTENDS Integers, FiniteSets, FiniteSetsExt, Sequences

CONSTANTS
    Url,             \* resource urls
    Data,            \* what a resource may contain
    Size,            \* Data -> its size in bytes
    Capacity,        \* capacity_
    Header, Tailer,  \* the two sentinel nodes
    None,            \* no resource, no node
    SizeModulus      \* size_t counts modulo this number

ASSUME CacheAssumption ==
    /\ Size \in [Data -> Nat]
    /\ Capacity \in Nat
    /\ SizeModulus \in Nat /\ SizeModulus > Capacity
    /\ Header # Tailer
    /\ {Header, Tailer, None} \cap Url = {}
    /\ None \notin Data

VARIABLES
    list,        \* the pointers: next and prev, Node -> Node
    mapping_,    \* urls that have a node in the hash map
    data_,       \* Url -> the data of its node, or of the one being inserted
    occupancy_,
    incoming     \* the url TryInsert is inserting, or None

cacheVars == <<list, mapping_, data_, occupancy_, incoming>>

Node == Url \cup {Header, Tailer}

TypeOK ==
    /\ list \in [next : [Node -> Node \cup {None}], prev : [Node -> Node \cup {None}]]
    /\ mapping_ \subseteq Url
    /\ data_ \in [Url -> Data \cup {None}]
    /\ occupancy_ \in 0 .. SizeModulus - 1
    /\ incoming \in Url \cup {None}

EmptyList ==
    [next |-> [n \in Node |-> IF n = Header THEN Tailer ELSE None],
     prev |-> [n \in Node |-> IF n = Tailer THEN Header ELSE None]]

Init ==
    /\ list = EmptyList
    /\ mapping_ = {}
    /\ data_ = [u \in Url |-> None]
    /\ occupancy_ = 0
    /\ incoming = None
-----------------------------------------------------------------------------
(* The list. *)

\* Mutant: the pointer back is not rewired.
RemoveFromList_OneWay(l, node) ==
    [l EXCEPT !.next[l.prev[node]] = l.next[node]]

RemoveFromList(l, node) ==
    [next |-> [l.next EXCEPT ![l.prev[node]] = l.next[node]],
     prev |-> [l.prev EXCEPT ![l.next[node]] = l.prev[node]]]

\* Mutant: the node is put at the other end.
AppendToListTail_AtHead(l, node) ==
    LET node_next == l.next[Header] IN
    [next |-> [l.next EXCEPT ![Header] = node, ![node] = node_next],
     prev |-> [l.prev EXCEPT ![node_next] = node, ![node] = Header]]

AppendToListTail(l, node) ==
    LET node_prev == l.prev[Tailer] IN
    [next |-> [l.next EXCEPT ![node_prev] = node, ![node] = Tailer],
     prev |-> [l.prev EXCEPT ![Tailer] = node, ![node] = node_prev]]
-----------------------------------------------------------------------------
(* The operations. *)

\* A hit makes the node the most recently used; a miss changes nothing.
TryLoad(u) ==
    /\ incoming = None
    /\ u \in mapping_
    /\ list' = AppendToListTail(RemoveFromList(list, u), u)
    /\ UNCHANGED <<mapping_, data_, occupancy_, incoming>>

\* The early returns of TryInsert change nothing; past them, insert u with its data.
TryInsert(u, source) ==
    /\ incoming = None
    /\ u \notin mapping_
    /\ Size[source] <= Capacity
    /\ incoming' = u
    /\ data_' = [data_ EXCEPT ![u] = source]
    /\ UNCHANGED <<list, mapping_, occupancy_>>

\* The condition of the eviction loop, in size_t arithmetic.
NeedsRoom == mapping_ # {} /\ (Capacity - occupancy_) % SizeModulus < Size[data_[incoming]]

\* The node EvictOne takes.
Victim == list.next[Header]

\* Mutant: the size of the victim is not given back.
EvictOne_KeepsOccupancy ==
    /\ list' = RemoveFromList(list, Victim)
    /\ mapping_' = mapping_ \ {Victim}
    /\ data_' = [data_ EXCEPT ![Victim] = None]
    /\ UNCHANGED occupancy_

\* What EvictOne does to the hash map and the occupancy, for a node of that size.
Erase(u, size) ==
    /\ mapping_' = mapping_ \ {u}
    /\ data_' = [data_ EXCEPT ![u] = None]
    /\ occupancy_' = (occupancy_ - size) % SizeModulus

\* EvictOne, when its assertion that the victim is in mapping_ holds.
EvictOne ==
    /\ list' = RemoveFromList(list, Victim)
    /\ Erase(Victim, Size[data_[Victim]])

MakeRoom ==
    /\ incoming # None
    /\ NeedsRoom
    /\ Victim \in mapping_
    /\ EvictOne
    /\ UNCHANGED incoming

EndInsert ==
    /\ incoming # None
    /\ ~NeedsRoom
    /\ list' = AppendToListTail(list, incoming)
    /\ mapping_' = mapping_ \cup {incoming}
    /\ occupancy_' = (occupancy_ + Size[data_[incoming]]) % SizeModulus
    /\ incoming' = None
    /\ UNCHANGED data_

Clear ==
    /\ incoming = None
    /\ list' = [list EXCEPT !.next[Header] = Tailer, !.prev[Tailer] = Header]
    /\ mapping_' = {}
    /\ data_' = [u \in Url |-> None]
    /\ occupancy_' = 0
    /\ UNCHANGED incoming

Next ==
    \/ \E u \in Url : TryLoad(u) \/ \E d \in Data : TryInsert(u, d)
    \/ MakeRoom
    \/ EndInsert
    \/ Clear

Spec == Init /\ [][Next]_cacheVars
-----------------------------------------------------------------------------
\* Where n steps along next lead from the first node, in a cache of k nodes.
Walk(l, k) ==
    LET at[n \in 0 .. k] == IF n = 0 THEN l.next[Header]
                            ELSE IF at[n - 1] \in Url THEN l.next[at[n - 1]] ELSE at[n - 1]
    IN  at

\* The nodes on the way, up to the first that is not a resource's.
NodesOnWalk(l, k) ==
    LET at == Walk(l, k)
    IN  [i \in 1 .. Cardinality({n \in 0 .. k : at[n] \in Url}) |-> at[i - 1]]

\* The nodes between header and tailer.
Forward == NodesOnWalk(list, Cardinality(mapping_))

\* The list and the hash map hold the same nodes, each once, and the pointers
\* back mirror the pointers forth: no sequence of calls that do not overlap, of
\* TryLoad, TryInsert and its evictions, leaves a node that only one of the two knows.
ListMatchesMap ==
    LET path == <<Header>> \o Forward \o <<Tailer>> IN
    /\ Len(Forward) = Cardinality(mapping_)
    /\ {Forward[i] : i \in DOMAIN Forward} = mapping_
    /\ \A i \in 1 .. Len(path) - 1 :
        list.next[path[i]] = path[i + 1] /\ list.prev[path[i + 1]] = path[i]

\* occupancy_ is the total size of what is cached and never exceeds the
\* capacity, so capacity_ - occupancy_ in TryInsert does not wrap.
OccupancyExact ==
    /\ occupancy_ = MapThenSumSet(LAMBDA u : Size[data_[u]], mapping_)
    /\ occupancy_ <= Capacity

\* Calls that do not overlap implement LRU, its resources being the nodes in list order:
\* evictions take the least recently used one and stop as soon as there is
\* room, and a resource keeps the data it was inserted with.
Abstract == INSTANCE LRU WITH lru <- Forward, store <- data_

ImplementsLRU == Abstract!Spec

=============================================================================
