-------------------------------- MODULE LRU --------------------------------
(***************************************************************************)
(* What Turtle's Cache promises (core/cache.h): a bounded store that makes *)
(* room for a new resource by dropping the least recently used ones.       *)
(* "lru" holds the cached resources, the one used longest ago first, and   *)
(* "store" what each contains; "incoming" is the resource an insertion is  *)
(* making room for.                                                        *)
(***************************************************************************)
EXTENDS Naturals, Sequences, FiniteSetsExt

CONSTANTS
    Url,       \* names of resources
    Data,      \* what they may contain
    Size,      \* Data -> its size
    Capacity,  \* total size the cache may hold
    None       \* no resource

VARIABLES lru, store, incoming

vars == <<lru, store, incoming>>

Cached == {lru[i] : i \in DOMAIN lru}

Used == MapThenSumSet(LAMBDA u : Size[store[u]], Cached)

Needed == Size[store[incoming]]

Init == lru = <<>> /\ store = [u \in Url |-> None] /\ incoming = None

Load(u) ==
    /\ incoming = None
    /\ \E i \in DOMAIN lru :
        /\ lru[i] = u
        /\ lru' = Append(SubSeq(lru, 1, i - 1) \o SubSeq(lru, i + 1, Len(lru)), u)
    /\ UNCHANGED <<store, incoming>>

BeginInsert(u, d) ==
    /\ incoming = None
    /\ u \notin Cached
    /\ Size[d] <= Capacity
    /\ incoming' = u
    /\ store' = [store EXCEPT ![u] = d]
    /\ UNCHANGED lru

\* Only as much is dropped as the new resource needs.
Evict ==
    /\ incoming # None
    /\ Used + Needed > Capacity
    /\ lru' = Tail(lru)
    /\ store' = [store EXCEPT ![Head(lru)] = None]
    /\ UNCHANGED incoming

EndInsert ==
    /\ incoming # None
    /\ Used + Needed <= Capacity
    /\ lru' = Append(lru, incoming)
    /\ incoming' = None
    /\ UNCHANGED store

Clear ==
    /\ incoming = None
    /\ lru' = <<>>
    /\ store' = [u \in Url |-> None]
    /\ UNCHANGED incoming

Next ==
    \/ \E u \in Url : Load(u) \/ \E d \in Data : BeginInsert(u, d)
    \/ Evict
    \/ EndInsert
    \/ Clear

Spec == Init /\ [][Next]_vars
=============================================================================
