-------------------------- MODULE HttpCacheProofs ---------------------------
(***************************************************************************)
(* The cache, for any resources, contents, sizes and capacity: its doubly  *)
(* linked list and its map hold the same resources, its occupancy is the   *)
(* sum of their sizes, and it behaves as a cache that evicts the least     *)
(* recently used resource.                                                 *)
(*                                                                         *)
(* Three things are built up: the sum over a set, which is defined by      *)
(* recursion, and what adding and taking out one element does to it; the   *)
(* list as a path through the nodes, and what RemoveFromList and           *)
(* AppendToListTail do to that path; and the operations. Induction is done *)
(* by a least counterexample.                                              *)
(*                                                                         *)
(* Then what the responses of the HTTP server hold, for any number of      *)
(* clients, threads, requests, files and programs: the file asked for,     *)
(* under its length, although threads share the cache, and the output of   *)
(* the program run for this very request.                                  *)
(*                                                                         *)
(* The proof carries Inv, Framed and BodyInv of HttpServerProofs (which    *)
(* request a thread serves, and how far its response is built) and two     *)
(* invariants of the cache.  Until two TryLoads overlap the server's steps *)
(* are steps of the cache's specification, so CacheInv, and what it gives  *)
(* of the cache alone, holds inside the server.  After that the list may   *)
(* be spoilt; StoreInv, which says nothing of the order of the nodes, is   *)
(* all that the responses need, and it goes on.                            *)
(***************************************************************************)
EXTENDS HttpServerProofs, FiniteSetTheorems

USE DEF sharedVars

\* A non-empty set of naturals has a least element.
LEMMA LeastNat ==
    ASSUME NEW I \in SUBSET Nat, I # {}
    PROVE  \E m \in I : \A i \in I : m <= i
<1>1. PICK x \in I : \A y \in I : ~ (<<y, x>> \in OpToRel(<, Nat))
  BY NatLessThanWellFounded, WFMin, Zenon
<1>2. ASSUME NEW y \in I, y < x PROVE FALSE
  <2>1. <<y, x>> \in OpToRel(<, Nat)
    BY <1>2, Zenon DEF OpToRel
  <2>2. QED
    BY <1>1, <2>1, Zenon
<1>3. QED
  BY <1>2

\* The element a sum over s begins with.
One(s) == CHOOSE x \in s : TRUE

\* g adds up f over the subsets of S, as MapThenSumSet does.
Sums(g, f, S) ==
    \A s \in SUBSET S : g[s] = IF s = {} THEN 0 ELSE f[One(s)] + g[s \ {One(s)}]

\* g is that function.
Adds(g, f, S) ==
    g = [s \in SUBSET S |-> IF s = {} THEN 0 ELSE f[One(s)] + g[s \ {One(s)}]]

\* A set that is not empty holds the element its sum begins with.
LEMMA OneIn == ASSUME NEW s, s # {} PROVE One(s) \in s
BY DEF One

\* A finite set of sets that is not empty has a smallest one.
LEMMA Smallest ==
    ASSUME NEW S, IsFiniteSet(S), NEW B \in SUBSET (SUBSET S), B # {}
    PROVE  \E s \in B : \A t \in SUBSET S : Cardinality(t) < Cardinality(s) => t \notin B
<1> DEFINE I == {Cardinality(s) : s \in B}
<1>1. \A s \in SUBSET S : Cardinality(s) \in Nat
  BY FS_Subset, FS_CardinalityType
<1>2. I \in SUBSET Nat /\ I # {}
  BY <1>1
<1>3. PICK m \in I : \A i \in I : m <= i
  BY <1>2, LeastNat, Zenon
<1>4. PICK s \in B : m = Cardinality(s)
  BY <1>3
<1>5. ASSUME NEW t \in SUBSET S, Cardinality(t) < Cardinality(s), t \in B PROVE FALSE
  <2>1. Cardinality(t) \in I
    BY <1>5
  <2>2. QED
    BY <1>1, <1>3, <1>4, <1>5, <2>1
<1>6. QED
  BY <1>5

\* Without One, a set is smaller.
LEMMA WithoutOne ==
    ASSUME NEW S, IsFiniteSet(S), NEW s \in SUBSET S, NEW x \in s
    PROVE  s \ {x} \in SUBSET S /\ Cardinality(s \ {x}) < Cardinality(s)
           /\ Cardinality(s \ {x}) = Cardinality(s) - 1 /\ Cardinality(s) \in Nat
<1>1. IsFiniteSet(s) /\ Cardinality(s) \in Nat
  BY FS_Subset, FS_CardinalityType
<1>2. Cardinality(s \ {x}) = Cardinality(s) - 1
  BY <1>1, FS_RemoveElement, Zenon
<1>3. QED
  BY <1>1, <1>2

\* There is one sum only, whatever set it is computed within.
LEMMA SumUnique ==
    ASSUME NEW S, IsFiniteSet(S), NEW T, S \subseteq T, NEW f, NEW g, NEW h, NEW e,
           \A x \in S : f[x] = e[x],
           Sums(g, f, S), Sums(h, e, T)
    PROVE  g[S] = h[S]
<1> SUFFICES ASSUME ~ \A s \in SUBSET S : g[s] = h[s] PROVE FALSE
  OBVIOUS
<1> DEFINE B == {s \in SUBSET S : g[s] # h[s]}
<1>1. B \in SUBSET (SUBSET S) /\ B # {}
  OBVIOUS
<1>2. PICK s \in B : \A t \in SUBSET S : Cardinality(t) < Cardinality(s) => t \notin B
  BY <1>1, Smallest, ZenonT(30)
<1>3. s \in SUBSET S /\ s \in SUBSET T /\ g[s] # h[s]
  OBVIOUS
<1>4. CASE s = {}
  BY <1>3, <1>4, Zenon DEF Sums
<1>5. CASE s # {}
  <2>1. One(s) \in s /\ One(s) \in S
    BY <1>3, <1>5, OneIn
  <2>2. s \ {One(s)} \in SUBSET S /\ Cardinality(s \ {One(s)}) < Cardinality(s)
    BY <1>3, <2>1, WithoutOne, Zenon
  <2>3. g[s \ {One(s)}] = h[s \ {One(s)}]
    BY <1>2, <2>2
  <2>4. g[s] = f[One(s)] + g[s \ {One(s)}] /\ h[s] = e[One(s)] + h[s \ {One(s)}]
    BY <1>3, <1>5, Zenon DEF Sums
  <2>5. QED
    BY <1>3, <2>1, <2>3, <2>4
<1>6. QED
  BY <1>4, <1>5

\* A sum of naturals is one.
LEMMA SumNat ==
    ASSUME NEW S, IsFiniteSet(S), NEW f, \A x \in S : f[x] \in Nat, NEW g, Sums(g, f, S)
    PROVE  \A s \in SUBSET S : g[s] \in Nat
<1> SUFFICES ASSUME ~ \A s \in SUBSET S : g[s] \in Nat PROVE FALSE
  OBVIOUS
<1> DEFINE B == {s \in SUBSET S : g[s] \notin Nat}
<1>1. B \in SUBSET (SUBSET S) /\ B # {}
  BY Zenon
<1>a. \A s \in SUBSET S : s \in B <=> g[s] \notin Nat
  BY Zenon
<1> HIDE DEF B
<1>2. PICK s \in B : \A t \in SUBSET S : Cardinality(t) < Cardinality(s) => t \notin B
  BY <1>1, Smallest, Zenon
<1>3. s \in SUBSET S /\ g[s] \notin Nat
  BY <1>1, <1>a, Zenon
<1>4. CASE s = {}
  <2>1. g[s] = 0
    BY <1>3, <1>4, Zenon DEF Sums
  <2>2. QED
    BY <1>3, <2>1
<1>5. CASE s # {}
  <2>1. One(s) \in s /\ One(s) \in S
    BY <1>3, <1>5, OneIn
  <2>2. s \ {One(s)} \in SUBSET S /\ Cardinality(s \ {One(s)}) < Cardinality(s)
    BY <1>3, <2>1, WithoutOne, Zenon
  <2>3. g[s \ {One(s)}] \in Nat
    BY <1>2, <1>a, <2>2, Zenon
  <2>4. g[s] = f[One(s)] + g[s \ {One(s)}]
    BY <1>3, <1>5, Zenon DEF Sums
  <2>5. QED
    BY <1>3, <2>1, <2>3, <2>4
<1>6. QED
  BY <1>4, <1>5

\* Any element may be counted first.
LEMMA SumAny ==
    ASSUME NEW S, IsFiniteSet(S), NEW f, \A x \in S : f[x] \in Nat, NEW g, Sums(g, f, S)
    PROVE  \A x \in S : g[S] = f[x] + g[S \ {x}]
<1> SUFFICES ASSUME ~ \A s \in SUBSET S : \A x \in s : g[s] = f[x] + g[s \ {x}] PROVE FALSE
  OBVIOUS
<1> DEFINE B == {s \in SUBSET S : ~ \A x \in s : g[s] = f[x] + g[s \ {x}]}
<1>1. B \in SUBSET (SUBSET S) /\ B # {}
  OBVIOUS
<1>2. PICK s \in B : \A t \in SUBSET S : Cardinality(t) < Cardinality(s) => t \notin B
  BY <1>1, Smallest, ZenonT(30)
<1>3. s \in SUBSET S
  OBVIOUS
<1>4. PICK x \in s : g[s] # f[x] + g[s \ {x}]
  OBVIOUS
<1> DEFINE y == One(s)
<1>5. y \in s /\ y \in S /\ x \in S /\ s # {}
  BY <1>3, <1>4, OneIn
<1>6. g[s] = f[y] + g[s \ {y}]
  BY <1>3, <1>5, Zenon DEF Sums
<1>7. x # y
  BY <1>4, <1>6
<1> HIDE DEF y
<1>8. /\ s \ {x} \in SUBSET S /\ Cardinality(s \ {x}) < Cardinality(s)
      /\ s \ {y} \in SUBSET S /\ Cardinality(s \ {y}) < Cardinality(s)
  BY <1>3, <1>4, <1>5, WithoutOne, Zenon
<1>9. s \ {x} \notin B /\ s \ {y} \notin B
  BY <1>2, <1>8, Zenon
<1>10. g[s \ {y}] = f[x] + g[(s \ {y}) \ {x}] /\ g[s \ {x}] = f[y] + g[(s \ {x}) \ {y}]
  <2>1. x \in s \ {y} /\ y \in s \ {x}
    BY <1>5, <1>7
  <2>2. QED
    BY <1>8, <1>9, <2>1, Zenon
<1>11. (s \ {y}) \ {x} = (s \ {x}) \ {y} /\ (s \ {x}) \ {y} \in SUBSET S
  BY <1>3
<1>12. g[(s \ {x}) \ {y}] \in Nat /\ f[x] \in Nat /\ f[y] \in Nat
  BY <1>5, <1>11, SumNat
<1> HIDE DEF B
<1>13. g[s \ {y}] = f[x] + g[(s \ {x}) \ {y}]
  BY <1>10, <1>11, Zenon
<1> DEFINE a == f[x]
           b == f[y]
           rest == g[(s \ {x}) \ {y}]
           less == g[s \ {x}]
<1>14. g[s] = b + (a + rest) /\ less = b + rest /\ a \in Nat /\ b \in Nat /\ rest \in Nat /\ g[s] # a + less
  BY <1>4, <1>6, <1>10, <1>12, <1>13, Zenon
<1> HIDE DEF a, b, rest, less
<1>15. QED
  BY <1>14

\* The sum over the subsets of a finite set is defined.
LEMMA SumExists ==
    ASSUME NEW S, IsFiniteSet(S), NEW f
    PROVE  \E g : Adds(g, f, S)
<1> DEFINE U(n) == {s \in SUBSET S : Cardinality(s) <= n}
           P(n) == \E g : g = [s \in U(n) |-> IF s = {} THEN 0 ELSE f[One(s)] + g[s \ {One(s)}]]
           I == {n \in Nat : ~P(n)}
<1>0. \A s \in SUBSET S : Cardinality(s) \in Nat /\ (Cardinality(s) = 0 <=> s = {})
  BY FS_Subset, FS_CardinalityType, FS_EmptySet
<1>1. ASSUME I # {} PROVE FALSE
  <2>1. PICK n \in I : \A i \in I : n <= i
    BY <1>1, LeastNat, Zenon
  <2>2. n \in Nat /\ ~P(n)
    BY Zenon
  <2>3. n # 0
    <3>1. SUFFICES ASSUME n = 0 PROVE P(0)
      BY <2>2, ZenonT(30)
    <3> DEFINE g == [s \in U(0) |-> 0]
    <3>2. \A s \in U(0) : s = {}
      BY <1>0
    <3>3. g = [s \in U(0) |-> IF s = {} THEN 0 ELSE f[One(s)] + g[s \ {One(s)}]]
      BY <3>2
    <3>4. QED
      BY <3>3, Zenon
  <2>4. n - 1 \in Nat /\ P(n - 1)
    <3>1. n - 1 \in Nat /\ ~(n <= n - 1)
      BY <2>2, <2>3
    <3>2. n - 1 \notin I
      BY <2>1, <3>1, Zenon
    <3>3. QED
      BY <3>1, <3>2, Zenon
  <2>5. PICK g : g = [s \in U(n - 1) |-> IF s = {} THEN 0 ELSE f[One(s)] + g[s \ {One(s)}]]
    BY <2>4, Zenon
  <2> DEFINE h == [s \in U(n) |-> IF s = {} THEN 0 ELSE f[One(s)] + g[s \ {One(s)}]]
  <2>6. ASSUME NEW s \in U(n), s # {} PROVE s \ {One(s)} \in U(n) /\ h[s \ {One(s)}] = g[s \ {One(s)}]
    <3> DEFINE t == s \ {One(s)}
    <3>1. t \in SUBSET S /\ Cardinality(t) = Cardinality(s) - 1 /\ Cardinality(s) \in Nat
      BY <2>6, OneIn, WithoutOne
    <3>2. t \in U(n - 1) /\ t \in U(n)
      BY <2>2, <2>6, <3>1
    <3> HIDE DEF t
    <3>3. h[t] = IF t = {} THEN 0 ELSE f[One(t)] + g[t \ {One(t)}]
      BY <3>2
    <3>4. g[t] = IF t = {} THEN 0 ELSE f[One(t)] + g[t \ {One(t)}]
      BY <2>5, <3>2, Zenon
    <3>5. QED
      BY <3>2, <3>3, <3>4 DEF t
  <2>7. h = [s \in U(n) |-> IF s = {} THEN 0 ELSE f[One(s)] + h[s \ {One(s)}]]
    BY <2>6, Zenon
  <2>8. P(n)
    BY <2>7, Zenon
  <2>9. QED
    BY <2>2, <2>8, Zenon
<1>2. Cardinality(S) \in Nat /\ P(Cardinality(S))
  BY <1>1, FS_CardinalityType, Zenon
<1>3. U(Cardinality(S)) = SUBSET S
  BY FS_Subset
<1>4. PICK g : g = [s \in SUBSET S |-> IF s = {} THEN 0 ELSE f[One(s)] + g[s \ {One(s)}]]
  BY <1>2, <1>3, Zenon
<1>5. QED
  BY <1>4, Zenon DEF Adds

\* A function that satisfies the recursion has its two cases.
LEMMA AddsSums ==
    ASSUME NEW g, NEW f, NEW S, Adds(g, f, S)
    PROVE  Sums(g, f, S)
BY Zenon DEF Adds, Sums
-----------------------------------------------------------------------------
\* The total size of the resources S that have the data d.
Total(d, S) == MapThenSumSet(LAMBDA u : Size[d[u]], S)

\* The function behind the total.
LEMMA TotalIs ==
    ASSUME NEW S, IsFiniteSet(S), NEW d, NEW f, \A u \in S : f[u] = Size[d[u]]
    PROVE  \E g : Sums(g, f, S) /\ Total(d, S) = g[S]
<1> DEFINE Step(g) == [s \in SUBSET S |-> IF s = {} THEN 0 ELSE Size[d[One(s)]] + g[s \ {One(s)}]]
           sum == CHOOSE g : g = Step(g)
<1>1. Total(d, S) = sum[S]
  BY Zenon DEF Total, MapThenSumSet, MapThenFoldSet, One
<1>2. \A g : Step(g) = [s \in SUBSET S |-> IF s = {} THEN 0 ELSE f[One(s)] + g[s \ {One(s)}]]
  <2>1. \A s \in SUBSET S : s # {} => One(s) \in S
    BY OneIn
  <2>2. QED
    BY <2>1
<1>3. PICK g : Adds(g, f, S)
  BY SumExists, Zenon
<1>4. g = Step(g)
  BY <1>2, <1>3, Zenon DEF Adds
<1>5. sum = Step(sum)
  BY <1>4, Zenon
<1> HIDE DEF sum
<1>6. Adds(sum, f, S)
  BY <1>2, <1>5, Zenon DEF Adds
<1>7. QED
  BY <1>1, <1>6, AddsSums, Zenon

\* Equal data make equal totals.
LEMMA TotalSame ==
    ASSUME NEW S, IsFiniteSet(S), NEW d, NEW e, \A u \in S : d[u] = e[u]
    PROVE  Total(d, S) = Total(e, S)
<1> DEFINE f == [u \in S |-> Size[d[u]]]
<1>1. (\A u \in S : f[u] = Size[d[u]]) /\ (\A u \in S : f[u] = Size[e[u]])
  OBVIOUS
<1> HIDE DEF f
<1>2. PICK g : Sums(g, f, S) /\ Total(d, S) = g[S]
  BY <1>1, TotalIs
<1>3. PICK h : Sums(h, f, S) /\ Total(e, S) = h[S]
  BY <1>1, TotalIs
<1>4. g[S] = h[S]
  <2>1. S \subseteq S /\ \A u \in S : f[u] = f[u]
    OBVIOUS
  <2>2. QED
    BY <1>2, <1>3, <2>1, SumUnique
<1>5. QED
  BY <1>2, <1>3, <1>4

\* The sizes add up to a number.
LEMMA TotalNat ==
    ASSUME NEW S, IsFiniteSet(S), NEW d, \A u \in S : Size[d[u]] \in Nat
    PROVE  Total(d, S) \in Nat
<1> DEFINE f == [u \in S |-> Size[d[u]]]
<1>1. (\A u \in S : f[u] = Size[d[u]]) /\ (\A u \in S : f[u] \in Nat)
  OBVIOUS
<1> HIDE DEF f
<1>2. PICK g : Sums(g, f, S) /\ Total(d, S) = g[S]
  BY <1>1, TotalIs, Zenon
<1>3. \A s \in SUBSET S : g[s] \in Nat
  BY <1>1, <1>2, SumNat, Zenon
<1>4. QED
  BY <1>2, <1>3

\* Nothing has size 0.
LEMMA TotalEmpty == ASSUME NEW d PROVE Total(d, {}) = 0
<1> DEFINE f == [u \in {} |-> Size[d[u]]]
<1>1. IsFiniteSet({}) /\ \A u \in {} : f[u] = Size[d[u]]
  BY FS_EmptySet
<1> HIDE DEF f
<1>2. PICK g : Sums(g, f, {}) /\ Total(d, {}) = g[{}]
  BY <1>1, TotalIs, Zenon
<1>3. {} \in SUBSET {}
  OBVIOUS
<1>4. QED
  BY <1>2, <1>3, Zenon DEF Sums

\* A resource taken out lowers the total by its size.
LEMMA TotalWithout ==
    ASSUME NEW S, IsFiniteSet(S), NEW d, \A u \in S : Size[d[u]] \in Nat, NEW x \in S
    PROVE  Total(d, S) = Size[d[x]] + Total(d, S \ {x})
<1> DEFINE f == [u \in S |-> Size[d[u]]]
           T == S \ {x}
<1>1. (\A u \in S : f[u] = Size[d[u]]) /\ (\A u \in T : f[u] = Size[d[u]])
  OBVIOUS
<1>2. \A u \in S : f[u] \in Nat
  OBVIOUS
<1>3. T \subseteq S /\ IsFiniteSet(T) /\ T \in SUBSET T
  BY FS_Subset
<1> HIDE DEF f, T
<1>4. PICK g : Sums(g, f, S) /\ Total(d, S) = g[S]
  BY <1>1, TotalIs, Zenon
<1>5. PICK h : Sums(h, f, T) /\ Total(d, T) = h[T]
  BY <1>1, <1>3, TotalIs, ZenonT(30)
<1>6. h[T] = g[T]
  <2>1. \A u \in T : f[u] = f[u]
    OBVIOUS
  <2>2. QED
    BY <1>3, <1>4, <1>5, <2>1, SumUnique
<1>7. g[S] = f[x] + g[T]
  <2>1. \A y \in S : g[S] = f[y] + g[S \ {y}]
    BY <1>2, <1>4, SumAny
  <2>2. QED
    BY <2>1, Zenon DEF T
<1>8. QED
  BY <1>1, <1>4, <1>5, <1>6, <1>7, Zenon DEF T

\* A resource added raises it.
LEMMA TotalWith ==
    ASSUME NEW S, IsFiniteSet(S), NEW d, NEW x, x \notin S, \A u \in S \cup {x} : Size[d[u]] \in Nat
    PROVE  Total(d, S \cup {x}) = Size[d[x]] + Total(d, S)
<1> DEFINE T == S \cup {x}
<1>1. IsFiniteSet(T) /\ x \in T /\ T \ {x} = S
  BY FS_AddElement
<1> HIDE DEF T
<1>2. \A u \in T : Size[d[u]] \in Nat
  BY DEF T
<1>3. Total(d, T) = Size[d[x]] + Total(d, T \ {x})
  BY <1>1, <1>2, TotalWithout, Zenon
<1>4. QED
  BY <1>1, <1>3, Zenon DEF T
-----------------------------------------------------------------------------
\* The i-th node of a list of the resources s.
Nth(s, i) == IF i = 0 THEN Header ELSE IF i = Len(s) + 1 THEN Tailer ELSE s[i]

\* The list l leads through s and back, and s lists m, each once.
Path(l, m, s) ==
    /\ s \in Seq(Url)
    /\ m \in SUBSET Url /\ \A u \in Url : u \in m <=> \E i \in 1 .. Len(s) : s[i] = u
    /\ \A i, j \in 1 .. Len(s) : s[i] = s[j] => i = j
    /\ \A i \in 0 .. Len(s) : l.next[Nth(s, i)] = Nth(s, i + 1) /\ l.prev[Nth(s, i + 1)] = Nth(s, i)

\* The nodes along a path, header and tailer included, are nodes of the cache and
\* are met once each.
LEMMA PathNodes ==
    ASSUME NEW l, NEW m, NEW s, Path(l, m, s)
    PROVE  /\ Len(s) \in Nat
           /\ \A i \in 0 .. Len(s) + 1 : Nth(s, i) \in Node
           /\ \A i \in 0 .. Len(s) + 1 : Nth(s, i) \in Url <=> i \in 1 .. Len(s)
           /\ \A i, j \in 0 .. Len(s) + 1 : Nth(s, i) = Nth(s, j) => i = j
<1>1. s \in Seq(Url) /\ Len(s) \in Nat /\ \A i \in 1 .. Len(s) : s[i] \in Url
  BY DEF Path
<1>2. Header \notin Url /\ Tailer \notin Url /\ Header # Tailer
  BY CacheAssumption
<1>3. \A i \in 0 .. Len(s) + 1 : i = 0 \/ i = Len(s) + 1 \/ i \in 1 .. Len(s)
  BY <1>1
<1>4. /\ Nth(s, 0) = Header /\ Nth(s, Len(s) + 1) = Tailer
      /\ \A i \in 1 .. Len(s) : Nth(s, i) = s[i]
  BY <1>1 DEF Nth
<1>5. \A i, j \in 1 .. Len(s) : s[i] = s[j] => i = j
  BY DEF Path
<1>6. \A i \in 0 .. Len(s) + 1 : Nth(s, i) \in Node /\ (Nth(s, i) \in Url <=> i \in 1 .. Len(s))
  BY <1>1, <1>2, <1>3, <1>4 DEF Node
<1>7. \A i, j \in 0 .. Len(s) + 1 : Nth(s, i) = Nth(s, j) => i = j
  BY <1>1, <1>2, <1>3, <1>4, <1>5
<1>8. QED
  BY <1>1, <1>6, <1>7

\* The cached resources are as many as the list has.
LEMMA PathLength ==
    ASSUME NEW l, NEW m, NEW s, Path(l, m, s)
    PROVE  IsFiniteSet(m) /\ Cardinality(m) = Len(s)
<1>1. s \in Seq(Url) /\ Len(s) \in Nat
  BY DEF Path
<1>2. IsFiniteSet(1 .. Len(s)) /\ Cardinality(1 .. Len(s)) = Len(s)
  BY <1>1, FS_Interval
<1>3. s \in Bijection(1 .. Len(s), m)
  <2>1. s \in [1 .. Len(s) -> m]
    BY <1>1 DEF Path
  <2>2. s \in Injection(1 .. Len(s), m)
    BY <2>1 DEF Path, Injection, IsInjective
  <2>3. s \in Surjection(1 .. Len(s), m)
    BY <2>1 DEF Path, Surjection
  <2>4. QED
    BY <2>2, <2>3 DEF Bijection
<1>4. QED
  BY <1>2, <1>3, FS_Bijection DEF ExistsBijection

\* The walk along next meets the resources of the list in turn.
LEMMA WalkIs ==
    ASSUME NEW l, NEW m, NEW s, Path(l, m, s), NEW k, k = Len(s)
    PROVE  \A n \in 0 .. k : Walk(l, k)[n] = Nth(s, n + 1)
<1> DEFINE Step(at) == [n \in 0 .. k |-> IF n = 0 THEN l.next[Header]
                            ELSE IF at[n - 1] \in Url THEN l.next[at[n - 1]] ELSE at[n - 1]]
           walk == CHOOSE at : at = Step(at)
           way == [n \in 0 .. k |-> Nth(s, n + 1)]
<1>1. /\ k \in Nat
      /\ \A i \in 0 .. k + 1 : Nth(s, i) \in Url <=> i \in 1 .. k
      /\ \A i \in 0 .. k : l.next[Nth(s, i)] = Nth(s, i + 1)
      /\ Nth(s, 0) = Header
  <2>1. \A i \in 0 .. Len(s) : l.next[Nth(s, i)] = Nth(s, i + 1)
    BY DEF Path
  <2>2. QED
    BY <2>1, PathNodes DEF Nth
<1> HIDE DEF Path, Nth
<1>2. ASSUME NEW n \in 0 .. k, n # 0
      PROVE  n - 1 \in 0 .. k /\ (n - 1) + 1 = n /\ n \in 1 .. k /\ n \in 0 .. k + 1
  BY <1>1, <1>2
<1>3. way = Step(way)
  <2>1. ASSUME NEW n \in 0 .. k PROVE way[n] = Step(way)[n]
    <3>1. CASE n = 0
      BY <1>1, <3>1
    <3>2. CASE n # 0
      <4>1. way[n - 1] = Nth(s, n) /\ way[n] = Nth(s, n + 1)
        BY <1>2, <3>2
      <4>2. Nth(s, n) \in Url /\ l.next[Nth(s, n)] = Nth(s, n + 1)
        BY <1>1, <1>2, <3>2
      <4> HIDE DEF way
      <4>3. QED
        BY <3>2, <4>1, <4>2
    <3>3. QED
      BY <3>1, <3>2
  <2>2. QED
    BY <2>1
<1> HIDE DEF way
<1>4. walk = Step(walk)
  BY <1>3, Zenon
<1>5. Walk(l, k) = walk
  BY Zenon DEF Walk
<1> HIDE DEF walk
<1> DEFINE I == {n \in 0 .. k : walk[n] # Nth(s, n + 1)}
<1>6. ASSUME I # {} PROVE FALSE
  <2>1. I \in SUBSET Nat
    BY <1>1
  <2>2. PICK n \in I : \A i \in I : n <= i
    BY <1>6, <2>1, LeastNat, Zenon
  <2>3. n \in 0 .. k /\ n \in Nat /\ walk[n] # Nth(s, n + 1)
    BY <1>1
  <2>4. walk[n] = IF n = 0 THEN l.next[Header]
                  ELSE IF walk[n - 1] \in Url THEN l.next[walk[n - 1]] ELSE walk[n - 1]
    BY <1>4, <2>3
  <2>5. n # 0
    BY <1>1, <2>3, <2>4
  <2>6. n - 1 \in 0 .. k /\ ~(n <= n - 1) /\ (n - 1) + 1 = n /\ n \in 1 .. k
    BY <1>2, <2>3, <2>5
  <2>7. walk[n - 1] = Nth(s, n)
    BY <2>2, <2>6
  <2>8. Nth(s, n) \in Url /\ l.next[Nth(s, n)] = Nth(s, n + 1)
    BY <1>1, <2>3, <2>6
  <2>9. QED
    BY <2>3, <2>4, <2>5, <2>7, <2>8
<1>7. QED
  BY <1>5, <1>6

\* So what the walk lists is the list.
LEMMA NodesAre ==
    ASSUME NEW l, NEW m, NEW s, Path(l, m, s)
    PROVE  NodesOnWalk(l, Cardinality(m)) = s
<1> DEFINE k == Cardinality(m)
           at == Walk(l, k)
           on == {n \in 0 .. k : at[n] \in Url}
<1>1. k = Len(s) /\ k \in Nat
  BY PathLength, PathNodes
<1>2. \A n \in 0 .. k : at[n] = Nth(s, n + 1)
  BY <1>1, WalkIs
<1>3. \A i \in 0 .. k + 1 : Nth(s, i) \in Url <=> i \in 1 .. k
  BY <1>1, PathNodes
<1> HIDE DEF k, at
<1>4. on = 0 .. k - 1
  BY <1>1, <1>2, <1>3
<1>5. Cardinality(on) = k
  <2>1. 0 \in Int /\ k - 1 \in Int
    BY <1>1
  <2>2. Cardinality(0 .. k - 1) = IF 0 > k - 1 THEN 0 ELSE (k - 1) - 0 + 1
    BY <2>1, FS_Interval, Zenon
  <2>3. Cardinality(on) = Cardinality(0 .. k - 1)
    BY <1>4, Zenon
  <2> HIDE DEF on
  <2>4. QED
    BY <1>1, <2>2, <2>3
<1>6. NodesOnWalk(l, k) = [i \in 1 .. Cardinality(on) |-> at[i - 1]]
  BY Zenon DEF NodesOnWalk, at
<1>7. \A i \in 1 .. k : at[i - 1] = s[i]
  <2>1. ASSUME NEW i \in 1 .. k PROVE i - 1 \in 0 .. k /\ (i - 1) + 1 = i /\ i # 0 /\ i # k + 1
    BY <1>1
  <2>2. \A i \in 1 .. k : Nth(s, i) = s[i]
    BY <1>1, <2>1 DEF Nth
  <2>3. QED
    BY <1>2, <2>1, <2>2
<1>8. s = [i \in 1 .. k |-> s[i]]
  BY <1>1 DEF Path
<1>9. QED
  BY <1>5, <1>6, <1>7, <1>8, Zenon DEF k
-----------------------------------------------------------------------------
\* s without its p-th element.
Without(s, p) == SubSeq(s, 1, p - 1) \o SubSeq(s, p + 1, Len(s))

\* What SubSeq takes.
LEMMA PartIs ==
    ASSUME NEW S, NEW s \in Seq(S), NEW m \in 1 .. Len(s) + 1, NEW n \in m - 1 .. Len(s)
    PROVE  /\ SubSeq(s, m, n) \in Seq(S) /\ Len(SubSeq(s, m, n)) = n - m + 1
           /\ \A i \in 1 .. n - m + 1 : SubSeq(s, m, n)[i] = s[m + i - 1]
OBVIOUS

\* Which elements are left, and where.
LEMMA WithoutIs ==
    ASSUME NEW S, NEW s \in Seq(S), NEW p \in 1 .. Len(s)
    PROVE  /\ Without(s, p) \in Seq(S)
           /\ Len(Without(s, p)) = Len(s) - 1
           /\ \A i \in 1 .. Len(s) - 1 : Without(s, p)[i] = IF i < p THEN s[i] ELSE s[i + 1]
<1>1. Len(s) \in Nat /\ p \in Nat /\ p >= 1 /\ p <= Len(s) /\ s \in [1 .. Len(s) -> S]
  OBVIOUS
<1> DEFINE a == SubSeq(s, 1, p - 1)
           b == SubSeq(s, p + 1, Len(s))
<1>2. a \in Seq(S) /\ Len(a) = p - 1 /\ \A i \in 1 .. p - 1 : a[i] = s[i]
  BY <1>1, SMTT(30)
<1>3. b \in Seq(S) /\ Len(b) = Len(s) - p /\ \A i \in 1 .. Len(s) - p : b[i] = s[p + i]
  <2> DEFINE q == p + 1
             n == Len(s)
  <2>1. q \in 1 .. Len(s) + 1 /\ n \in q - 1 .. Len(s) /\ n - q + 1 = Len(s) - p
    BY <1>1
  <2>2. \A i \in 1 .. Len(s) - p : q + i - 1 = p + i
    BY <1>1
  <2> HIDE DEF q, n
  <2>3. /\ SubSeq(s, q, n) \in Seq(S) /\ Len(SubSeq(s, q, n)) = n - q + 1
        /\ \A i \in 1 .. n - q + 1 : SubSeq(s, q, n)[i] = s[q + i - 1]
    BY <2>1, PartIs
  <2>4. QED
    BY <2>1, <2>2, <2>3, Zenon DEF q, n
<1> HIDE DEF a, b
<1>4. a \o b \in Seq(S) /\ Len(a \o b) = Len(s) - 1
      /\ \A i \in 1 .. Len(a) + Len(b) : (a \o b)[i] = IF i <= Len(a) THEN a[i] ELSE b[i - Len(a)]
  <2>1. a \in Seq(S) /\ b \in Seq(S)
    BY <1>2, <1>3
  <2>2. \A i \in 1 .. Len(a) + Len(b) : (a \o b)[i] = IF i <= Len(a) THEN a[i] ELSE b[i - Len(a)]
    BY <2>1
  <2>3. a \o b \in Seq(S) /\ Len(a \o b) = Len(a) + Len(b)
    BY <2>1
  <2>4. Len(a) + Len(b) = Len(s) - 1
    BY <1>1, <1>2, <1>3
  <2>5. QED
    BY <2>2, <2>3, <2>4
<1>5. ASSUME NEW i \in 1 .. Len(s) - 1
      PROVE  (a \o b)[i] = IF i < p THEN s[i] ELSE s[i + 1]
  <2>1. i \in 1 .. Len(a) + Len(b)
    BY <1>1, <1>2, <1>3
  <2>2. CASE i < p
    <3>1. i \in 1 .. p - 1 /\ i <= Len(a)
      BY <1>1, <1>2, <2>2
    <3>2. QED
      BY <1>2, <1>4, <2>1, <2>2, <3>1
  <2>3. CASE ~(i < p)
    <3>1. i - Len(a) \in 1 .. Len(s) - p /\ p + (i - Len(a)) = i + 1 /\ ~(i <= Len(a))
      BY <1>1, <1>2, <2>3
    <3>2. QED
      BY <1>3, <1>4, <2>1, <2>3, <3>1
  <2>4. QED
    BY <2>2, <2>3, Zenon
<1>6. Without(s, p) = a \o b
  BY DEF Without, a, b
<1>7. QED
  BY <1>4, <1>5, <1>6

\* The lists a Cache may have.
Lists == [next : [Node -> Node \cup {None}], prev : [Node -> Node \cup {None}]]

\* RemoveFromList takes the node out, and the others stay in order.
LEMMA RemoveKeeps ==
    ASSUME NEW l \in Lists, NEW m, NEW s, Path(l, m, s), NEW p \in 1 .. Len(s)
    PROVE  /\ RemoveFromList(l, s[p]) \in Lists
           /\ Path(RemoveFromList(l, s[p]), m \ {s[p]}, Without(s, p))
<1> DEFINE r == RemoveFromList(l, s[p])
           w == Without(s, p)
           N == Len(s)
<1>1. /\ N \in Nat /\ p \in 1 .. N /\ s \in Seq(Url)
      /\ \A i \in 0 .. N + 1 : Nth(s, i) \in Node
      /\ \A i, j \in 0 .. N + 1 : Nth(s, i) = Nth(s, j) => i = j
      /\ \A i \in 0 .. N : l.next[Nth(s, i)] = Nth(s, i + 1) /\ l.prev[Nth(s, i + 1)] = Nth(s, i)
  <2>1. Len(s) \in Nat /\ s \in Seq(Url)
    BY PathNodes DEF Path
  <2>2. /\ \A i \in 0 .. N + 1 : Nth(s, i) \in Node
        /\ \A i, j \in 0 .. N + 1 : Nth(s, i) = Nth(s, j) => i = j
    BY PathNodes
  <2>3. \A i \in 0 .. N : l.next[Nth(s, i)] = Nth(s, i + 1) /\ l.prev[Nth(s, i + 1)] = Nth(s, i)
    BY DEF Path
  <2>4. QED
    BY <2>1, <2>2, <2>3
<1>2. w \in Seq(Url) /\ Len(w) = N - 1 /\ \A i \in 1 .. N - 1 : w[i] = IF i < p THEN s[i] ELSE s[i + 1]
  BY <1>1, WithoutIs
<1>3. m \in SUBSET Url /\ \A u \in Url : u \in m <=> \E i \in 1 .. N : s[i] = u
  BY DEF Path
<1>4. \A i, j \in 1 .. N : s[i] = s[j] => i = j
  BY DEF Path
<1>5. \A i \in 0 .. N : Nth(w, i) = IF i < p THEN Nth(s, i) ELSE Nth(s, i + 1)
  BY <1>1, <1>2 DEF Nth
<1>6. Nth(s, p) = s[p]
  BY <1>1 DEF Nth
<1>7. l.prev[s[p]] = Nth(s, p - 1) /\ l.next[s[p]] = Nth(s, p + 1)
  <2>1. p - 1 \in 0 .. N /\ (p - 1) + 1 = p /\ p \in 0 .. N
    BY <1>1
  <2>2. QED
    BY <1>1, <1>6, <2>1
<1>8. /\ r.next = [l.next EXCEPT ![Nth(s, p - 1)] = Nth(s, p + 1)]
      /\ r.prev = [l.prev EXCEPT ![Nth(s, p + 1)] = Nth(s, p - 1)]
      /\ r = [next |-> r.next, prev |-> r.prev]
  BY <1>7 DEF RemoveFromList
<1>9. l.next \in [Node -> Node \cup {None}] /\ l.prev \in [Node -> Node \cup {None}]
  BY DEF Lists
<1> HIDE DEF N, w, r, Path, Nth
<1>10. p - 1 \in 0 .. N + 1 /\ p + 1 \in 0 .. N + 1 /\ Nth(s, p - 1) \in Node /\ Nth(s, p + 1) \in Node
  BY <1>1
<1>11. r \in Lists
  BY <1>8, <1>9, <1>10 DEF Lists
<1>12. \A i \in 0 .. N - 1 : r.next[Nth(w, i)] = Nth(w, i + 1) /\ r.prev[Nth(w, i + 1)] = Nth(w, i)
  <2> SUFFICES ASSUME NEW i \in 0 .. N - 1
               PROVE  r.next[Nth(w, i)] = Nth(w, i + 1) /\ r.prev[Nth(w, i + 1)] = Nth(w, i)
    OBVIOUS
  <2>0. i \in 0 .. N /\ i + 1 \in 0 .. N /\ i \in 0 .. N + 1 /\ i + 1 \in 0 .. N + 1 /\ (i + 1) + 1 \in 0 .. N + 1
        /\ i \in Int /\ p \in Int
    BY <1>1
  <2>1. CASE i + 1 < p
    <3>1. Nth(w, i) = Nth(s, i) /\ Nth(w, i + 1) = Nth(s, i + 1)
      BY <1>5, <2>0, <2>1
    <3>2. Nth(s, i) # Nth(s, p - 1) /\ Nth(s, i + 1) # Nth(s, p + 1)
      BY <1>1, <1>10, <2>0, <2>1
    <3>3. QED
      BY <1>1, <1>8, <1>9, <2>0, <3>1, <3>2
  <2>2. CASE i + 1 = p
    <3>1. Nth(w, i) = Nth(s, p - 1) /\ Nth(w, i + 1) = Nth(s, p + 1)
      BY <1>5, <2>0, <2>2
    <3>2. QED
      BY <1>8, <1>9, <1>10, <3>1
  <2>3. CASE i + 1 > p
    <3>1. Nth(w, i) = Nth(s, i + 1) /\ Nth(w, i + 1) = Nth(s, (i + 1) + 1)
      BY <1>5, <2>0, <2>3
    <3>2. Nth(s, i + 1) # Nth(s, p - 1) /\ Nth(s, (i + 1) + 1) # Nth(s, p + 1)
      BY <1>1, <1>10, <2>0, <2>3
    <3>3. QED
      BY <1>1, <1>8, <1>9, <2>0, <3>1, <3>2
  <2>4. QED
    BY <2>0, <2>1, <2>2, <2>3
<1>13. \A i, j \in 1 .. N - 1 : w[i] = w[j] => i = j
  <2> SUFFICES ASSUME NEW i \in 1 .. N - 1, NEW j \in 1 .. N - 1, w[i] = w[j] PROVE i = j
    OBVIOUS
  <2>1. i \in 1 .. N /\ i + 1 \in 1 .. N /\ j \in 1 .. N /\ j + 1 \in 1 .. N /\ p \in Int
    BY <1>1
  <2>2. QED
    BY <1>2, <1>4, <2>1
<1>14. \A u \in Url : u \in m \ {s[p]} <=> \E i \in 1 .. N - 1 : w[i] = u
  <2>1. ASSUME NEW i \in 1 .. N - 1 PROVE w[i] \in m \ {s[p]}
    <3>1. i \in 1 .. N /\ i + 1 \in 1 .. N /\ (i < p => i # p) /\ (~(i < p) => i + 1 # p)
      BY <1>1
    <3>2. s[i] \in Url /\ s[i + 1] \in Url
      BY <1>1, <3>1 DEF N
    <3>3. QED
      BY <1>1, <1>2, <1>3, <1>4, <3>1, <3>2
  <2>2. ASSUME NEW u \in Url, u \in m \ {s[p]} PROVE \E i \in 1 .. N - 1 : w[i] = u
    <3>1. PICK i \in 1 .. N : s[i] = u
      BY <1>3, <2>2
    <3>2. i # p
      BY <2>2, <3>1
    <3>3. CASE i < p
      <4>1. i \in 1 .. N - 1
        BY <1>1, <3>3
      <4>2. QED
        BY <1>2, <3>1, <3>3, <4>1
    <3>4. CASE i > p
      <4>1. i - 1 \in 1 .. N - 1 /\ ~(i - 1 < p) /\ (i - 1) + 1 = i
        BY <1>1, <3>4
      <4>2. QED
        BY <1>2, <3>1, <4>1
    <3>5. QED
      BY <1>1, <3>2, <3>3, <3>4
  <2>3. QED
    BY <2>1, <2>2
<1>15. Path(r, m \ {s[p]}, w)
  BY <1>2, <1>3, <1>12, <1>13, <1>14 DEF Path
<1>16. QED
  BY <1>11, <1>15 DEF r, w

\* AppendToListTail makes the node the last.
LEMMA AppendKeeps ==
    ASSUME NEW l \in Lists, NEW m, NEW s, Path(l, m, s), NEW u \in Url, u \notin m
    PROVE  /\ AppendToListTail(l, u) \in Lists
           /\ Path(AppendToListTail(l, u), m \cup {u}, Append(s, u))
<1> DEFINE r == AppendToListTail(l, u)
           w == Append(s, u)
           N == Len(s)
<1>1. N \in Nat /\ s \in Seq(Url)
  BY PathNodes DEF Path
<1>2. /\ \A i \in 0 .. N + 1 : Nth(s, i) \in Node
      /\ \A i, j \in 0 .. N + 1 : Nth(s, i) = Nth(s, j) => i = j
  BY PathNodes
<1>3. \A i \in 0 .. N : l.next[Nth(s, i)] = Nth(s, i + 1) /\ l.prev[Nth(s, i + 1)] = Nth(s, i)
  BY DEF Path
<1>4. m \in SUBSET Url /\ \A v \in Url : v \in m <=> \E i \in 1 .. N : s[i] = v
  BY DEF Path
<1>5. \A i, j \in 1 .. N : s[i] = s[j] => i = j
  BY DEF Path
<1>6. w \in Seq(Url) /\ Len(w) = N + 1 /\ w[N + 1] = u /\ \A i \in 1 .. N : w[i] = s[i]
  BY <1>1
<1>7. Nth(s, N + 1) = Tailer /\ l.prev[Tailer] = Nth(s, N)
  <2>1. Nth(s, N + 1) = Tailer
    BY <1>1 DEF Nth
  <2>2. N \in 0 .. N
    BY <1>1
  <2>3. QED
    BY <1>3, <2>1, <2>2
<1>8. /\ r.next = [l.next EXCEPT ![Nth(s, N)] = u, ![u] = Tailer]
      /\ r.prev = [l.prev EXCEPT ![Tailer] = u, ![u] = Nth(s, N)]
      /\ r = [next |-> r.next, prev |-> r.prev]
  BY <1>7 DEF AppendToListTail
<1>9. l.next \in [Node -> Node \cup {None}] /\ l.prev \in [Node -> Node \cup {None}]
  BY DEF Lists
<1>10. /\ \A i \in 0 .. N : Nth(w, i) = Nth(s, i)
       /\ Nth(w, N + 1) = u /\ Nth(w, N + 2) = Tailer
  BY <1>1, <1>6 DEF Nth
<1>11. \A i \in 0 .. N + 1 : Nth(s, i) # u
  <2>1. u # Header /\ u # Tailer
    BY CacheAssumption
  <2>2. QED
    BY <1>1, <1>4, <2>1 DEF Nth
<1>12. u \in Node /\ Tailer \in Node
  BY DEF Node
<1> HIDE DEF N, w, r, Path, Nth
<1>13. N \in 0 .. N + 1 /\ Nth(s, N) \in Node
  BY <1>1, <1>2
<1>14. r \in Lists
  BY <1>8, <1>9, <1>12, <1>13 DEF Lists
<1>15. \A i \in 0 .. N + 1 : r.next[Nth(w, i)] = Nth(w, i + 1) /\ r.prev[Nth(w, i + 1)] = Nth(w, i)
  <2> SUFFICES ASSUME NEW i \in 0 .. N + 1
               PROVE  r.next[Nth(w, i)] = Nth(w, i + 1) /\ r.prev[Nth(w, i + 1)] = Nth(w, i)
    OBVIOUS
  <2>1. CASE i < N
    <3>1. i \in 0 .. N /\ i + 1 \in 0 .. N /\ i \in 0 .. N + 1 /\ i + 1 \in 0 .. N + 1 /\ N + 1 \in 0 .. N + 1
          /\ i # N /\ i + 1 # N + 1
      BY <1>1, <2>1
    <3>2. Nth(w, i) = Nth(s, i) /\ Nth(w, i + 1) = Nth(s, i + 1)
      BY <1>10, <3>1
    <3>3. Nth(s, i) # Nth(s, N) /\ Nth(s, i + 1) # Tailer /\ Nth(s, i) # u /\ Nth(s, i + 1) # u
      BY <1>2, <1>7, <1>11, <1>13, <3>1
    <3>4. Nth(s, i) \in Node /\ Nth(s, i + 1) \in Node
      BY <1>2, <3>1
    <3>5. QED
      BY <1>3, <1>8, <1>9, <3>1, <3>2, <3>3, <3>4
  <2>2. CASE i = N
    <3>1. i \in 0 .. N
      BY <1>1, <2>2
    <3>2. Nth(w, i) = Nth(s, N) /\ Nth(w, i + 1) = u /\ Nth(s, N) # u
      BY <1>10, <1>11, <1>13, <2>2, <3>1
    <3>3. QED
      BY <1>8, <1>9, <1>12, <1>13, <3>2
  <2>3. CASE i = N + 1
    <3>1. i + 1 = N + 2 /\ N + 1 \in 0 .. N + 1
      BY <1>1, <2>3
    <3>2. Nth(w, i) = u /\ Nth(w, i + 1) = Tailer /\ Tailer # u
      BY <1>7, <1>10, <1>11, <2>3, <3>1
    <3>3. QED
      BY <1>8, <1>9, <1>12, <3>2
  <2>4. QED
    BY <1>1, <2>1, <2>2, <2>3
<1>16. \A i, j \in 1 .. N + 1 : w[i] = w[j] => i = j
  <2>1. \A i \in 1 .. N : s[i] # u
    BY <1>4
  <2>2. \A i \in 1 .. N + 1 : i \in 1 .. N \/ i = N + 1
    BY <1>1
  <2>3. QED
    BY <1>5, <1>6, <2>1, <2>2
<1>17. \A v \in Url : v \in m \cup {u} <=> \E i \in 1 .. N + 1 : w[i] = v
  <2>1. \A i \in 1 .. N + 1 : i \in 1 .. N \/ i = N + 1
    BY <1>1
  <2>2. N + 1 \in 1 .. N + 1 /\ \A i \in 1 .. N : i \in 1 .. N + 1
    BY <1>1
  <2>3. QED
    BY <1>4, <1>6, <2>1, <2>2
<1>18. m \cup {u} \in SUBSET Url
  BY <1>4
<1>19. Path(r, m \cup {u}, w)
  BY <1>6, <1>15, <1>16, <1>17, <1>18 DEF Path
<1>20. QED
  BY <1>14, <1>19 DEF r, w

\* The list without nodes.
LEMMA EmptyPath ==
    ASSUME NEW l, l.next[Header] = Tailer, l.prev[Tailer] = Header
    PROVE  Path(l, {}, <<>>)
<1>1. <<>> \in Seq(Url) /\ Len(<<>>) = 0 /\ 1 .. 0 = {} /\ 0 .. 0 = {0}
  OBVIOUS
<1>2. Nth(<<>>, 0) = Header /\ Nth(<<>>, 0 + 1) = Tailer
  BY <1>1 DEF Nth
<1>3. QED
  BY <1>1, <1>2 DEF Path

\* A first resource is the one EvictOne takes.
LEMMA FirstIsVictim ==
    ASSUME NEW l, NEW m, NEW s, Path(l, m, s), m # {}
    PROVE  1 \in 1 .. Len(s) /\ l.next[Header] = s[1] /\ Head(s) = s[1] /\ s # <<>> /\ Tail(s) = Without(s, 1)
<1>1. Len(s) \in Nat /\ s \in Seq(Url)
  BY PathNodes DEF Path
<1>2. PICK u \in Url : u \in m
  BY DEF Path
<1>3. 1 \in 1 .. Len(s)
  BY <1>1, <1>2 DEF Path
<1>4. l.next[Nth(s, 0)] = Nth(s, 0 + 1)
  BY <1>1 DEF Path
<1>5. Nth(s, 0) = Header /\ Nth(s, 0 + 1) = s[1]
  BY <1>1, <1>3 DEF Nth
<1>6. s # <<>> /\ Head(s) = s[1]
  BY <1>1, <1>3
<1>7. Tail(s) = Without(s, 1)
  <2>1. Tail(s) \in Seq(Url) /\ Len(Tail(s)) = Len(s) - 1 /\ \A i \in 1 .. Len(Tail(s)) : Tail(s)[i] = s[i + 1]
    BY <1>1, <1>6
  <2>2. /\ Without(s, 1) \in Seq(Url) /\ Len(Without(s, 1)) = Len(s) - 1
        /\ \A i \in 1 .. Len(s) - 1 : Without(s, 1)[i] = IF i < 1 THEN s[i] ELSE s[i + 1]
    BY <1>1, <1>3, WithoutIs
  <2>3. \A i \in 1 .. Len(s) - 1 : Without(s, 1)[i] = s[i + 1]
    BY <1>1, <2>2
  <2>4. QED
    BY <2>1, <2>2, <2>3
<1>8. QED
  BY <1>3, <1>4, <1>5, <1>6, <1>7
-----------------------------------------------------------------------------
\* What the operations of the cache keep.
CacheInv ==
    /\ TypeOK
    /\ \E s : Path(list, mapping_, s)
    /\ occupancy_ = Total(data_, mapping_) /\ occupancy_ <= Capacity
    /\ \A u \in mapping_ : data_[u] \in Data
    /\ incoming # None =>
        incoming \notin mapping_ /\ data_[incoming] \in Data /\ Size[data_[incoming]] <= Capacity

\* occupancy_, a size_t, does not overflow while it is at most the capacity.
LEMMA SmallModulo ==
    ASSUME NEW a \in Nat, a <= Capacity
    PROVE  a % SizeModulus = a /\ a \in 0 .. SizeModulus - 1
BY CacheAssumption

\* What the invariant says of the abstract cache.
LEMMA CacheAbstract ==
    ASSUME CacheInv
    PROVE  /\ Path(list, mapping_, Forward)
           /\ Abstract!Cached = mapping_
           /\ Abstract!Used = occupancy_
           /\ occupancy_ = Total(data_, mapping_)
           /\ IsFiniteSet(mapping_)
           /\ list \in Lists
           /\ occupancy_ \in Nat /\ occupancy_ <= Capacity
           /\ \A u \in mapping_ : Size[data_[u]] \in Nat
<1>1. PICK s : Path(list, mapping_, s)
  BY DEF CacheInv
<1>2. Forward = s
  BY <1>1, NodesAre DEF Forward
<1>3. Path(list, mapping_, Forward)
  BY <1>1, <1>2
<1>4. Abstract!Cached = mapping_
  <2>1. s \in Seq(Url) /\ DOMAIN s = 1 .. Len(s)
    BY <1>1 DEF Path
  <2>2. \A i \in 1 .. Len(s) : s[i] \in Url
    BY <2>1
  <2>3. {s[i] : i \in DOMAIN s} = mapping_
    BY <1>1, <2>1, <2>2 DEF Path
  <2>4. QED
    BY <1>2, <2>3 DEF Abstract!Cached
<1>5. occupancy_ = Total(data_, mapping_) /\ occupancy_ <= Capacity
  BY DEF CacheInv
<1>6. Abstract!Used = Total(data_, mapping_)
  BY <1>4, Zenon DEF Abstract!Used, Total, MapThenSumSet, MapThenFoldSet,
                     Abstract!MapThenSumSet, Abstract!MapThenFoldSet
<1>7. IsFiniteSet(mapping_)
  BY <1>1, PathLength
<1>8. list \in Lists
  BY DEF CacheInv, TypeOK, Lists
<1>9. occupancy_ \in Nat
  BY CacheAssumption DEF CacheInv, TypeOK
<1>10. \A u \in mapping_ : Size[data_[u]] \in Nat
  BY CacheAssumption DEF CacheInv
<1>11. QED
  BY <1>3, <1>4, <1>5, <1>6, <1>7, <1>8, <1>9, <1>10

\* The constructor makes an empty list.
LEMMA CacheInitInv == Init => CacheInv /\ Abstract!Init
<1> SUFFICES ASSUME Init PROVE CacheInv /\ Abstract!Init
  OBVIOUS
<1>1. list \in Lists /\ list.next[Header] = Tailer /\ list.prev[Tailer] = Header
  BY DEF Init, EmptyList, Lists, Node
<1>2. Path(list, mapping_, <<>>)
  BY <1>1, EmptyPath DEF Init
<1>3. TypeOK
  BY <1>1, CacheAssumption DEF Init, TypeOK, Lists
<1>4. occupancy_ = Total(data_, mapping_) /\ occupancy_ <= Capacity
  BY TotalEmpty, CacheAssumption DEF Init
<1>5. CacheInv
  BY <1>2, <1>3, <1>4 DEF CacheInv, Init
<1>6. Forward = <<>>
  BY <1>2, NodesAre DEF Forward
<1>7. QED
  BY <1>5, <1>6 DEF Init, Abstract!Init

\* A hit of TryLoad.
LEMMA TryLoadKeeps ==
    ASSUME CacheInv, NEW u \in Url, TryLoad(u)
    PROVE  CacheInv' /\ Abstract!Load(u)
<1> DEFINE s == Forward
<1>1. Path(list, mapping_, s) /\ list \in Lists
  BY CacheAbstract
<1> HIDE DEF s
<1>2. PICK p \in 1 .. Len(s) : s[p] = u
  BY <1>1 DEF Path, TryLoad
<1> DEFINE r == RemoveFromList(list, u)
<1>3. r \in Lists /\ Path(r, mapping_ \ {u}, Without(s, p))
  BY <1>1, <1>2, RemoveKeeps, SMTT(30)
<1> HIDE DEF r
<1>4. /\ AppendToListTail(r, u) \in Lists
      /\ Path(AppendToListTail(r, u), (mapping_ \ {u}) \cup {u}, Append(Without(s, p), u))
  BY <1>3, AppendKeeps
<1>5. (mapping_ \ {u}) \cup {u} = mapping_ /\ mapping_' = mapping_ /\ list' = AppendToListTail(r, u)
  BY DEF TryLoad, r
<1>6. list' \in Lists /\ Path(list', mapping_', Append(Without(s, p), u))
  BY <1>4, <1>5, Zenon
<1>7. CacheInv'
  <2>1. UNCHANGED <<mapping_, data_, occupancy_, incoming>>
    BY DEF TryLoad
  <2>2. TypeOK'
    BY <1>6, <2>1 DEF CacheInv, TypeOK, Lists
  <2>3. QED
    BY <1>6, <2>1, <2>2 DEF CacheInv
<1>8. Forward' = Append(Without(s, p), u)
  BY <1>6, NodesAre, Zenon DEF Forward
<1>9. p \in DOMAIN s
  BY <1>1, <1>2 DEF Path
<1>10. QED
  BY <1>2, <1>7, <1>8, <1>9, Zenon DEF Abstract!Load, TryLoad, Without, s

\* TryInsert past its early returns.
LEMMA TryInsertKeeps ==
    ASSUME CacheInv, NEW u \in Url, NEW d \in Data, TryInsert(u, d)
    PROVE  CacheInv' /\ Abstract!BeginInsert(u, d)
<1>1. u \notin mapping_ /\ UNCHANGED <<list, mapping_, occupancy_>> /\ incoming' = u
  BY DEF TryInsert
<1>2. data_ \in [Url -> Data \cup {None}] /\ data_' = [data_ EXCEPT ![u] = d]
  BY DEF CacheInv, TypeOK, TryInsert
<1>3. data_' \in [Url -> Data \cup {None}] /\ data_'[u] = d /\ \A v \in mapping_ : data_'[v] = data_[v]
  BY <1>1, <1>2 DEF CacheInv, TypeOK
<1>4. IsFiniteSet(mapping_) /\ occupancy_ = Total(data_, mapping_) /\ occupancy_ <= Capacity
  BY CacheAbstract
<1>5. Total(data_', mapping_) = Total(data_, mapping_)
  BY <1>3, <1>4, TotalSame
<1>6. occupancy_' = Total(data_', mapping_') /\ occupancy_' <= Capacity
  BY <1>1, <1>4, <1>5
<1>7. TypeOK'
  BY <1>1, <1>3 DEF CacheInv, TypeOK
<1>8. u # None
  BY CacheAssumption
<1>9. CacheInv'
  BY <1>1, <1>3, <1>6, <1>7, <1>8 DEF CacheInv, TryInsert
<1>10. Forward' = Forward
  BY <1>1 DEF Forward
<1>11. QED
  BY <1>9, <1>10, CacheAbstract DEF Abstract!BeginInsert, TryInsert

\* Whether there is room, without wrapping.
LEMMA RoomIs ==
    ASSUME CacheInv, incoming # None
    PROVE  /\ data_[incoming] \in Data /\ Size[data_[incoming]] \in Nat /\ Size[data_[incoming]] <= Capacity
           /\ NeedsRoom <=> occupancy_ + Size[data_[incoming]] > Capacity
<1>1. data_[incoming] \in Data /\ Size[data_[incoming]] \in Nat /\ Size[data_[incoming]] <= Capacity
  BY CacheAssumption DEF CacheInv
<1>2. occupancy_ \in Nat /\ occupancy_ <= Capacity /\ Capacity \in Nat /\ occupancy_ = Total(data_, mapping_)
  BY CacheAbstract, CacheAssumption
<1>3. (Capacity - occupancy_) % SizeModulus = Capacity - occupancy_
  <2>1. Capacity - occupancy_ \in Nat /\ Capacity - occupancy_ <= Capacity
    BY <1>2
  <2>2. QED
    BY <2>1, SmallModulo
<1>4. mapping_ = {} => occupancy_ = 0
  BY <1>2, TotalEmpty
<1>5. QED
  BY <1>1, <1>2, <1>3, <1>4 DEF NeedsRoom

\* One turn of the eviction loop.
LEMMA MakeRoomKeeps ==
    ASSUME CacheInv, MakeRoom
    PROVE  CacheInv' /\ Abstract!Evict
<1> DEFINE s == Forward
           v == Victim
<1>1. Path(list, mapping_, s) /\ list \in Lists
  BY CacheAbstract
<1> HIDE DEF s
<1>2. mapping_ # {} /\ incoming # None /\ v \in mapping_ /\ incoming' = incoming
  BY DEF MakeRoom, NeedsRoom
<1>3. 1 \in 1 .. Len(s) /\ v = s[1] /\ Head(s) = s[1] /\ Tail(s) = Without(s, 1)
  BY <1>1, <1>2, FirstIsVictim DEF Victim
<1>4. RemoveFromList(list, s[1]) \in Lists
      /\ Path(RemoveFromList(list, s[1]), mapping_ \ {s[1]}, Without(s, 1))
  BY <1>1, <1>3, RemoveKeeps, Zenon
<1>5. /\ list' = RemoveFromList(list, v) /\ mapping_' = mapping_ \ {v}
      /\ data_' = [data_ EXCEPT ![v] = None]
      /\ occupancy_' = (occupancy_ - Size[data_[v]]) % SizeModulus
  BY DEF MakeRoom, EvictOne, Erase
<1> HIDE DEF v
<1>6. list' \in Lists /\ Path(list', mapping_', Tail(s))
  BY <1>3, <1>4, <1>5, Zenon
<1>7. /\ IsFiniteSet(mapping_) /\ occupancy_ = Total(data_, mapping_)
      /\ occupancy_ \in Nat /\ occupancy_ <= Capacity
      /\ \A u \in mapping_ : Size[data_[u]] \in Nat
  BY CacheAbstract
<1>8. v \in Url /\ data_ \in [Url -> Data \cup {None}] /\ mapping_ \subseteq Url
  BY <1>2 DEF CacheInv, TypeOK
<1>9. data_' \in [Url -> Data \cup {None}] /\ \A u \in mapping_' : data_'[u] = data_[u] /\ u \in mapping_ /\ u # v
  BY <1>5, <1>8
<1>10. Total(data_, mapping_) = Size[data_[v]] + Total(data_, mapping_ \ {v})
  BY <1>2, <1>7, TotalWithout
<1>11. IsFiniteSet(mapping_') /\ Total(data_, mapping_') \in Nat /\ Total(data_', mapping_') = Total(data_, mapping_')
  <2>1. IsFiniteSet(mapping_')
    BY <1>6, PathLength
  <2>2. \A u \in mapping_' : Size[data_[u]] \in Nat
    BY <1>7, <1>9
  <2>3. \A u \in mapping_' : data_'[u] = data_[u]
    BY <1>9
  <2>4. Total(data_, mapping_') \in Nat
    BY <2>1, <2>2, TotalNat
  <2>5. QED
    BY <2>1, <2>3, <2>4, TotalSame
<1>12. occupancy_' = Total(data_', mapping_') /\ occupancy_' <= Capacity /\ occupancy_' \in 0 .. SizeModulus - 1
  <2> DEFINE rest == Total(data_, mapping_')
  <2>1. occupancy_ = Size[data_[v]] + rest /\ rest \in Nat /\ Size[data_[v]] \in Nat
    BY <1>2, <1>5, <1>7, <1>10, <1>11
  <2> HIDE DEF rest
  <2>2. occupancy_ - Size[data_[v]] = rest /\ rest <= Capacity
    BY <1>7, <2>1, CacheAssumption
  <2>3. rest % SizeModulus = rest /\ rest \in 0 .. SizeModulus - 1
    BY <2>1, <2>2, SmallModulo
  <2>4. occupancy_' = rest
    BY <1>5, <2>2, <2>3
  <2>5. QED
    BY <1>11, <2>2, <2>3, <2>4 DEF rest
<1>14. incoming # v /\ data_'[incoming] = data_[incoming]
  <2>1. incoming \in Url /\ incoming \notin mapping_
    BY <1>2 DEF CacheInv, TypeOK
  <2>2. QED
    BY <1>2, <1>5, <1>8, <2>1
<1>15. TypeOK'
  BY <1>2, <1>5, <1>6, <1>8, <1>9, <1>12 DEF CacheInv, TypeOK, Lists
<1>16. CacheInv'
  BY <1>2, <1>5, <1>6, <1>9, <1>12, <1>14, <1>15 DEF CacheInv
<1>17. Forward' = Tail(s)
  BY <1>6, NodesAre, Zenon DEF Forward
<1>18. Abstract!Used + Abstract!Needed > Capacity
  <2>1. NeedsRoom
    BY DEF MakeRoom
  <2>2. QED
    BY <1>2, <2>1, RoomIs, CacheAbstract DEF Abstract!Needed
<1>19. QED
  BY <1>2, <1>3, <1>5, <1>16, <1>17, <1>18 DEF Abstract!Evict, s

\* There is room: the new node becomes the last.
LEMMA EndInsertKeeps ==
    ASSUME CacheInv, EndInsert
    PROVE  CacheInv' /\ Abstract!EndInsert
<1> DEFINE s == Forward
           u == incoming
<1>1. Path(list, mapping_, s) /\ list \in Lists
  BY CacheAbstract
<1> HIDE DEF s
<1>2. u # None /\ u \in Url /\ u \notin mapping_ /\ data_[u] \in Data
  BY DEF EndInsert, CacheInv, TypeOK
<1>3. /\ list' = AppendToListTail(list, u) /\ mapping_' = mapping_ \cup {u}
      /\ occupancy_' = (occupancy_ + Size[data_[u]]) % SizeModulus
      /\ incoming' = None /\ data_' = data_
  BY DEF EndInsert
<1>4. occupancy_ + Size[data_[u]] <= Capacity /\ Size[data_[u]] \in Nat
  <2>1. ~NeedsRoom
    BY DEF EndInsert
  <2>2. occupancy_ \in Nat /\ Capacity \in Nat
    BY CacheAbstract, CacheAssumption
  <2>3. QED
    BY <1>2, <2>1, <2>2, RoomIs
<1> HIDE DEF u
<1>5. list' \in Lists /\ Path(list', mapping_', Append(s, u))
  BY <1>1, <1>2, <1>3, AppendKeeps
<1>6. /\ IsFiniteSet(mapping_) /\ occupancy_ = Total(data_, mapping_)
      /\ occupancy_ \in Nat
      /\ \A w \in mapping_ : Size[data_[w]] \in Nat
  BY CacheAbstract
<1>7. Total(data_, mapping_ \cup {u}) = Size[data_[u]] + Total(data_, mapping_)
  <2>1. \A w \in mapping_ \cup {u} : Size[data_[w]] \in Nat
    BY <1>4, <1>6
  <2>2. QED
    BY <1>2, <1>6, <2>1, TotalWith, Zenon
<1>8. occupancy_' = Total(data_', mapping_') /\ occupancy_' <= Capacity /\ occupancy_' \in 0 .. SizeModulus - 1
  <2> DEFINE n == occupancy_ + Size[data_[u]]
  <2>1. n \in Nat /\ n <= Capacity
    BY <1>4, <1>6
  <2>2. Total(data_', mapping_') = n
    BY <1>3, <1>4, <1>6, <1>7
  <2> HIDE DEF n
  <2>3. occupancy_' = n % SizeModulus
    BY <1>3 DEF n
  <2>4. QED
    BY <2>1, <2>2, <2>3, SmallModulo
<1>10. TypeOK'
  BY <1>2, <1>3, <1>5, <1>8 DEF CacheInv, TypeOK, Lists
<1>11. CacheInv'
  BY <1>2, <1>3, <1>5, <1>8, <1>10 DEF CacheInv
<1>12. Forward' = Append(s, u)
  BY <1>5, NodesAre, Zenon DEF Forward
<1>13. Abstract!Used + Abstract!Needed <= Capacity
  BY <1>4, CacheAbstract DEF Abstract!Needed, u
<1>14. QED
  BY <1>2, <1>3, <1>11, <1>12, <1>13 DEF Abstract!EndInsert, s, u

\* Clear leaves an empty list, whatever was in it.
LEMMA ClearKeeps ==
    ASSUME CacheInv, Clear
    PROVE  CacheInv' /\ Abstract!Clear
<1>1. /\ list' = [list EXCEPT !.next[Header] = Tailer, !.prev[Tailer] = Header]
      /\ mapping_' = {} /\ data_' = [u \in Url |-> None] /\ occupancy_' = 0
      /\ incoming = None /\ incoming' = None
  BY DEF Clear
<1>2. list \in Lists
  BY CacheAbstract
<1>3. list' \in Lists /\ list'.next[Header] = Tailer /\ list'.prev[Tailer] = Header
  BY <1>1, <1>2, Zenon DEF Lists, Node
<1>4. Path(list', mapping_', <<>>)
  BY <1>1, <1>3, EmptyPath, Zenon
<1>5. TypeOK'
  BY <1>1, <1>3, CacheAssumption DEF TypeOK, Lists
<1>6. occupancy_' = Total(data_', mapping_') /\ occupancy_' <= Capacity
  BY <1>1, TotalEmpty, CacheAssumption
<1>7. CacheInv'
  BY <1>1, <1>4, <1>5, <1>6 DEF CacheInv
<1>8. Forward' = <<>>
  BY <1>4, NodesAre DEF Forward
<1>9. QED
  BY <1>1, <1>7, <1>8 DEF Abstract!Clear

\* Each step of the cache is one of the abstract cache.
LEMMA CacheStep ==
    ASSUME CacheInv, [Next]_cacheVars
    PROVE  CacheInv' /\ [Abstract!Next]_(Abstract!vars)
<1>1. ASSUME NEW u \in Url, TryLoad(u) PROVE CacheInv' /\ Abstract!Next
  BY <1>1, TryLoadKeeps DEF Abstract!Next
<1>2. ASSUME NEW u \in Url, NEW d \in Data, TryInsert(u, d) PROVE CacheInv' /\ Abstract!Next
  BY <1>2, TryInsertKeeps DEF Abstract!Next
<1>3. ASSUME MakeRoom PROVE CacheInv' /\ Abstract!Next
  BY <1>3, MakeRoomKeeps DEF Abstract!Next
<1>4. ASSUME EndInsert PROVE CacheInv' /\ Abstract!Next
  BY <1>4, EndInsertKeeps DEF Abstract!Next
<1>5. ASSUME Clear PROVE CacheInv' /\ Abstract!Next
  BY <1>5, ClearKeeps DEF Abstract!Next
<1>6. ASSUME UNCHANGED cacheVars PROVE CacheInv' /\ UNCHANGED Abstract!vars
  <2>1. CacheInv'
    BY <1>6 DEF cacheVars, CacheInv, TypeOK
  <2>2. UNCHANGED Abstract!vars
    BY <1>6 DEF cacheVars, Abstract!vars, Forward
  <2>3. QED
    BY <2>1, <2>2
<1>7. QED
  BY <1>1, <1>2, <1>3, <1>4, <1>5, <1>6 DEF Next

\* The invariant gives the properties.
LEMMA CacheInvImplies ==
    ASSUME CacheInv PROVE ListMatchesMap /\ OccupancyExact
<1> DEFINE s == Forward
           path == <<Header>> \o s \o <<Tailer>>
<1>1. Path(list, mapping_, s) /\ Abstract!Cached = mapping_
  BY CacheAbstract
<1>2. Len(s) \in Nat /\ s \in Seq(Node) /\ Len(s) = Cardinality(mapping_)
  <2>1. s \in Seq(Url) /\ Url \subseteq Node
    BY <1>1 DEF Path, Node
  <2>2. s \in Seq(Node)
    BY <2>1
  <2>3. QED
    BY <1>1, <2>2, PathNodes, PathLength
<1>3. {s[i] : i \in DOMAIN s} = mapping_
  BY <1>1 DEF Abstract!Cached
<1> HIDE DEF s
<1>4. Len(path) = Len(s) + 2 /\ \A i \in 1 .. Len(s) + 2 : path[i] = Nth(s, i - 1)
  <2>1. <<Header>> \in Seq(Node) /\ <<Tailer>> \in Seq(Node) /\ Len(<<Header>>) = 1 /\ Len(<<Tailer>>) = 1
        /\ <<Header>>[1] = Header /\ <<Tailer>>[1] = Tailer
    BY DEF Node
  <2> DEFINE front == <<Header>> \o s
  <2>2. front \in Seq(Node) /\ Len(front) = Len(s) + 1
        /\ \A i \in 1 .. Len(s) + 1 : front[i] = IF i <= 1 THEN Header ELSE s[i - 1]
    BY <1>2, <2>1
  <2> HIDE DEF front
  <2>3. Len(front \o <<Tailer>>) = Len(s) + 2
        /\ \A i \in 1 .. Len(s) + 2 : (front \o <<Tailer>>)[i] = IF i <= Len(s) + 1 THEN front[i] ELSE <<Tailer>>[i - (Len(s) + 1)]
    BY <1>2, <2>1, <2>2, SMTT(30)
  <2>4. path = front \o <<Tailer>>
    BY DEF front
  <2>5. ASSUME NEW i \in 1 .. Len(s) + 2 PROVE (front \o <<Tailer>>)[i] = Nth(s, i - 1)
    <3>1. CASE i <= Len(s) + 1
      BY <1>2, <2>2, <2>3, <3>1 DEF Nth
    <3>2. CASE i = Len(s) + 2
      <4>1. i - (Len(s) + 1) = 1 /\ ~(i <= Len(s) + 1) /\ i - 1 = Len(s) + 1 /\ i - 1 # 0
        BY <1>2, <3>2
      <4>2. QED
        BY <2>1, <2>3, <4>1 DEF Nth
    <3>3. i <= Len(s) + 1 \/ i = Len(s) + 2
      BY <1>2
    <3>4. QED
      BY <3>1, <3>2, <3>3, Zenon
  <2>6. QED
    BY <2>3, <2>4, <2>5
<1> HIDE DEF path
<1>5. ASSUME NEW i \in 1 .. Len(path) - 1
      PROVE  list.next[path[i]] = path[i + 1] /\ list.prev[path[i + 1]] = path[i]
  <2>1. i \in 1 .. Len(s) + 2 /\ i + 1 \in 1 .. Len(s) + 2 /\ i - 1 \in 0 .. Len(s) /\ (i + 1) - 1 = (i - 1) + 1
    BY <1>2, <1>4
  <2>2. path[i] = Nth(s, i - 1) /\ path[i + 1] = Nth(s, (i - 1) + 1)
    BY <1>4, <2>1
  <2>3. QED
    BY <1>1, <2>1, <2>2 DEF Path
<1>6. ListMatchesMap
  BY <1>2, <1>3, <1>5, Zenon DEF ListMatchesMap, s, path
<1>7. OccupancyExact
  BY CacheAbstract, Zenon DEF OccupancyExact, Total
<1>8. QED
  BY <1>6, <1>7

\* The list from header_ to tailer_ and back holds exactly the resources of the map, and
\* occupancy_ is the sum of the sizes of their data, after every TryLoad, TryInsert, step
\* of its eviction loop and Clear.
THEOREM CacheConsistent == Spec => [](ListMatchesMap /\ OccupancyExact)
<1>1. Init => CacheInv
  BY CacheInitInv
<1>2. CacheInv /\ [Next]_cacheVars => CacheInv'
  BY CacheStep
<1>3. CacheInv => ListMatchesMap /\ OccupancyExact
  BY CacheInvImplies
<1>4. QED
  BY <1>1, <1>2, <1>3, PTL DEF Spec

\* The cache implements a cache that evicts the least recently used resource: TryLoad makes
\* a resource the most recent one, and TryInsert evicts the oldest ones until there is room.
THEOREM CacheIsLRU == Spec => ImplementsLRU
<1>1. Init => CacheInv /\ Abstract!Init
  BY CacheInitInv
<1>2. CacheInv /\ [Next]_cacheVars => CacheInv' /\ [Abstract!Next]_(Abstract!vars)
  BY CacheStep
<1>3. QED
  BY <1>1, <1>2, PTL DEF Spec, ImplementsLRU, Abstract!Spec
-----------------------------------------------------------------------------
(* The responses. *)

\* A body has a size.
LEMMA BodySizeNat ==
    ASSUME NEW b \in Body
    PROVE  BodySize(b) \in Nat
<1> DEFINE S == DOMAIN b
           f == [i \in S |-> IF b[i] \in Data THEN Size[b[i]] ELSE 1]
           Step(g) == [s \in SUBSET S |-> IF s = {} THEN 0
                           ELSE (IF b[One(s)] \in Data THEN Size[b[One(s)]] ELSE 1) + g[s \ {One(s)}]]
           sum == CHOOSE g : g = Step(g)
<1>1. BodySize(b) = sum[S]
  BY Zenon DEF BodySize, MapThenSumSet, MapThenFoldSet, One
<1>2. S = 1 .. Len(b) /\ Len(b) \in Nat
  BY DEF Body
<1>3. IsFiniteSet(S)
  BY <1>2, FS_Interval
<1>4. \A i \in S : f[i] \in Nat
  BY CacheAssumption
<1>5. \A g : Step(g) = [s \in SUBSET S |-> IF s = {} THEN 0 ELSE f[One(s)] + g[s \ {One(s)}]]
  <2>1. \A s \in SUBSET S : s # {} => One(s) \in S
    BY OneIn
  <2>2. QED
    BY <2>1
<1> HIDE DEF S, f
<1>6. PICK g : Adds(g, f, S)
  BY <1>3, SumExists, Zenon
<1>7. g = Step(g)
  BY <1>5, <1>6, Zenon DEF Adds
<1>8. sum = Step(sum)
  BY <1>7, Zenon
<1> HIDE DEF sum
<1>9. Adds(sum, f, S)
  BY <1>5, <1>8, Zenon DEF Adds
<1>10. Sums(sum, f, S)
  BY <1>9, AddsSums, Zenon
<1>11. \A s \in SUBSET S : sum[s] \in Nat
  BY <1>3, <1>4, <1>10, SumNat
<1>12. QED
  BY <1>1, <1>11

\* What the cache keeps even when its list is spoilt: each node has its data.
StoreInv ==
    /\ TypeOK
    /\ \A u \in mapping_ : data_[u] \in Data
    /\ incoming # None => incoming \notin mapping_ /\ data_[incoming] \in Data

\* A cache that is right keeps that too.
LEMMA CacheStores == ASSUME CacheInv PROVE StoreInv
BY Zenon DEF CacheInv, StoreInv

\* Moving a node leaves a list of nodes, whatever the list was.
LEMMA ListsStay ==
    ASSUME NEW l \in Lists, NEW n \in Node
    PROVE  AppendToListTail(l, n) \in Lists /\ RemoveFromList(l, n) \in Lists
<1>1. Tailer \in Node
  BY DEF Node
<1>2. l.next \in [Node -> Node \cup {None}] /\ l.prev \in [Node -> Node \cup {None}]
  BY DEF Lists
<1>3. AppendToListTail(l, n) \in Lists
  <2> DEFINE p == l.prev[Tailer]
  <2>1. AppendToListTail(l, n) = [next |-> [l.next EXCEPT ![p] = n, ![n] = Tailer],
                                  prev |-> [l.prev EXCEPT ![Tailer] = n, ![n] = p]]
    BY DEF AppendToListTail
  <2>2. p \in Node \cup {None}
    BY <1>1, <1>2
  <2> HIDE DEF p
  <2>3. [l.next EXCEPT ![p] = n, ![n] = Tailer] \in [Node -> Node \cup {None}]
    BY <1>1, <1>2
  <2>4. [l.prev EXCEPT ![Tailer] = n, ![n] = p] \in [Node -> Node \cup {None}]
    BY <1>1, <1>2, <2>2
  <2>5. QED
    BY <2>1, <2>3, <2>4 DEF Lists
<1>4. RemoveFromList(l, n) \in Lists
  <2>1. l.prev[n] \in Node \cup {None} /\ l.next[n] \in Node \cup {None}
    BY <1>2
  <2>2. [l.next EXCEPT ![l.prev[n]] = l.next[n]] \in [Node -> Node \cup {None}]
    BY <1>2, <2>1
  <2>3. [l.prev EXCEPT ![l.next[n]] = l.prev[n]] \in [Node -> Node \cup {None}]
    BY <1>2, <2>1
  <2>4. QED
    BY <2>2, <2>3 DEF RemoveFromList, Lists
<1>5. QED
  BY <1>3, <1>4

\* occupancy_ is a size_t.
LEMMA ModuloIs ==
    ASSUME NEW a \in Int PROVE a % SizeModulus \in 0 .. SizeModulus - 1
<1>1. SizeModulus \in Nat /\ SizeModulus > 0
  BY CacheAssumption
<1>2. QED
  BY <1>1

\* Taking out any node keeps the data of the others.
LEMMA EraseKeeps ==
    ASSUME StoreInv, NEW v \in mapping_, NEW n \in Nat, Erase(v, n), list' \in Lists, UNCHANGED incoming
    PROVE  StoreInv'
<1>1. /\ mapping_' = mapping_ \ {v} /\ data_' = [data_ EXCEPT ![v] = None]
      /\ occupancy_' = (occupancy_ - n) % SizeModulus
  BY DEF Erase
<1>2. occupancy_' \in 0 .. SizeModulus - 1
  <2>1. occupancy_ - n \in Int
    BY CacheAssumption DEF StoreInv, TypeOK
  <2>2. QED
    BY <1>1, <2>1, ModuloIs
<1>3. mapping_' \subseteq Url /\ data_' \in [Url -> Data \cup {None}] /\ incoming' \in Url \cup {None}
  BY <1>1 DEF StoreInv, TypeOK
<1>4. \A u \in mapping_' : data_'[u] \in Data
  BY <1>1 DEF StoreInv, TypeOK
<1>5. incoming' # None => incoming' \notin mapping_' /\ data_'[incoming'] \in Data
  BY <1>1 DEF StoreInv, TypeOK
<1>6. TypeOK'
  BY <1>2, <1>3 DEF TypeOK, Lists
<1>7. QED
  BY <1>4, <1>5, <1>6 DEF StoreInv

\* Every use of the cache does.
LEMMA StoreStep ==
    ASSUME StoreInv, CacheUse
    PROVE  StoreInv'
<1>1. list \in Lists /\ mapping_ \subseteq Url /\ data_ \in [Url -> Data \cup {None}]
  BY DEF StoreInv, TypeOK, Lists
<1>2. ASSUME NEW u \in Url, TryLoad(u) PROVE StoreInv'
  <2>1. RemoveFromList(list, u) \in Lists /\ u \in Node
    BY <1>1, ListsStay DEF Node
  <2>2. list' \in Lists
    BY <1>2, <2>1, ListsStay DEF TryLoad
  <2>3. UNCHANGED <<mapping_, data_, occupancy_, incoming>>
    BY <1>2 DEF TryLoad
  <2>4. QED
    BY <2>2, <2>3 DEF StoreInv, TypeOK, Lists
<1>3. ASSUME NEW u \in Url, NEW d \in Data, TryInsert(u, d) PROVE StoreInv'
  <2>1. u \notin mapping_ /\ incoming' = u /\ data_' = [data_ EXCEPT ![u] = d]
        /\ UNCHANGED <<list, mapping_, occupancy_>>
    BY <1>3 DEF TryInsert
  <2>2. QED
    BY <1>1, <2>1 DEF StoreInv, TypeOK
<1>4. ASSUME MakeRoom PROVE StoreInv'
  <2>1. Victim \in mapping_ /\ Erase(Victim, Size[data_[Victim]]) /\ list' = RemoveFromList(list, Victim)
        /\ UNCHANGED incoming
    BY <1>4 DEF MakeRoom, EvictOne
  <2>2. Size[data_[Victim]] \in Nat /\ Victim \in Node
    BY <1>1, <2>1, CacheAssumption DEF StoreInv, Node
  <2>3. list' \in Lists
    BY <1>1, <2>1, <2>2, ListsStay
  <2>4. QED
    BY <2>1, <2>2, <2>3, EraseKeeps
<1>5. ASSUME EndInsert PROVE StoreInv'
  <2>1. /\ incoming # None /\ list' = AppendToListTail(list, incoming) /\ mapping_' = mapping_ \cup {incoming}
        /\ occupancy_' = (occupancy_ + Size[data_[incoming]]) % SizeModulus /\ incoming' = None /\ UNCHANGED data_
    BY <1>5 DEF EndInsert
  <2>2. incoming \in Url /\ incoming \in Node /\ Size[data_[incoming]] \in Nat
    BY <2>1, CacheAssumption DEF StoreInv, TypeOK, Node
  <2>3. list' \in Lists
    BY <1>1, <2>1, <2>2, ListsStay
  <2>4. occupancy_' \in 0 .. SizeModulus - 1
    <3>1. occupancy_ + Size[data_[incoming]] \in Int
      BY <2>2, CacheAssumption DEF StoreInv, TypeOK
    <3>2. QED
      BY <2>1, <3>1, ModuloIs
  <2>5. QED
    BY <1>1, <2>1, <2>2, <2>3, <2>4 DEF StoreInv, TypeOK, Lists
<1>6. ASSUME Clear PROVE StoreInv'
  <2>1. /\ list' = [list EXCEPT !.next[Header] = Tailer, !.prev[Tailer] = Header]
        /\ mapping_' = {} /\ data_' = [u \in Url |-> None] /\ occupancy_' = 0 /\ incoming = None /\ incoming' = None
    BY <1>6 DEF Clear
  <2>2. list' \in Lists
    BY <1>1, <2>1 DEF Lists, Node
  <2>3. 0 \in 0 .. SizeModulus - 1
    BY CacheAssumption
  <2>4. QED
    BY <2>1, <2>2, <2>3 DEF StoreInv, TypeOK, Lists
<1>7. ASSUME EraseAny PROVE StoreInv'
  <2>1. PICK u \in mapping_, d \in Data : Erase(u, Size[d]) /\ UNCHANGED <<list, incoming>>
    BY <1>7 DEF EraseAny
  <2>2. Size[d] \in Nat /\ list' \in Lists
    BY <1>1, <2>1, CacheAssumption
  <2>3. QED
    BY <2>1, <2>2, EraseKeeps
<1>8. ASSUME UNCHANGED cacheVars PROVE StoreInv'
  BY <1>8 DEF cacheVars, StoreInv, TypeOK
<1>9. Next \/ UNCHANGED cacheVars \/ EraseAny
  BY DEF CacheUse
<1>10. QED
  BY <1>2, <1>3, <1>4, <1>5, <1>6, <1>7, <1>8, <1>9, Zenon DEF Next

\* The inductive invariant of the server.
ServerInv == Inv /\ Framed /\ BodyInv /\ StoreInv /\ raced \in BOOLEAN /\ (~raced => CacheInv)

\* A server that was just started.
LEMMA ServerInitInv == HttpInit => ServerInv
<1> SUFFICES ASSUME HttpInit PROVE ServerInv
  OBVIOUS
<1>1. Inv /\ CacheInv
  BY InitInv, CacheInitInv DEF HttpInit
<1>2. Framed
  <2>1. ASSUME NEW c \in Client PROVE Unparsed(c) = <<>>
    BY DEF HttpInit, Unparsed
  <2>2. HeadsFirst(<<>>)
    BY DEF HeadsFirst
  <2>3. QED
    BY <2>1, <2>2 DEF Framed
<1>3. Stores
  <2>1. files \in [Url -> Data] /\ changed = {}
    BY HttpAssumption DEF HttpInit
  <2>2. tmp = [t \in Thread |-> None] /\ child = tmp /\ orphan = tmp /\ lost = {} /\ aborted = FALSE
        /\ response = [t \in Thread |-> None]
    BY DEF HttpInit
  <2>3. QED
    BY <2>1, <2>2, Zenon DEF Stores
<1>4. Sent
  BY DEF Sent, HttpInit
<1>5. ASSUME NEW t \in Thread PROVE Built(t) /\ OwnOutput(t)
  <2>1. pc[t] = "idle" /\ tmp[t] = None /\ child[t] = None /\ orphan[t] = None
    BY DEF HttpInit
  <2>2. QED
    BY <2>1 DEF Built, OwnOutput
<1>6. Coherent
  <2>1. mapping_ = {} /\ incoming = None
    BY DEF HttpInit, Init
  <2>2. None \notin Url
    BY CacheAssumption
  <2>3. QED
    BY <2>1, <2>2 DEF Coherent
<1>7. StoreInv /\ raced \in BOOLEAN
  BY <1>1, CacheStores DEF HttpInit
<1>8. QED
  BY <1>1, <1>2, <1>3, <1>4, <1>5, <1>6, <1>7 DEF ServerInv, BodyInv

\* The cache has the file.
LEMMA HitBodies ==
    ASSUME Inv, StoreInv, BodyInv, NEW t \in Thread, LoadHit(t)
    PROVE  BodyInv'
<1> DEFINE u == request[t].target
           d == data_[u]
<1>1. /\ pc[t] = "load" /\ pc' = [pc EXCEPT ![t] = "relink"] /\ u \in mapping_ /\ SetBody(t, d)
      /\ UNCHANGED <<mapping_, data_, incoming, files, changed, lost, tmp, child, orphan, answers, owner, request, aborted>>
  BY DEF LoadHit, Goto, cacheVars, OnlyThread, url, diskVars, cgiVars, connVars
<1>2. u \in Url /\ d \in Data
  BY <1>1 DEF StoreInv, BodyInv, Built
<1>3. Coherent
  BY <1>1, Served
<1>4. u \notin changed => d = files[u]
  BY <1>1, <1>2, <1>3 DEF Coherent
<1> HIDE DEF d
<1>5. /\ response' \in [Thread -> Response \cup {None}] /\ response'[t] \in Response
      /\ \A v \in Thread \ {t} : response'[v] = response[v]
      /\ Right(t, request[t], response'[t], files, changed, lost)
  <2>1. pc[t] \in {"load", "read"} /\ SetBody(t, d) /\ (request[t].target \notin changed => d = files[request[t].target])
    BY <1>1, <1>4, Zenon
  <2>2. BodyWritten(t, d)
    BY <1>2, <2>1, BodySet, Zenon
  <2>3. QED
    BY <2>2, Zenon DEF BodyWritten
<1>6. pc'[t] = "relink" /\ \A v \in Thread \ {t} : pc'[v] = pc[v]
  BY <1>1 DEF Inv, Threads
<1>7. Built(t)'
  <2>1. request[t] \in Request /\ request[t].target \in Url
    BY <1>1, Zenon DEF BodyInv, Built
  <2>2. request'[t] \in Request /\ request'[t].target \in Url /\ Right(t, request'[t], response'[t], files', changed', lost')
    BY <1>1, <1>5, <2>1
  <2>3. QED
    BY <1>5, <1>6, <2>2, Zenon DEF Built
<1>8. Coherent'
  BY <1>1, <1>3 DEF Coherent
<1>9. Plain(t) /\ aborted' \in BOOLEAN
  BY <1>1, <1>5, <1>6 DEF Plain, BodyInv, Stores
<1>10. QED
  BY <1>7, <1>8, <1>9, PlainKeeps

\* The data goes into the cache.
LEMMA InsertBodies ==
    ASSUME Inv, StoreInv, BodyInv, NEW t \in Thread, Insert(t)
    PROVE  BodyInv'
<1> DEFINE u == url(t)
           d == response[t].body[1]
<1>1. /\ pc[t] = "insert" /\ pc' = [pc EXCEPT ![t] = "evict"]
      /\ incoming = None /\ u \notin mapping_ /\ incoming' = u
      /\ data_' = [data_ EXCEPT ![u] = d] /\ UNCHANGED mapping_
      /\ UNCHANGED <<files, changed, lost, tmp, child, orphan, answers, owner, request, response, aborted>>
  BY DEF Insert, TryInsert, Goto, OnlyThread, diskVars, cgiVars, connVars
<1>2. u \in Url /\ d \in Data /\ (u \notin changed => d = files[u])
  BY <1>1, InsertIs
<1>3. data_ \in [Url -> Data \cup {None}]
  BY DEF StoreInv, TypeOK
<1>4. Coherent
  BY <1>1, Served
<1> HIDE DEF u, d
<1>5. Coherent'
  <2>1. ASSUME NEW w \in Url \ changed, w \in mapping_ \/ u = w PROVE data_'[w] = files[w]
    <3>1. CASE w = u
      BY <1>1, <1>2, <1>3, <2>1, <3>1
    <3>2. CASE w # u
      BY <1>1, <1>3, <1>4, <2>1, <3>2 DEF Coherent
    <3>3. QED
      BY <3>1, <3>2
  <2>2. QED
    BY <1>1, <2>1 DEF Coherent
<1>6. pc'[t] = "evict" /\ \A v \in Thread \ {t} : pc'[v] = pc[v]
  BY <1>1 DEF Inv, Threads
<1>7. Built(t)'
  BY <1>1, <1>6, EvictBuilt DEF BodyInv
<1>8. Plain(t) /\ aborted' \in BOOLEAN
  BY <1>1, <1>6 DEF Plain, BodyInv, Stores
<1>9. QED
  BY <1>5, <1>7, <1>8, PlainKeeps

\* Nothing goes into the cache; or the eviction ends, or takes one more.
LEMMA EvictBodies ==
    ASSUME Inv, StoreInv, BodyInv, NEW t \in Thread, InsertNothing(t) \/ Evict(t)
    PROVE  BodyInv'
<1>1. /\ pc[t] \in {"insert", "evict"}
      /\ UNCHANGED <<files, changed, lost, tmp, child, orphan, answers, owner, request, response>>
  BY Zenon DEF InsertNothing, Evict, Goto, OnlyThread, diskVars, cgiVars, connVars
<1>2. Coherent
  BY <1>1, Served
<1>3. data_ \in [Url -> Data \cup {None}]
  BY DEF StoreInv, TypeOK
<1>4. ASSUME NEW v \in mapping_, NEW n, Erase(v, n), UNCHANGED incoming PROVE Coherent'
  <2>1. mapping_' = mapping_ \ {v} /\ data_' = [data_ EXCEPT ![v] = None] /\ incoming' = incoming
    BY <1>4 DEF Erase
  <2>2. incoming # None => incoming # v
    BY DEF StoreInv
  <2>3. ASSUME NEW w \in Url \ changed, w \in mapping_' \/ incoming' = w PROVE data_'[w] = files[w]
    <3>1. w # None
      BY CacheAssumption
    <3>2. w # v /\ (w \in mapping_ \/ incoming = w)
      BY <2>1, <2>2, <2>3, <3>1
    <3>3. data_'[w] = data_[w]
      BY <1>3, <2>1, <3>2
    <3>4. QED
      BY <1>2, <3>2, <3>3 DEF Coherent
  <2>4. QED
    BY <1>1, <2>3 DEF Coherent
<1>5. ASSUME Coherent', Goto(t, "evict", "evict"), aborted' \in BOOLEAN PROVE BodyInv'
  <2>1. pc[t] = "evict" /\ pc'[t] = "evict" /\ \A v \in Thread \ {t} : pc'[v] = pc[v]
    BY <1>5 DEF Goto, Inv, Threads
  <2>2. Built(t)'
    BY <1>1, <2>1, EvictBuilt DEF BodyInv
  <2>3. Plain(t)
    BY <1>1, <2>1 DEF Plain, BodyInv, Stores
  <2>4. QED
    BY <1>5, <2>2, <2>3, PlainKeeps
<1>6. aborted \in BOOLEAN
  BY DEF BodyInv, Stores
<1>7. ASSUME MakeRoom, Goto(t, "evict", "evict"), UNCHANGED aborted PROVE BodyInv'
  <2>1. Victim \in mapping_ /\ Erase(Victim, Size[data_[Victim]]) /\ UNCHANGED incoming
    BY <1>7 DEF MakeRoom, EvictOne
  <2>2. Coherent'
    BY <1>4, <2>1
  <2>3. QED
    BY <1>5, <1>6, <1>7, <2>2
<1>8. ASSUME EvictAny(t) PROVE BodyInv'
  <2>1. ASSUME NEW u \in mapping_, NEW d \in Data, Erase(u, Size[d]), UNCHANGED incoming,
               Goto(t, "evict", "evict"), UNCHANGED aborted
        PROVE  BodyInv'
    <3>1. Coherent'
      BY <1>4, <2>1
    <3>2. QED
      BY <1>5, <1>6, <2>1, <3>1
  <2>2. ASSUME Abort(t, "evict"), UNCHANGED cacheVars PROVE BodyInv'
    <3>1. Goto(t, "evict", "evict") /\ aborted' \in BOOLEAN
      BY <2>2 DEF Abort
    <3>2. Coherent'
      BY <1>1, <1>2, <2>2, CoherentStays DEF diskVars
    <3>3. QED
      BY <1>5, <3>1, <3>2
  <2>3. QED
    BY <1>8, <2>1, <2>2, Zenon DEF EvictAny
<1>9. ASSUME (EndInsert /\ Goto(t, "evict", "send") /\ UNCHANGED aborted) \/ InsertNothing(t) PROVE BodyInv'
  <2>1. Coherent'
    <3>1. CASE EndInsert
      <4>1. mapping_' = mapping_ \cup {incoming} /\ incoming' = None /\ UNCHANGED data_
        BY <3>1 DEF EndInsert
      <4>2. None \notin Url
        BY CacheAssumption
      <4>3. QED
        BY <1>1, <1>2, <4>1, <4>2 DEF Coherent
    <3>2. CASE InsertNothing(t)
      BY <1>1, <1>2, <3>2, CoherentStays, Zenon DEF InsertNothing, diskVars
    <3>3. QED
      BY <1>9, <3>1, <3>2
  <2>2. pc' = [pc EXCEPT ![t] = "send"]
    BY <1>9 DEF InsertNothing, Goto
  <2>3. pc'[t] = "send" /\ \A v \in Thread \ {t} : pc'[v] = pc[v]
    BY <2>2 DEF Inv, Threads
  <2>4. Built(t)'
    BY <1>1, <2>3, FileRight DEF Built
  <2>5. Plain(t) /\ aborted' \in BOOLEAN
    <3>1. aborted' = aborted
      BY <1>9 DEF InsertNothing
    <3>2. QED
      BY <1>1, <1>6, <2>3, <3>1 DEF Plain, BodyInv, Stores
  <2>6. QED
    BY <2>1, <2>4, <2>5, PlainKeeps
<1>10. QED
  BY <1>7, <1>8, <1>9, Zenon DEF Evict

\* A step of t in Cgier::Run.
CgiStep(t) ==
    /\ UNCHANGED <<cacheVars, files, changed, answers, owner, request, aborted>>
    /\ lost \subseteq lost' /\ lost' \subseteq lost \cup {t}
    /\ response' \in [Thread -> Response \cup {None}]
    /\ tmp' \in [Thread -> Body \cup {None}]
    /\ child' \in [Thread -> Program \cup {None}] /\ orphan' \in [Thread -> Program \cup {None}]
    /\ \A v \in Thread \ {t} : /\ pc'[v] = pc[v] /\ response'[v] = response[v]
                               /\ tmp'[v] = tmp[v] /\ child'[v] = child[v] /\ orphan'[v] = orphan[v]

\* Such a step has to see to the response and the CGI file of t.
LEMMA CgiKeeps ==
    ASSUME Inv, BodyInv, NEW t \in Thread, pc[t] # "idle", CgiStep(t), Built(t)', OwnOutput(t)'
    PROVE  BodyInv'
<1>1. Later
  BY DEF Later, CgiStep
<1>2. Stores'
  BY DEF BodyInv, Stores, CgiStep
<1>3. Sent'
  BY <1>1, SentStays, Zenon DEF BodyInv, CgiStep
<1>4. Coherent'
  <2>1. Coherent
    BY Served, Zenon
  <2>2. QED
    BY <2>1, CoherentStays DEF CgiStep, diskVars
<1>5. \A v \in Thread \ {t} : v \notin lost' => v \notin lost
  BY DEF CgiStep
<1>6. QED
  BY <1>1, <1>2, <1>3, <1>4, <1>5, ThreadKeeps, Zenon DEF CgiStep

\* The file is opened.
LEMMA OpenBodies ==
    ASSUME Inv, BodyInv, NEW t \in Thread, OpenFile(t)
    PROVE  BodyInv'
<1>1. /\ pc[t] = "cgi" /\ pc' = [pc EXCEPT ![t] = "fork"] /\ tmp' = [tmp EXCEPT ![t] = IF @ = None THEN <<>> ELSE @]
      /\ UNCHANGED <<cacheVars, files, changed, lost, child, orphan, answers, owner, request, response, aborted>>
  BY DEF OpenFile, OnlyCgi, Goto, diskVars, connVars
<1>2. /\ tmp \in [Thread -> Body \cup {None}] /\ pc \in [Thread -> Steps]
      /\ child \in [Thread -> Program \cup {None}] /\ orphan \in [Thread -> Program \cup {None}]
      /\ response \in [Thread -> Response \cup {None}]
  BY DEF BodyInv, Stores, Inv, Threads
<1>3. pc'[t] = "fork" /\ tmp'[t] = (IF tmp[t] = None THEN <<>> ELSE tmp[t])
      /\ \A v \in Thread \ {t} : pc'[v] = pc[v] /\ tmp'[v] = tmp[v]
  BY <1>1, <1>2
<1>4. tmp'[t] \in Body
  BY <1>2, <1>3 DEF Body
<1>5. tmp' \in [Thread -> Body \cup {None}]
  BY <1>1, <1>2, <1>4
<1>6. CgiStep(t)
  BY <1>1, <1>2, <1>3, <1>5 DEF CgiStep
<1>7. Built(t)'
  BY <1>1, <1>3, Zenon DEF BodyInv, Built
<1>8. OwnOutput(t)'
  <2>1. OwnOutput(t)
    BY DEF BodyInv
  <2>2. child[t] = None /\ (t \notin lost => orphan[t] = None /\ tmp[t] \in {None, <<>>})
    BY <1>1, <2>1 DEF OwnOutput
  <2>3. QED
    BY <1>1, <1>3, <1>4, <2>2 DEF OwnOutput
<1>9. QED
  BY <1>1, <1>6, <1>7, <1>8, CgiKeeps

\* The program is started.
LEMMA ForkBodies ==
    ASSUME Inv, BodyInv, NEW t \in Thread, Fork(t)
    PROVE  BodyInv'
<1>1. /\ pc[t] = "fork" /\ pc' = [pc EXCEPT ![t] = "wait"] /\ child' = [child EXCEPT ![t] = url(t)]
      /\ UNCHANGED <<cacheVars, files, changed, lost, tmp, orphan, answers, owner, request, response, aborted>>
  BY DEF Fork, OnlyCgi, Goto, diskVars, connVars
<1>2. /\ tmp \in [Thread -> Body \cup {None}] /\ pc \in [Thread -> Steps]
      /\ child \in [Thread -> Program \cup {None}] /\ orphan \in [Thread -> Program \cup {None}]
      /\ response \in [Thread -> Response \cup {None}]
  BY DEF BodyInv, Stores, Inv, Threads
<1>3. url(t) \in Program /\ url(t)' = url(t)
  BY <1>1 DEF BodyInv, Built, url
<1>4. pc'[t] = "wait" /\ child'[t] = url(t) /\ \A v \in Thread \ {t} : pc'[v] = pc[v] /\ child'[v] = child[v]
  BY <1>1, <1>2
<1>5. child' \in [Thread -> Program \cup {None}]
  BY <1>1, <1>2, <1>3
<1>6. CgiStep(t)
  BY <1>1, <1>2, <1>4, <1>5 DEF CgiStep
<1>7. Built(t)'
  BY <1>1, <1>4, Zenon DEF BodyInv, Built
<1>8. OwnOutput(t)'
  <2>1. OwnOutput(t)
    BY DEF BodyInv
  <2>2. tmp[t] \in Body /\ (t \notin lost => orphan[t] = None /\ tmp[t] = <<>>)
    BY <1>1, <2>1 DEF OwnOutput
  <2>3. QED
    BY <1>1, <1>3, <1>4, <2>2, Zenon DEF OwnOutput
<1>9. QED
  BY <1>1, <1>6, <1>7, <1>8, CgiKeeps

\* The response is made of what the program has printed.
LEMMA Replies ==
    ASSUME Inv, BodyInv, NEW t \in Thread, pc[t] \in {"cgi", "fork", "wait"}, NEW b \in Body, Reply(t, b),
           NEW ls, t \notin ls => b \in {<<url(t)>>, <<ErrorText>>}
    PROVE  /\ response' \in [Thread -> Response \cup {None}]
           /\ \A v \in Thread \ {t} : response'[v] = response[v]
           /\ response'[t] \in Response
           /\ Right(t, request[t], response'[t], files, changed, ls)
<1> DEFINE q == request[t]
           n == BodySize(b)
           a == [status |-> 200, length |-> n, body |-> b, close |-> q.close]
<1>1. response' = [response EXCEPT ![t] = a] /\ response \in [Thread -> Response \cup {None}]
  BY DEF Reply, BodyInv, Stores
<1>2. q \in Request /\ q.target \in Program
  BY DEF BodyInv, Built
<1>3. q.close \in BOOLEAN /\ q.target \notin Url
  BY <1>2, HttpAssumption DEF Request
<1>4. n \in Nat
  BY BodySizeNat
<1>5. n = BodySize(b)
  OBVIOUS
<1> HIDE DEF n, q
<1>6. a \in Response /\ a.length = n /\ a.body = b
  BY <1>3, <1>4 DEF Response
<1> HIDE DEF a
<1>7. Right(t, q, a, files, changed, ls)
  BY <1>3, <1>5, <1>6 DEF Right, url, q
<1>8. response'[t] = a /\ response' \in [Thread -> Response \cup {None}]
      /\ \A v \in Thread \ {t} : response'[v] = response[v]
  BY <1>1, <1>6
<1>9. QED
  BY <1>6, <1>7, <1>8 DEF q

\* Cgier::Run returns an error.
LEMMA FailBodies ==
    ASSUME Inv, BodyInv, NEW t \in Thread, RunFails(t) \/ WaitFails(t)
    PROVE  BodyInv'
<1>1. /\ pc[t] \in {"cgi", "fork", "wait"} /\ pc' = [pc EXCEPT ![t] = "send"] /\ Reply(t, <<ErrorText>>)
      /\ UNCHANGED <<cacheVars, files, changed, tmp, answers, owner, request, aborted>>
  BY DEF RunFails, WaitFails, OnlyCgi, Goto, diskVars, connVars, cgiVars
<1>2. /\ tmp \in [Thread -> Body \cup {None}] /\ pc \in [Thread -> Steps]
      /\ child \in [Thread -> Program \cup {None}] /\ orphan \in [Thread -> Program \cup {None}]
      /\ lost \subseteq Thread
  BY DEF BodyInv, Stores, Inv, Threads
<1>3. <<ErrorText>> \in Body
  BY BodyGrows DEF Body
<1>4. /\ response' \in [Thread -> Response \cup {None}] /\ response'[t] \in Response
      /\ \A v \in Thread \ {t} : response'[v] = response[v]
      /\ Right(t, request[t], response'[t], files, changed, lost')
  BY <1>1, <1>3, Replies
<1>5. pc'[t] = "send" /\ \A v \in Thread \ {t} : pc'[v] = pc[v]
  BY <1>1, <1>2
<1>6. Built(t)'
  BY <1>1, <1>4, <1>5, Zenon DEF Built
<1>7. OwnOutput(t)
  BY DEF BodyInv
<1>8. CASE RunFails(t)
  <2>1. UNCHANGED <<lost, child, orphan>> /\ pc[t] \in {"cgi", "fork"}
    BY <1>8 DEF RunFails, cgiVars, Goto
  <2>2. CgiStep(t)
    BY <1>1, <1>2, <1>4, <1>5, <2>1, Zenon DEF CgiStep
  <2>3. OwnOutput(t)'
    <3>1. child[t] = None /\ (t \notin lost => orphan[t] = None /\ tmp[t] \in {None, <<>>})
      BY <1>7, <2>1, Zenon DEF OwnOutput
    <3>2. QED
      BY <1>1, <1>5, <2>1, <3>1, Zenon DEF OwnOutput
  <2>4. QED
    BY <1>1, <1>6, <2>2, <2>3, CgiKeeps
<1>9. CASE WaitFails(t)
  <2>1. /\ lost' = lost \cup {t} /\ child' = [child EXCEPT ![t] = None]
        /\ orphan' = [orphan EXCEPT ![t] = child[t]]
    BY <1>9 DEF WaitFails
  <2>2. child'[t] = None /\ \A v \in Thread \ {t} : child'[v] = child[v] /\ orphan'[v] = orphan[v]
    BY <1>2, <2>1
  <2>3. child' \in [Thread -> Program \cup {None}] /\ orphan' \in [Thread -> Program \cup {None}]
    BY <1>2, <2>1
  <2>4. CgiStep(t)
    BY <1>1, <1>2, <1>4, <1>5, <2>1, <2>2, <2>3, Zenon DEF CgiStep
  <2>5. OwnOutput(t)'
    BY <1>5, <2>1, <2>2 DEF OwnOutput
  <2>6. QED
    BY <1>1, <1>6, <2>4, <2>5, CgiKeeps
<1>10. QED
  BY <1>8, <1>9

\* The output is read, and the file deleted.
LEMMA CollectBodies ==
    ASSUME Inv, BodyInv, NEW t \in Thread, Collect(t)
    PROVE  BodyInv'
<1>1. /\ pc[t] = "wait" /\ pc' = [pc EXCEPT ![t] = "send"] /\ child[t] = None /\ Reply(t, tmp[t])
      /\ tmp' = [tmp EXCEPT ![t] = None] /\ orphan' = [orphan EXCEPT ![t] = None]
      /\ UNCHANGED <<cacheVars, files, changed, lost, child, answers, owner, request, aborted>>
  BY DEF Collect, DeleteFile, OnlyCgi, Goto, diskVars, connVars
<1>2. /\ tmp \in [Thread -> Body \cup {None}] /\ pc \in [Thread -> Steps]
      /\ child \in [Thread -> Program \cup {None}] /\ orphan \in [Thread -> Program \cup {None}]
      /\ lost \subseteq Thread
  BY DEF BodyInv, Stores, Inv, Threads
<1>3. OwnOutput(t)
  BY DEF BodyInv
<1>4. tmp[t] \in Body /\ (t \notin lost => tmp[t] = <<url(t)>>)
  <2>1. url(t) \in Program
    BY <1>1, Zenon DEF BodyInv, Built, url
  <2>2. url(t) # None
    BY <2>1, HttpAssumption
  <2>3. QED
    BY <1>1, <1>3, <2>2 DEF OwnOutput
<1>5. /\ response' \in [Thread -> Response \cup {None}] /\ response'[t] \in Response
      /\ \A v \in Thread \ {t} : response'[v] = response[v]
      /\ Right(t, request[t], response'[t], files, changed, lost)
  BY <1>1, <1>4, Replies, Zenon
<1>6. /\ pc'[t] = "send" /\ tmp'[t] = None /\ orphan'[t] = None
      /\ \A v \in Thread \ {t} : pc'[v] = pc[v] /\ tmp'[v] = tmp[v] /\ orphan'[v] = orphan[v]
  BY <1>1, <1>2
<1>7. Built(t)'
  BY <1>1, <1>5, <1>6, Zenon DEF Built
<1>8. tmp' \in [Thread -> Body \cup {None}] /\ orphan' \in [Thread -> Program \cup {None}]
  BY <1>1, <1>2
<1>9. CgiStep(t)
  BY <1>1, <1>2, <1>5, <1>6, <1>8, Zenon DEF CgiStep
<1>10. OwnOutput(t)'
  BY <1>1, <1>6, Zenon DEF OwnOutput
<1>11. QED
  BY <1>1, <1>7, <1>9, <1>10, CgiKeeps

\* The response is sent, and is right for the request.
LEMMA SendBodies ==
    ASSUME Inv, BodyInv, NEW t \in Thread, Send(t)
    PROVE  BodyInv'
<1> DEFINE c == conn[t]
           to == IF no_more_parse(t) THEN "idle" ELSE NextRequest(t)
           e == [request |-> request[t], response |-> response[t]]
<1>1. /\ pc[t] = "send" /\ pc' = [pc EXCEPT ![t] = to] /\ to \in {"idle", "parse"}
      /\ answers' = IF fin[c] THEN answers ELSE [answers EXCEPT ![c] = Append(@, e)]
      /\ response' = [response EXCEPT ![t] = None] /\ request' = [request EXCEPT ![t] = None]
      /\ aborted' \in BOOLEAN
      /\ UNCHANGED <<cacheVars, files, changed, lost, tmp, child, orphan, owner>>
  BY Zenon DEF Send, Goto, NextRequest, diskVars, cgiVars
<1> HIDE DEF to
<1>2. c \in Client /\ owner[c] = t
  BY <1>1 DEF Inv, Serving, Buffers
<1>3. response[t] \in Response /\ Right(t, request[t], response[t], files, changed, lost)
  BY <1>1, Zenon DEF BodyInv, Built
<1>4. /\ tmp \in [Thread -> Body \cup {None}] /\ pc \in [Thread -> Steps]
      /\ response \in [Thread -> Response \cup {None}] /\ request \in [Thread -> Piece \cup {None}]
  BY DEF BodyInv, Stores, Inv, Threads
<1>5. pc'[t] \in {"idle", "parse"}
      /\ \A v \in Thread \ {t} : pc'[v] = pc[v] /\ request'[v] = request[v] /\ response'[v] = response[v]
  BY <1>1, <1>4
<1>6. Later
  BY <1>1, Zenon DEF Later
<1>7. Stores'
  <2>1. response' \in [Thread -> Response \cup {None}]
    BY <1>1, <1>4
  <2>2. QED
    BY <1>1, <2>1 DEF BodyInv, Stores
<1>8. Sent'
  <2>1. CASE fin[c]
    BY <1>1, <1>6, <2>1, SentStays, Zenon DEF BodyInv
  <2>2. CASE ~fin[c]
    <3>1. answers' = [answers EXCEPT ![c] = Append(@, e)]
      BY <1>1, <2>2
    <3>2. PICK S : answers \in [Client -> Seq(S)]
      BY DEF Inv, Threads
    <3>3. e.request = request[t] /\ e.response = response[t]
      OBVIOUS
    <3> HIDE DEF c, e
    <3>4. answers'[c] = Append(answers[c], e) /\ \A d \in Client \ {c} : answers'[d] = answers[d]
      BY <1>2, <3>1, <3>2
    <3>5. answers[c] \in Seq(S)
      BY <1>2, <3>2
    <3>6. /\ Len(Append(answers[c], e)) = Len(answers[c]) + 1
          /\ \A i \in 1 .. Len(answers[c]) : Append(answers[c], e)[i] = answers[c][i]
          /\ Append(answers[c], e)[Len(answers[c]) + 1] = e
      BY <3>5, OneMore
    <3>7. ASSUME NEW d \in Client, NEW i \in 1 .. Len(answers'[d])
          PROVE  /\ answers'[d][i].response \in Response
                 /\ Right(owner[d], answers'[d][i].request, answers'[d][i].response, files, changed, lost)
      <4>1. CASE d # c
        BY <3>4, <3>7, <4>1, Zenon DEF BodyInv, Sent
      <4>2. CASE d = c
        <5>1. answers'[d] = Append(answers[c], e) /\ Len(answers[c]) \in Nat
          BY <3>4, <3>5, <4>2
        <5>2. i \in 1 .. Len(answers[c]) + 1
          BY <3>6, <3>7, <5>1, Zenon
        <5>3. CASE i = Len(answers[c]) + 1
          BY <1>2, <1>3, <3>3, <3>6, <4>2, <5>1, <5>3, Zenon
        <5>4. CASE i # Len(answers[c]) + 1
          <6>1. i \in 1 .. Len(answers[c])
            BY <5>1, <5>2, <5>4
          <6>2. answers'[d][i] = answers[c][i]
            BY <3>6, <5>1, <6>1, Zenon
          <6>3. QED
            BY <1>2, <4>2, <6>1, <6>2 DEF BodyInv, Sent
        <5>5. QED
          BY <5>3, <5>4
      <4>3. QED
        BY <4>1, <4>2, Zenon
    <3>8. QED
      BY <1>1, <3>7 DEF Sent
  <2>3. QED
    BY <2>1, <2>2, Zenon
<1>9. Built(t)'
  BY <1>5, Zenon DEF Built
<1>10. OwnOutput(t)'
  BY <1>1, <1>5, OutputStays, Zenon DEF BodyInv
<1>11. Coherent'
  <2>1. Coherent
    BY <1>1, Served
  <2>2. QED
    BY <1>1, <2>1, CoherentStays, Zenon DEF diskVars
<1>12. QED
  BY <1>1, <1>5, <1>6, <1>7, <1>8, <1>9, <1>10, <1>11, ThreadKeeps, Zenon

\* Nothing happens.
LEMMA StutterBodies ==
    ASSUME Inv, BodyInv, UNCHANGED vars
    PROVE  BodyInv'
<1>1. /\ UNCHANGED <<cacheVars, files, changed, tmp, child, orphan, lost>>
      /\ UNCHANGED <<pc, request, response, answers, owner, aborted, open, fin>>
  BY DEF vars, diskVars, cgiVars, clientVars, connVars, threadVars
<1>2. Later /\ Stores'
  BY <1>1 DEF Later, BodyInv, Stores
<1>3. NoServer' \/ Coherent'
  BY <1>1, CoherentStays DEF BodyInv, NoServer, diskVars
<1>4. ASSUME NEW t \in Thread PROVE OwnOutput(t)'
  BY <1>1, OutputStays DEF BodyInv
<1>5. QED
  BY <1>1, <1>2, <1>3, <1>4, AroundKeeps

\* Every step of the server keeps its responses right.
LEMMA ServerNext == ServerInv /\ [HttpNext]_vars => ServerInv'
<1> SUFFICES ASSUME Inv, Framed, BodyInv, StoreInv, raced \in BOOLEAN, ~raced => CacheInv, [HttpNext]_vars
             PROVE  ServerInv'
  BY DEF ServerInv
<1>1. Inv' /\ Framed'
  BY NextInv, FramedNext
<1>2. StoreInv' /\ raced' \in BOOLEAN /\ (~raced' => CacheInv')
  <2>1. CacheUse /\ raced' \in BOOLEAN /\ (raced => raced')
    BY CacheCalls
  <2>2. StoreInv'
    BY <2>1, StoreStep
  <2>3. ASSUME ~raced' PROVE CacheInv'
    <3>1. ~raced /\ [Next]_cacheVars
      BY <2>1, <2>3, Zenon DEF CacheUse
    <3>2. QED
      BY <3>1, CacheStep
  <2>4. QED
    BY <2>1, <2>2, <2>3
<1>3. BodyInv'
  <2>1. CASE UNCHANGED vars
    BY <2>1, StutterBodies
  <2>2. ASSUME NEW t \in Thread, ThreadStep(t) PROVE BodyInv'
    BY <2>2, ReadKeeps, ParseBodies, HeaderBodies, SizeBodies, HitBodies, RelinkBodies, MissBodies, FileBodies,
       InsertBodies, EvictBodies, OpenBodies, ForkBodies, FailBodies, CollectBodies, SendBodies, Zenon DEF ThreadStep
  <2>3. ASSUME NEW c \in Client, SendHead(c) \/ SendEnd(c) \/ CloseEnd(c) PROVE BodyInv'
    BY <2>3, ClientsKeep
  <2>4. ASSUME NEW t \in Thread, ChildEnds(t) \/ OrphanEnds(t) PROVE BodyInv'
    BY <2>4, ChildKeeps
  <2>5. CASE \E change \in workload.changes : ChangeFile(change[1], change[2])
    BY <2>5, ChangeKeeps
  <2>6. CASE CallCache
    BY <2>6, CallCacheKeeps
  <2>7. QED
    BY <2>1, <2>2, <2>3, <2>4, <2>5, <2>6 DEF HttpNext
<1>4. QED
  BY <1>1, <1>2, <1>3 DEF ServerInv

\* The types of the server's state hold, and a thread inside the handler serves a
\* connection that is still open.
THEOREM ServerTypes == HttpSpec => []HttpTypeOK
<1>1. ServerInv => HttpTypeOK
  <2> SUFFICES ASSUME ServerInv PROVE HttpTypeOK
    OBVIOUS
  <2>1. Inv /\ TypeOK /\ BodyInv
    BY Zenon DEF ServerInv, StoreInv
  <2>2. \A t \in Thread : pc[t] = "send" => response[t] \in Response
    BY <2>1 DEF BodyInv, Built
  <2>3. Piece = Request \cup {BAD, END} /\ HeadPiece \cup {None} = Request \cup {BAD, None}
    BY DEF Piece, HeadPiece
  <2>4. \A c \in Client : inbound[c] \in Seq(Request \cup {BAD, END}) /\ read_buffer_[c] \in Seq(Request \cup {BAD, END})
    BY <2>1, <2>3 DEF Inv, Buffers
  <2>5. ASSUME NEW c \in Client, NEW i \in DOMAIN answers[c] PROVE answers[c][i].response \in Response
    <3>1. PICK S : answers \in [Client -> Seq(S)]
      BY <2>1 DEF Inv, Threads
    <3>2. i \in 1 .. Len(answers[c])
      BY <3>1
    <3>3. QED
      BY <2>1, <3>2, Zenon DEF BodyInv, Sent
  <2>6. /\ fin \in [Client -> BOOLEAN] /\ partial \in [Client -> Request \cup {BAD, None}]
        /\ workload \in Workloads /\ owner \in [Client -> Thread] /\ open \subseteq Client
    BY <2>1, <2>3 DEF Inv, Buffers
  <2>7. /\ files \in [Url -> Data \cup {None}] /\ changed \subseteq Url
        /\ \A t \in Thread : tmp[t] = None \/ tmp[t] \in Body
        /\ child \in [Thread -> Program \cup {None}] /\ orphan \in [Thread -> Program \cup {None}]
        /\ lost \subseteq Thread /\ aborted \in BOOLEAN
    BY <2>1 DEF BodyInv, Stores
  <2>8. pc \in [Thread -> Steps] /\ conn \in [Thread -> Client \cup {None}]
        /\ \A t \in Thread : pc[t] # "idle" => conn[t] \in open
    BY <2>1 DEF Inv, Threads, Serving
  <2>9. raced \in BOOLEAN
    BY DEF ServerInv
  <2>10. QED
    BY <2>1, <2>2, <2>4, <2>5, <2>6, <2>7, <2>8, <2>9, Zenon DEF HttpTypeOK, Steps
<1>2. HttpSpec => []ServerInv
  BY ServerInitInv, ServerNext, PTL DEF HttpSpec
<1>3. QED
  BY <1>1, <1>2, PTL

\* A client gets the file it asked for under its length, and the output of its own
\* program: for any number of clients, threads, files and requests.
THEOREM ResponsesExact == HttpSpec => []BodiesExact
<1>1. ServerInv => BodiesExact
  <2> SUFFICES ASSUME ServerInv, NEW c \in Client, NEW i \in DOMAIN answers[c]
               PROVE  Right(owner[c], answers[c][i].request, answers[c][i].response, files, changed, lost)
    BY Zenon DEF BodiesExact, Right
  <2>1. PICK S : answers \in [Client -> Seq(S)]
    BY Zenon DEF ServerInv, Inv, Threads
  <2>2. i \in 1 .. Len(answers[c])
    BY <2>1
  <2>3. QED
    BY <2>2 DEF ServerInv, BodyInv, Sent
<1>2. HttpSpec => []ServerInv
  BY ServerInitInv, ServerNext, PTL DEF HttpSpec
<1>3. QED
  BY <1>1, <1>2, PTL

\* Until two TryLoads overlap the cache inside the server stays what it is alone, however
\* misses, insertions and evictions of the threads mix: the list from header_ to tailer_ and
\* back holds exactly the resources of the map.
THEOREM ServedListMatchesMap == HttpSpec => []ListMatchesUntilRaced
<1>1. ServerInv => ListMatchesUntilRaced
  BY CacheInvImplies, Zenon DEF ServerInv, ListMatchesUntilRaced
<1>2. HttpSpec => []ServerInv
  BY ServerInitInv, ServerNext, PTL DEF HttpSpec
<1>3. QED
  BY <1>1, <1>2, PTL

\* Until then its occupancy_ is the sum of the sizes of what the map holds.
THEOREM ServedOccupancyExact == HttpSpec => []OccupancyUntilRaced
<1>1. ServerInv => OccupancyUntilRaced
  BY CacheInvImplies, Zenon DEF ServerInv, OccupancyUntilRaced
<1>2. HttpSpec => []ServerInv
  BY ServerInitInv, ServerNext, PTL DEF HttpSpec
<1>3. QED
  BY <1>1, <1>2, PTL

\* Until then the server's cache is one that evicts the least recently used: no step of a
\* thread uses it in another way than TryLoad, TryInsert and Clear allow.
THEOREM ServedCacheIsLRU == HttpSpec => LRUUntilRaced
<1>1. HttpInit => Abstract!Init
  BY CacheInitInv DEF HttpInit
<1>2. ServerInv /\ [HttpNext]_vars => [raced' \/ Abstract!Next]_(Abstract!vars)
  <2> SUFFICES ASSUME ServerInv, [HttpNext]_vars, ~raced' PROVE [Abstract!Next]_(Abstract!vars)
    OBVIOUS
  <2>1. CacheUse /\ (raced => raced')
    BY CacheCalls DEF ServerInv
  <2>2. ~raced /\ [Next]_cacheVars
    BY <2>1, Zenon DEF CacheUse
  <2>3. CacheInv
    BY <2>2 DEF ServerInv
  <2>4. QED
    BY <2>2, <2>3, CacheStep
<1>3. HttpSpec => []ServerInv
  BY ServerInitInv, ServerNext, PTL DEF HttpSpec
<1>4. QED
  BY <1>1, <1>2, <1>3, PTL DEF HttpSpec, LRUUntilRaced
=============================================================================
