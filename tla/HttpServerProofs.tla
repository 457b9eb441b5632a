-------------------------- MODULE HttpServerProofs --------------------------
(***************************************************************************)
(* Pipelined requests are answered in order, for any number of clients,    *)
(* threads, requests and files.                                            *)
(*                                                                         *)
(* The second part prepares what HttpCacheProofs proves of the responses:  *)
(* every request a thread parses begins with a head, and BodyInv says how  *)
(* far each response is built. Here are the steps that keep BodyInv        *)
(* whatever the list of the cache looks like; HttpCacheProofs has the      *)
(* other ones and the theorems.                                            *)
(***************************************************************************)
EXTENDS HttpServer, WellFoundedInduction, TLAPS

USE DEF sharedVars

\* What a client sends before an END.
HeadPiece == Request \cup {BAD}
Piece == HeadPiece \cup {END}

\* Where a thread is.
Steps == {"idle", "parse", "make200", "size", "load", "relink", "read", "insert", "evict", "cgi", "fork",
          "wait", "send"}

\* Types, of connections and of threads.
Buffers ==
    /\ inbound \in [Client -> Seq(Piece)]
    /\ read_buffer_ \in [Client -> Seq(Piece)]
    /\ asked \in [Client -> Seq(HeadPiece)]
    /\ partial \in [Client -> HeadPiece \cup {None}]
    /\ fin \in [Client -> BOOLEAN]
    /\ workload \in Workloads
    /\ owner \in [Client -> Thread]
    /\ open \subseteq Client

Threads ==
    /\ pc \in [Thread -> Steps]
    /\ conn \in [Thread -> Client \cup {None}]
    /\ request \in [Thread -> Piece \cup {None}]
    /\ \E S : answers \in [Client -> Seq(S)]

\* A thread inside the handler serves an open connection of its own.
Serving == \A t \in Thread : pc[t] # "idle" => conn[t] \in open /\ owner[conn[t]] = t

\* A request of c is taken out of the buffer and not answered yet.
Busy(c) == conn[owner[c]] = c /\ pc[owner[c]] \notin {"idle", "parse"}

\* Requests of c taken out of the buffer.
Taken(c) == Len(answers[c]) + IF Busy(c) THEN 1 ELSE 0

Unparsed(c) == read_buffer_[c] \o inbound[c]

\* What is not taken yet is in the buffer or in the socket, in order, each head before
\* its END: nothing between two requests is skipped or read twice.
Flow(c) ==
    /\ Len(Unparsed(c)) + 2 * Taken(c) = 2 * Len(asked[c]) + IF partial[c] = None THEN 0 ELSE 1
    /\ \A j \in 1 .. Len(asked[c]) : j > Taken(c) =>
        /\ Unparsed(c)[2 * (j - Taken(c)) - 1] = asked[c][j]
        /\ Unparsed(c)[2 * (j - Taken(c))] = END
    /\ partial[c] # None => Unparsed(c)[Len(Unparsed(c))] = partial[c]
    /\ Busy(c) => request[owner[c]] = asked[c][Taken(c)]
    /\ \A i \in 1 .. Len(answers[c]) : ~answers[c][i].response.close

\* What was answered is what was asked.
Answered(c) ==
    /\ Len(answers[c]) <= Len(asked[c])
    /\ \A i \in 1 .. Len(answers[c]) :
        /\ answers[c][i].request = asked[c][i]
        /\ i < Len(answers[c]) => ~answers[c][i].response.close

Inv ==
    /\ Buffers /\ Threads /\ Serving
    /\ \A c \in Client : Answered(c)
    /\ \A c \in open : ~fin[c] => Flow(c)
-----------------------------------------------------------------------------
\* A sequence with one more element.
LEMMA OneMore ==
    ASSUME NEW S, NEW s \in Seq(S), NEW e
    PROVE  /\ Append(s, e) \in Seq(S \cup {e})
           /\ Len(Append(s, e)) = Len(s) + 1
           /\ \A i \in 1 .. Len(s) : Append(s, e)[i] = s[i]
           /\ Append(s, e)[Len(s) + 1] = e
<1>1. s \in Seq(S \cup {e}) /\ e \in S \cup {e}
  OBVIOUS
<1>2. QED
  BY <1>1

\* Taken counts.
LEMMA TakenNat ==
    ASSUME Inv, NEW c \in Client
    PROVE  Taken(c) \in Nat /\ Len(answers[c]) \in Nat
BY DEF Inv, Threads, Taken

\* The invariant is what AnsweredInOrder says, and more.
LEMMA InvImplies == Inv => AnsweredInOrder
<1> SUFFICES ASSUME Inv, NEW c \in Client
             PROVE  /\ Len(answers[c]) <= Len(asked[c])
                    /\ \A i \in DOMAIN answers[c] : /\ answers[c][i].request = asked[c][i]
                                                    /\ i < Len(answers[c]) => ~answers[c][i].response.close
  BY DEF AnsweredInOrder
<1>1. DOMAIN answers[c] = 1 .. Len(answers[c])
  BY DEF Inv, Threads
<1>2. QED
  BY <1>1 DEF Inv, Answered

\* At first nothing is asked.
LEMMA InitInv == HttpInit => Inv
<1> SUFFICES ASSUME HttpInit PROVE Inv
  OBVIOUS
<1>1. Buffers
  <2>1. owner \in [Client -> Thread]
    BY HttpAssumption DEF HttpInit
  <2>2. <<>> \in Seq(Piece) /\ <<>> \in Seq(HeadPiece)
    OBVIOUS
  <2>3. inbound \in [Client -> Seq(Piece)] /\ asked \in [Client -> Seq(HeadPiece)]
    BY <2>2 DEF HttpInit
  <2>4. QED
    BY <2>1, <2>3 DEF HttpInit, Buffers
<1>2. answers \in [Client -> Seq({})]
  BY DEF HttpInit
<1>3. Threads /\ Serving
  <2>1. pc \in [Thread -> Steps] /\ conn \in [Thread -> {None}] /\ request \in [Thread -> {None}]
    BY DEF HttpInit, Steps
  <2>2. conn \in [Thread -> Client \cup {None}] /\ request \in [Thread -> Piece \cup {None}]
    BY <2>1
  <2>3. \E S : answers \in [Client -> Seq(S)]
    BY <1>2, Zenon
  <2>4. Threads
    BY <2>1, <2>2, <2>3 DEF Threads
  <2>5. Serving
    BY DEF HttpInit, Serving
  <2>6. QED
    BY <2>4, <2>5
<1>4. \A c \in Client : Answered(c)
  BY DEF HttpInit, Answered
<1>5. ASSUME NEW c \in Client PROVE Flow(c)
  <2>1. /\ read_buffer_[c] = <<>> /\ inbound[c] = <<>> /\ asked[c] = <<>> /\ partial[c] = None
        /\ answers[c] = <<>> /\ pc[owner[c]] = "idle"
    BY <1>1 DEF HttpInit, Buffers
  <2>2. Unparsed(c) = <<>> /\ Taken(c) = 0 /\ ~Busy(c)
    BY <2>1 DEF Unparsed, Taken, Busy
  <2>3. QED
    BY <2>1, <2>2 DEF Flow
<1>6. QED
  BY <1>1, <1>3, <1>4, <1>5 DEF Inv, Buffers

flowVars == <<inbound, fin, asked, partial, workload, owner, open, read_buffer_, conn, request, answers>>

\* Making a response, the cache, the disk and the children have no part in the order.
LEMMA ElsewhereKeeps ==
    ASSUME Inv, UNCHANGED flowVars, pc' \in [Thread -> Steps],
           \A t \in Thread : /\ pc'[t] = "idle" <=> pc[t] = "idle"
                             /\ pc'[t] = "parse" <=> pc[t] = "parse"
    PROVE  Inv'
<1> USE DEF flowVars
<1>1. Buffers' /\ Threads'
  BY DEF Inv, Buffers, Threads
<1>2. Serving'
  BY DEF Inv, Serving
<1>3. \A c \in Client : Answered(c)'
  BY DEF Inv, Answered
<1>4. ASSUME NEW c \in Client, Flow(c) PROVE Flow(c)'
  <2>1. Busy(c)' = Busy(c)
    BY DEF Busy, Inv, Buffers
  <2>2. Taken(c)' = Taken(c) /\ Unparsed(c)' = Unparsed(c)
    BY <2>1 DEF Taken, Unparsed
  <2>3. QED
    BY <1>4, <2>1, <2>2, Zenon DEF Flow
<1>5. QED
  BY <1>1, <1>2, <1>3, <1>4 DEF Inv, Buffers

\* What Flow says of one client depends on what the step leaves alone for the others.
LEMMA OthersFlow ==
    ASSUME Inv, NEW c \in Client, Flow(c),
           UNCHANGED <<inbound[c], read_buffer_[c], asked[c], partial[c], answers[c]>>,
           UNCHANGED Busy(c), Busy(c) => UNCHANGED request[owner[c]]
    PROVE  Flow(c)'
<1>1. Taken(c)' = Taken(c) /\ Unparsed(c)' = Unparsed(c)
  BY DEF Taken, Unparsed
<1>2. QED
  BY <1>1, Zenon DEF Flow

\* A request is a head, and a change is of a file.
LEMMA WorkloadIs ==
    ASSUME workload \in Workloads
    PROVE  /\ \A k \in DOMAIN workload.requests : \A r \in workload.requests[k] : r \in HeadPiece
           /\ \A change \in workload.changes : change[1] \in Url /\ change[2] \in Data \cup {None}
<1>1. workload \in Workload
  BY HttpAssumption
<1>2. workload.requests \in Seq(SUBSET HeadPiece) /\ workload.changes \in SUBSET (Url \X (Data \cup {None}))
  BY <1>1 DEF Workload, HeadPiece
<1>3. QED
  BY <1>2

\* A client sends a head: it is the last piece under way.
LEMMA SendHeadKeeps ==
    ASSUME Inv, NEW c \in Client, SendHead(c)
    PROVE  Inv'
<1>1. PICK r \in HeadPiece : /\ inbound' = [inbound EXCEPT ![c] = Append(@, r)]
                             /\ partial' = [partial EXCEPT ![c] = r]
  BY WorkloadIs, Zenon DEF SendHead, Inv, Buffers
<1>2. /\ UNCHANGED <<fin, asked, workload, owner, open, read_buffer_, pc, conn, request, answers>>
      /\ partial[c] = None
  BY DEF SendHead, Environment, connVars, threadVars
<1>3. r # None /\ r \in Piece
  BY HttpAssumption DEF HeadPiece, Piece
<1>4. Buffers'
  <2>1. inbound' \in [Client -> Seq(Piece)]
    BY <1>1, <1>3 DEF Inv, Buffers
  <2>2. QED
    BY <1>1, <1>2, <1>3, <2>1 DEF Inv, Buffers
<1>5. Threads' /\ Serving' /\ \A d \in Client : Answered(d)'
  BY <1>2 DEF Inv, Threads, Serving, Answered
<1>6. ASSUME Flow(c) PROVE Flow(c)'
  <2> DEFINE u == Unparsed(c)
  <2>1. read_buffer_[c] \in Seq(Piece) /\ inbound[c] \in Seq(Piece) /\ u \in Seq(Piece)
    BY DEF Inv, Buffers, Unparsed
  <2>2. Unparsed(c)' = Append(u, r)
    <3>1. Unparsed(c)' = read_buffer_[c] \o Append(inbound[c], r)
      BY <1>1, <1>2, Zenon DEF Inv, Buffers, Unparsed
    <3>2. read_buffer_[c] \o Append(inbound[c], r) = Append(read_buffer_[c] \o inbound[c], r)
      <4>1. \A b, q \in Seq(Piece) : \A e \in Piece : b \o Append(q, e) = Append(b \o q, e)
        OBVIOUS
      <4>2. QED
        BY <1>3, <2>1, <4>1, Zenon
    <3>3. QED
      BY <3>1, <3>2 DEF Unparsed
  <2>3. Busy(c)' = Busy(c) /\ Taken(c)' = Taken(c)
    BY <1>2 DEF Busy, Taken
  <2>4. partial'[c] = r
    BY <1>1 DEF Inv, Buffers
  <2>5. /\ Len(Append(u, r)) = Len(u) + 1
        /\ \A i \in 1 .. Len(u) : Append(u, r)[i] = u[i]
        /\ Append(u, r)[Len(u) + 1] = r
    BY <1>3, <2>1
  <2>6. /\ Len(u) + 2 * Taken(c) = 2 * Len(asked[c])
        /\ Len(u) \in Nat /\ Taken(c) \in Nat /\ Len(asked[c]) \in Nat
    <3>1. Len(u) \in Nat /\ Taken(c) \in Nat
      BY <2>1, TakenNat
    <3>2. asked[c] \in Seq(HeadPiece) /\ Len(asked[c]) \in Nat
      BY DEF Inv, Buffers
    <3>3. Len(u) + 2 * Taken(c) = 2 * Len(asked[c]) + 0
      BY <1>2, <1>6 DEF Flow
    <3>4. QED
      BY <3>1, <3>2, <3>3
  <2> HIDE DEF u
  <2>7. ASSUME NEW j \in 1 .. Len(asked[c]), j > Taken(c)
        PROVE  /\ Append(u, r)[2 * (j - Taken(c)) - 1] = asked[c][j]
               /\ Append(u, r)[2 * (j - Taken(c))] = END
    <3>1. 2 * (j - Taken(c)) - 1 \in 1 .. Len(u) /\ 2 * (j - Taken(c)) \in 1 .. Len(u)
      BY <2>6, <2>7
    <3>2. u[2 * (j - Taken(c)) - 1] = asked[c][j] /\ u[2 * (j - Taken(c))] = END
      BY <1>6, <2>7 DEF Flow, u
    <3>3. QED
      BY <2>5, <3>1, <3>2
  <2>8. Len(Append(u, r)) + 2 * Taken(c) = 2 * Len(asked[c]) + 1
    BY <2>5, <2>6
  <2>9. /\ Busy(c) => request[owner[c]] = asked[c][Taken(c)]
        /\ \A i \in 1 .. Len(answers[c]) : ~answers[c][i].response.close
    BY <1>6 DEF Flow
  <2>10. Append(u, r)[Len(Append(u, r))] = r
    BY <2>5
  <2>11. QED
    BY <1>2, <1>3, <2>2, <2>3, <2>4, <2>7, <2>8, <2>9, <2>10, Zenon DEF Flow
<1>7. ASSUME NEW d \in Client, d # c, Flow(d) PROVE Flow(d)'
  BY <1>1, <1>2, <1>7, OthersFlow DEF Busy, Inv, Buffers
<1>8. QED
  BY <1>2, <1>4, <1>5, <1>6, <1>7 DEF Inv, Buffers

\* What Flow counts, in numbers.
LEMMA FlowCounts ==
    ASSUME Inv, NEW c \in Client, Flow(c)
    PROVE  /\ Unparsed(c) \in Seq(Piece)
           /\ read_buffer_[c] \in Seq(Piece) /\ inbound[c] \in Seq(Piece) /\ asked[c] \in Seq(HeadPiece)
           /\ Len(Unparsed(c)) \in Nat /\ Taken(c) \in Nat /\ Len(asked[c]) \in Nat
           /\ Len(Unparsed(c)) + 2 * Taken(c) = 2 * Len(asked[c]) + IF partial[c] = None THEN 0 ELSE 1
           /\ Taken(c) <= Len(asked[c])
           /\ Busy(c) => Taken(c) = Len(answers[c]) + 1
           /\ ~Busy(c) => Taken(c) = Len(answers[c])
<1>1. read_buffer_[c] \in Seq(Piece) /\ inbound[c] \in Seq(Piece) /\ asked[c] \in Seq(HeadPiece)
  BY DEF Inv, Buffers
<1>2. Unparsed(c) \in Seq(Piece)
  BY <1>1 DEF Unparsed
<1>3. Len(Unparsed(c)) \in Nat /\ Len(asked[c]) \in Nat
  BY <1>1, <1>2
<1>4. Taken(c) \in Nat /\ Len(answers[c]) \in Nat
  BY TakenNat
<1>5. Len(Unparsed(c)) + 2 * Taken(c) = 2 * Len(asked[c]) + IF partial[c] = None THEN 0 ELSE 1
  BY Zenon DEF Flow
<1>6. Taken(c) <= Len(asked[c])
  <2>1. \A a, m, n \in Nat : \A k \in {0, 1} : a + 2 * m = 2 * n + k => m <= n
    OBVIOUS
  <2>2. (IF partial[c] = None THEN 0 ELSE 1) \in {0, 1}
    OBVIOUS
  <2>3. QED
    BY <1>3, <1>4, <1>5, <2>1, <2>2, Zenon
<1>7. /\ Busy(c) => Taken(c) = Len(answers[c]) + 1
      /\ ~Busy(c) => Taken(c) = Len(answers[c])
  <2>1. Taken(c) = Len(answers[c]) + IF Busy(c) THEN 1 ELSE 0
    BY DEF Taken
  <2>2. CASE Busy(c)
    BY <2>1, <2>2
  <2>3. CASE ~Busy(c)
    BY <1>4, <2>1, <2>3
  <2>4. QED
    BY <2>2, <2>3
<1>8. QED
  BY <1>1, <1>2, <1>3, <1>4, <1>5, <1>6, <1>7, Zenon

\* The END completes the head before it.
LEMMA SendEndKeeps ==
    ASSUME Inv, NEW c \in Client, SendEnd(c)
    PROVE  Inv'
<1>1. /\ inbound' = [inbound EXCEPT ![c] = Append(@, END)]
      /\ asked' = [asked EXCEPT ![c] = Append(@, partial[c])]
      /\ partial' = [partial EXCEPT ![c] = None]
      /\ partial[c] # None
      /\ UNCHANGED <<fin, workload, owner, open, read_buffer_, pc, conn, request, answers>>
  BY DEF SendEnd, Environment, connVars, threadVars
<1>2. partial[c] \in HeadPiece /\ END \in Piece
  BY <1>1 DEF Inv, Buffers, Piece
<1>3. /\ asked[c] \in Seq(HeadPiece) /\ Len(asked[c]) \in Nat
      /\ asked'[c] = Append(asked[c], partial[c]) /\ asked'[c] \in Seq(HeadPiece)
      /\ Len(asked'[c]) = Len(asked[c]) + 1
      /\ \A i \in 1 .. Len(asked[c]) : asked'[c][i] = asked[c][i]
      /\ asked'[c][Len(asked[c]) + 1] = partial[c]
  <2>1. asked[c] \in Seq(HeadPiece) /\ asked'[c] = Append(asked[c], partial[c])
    BY <1>1 DEF Inv, Buffers
  <2>2. QED
    BY <1>2, <2>1
<1>4. Buffers'
  <2>1. inbound' \in [Client -> Seq(Piece)]
    BY <1>1, <1>2 DEF Inv, Buffers
  <2>2. asked' \in [Client -> Seq(HeadPiece)]
    BY <1>1, <1>2 DEF Inv, Buffers
  <2>3. partial' \in [Client -> HeadPiece \cup {None}]
    BY <1>1 DEF Inv, Buffers
  <2>4. QED
    BY <1>1, <2>1, <2>2, <2>3 DEF Inv, Buffers
<1>5. Threads' /\ Serving'
  BY <1>1 DEF Inv, Threads, Serving
<1>6. \A d \in Client : Answered(d)'
  <2>1. ASSUME NEW d \in Client, d # c PROVE Answered(d)'
    <3>1. asked'[d] = asked[d]
      BY <1>1, <2>1 DEF Inv, Buffers
    <3>2. QED
      BY <1>1, <3>1 DEF Inv, Answered
  <2>2. Answered(c)'
    <3>1. Len(answers[c]) \in Nat
      BY TakenNat
    <3>2. QED
      BY <1>1, <1>3, <3>1 DEF Inv, Answered
  <2>3. QED
    BY <2>1, <2>2
<1>7. ASSUME Flow(c) PROVE Flow(c)'
  <2> DEFINE u == Unparsed(c)
             L == Len(asked[c])
             T == Taken(c)
  <2>1. /\ u \in Seq(Piece) /\ Len(u) \in Nat /\ T \in Nat /\ L \in Nat
        /\ Len(u) + 2 * T = 2 * L + 1 /\ T <= L
    BY <1>1, <1>7, FlowCounts, Zenon
  <2>2. Unparsed(c)' = Append(u, END)
    <3>1. Unparsed(c)' = read_buffer_[c] \o Append(inbound[c], END)
      BY <1>1, Zenon DEF Inv, Buffers, Unparsed
    <3>2. \A b, q \in Seq(Piece) : \A e \in Piece : b \o Append(q, e) = Append(b \o q, e)
      OBVIOUS
    <3>3. read_buffer_[c] \o Append(inbound[c], END) = Append(read_buffer_[c] \o inbound[c], END)
      BY <1>2, <1>7, <3>2, FlowCounts, Zenon
    <3>4. QED
      BY <3>1, <3>3 DEF Unparsed
  <2>3. Busy(c)' = Busy(c) /\ Taken(c)' = T
    BY <1>1 DEF Busy, Taken
  <2>4. /\ Len(Append(u, END)) = Len(u) + 1
        /\ \A i \in 1 .. Len(u) : Append(u, END)[i] = u[i]
        /\ Append(u, END)[Len(u) + 1] = END
    BY <1>2, <2>1
  <2>5. /\ \A j \in 1 .. L : j > T => u[2 * (j - T) - 1] = asked[c][j] /\ u[2 * (j - T)] = END
        /\ u[Len(u)] = partial[c]
        /\ Busy(c) => request[owner[c]] = asked[c][T]
        /\ \A i \in 1 .. Len(answers[c]) : ~answers[c][i].response.close
    BY <1>1, <1>7 DEF Flow
  <2>6. Busy(c) => T \in 1 .. L
    <3>1. Busy(c) => T = Len(answers[c]) + 1
      BY <1>7, FlowCounts, Zenon
    <3>2. Len(answers[c]) \in Nat
      BY TakenNat
    <3>3. QED
      BY <2>1, <3>1, <3>2
  <2> HIDE DEF u, L, T
  <2>7. ASSUME NEW j \in 1 .. L + 1, j > T
        PROVE  /\ Append(u, END)[2 * (j - T) - 1] = asked'[c][j]
               /\ Append(u, END)[2 * (j - T)] = END
    <3>1. CASE j = L + 1
      <4>1. 2 * (j - T) - 1 = Len(u) /\ 2 * (j - T) = Len(u) + 1 /\ Len(u) \in 1 .. Len(u)
        BY <2>1, <3>1
      <4>2. asked'[c][j] = partial[c]
        BY <1>3, <3>1 DEF L
      <4>3. Append(u, END)[Len(u)] = u[Len(u)]
        BY <2>4, <4>1
      <4>4. QED
        BY <2>4, <2>5, <4>1, <4>2, <4>3
    <3>2. CASE j # L + 1
      <4>1. j \in 1 .. L
        BY <2>1, <3>2
      <4>2. 2 * (j - T) - 1 \in 1 .. Len(u) /\ 2 * (j - T) \in 1 .. Len(u)
        BY <2>1, <2>7, <4>1
      <4>3. asked'[c][j] = asked[c][j]
        BY <1>3, <4>1 DEF L
      <4>4. QED
        BY <2>4, <2>5, <2>7, <4>1, <4>2, <4>3
    <3>3. QED
      BY <3>1, <3>2, Zenon
  <2>8. Len(Append(u, END)) + 2 * T = 2 * (L + 1) + 0
    BY <2>1, <2>4
  <2>9. Busy(c) => request[owner[c]] = asked'[c][T]
    BY <1>3, <2>5, <2>6 DEF L
  <2>10. partial'[c] = None /\ Len(asked'[c]) = L + 1
    BY <1>1, <1>3 DEF Inv, Buffers, L
  <2>11. QED
    BY <1>1, <2>2, <2>3, <2>5, <2>7, <2>8, <2>9, <2>10, Zenon DEF Flow
<1>8. ASSUME NEW d \in Client, d # c, Flow(d) PROVE Flow(d)'
  <2>1. UNCHANGED <<inbound[d], read_buffer_[d], asked[d], partial[d], answers[d]>>
    BY <1>1, <1>8 DEF Inv, Buffers
  <2>2. UNCHANGED <<Busy(d), request[owner[d]]>>
    BY <1>1 DEF Busy
  <2>3. QED
    BY <1>8, <2>1, <2>2, OthersFlow
<1>9. QED
  BY <1>1, <1>4, <1>5, <1>6, <1>7, <1>8 DEF Inv, Buffers

\* A client that closes its end sends nothing more.
LEMMA CloseEndKeeps ==
    ASSUME Inv, NEW c \in Client, CloseEnd(c)
    PROVE  Inv'
<1>1. /\ fin' = [fin EXCEPT ![c] = TRUE]
      /\ UNCHANGED <<inbound, asked, partial, workload, owner, open, read_buffer_, pc, conn, request, answers>>
  BY DEF CloseEnd, Environment, connVars, threadVars
<1>2. Buffers' /\ Threads' /\ Serving'
  BY <1>1 DEF Inv, Buffers, Threads, Serving
<1>3. \A d \in Client : Answered(d)'
  BY <1>1 DEF Inv, Answered
<1>4. ASSUME NEW d \in Client, Flow(d) PROVE Flow(d)'
  <2>1. UNCHANGED <<Busy(d), request[owner[d]]>>
    BY <1>1 DEF Busy
  <2>2. QED
    BY <1>1, <1>4, <2>1, OthersFlow
<1>5. \A d \in open : fin[d] => fin'[d]
  BY <1>1 DEF Inv, Buffers
<1>6. QED
  BY <1>1, <1>2, <1>3, <1>4, <1>5 DEF Inv, Buffers

\* A set of natural numbers has a least one.
LEMMA Least ==
    ASSUME NEW I \in SUBSET Nat, I # {}
    PROVE  Min(I) \in I /\ \A i \in I : Min(I) <= i
<1>1. \E x \in I : \A y \in I : ~ (<<y, x>> \in OpToRel(<, Nat))
  BY NatLessThanWellFounded, WFMin, Zenon
<1>2. PICK x \in I : \A y \in I : ~ (<<y, x>> \in OpToRel(<, Nat))
  BY <1>1, Zenon
<1>3. ASSUME NEW y \in I, y < x PROVE FALSE
  <2>1. <<y, x>> \in OpToRel(<, Nat)
    BY <1>3, Zenon DEF OpToRel
  <2>2. QED
    BY <1>2, <2>1, Zenon
<1>4. \A y \in I : x <= y
  BY <1>3
<1>5. QED
  BY <1>4, Zenon DEF Min

\* FindAndPopTill cuts the buffer after the first END.
LEMMA PopsFirst ==
    ASSUME NEW b \in Seq(Piece), PopTill(b) # <<>>
    PROVE  \E k \in 1 .. Len(b) :
             /\ b[k] = END /\ \A i \in 1 .. k - 1 : b[i] # END
             /\ PopTill(b)[1] = b[1]
             /\ PopRest(b) \in Seq(Piece)
             /\ Len(PopRest(b)) = Len(b) - k
             /\ \A i \in 1 .. Len(b) - k : PopRest(b)[i] = b[i + k]
<1> DEFINE I == {i \in DOMAIN b : b[i] = END}
           k == IF I = {} THEN 0 ELSE Min(I)
<1>0. Len(b) \in Nat /\ DOMAIN b = 1 .. Len(b)
  OBVIOUS
<1>1. PopTill(b) = SubSeq(b, 1, k) /\ PopRest(b) = SubSeq(b, k + 1, Len(b))
  BY DEF PopTill, PopRest, FirstEnd
<1>2. I # {}
  <2>1. SUFFICES ASSUME I = {} PROVE FALSE
    OBVIOUS
  <2>2. k = 0
    BY <2>1
  <2>3. SubSeq(b, 1, 0) = <<>>
    BY <1>0
  <2>4. QED
    BY <1>1, <2>2, <2>3, Zenon
<1>3. I \in SUBSET Nat
  BY <1>0
<1> HIDE DEF I
<1>4. k \in I /\ \A i \in I : k <= i
  BY <1>2, <1>3, Least, Zenon
<1> HIDE DEF k
<1>5. k \in 1 .. Len(b) /\ b[k] = END
  BY <1>0, <1>4 DEF I
<1>6. ASSUME NEW i \in 1 .. k - 1 PROVE b[i] # END
  BY <1>0, <1>4, <1>5, <1>6 DEF I
<1>7. SubSeq(b, 1, k)[1] = b[1]
  BY <1>0, <1>5
<1>8. /\ SubSeq(b, k + 1, Len(b)) \in Seq(Piece)
      /\ Len(SubSeq(b, k + 1, Len(b))) = Len(b) - k
      /\ \A i \in 1 .. Len(b) - k : SubSeq(b, k + 1, Len(b))[i] = b[i + k]
  <2>1. \A i \in k + 1 .. Len(b) : b[i] \in Piece
    BY <1>0, <1>5
  <2>2. k + 1 \in Int /\ Len(b) \in Int
    BY <1>0, <1>5
  <2>3. /\ SubSeq(b, k + 1, Len(b)) \in Seq(Piece)
        /\ Len(SubSeq(b, k + 1, Len(b))) = IF k + 1 <= Len(b) THEN Len(b) - (k + 1) + 1 ELSE 0
        /\ \A i \in 1 .. Len(b) - (k + 1) + 1 : SubSeq(b, k + 1, Len(b))[i] = b[(k + 1) + i - 1]
    BY <2>1, <2>2
  <2>4. Len(SubSeq(b, k + 1, Len(b))) = Len(b) - k
    <3>1. Len(SubSeq(b, k + 1, Len(b))) = IF k + 1 <= Len(b) THEN Len(b) - (k + 1) + 1 ELSE 0
      BY <2>3, Zenon
    <3>2. Len(b) \in Nat /\ k \in 1 .. Len(b)
      BY <1>0, <1>5, Zenon
    <3>3. \A m, n \in Int : n <= m => (IF n + 1 <= m THEN m - (n + 1) + 1 ELSE 0) = m - n
      OBVIOUS
    <3>4. QED
      BY <3>1, <3>2, <3>3
  <2>5. ASSUME NEW i \in 1 .. Len(b) - k PROVE SubSeq(b, k + 1, Len(b))[i] = b[i + k]
    <3>1. i \in 1 .. Len(b) - (k + 1) + 1 /\ (k + 1) + i - 1 = i + k
      BY <1>0, <1>5, <2>5
    <3>2. QED
      BY <2>3, <3>1
  <2>6. QED
    BY <2>3, <2>4, <2>5
<1>9. QED
  BY <1>1, <1>5, <1>6, <1>7, <1>8

\* A thread that serves c leaves what the other threads and clients are at as it was.
LEMMA OthersKeep ==
    ASSUME Inv, NEW t \in Thread, NEW c \in Client, owner[c] = t,
           pc[t] = "idle" \/ conn[t] = c,
           pc'[t] = "idle" \/ conn'[t] = c,
           \A v \in Thread \ {t} : pc'[v] = pc[v] /\ conn'[v] = conn[v] /\ request'[v] = request[v],
           open' \in {open, open \ {c}},
           UNCHANGED <<owner, asked, partial>>,
           \A d \in Client \ {c} : /\ inbound'[d] = inbound[d] /\ read_buffer_'[d] = read_buffer_[d]
                                   /\ answers'[d] = answers[d]
    PROVE  /\ \A v \in Thread \ {t} : pc'[v] # "idle" => conn'[v] \in open' /\ owner'[conn'[v]] = v
           /\ \A d \in Client \ {c} : Answered(d)' /\ (Flow(d) => Flow(d)')
<1>1. ASSUME NEW v \in Thread \ {t}, pc'[v] # "idle"
      PROVE  conn'[v] \in open' /\ owner'[conn'[v]] = v
  <2>1. conn[v] \in open /\ owner[conn[v]] = v
    BY <1>1 DEF Inv, Serving
  <2>2. conn[v] # c
    BY <2>1
  <2>3. QED
    BY <2>1, <2>2
<1>2. ASSUME NEW d \in Client \ {c}, Flow(d) PROVE Flow(d)'
  <2>1. owner[d] \in Thread
    BY DEF Inv, Buffers
  <2>2. CASE owner[d] # t
    <3>1. UNCHANGED Busy(d) /\ UNCHANGED request[owner[d]]
      BY <2>1, <2>2 DEF Busy
    <3>2. QED
      BY <1>2, <3>1, OthersFlow
  <2>3. CASE owner[d] = t
    <3>1. ~Busy(d)
      BY <2>3 DEF Busy
    <3>2. UNCHANGED Busy(d)
      BY <2>3 DEF Busy
    <3>3. QED
      BY <1>2, <3>1, <3>2, OthersFlow
  <2>4. QED
    BY <2>2, <2>3
<1>3. ASSUME NEW d \in Client \ {c} PROVE Answered(d)'
  BY DEF Inv, Answered
<1>4. QED
  BY <1>1, <1>2, <1>3

\* Recv moves what is in the socket to the end of the buffer.
LEMMA HandleKeeps ==
    ASSUME Inv, NEW t \in Thread, NEW c \in Client, Handle(t, c)
    PROVE  Inv'
<1>1. /\ owner[c] = t /\ c \in open /\ pc[t] = "idle"
      /\ inbound' = [inbound EXCEPT ![c] = <<>>]
      /\ read_buffer_' = [read_buffer_ EXCEPT ![c] = @ \o inbound[c]]
      /\ open' = IF fin[c] THEN open \ {c} ELSE open
      /\ pc' = [pc EXCEPT ![t] = IF fin[c] THEN "idle" ELSE "parse"]
      /\ UNCHANGED <<fin, asked, partial, workload, owner, request, answers>>
  BY DEF Handle, Goto, AfterRecv
<1>2. conn' = [conn EXCEPT ![t] = IF fin[c] THEN None ELSE c]
  BY Zenon DEF Handle, AfterRecv
<1>3. read_buffer_[c] \in Seq(Piece) /\ inbound[c] \in Seq(Piece)
  BY DEF Inv, Buffers
<1>4. Buffers'
  <2>1. read_buffer_[c] \o inbound[c] \in Seq(Piece) /\ <<>> \in Seq(Piece)
    BY <1>3
  <2>2. inbound' \in [Client -> Seq(Piece)] /\ read_buffer_' \in [Client -> Seq(Piece)]
    BY <1>1, <2>1 DEF Inv, Buffers
  <2>3. QED
    BY <1>1, <2>2 DEF Inv, Buffers
<1>5. Threads'
  <2>1. pc' \in [Thread -> Steps]
    BY <1>1 DEF Inv, Threads, Steps
  <2>2. conn' \in [Thread -> Client \cup {None}]
    BY <1>2 DEF Inv, Threads
  <2>3. QED
    BY <1>1, <2>1, <2>2 DEF Inv, Threads
<1>6. /\ \A v \in Thread \ {t} : pc'[v] # "idle" => conn'[v] \in open' /\ owner'[conn'[v]] = v
      /\ \A d \in Client \ {c} : Answered(d)' /\ (Flow(d) => Flow(d)')
  <2>1. /\ pc'[t] = "idle" \/ conn'[t] = c
        /\ \A v \in Thread \ {t} : pc'[v] = pc[v] /\ conn'[v] = conn[v] /\ request'[v] = request[v]
    BY <1>1, <1>2 DEF Inv, Threads
  <2>2. \A d \in Client \ {c} : /\ inbound'[d] = inbound[d] /\ read_buffer_'[d] = read_buffer_[d]
                                /\ answers'[d] = answers[d]
    BY <1>1 DEF Inv, Buffers
  <2>3. QED
    BY <1>1, <2>1, <2>2, OthersKeep, Zenon
<1>7. Serving'
  <2>1. pc'[t] # "idle" => conn'[t] \in open' /\ owner'[conn'[t]] = t
    BY <1>1, <1>2 DEF Inv, Threads
  <2>2. QED
    BY <1>6, <2>1 DEF Serving
<1>8. Answered(c)'
  BY <1>1 DEF Inv, Answered
<1>9. ASSUME ~fin[c], Flow(c) PROVE Flow(c)'
  <2>1. ~Busy(c) /\ ~Busy(c)'
    BY <1>1, <1>9 DEF Busy, Inv, Threads
  <2>2. Taken(c)' = Taken(c)
    BY <1>1, <2>1 DEF Taken
  <2>3. Unparsed(c)' = Unparsed(c)
    <3>1. inbound'[c] = <<>> /\ read_buffer_'[c] = read_buffer_[c] \o inbound[c]
      BY <1>1 DEF Inv, Buffers
    <3>2. \A q \in Seq(Piece) : q \o <<>> = q
      OBVIOUS
    <3>3. (read_buffer_[c] \o inbound[c]) \o <<>> = read_buffer_[c] \o inbound[c]
      BY <1>3, <3>2
    <3>4. QED
      BY <3>1, <3>3 DEF Unparsed
  <2>4. QED
    BY <1>1, <1>9, <2>1, <2>2, <2>3, Zenon DEF Flow
<1>10. QED
  <2>1. ASSUME NEW d \in open', ~fin'[d] PROVE Flow(d)'
    <3>1. d \in Client /\ d \in open /\ ~fin[d]
      BY <1>1, <2>1 DEF Inv, Buffers
    <3>2. Flow(d)
      BY <3>1 DEF Inv
    <3>3. QED
      BY <1>6, <1>9, <3>1, <3>2
  <2>2. QED
    BY <1>4, <1>5, <1>6, <1>7, <1>8, <2>1 DEF Inv

\* The handler returns.
LEMMA NoRequestKeeps ==
    ASSUME Inv, NEW t \in Thread, NoRequest(t)
    PROVE  Inv'
<1>1. /\ pc[t] = "parse" /\ pc' = [pc EXCEPT ![t] = "idle"]
      /\ conn' = [conn EXCEPT ![t] = None]
      /\ UNCHANGED <<inbound, fin, asked, partial, workload, owner, open, read_buffer_, request, answers>>
  BY DEF NoRequest, Goto, clientVars, connVars
<1>2. PICK c \in Client : conn[t] = c /\ c \in open /\ owner[c] = t
  BY <1>1 DEF Inv, Serving, Buffers
<1>3. Buffers'
  BY <1>1 DEF Inv, Buffers
<1>4. Threads'
  <2>1. pc' \in [Thread -> Steps]
    BY <1>1 DEF Inv, Threads, Steps
  <2>2. conn' \in [Thread -> Client \cup {None}]
    BY <1>1 DEF Inv, Threads
  <2>3. QED
    BY <1>1, <2>1, <2>2 DEF Inv, Threads
<1>5. /\ pc'[t] = "idle"
      /\ \A v \in Thread \ {t} : pc'[v] = pc[v] /\ conn'[v] = conn[v] /\ request'[v] = request[v]
  BY <1>1 DEF Inv, Threads
<1>6. /\ \A v \in Thread \ {t} : pc'[v] # "idle" => conn'[v] \in open' /\ owner'[conn'[v]] = v
      /\ \A d \in Client \ {c} : Answered(d)' /\ (Flow(d) => Flow(d)')
  BY <1>1, <1>2, <1>5, OthersKeep, Zenon
<1>7. Serving'
  BY <1>5, <1>6, Zenon DEF Serving
<1>8. Answered(c)'
  BY <1>1, <1>2 DEF Inv, Answered
<1>9. ASSUME Flow(c) PROVE Flow(c)'
  <2>1. ~Busy(c) /\ UNCHANGED Busy(c)
    BY <1>1, <1>2, <1>5 DEF Busy
  <2>2. QED
    BY <1>1, <1>2, <1>9, <2>1, OthersFlow
<1>10. QED
  BY <1>1, <1>2, <1>3, <1>4, <1>6, <1>7, <1>8, <1>9 DEF Inv, Buffers

\* The first END in the buffer is the one of the next request that was asked.
LEMMA NextRequestIsFirst ==
    ASSUME Inv, NEW c \in Client, Flow(c), ~Busy(c), PopTill(read_buffer_[c]) # <<>>
    PROVE  LET u == Unparsed(c)
               v == PopRest(read_buffer_[c]) \o inbound[c]
           IN  /\ Taken(c) + 1 <= Len(asked[c])
               /\ PopTill(read_buffer_[c])[1] = asked[c][Taken(c) + 1]
               /\ PopRest(read_buffer_[c]) \in Seq(Piece)
               /\ Len(v) = Len(u) - 2
               /\ \A i \in 1 .. Len(u) - 2 : v[i] = u[i + 2]
<1> DEFINE b == read_buffer_[c]
           q == inbound[c]
           u == b \o q
           T == Taken(c)
           L == Len(asked[c])
           v == PopRest(b) \o q
<1>1. PICK k \in 1 .. Len(b) :
             /\ b[k] = END /\ \A i \in 1 .. k - 1 : b[i] # END
             /\ PopTill(b)[1] = b[1]
             /\ PopRest(b) \in Seq(Piece)
             /\ Len(PopRest(b)) = Len(b) - k
             /\ \A i \in 1 .. Len(b) - k : PopRest(b)[i] = b[i + k]
  <2>1. b \in Seq(Piece)
    BY FlowCounts, Zenon
  <2>2. QED
    BY <2>1, PopsFirst, Zenon
<1>2. b \in Seq(Piece) /\ q \in Seq(Piece) /\ asked[c] \in Seq(HeadPiece) /\ T \in Nat /\ L \in Nat
  BY FlowCounts, Zenon
<1>3. /\ Len(u) + 2 * T = 2 * L + IF partial[c] = None THEN 0 ELSE 1
      /\ \A j \in 1 .. L : j > T => u[2 * (j - T) - 1] = asked[c][j] /\ u[2 * (j - T)] = END
      /\ partial[c] # None => u[Len(u)] = partial[c]
  BY Zenon DEF Flow, Unparsed
<1>4. partial[c] # None => partial[c] # END
  BY HttpAssumption, Zenon DEF Inv, Buffers, HeadPiece
<1>5. \A j \in 1 .. L : asked[c][j] # END
  <2>1. END \notin HeadPiece
    BY HttpAssumption DEF HeadPiece
  <2>2. QED
    BY <1>2, <2>1
<1> HIDE DEF b, q, T, L
<1>6. /\ Len(b) \in Nat /\ Len(q) \in Nat /\ Len(u) = Len(b) + Len(q)
      /\ \A i \in 1 .. Len(b) : u[i] = b[i]
      /\ \A i \in 1 .. Len(q) : u[Len(b) + i] = q[i]
  BY <1>2
<1>7. /\ Len(v) = Len(b) - k + Len(q)
      /\ \A i \in 1 .. Len(b) - k : v[i] = b[i + k]
      /\ \A i \in 1 .. Len(q) : v[Len(b) - k + i] = q[i]
  <2>1. \A x, y \in Seq(Piece) : /\ Len(x \o y) = Len(x) + Len(y)
                                 /\ \A i \in 1 .. Len(x) : (x \o y)[i] = x[i]
                                 /\ \A i \in 1 .. Len(y) : (x \o y)[Len(x) + i] = y[i]
    OBVIOUS
  <2>2. PopRest(b) \in Seq(Piece) /\ q \in Seq(Piece)
    BY <1>1, <1>2
  <2>3. /\ Len(v) = Len(PopRest(b)) + Len(q)
        /\ \A i \in 1 .. Len(PopRest(b)) : v[i] = PopRest(b)[i]
        /\ \A i \in 1 .. Len(q) : v[Len(PopRest(b)) + i] = q[i]
    BY <2>1, <2>2
  <2> HIDE DEF v
  <2>4. QED
    BY <1>1, <2>3
<1> HIDE DEF u, v
<1>8. T < L
  <2>1. SUFFICES ASSUME ~(T < L) PROVE FALSE
    OBVIOUS
  <2>2. Len(u) >= 1 /\ Len(u) \in Nat
    BY <1>1, <1>6
  <2>3. partial[c] # None /\ Len(u) = 1
    <3>1. \A a, m, n \in Nat : a >= 1 /\ ~(m < n) => a + 2 * m # 2 * n + 0
      OBVIOUS
    <3>2. \A a, m, n \in Nat : a >= 1 /\ ~(m < n) /\ a + 2 * m = 2 * n + 1 => a = 1
      OBVIOUS
    <3>3. CASE partial[c] = None
      BY <1>2, <1>3, <2>1, <2>2, <3>1, <3>3
    <3>4. CASE partial[c] # None
      BY <1>2, <1>3, <2>1, <2>2, <3>2, <3>4, Zenon
    <3>5. QED
      BY <3>3, <3>4
  <2>4. k = 1 /\ u[1] = END
    <3>1. Len(b) \in Nat /\ Len(b) <= 1
      <4>1. Len(b) \in Nat /\ Len(q) \in Nat /\ Len(u) = Len(b) + Len(q)
        BY <1>6, Zenon
      <4>2. QED
        BY <2>3, <4>1
    <3>2. k \in 1 .. Len(b) /\ b[k] = END
      BY <1>1
    <3>3. k = 1
      BY <3>1, <3>2
    <3>4. QED
      BY <1>6, <3>2, <3>3
  <2>5. QED
    BY <1>3, <1>4, <2>3, <2>4
<1>9. u[1] = asked[c][T + 1] /\ u[2] = END /\ Len(u) >= 2
  <2>1. T + 1 \in 1 .. L /\ T + 1 > T /\ 2 * ((T + 1) - T) - 1 = 1 /\ 2 * ((T + 1) - T) = 2
    BY <1>2, <1>8
  <2>2. QED
    BY <1>2, <1>3, <1>6, <1>8, <2>1
<1>10. asked[c][T + 1] # END
  BY <1>2, <1>5, <1>8
<1>11. k = 2
  <2>1. k # 1
    BY <1>1, <1>6, <1>9, <1>10
  <2>2. ~(k > 2)
    BY <1>1, <1>6, <1>9
  <2>3. QED
    BY <1>1, <2>1, <2>2
<1>12. ASSUME NEW i \in 1 .. Len(u) - 2 PROVE v[i] = u[i + 2]
  <2>1. CASE i <= Len(b) - 2
    BY <1>1, <1>6, <1>7, <1>11, <2>1
  <2>2. CASE i > Len(b) - 2
    <3>1. /\ i - (Len(b) - 2) \in 1 .. Len(q) /\ Len(b) - 2 + (i - (Len(b) - 2)) = i
          /\ Len(b) + (i - (Len(b) - 2)) = i + 2
      BY <1>1, <1>6, <1>11, <2>2
    <3>2. /\ v[Len(b) - 2 + (i - (Len(b) - 2))] = q[i - (Len(b) - 2)]
          /\ u[Len(b) + (i - (Len(b) - 2))] = q[i - (Len(b) - 2)]
      BY <1>6, <1>7, <1>11, <3>1
    <3>3. QED
      BY <3>1, <3>2
  <2>3. QED
    BY <1>1, <1>6, <1>11, <2>1, <2>2
<1>13. /\ Len(v) = Len(u) - 2
       /\ PopTill(b)[1] = asked[c][T + 1]
       /\ T + 1 <= L
  <2>1. Len(v) = Len(u) - 2
    BY <1>6, <1>7, <1>11
  <2>2. PopTill(b)[1] = asked[c][T + 1]
    BY <1>1, <1>6, <1>9
  <2>3. T + 1 <= L
    BY <1>2, <1>8
  <2>4. QED
    BY <2>1, <2>2, <2>3
<1>14. QED
  BY <1>1, <1>12, <1>13, Zenon DEF u, v, b, q, T, L, Unparsed

\* A request leaves the buffer.
LEMMA ParseKeeps ==
    ASSUME Inv, NEW t \in Thread, Parse(t)
    PROVE  Inv'
<1>1. /\ pc[t] = "parse" /\ PopTill(read_buffer_[conn[t]]) # <<>>
      /\ read_buffer_' = [read_buffer_ EXCEPT ![conn[t]] = PopRest(@)]
      /\ request' = [request EXCEPT ![t] = PopTill(read_buffer_[conn[t]])[1]]
      /\ UNCHANGED <<inbound, fin, asked, partial, workload, owner, open, conn, answers>>
  BY DEF Parse, clientVars
<1>2. PICK step \in {"cgi", "make200", "send"} : pc' = [pc EXCEPT ![t] = step]
  BY Zenon DEF Parse, Goto
<1>3. PICK c \in Client : conn[t] = c /\ c \in open /\ owner[c] = t
  BY <1>1 DEF Inv, Serving, Buffers
<1>4. /\ PopRest(read_buffer_[c]) \in Seq(Piece)
      /\ PopTill(read_buffer_[c])[1] \in Piece
  <2>1. read_buffer_[c] \in Seq(Piece)
    BY DEF Inv, Buffers
  <2>2. \E k \in 1 .. Len(read_buffer_[c]) :
             /\ PopTill(read_buffer_[c])[1] = read_buffer_[c][1]
             /\ PopRest(read_buffer_[c]) \in Seq(Piece)
    BY <1>1, <1>3, <2>1, PopsFirst, Zenon
  <2>3. QED
    BY <2>1, <2>2
<1>5. Buffers'
  <2>1. read_buffer_' \in [Client -> Seq(Piece)]
    BY <1>1, <1>3, <1>4 DEF Inv, Buffers
  <2>2. QED
    BY <1>1, <2>1 DEF Inv, Buffers
<1>6. Threads'
  <2>1. pc' \in [Thread -> Steps]
    BY <1>2 DEF Inv, Threads, Steps
  <2>2. request' \in [Thread -> Piece \cup {None}]
    BY <1>1, <1>3, <1>4, Zenon DEF Inv, Threads
  <2>3. QED
    BY <1>1, <2>1, <2>2 DEF Inv, Threads
<1>7. /\ pc'[t] = step /\ request'[t] = PopTill(read_buffer_[c])[1]
      /\ \A v \in Thread \ {t} : pc'[v] = pc[v] /\ conn'[v] = conn[v] /\ request'[v] = request[v]
  BY <1>1, <1>2, <1>3 DEF Inv, Threads
<1>8. /\ \A v \in Thread \ {t} : pc'[v] # "idle" => conn'[v] \in open' /\ owner'[conn'[v]] = v
      /\ \A d \in Client \ {c} : Answered(d)' /\ (Flow(d) => Flow(d)')
  <2>1. \A d \in Client \ {c} : read_buffer_'[d] = read_buffer_[d]
    BY <1>1, <1>3, Zenon DEF Inv, Buffers
  <2>2. QED
    BY <1>1, <1>3, <1>7, <2>1, OthersKeep, Zenon
<1>9. Serving'
  BY <1>1, <1>3, <1>8, Zenon DEF Serving
<1>10. Answered(c)'
  BY <1>1, Zenon DEF Inv, Answered
<1>11. ASSUME Flow(c) PROVE Flow(c)'
  <2> DEFINE u == Unparsed(c)
             w == PopRest(read_buffer_[c]) \o inbound[c]
             T == Taken(c)
             L == Len(asked[c])
  <2>1. ~Busy(c) /\ Busy(c)'
    BY <1>1, <1>3, <1>7 DEF Busy
  <2>2. /\ T + 1 <= L /\ request'[t] = asked[c][T + 1]
        /\ Len(w) = Len(u) - 2 /\ \A i \in 1 .. Len(u) - 2 : w[i] = u[i + 2]
    BY <1>1, <1>3, <1>7, <1>11, <2>1, NextRequestIsFirst, Zenon
  <2>3. Unparsed(c)' = w
    BY <1>1, <1>3 DEF Inv, Buffers, Unparsed
  <2>4. T \in Nat /\ L \in Nat /\ Len(u) \in Nat /\ Taken(c)' = T + 1
    <3>1. T \in Nat /\ L \in Nat /\ Len(u) \in Nat /\ T = Len(answers[c])
      BY <1>11, <2>1, FlowCounts, Zenon
    <3>2. Taken(c)' = Len(answers[c]) + 1
      BY <1>1, <2>1 DEF Taken
    <3>3. QED
      BY <3>1, <3>2
  <2>5. /\ Len(u) + 2 * T = 2 * L + IF partial[c] = None THEN 0 ELSE 1
        /\ \A j \in 1 .. L : j > T => u[2 * (j - T) - 1] = asked[c][j] /\ u[2 * (j - T)] = END
        /\ partial[c] # None => u[Len(u)] = partial[c]
        /\ \A i \in 1 .. Len(answers[c]) : ~answers[c][i].response.close
    BY <1>11, Zenon DEF Flow
  <2> HIDE DEF u, w, T, L
  <2>6. Len(w) + 2 * (T + 1) = 2 * L + IF partial[c] = None THEN 0 ELSE 1
    <3>1. Len(w) + 2 = Len(u)
      BY <2>2, <2>4
    <3>2. QED
      BY <2>4, <2>5, <3>1
  <2>7. ASSUME NEW j \in 1 .. L, j > T + 1
        PROVE  w[2 * (j - (T + 1)) - 1] = asked[c][j] /\ w[2 * (j - (T + 1))] = END
    <3>1. /\ 2 * (j - (T + 1)) - 1 \in 1 .. Len(u) - 2 /\ 2 * (j - (T + 1)) \in 1 .. Len(u) - 2
          /\ 2 * (j - (T + 1)) - 1 + 2 = 2 * (j - T) - 1 /\ 2 * (j - (T + 1)) + 2 = 2 * (j - T)
          /\ j > T
      BY <2>2, <2>4, <2>5, <2>7
    <3>2. QED
      BY <2>2, <2>5, <3>1, Zenon
  <2>8. ASSUME partial[c] # None PROVE w[Len(w)] = partial[c]
    <3>1. Len(w) \in 1 .. Len(u) - 2 /\ Len(w) + 2 = Len(u)
      <4>1. Len(u) + 2 * T = 2 * L + 1
        BY <2>5, <2>8, Zenon
      <4>2. T + 1 <= L /\ Len(w) = Len(u) - 2
        BY <2>2, Zenon
      <4>3. QED
        BY <2>4, <4>1, <4>2
    <3>2. QED
      BY <2>2, <2>5, <2>8, <3>1
  <2>9. QED
    BY <1>1, <1>3, <2>2, <2>3, <2>4, <2>5, <2>6, <2>7, <2>8, Zenon DEF Flow, L
<1>12. QED
  BY <1>1, <1>3, <1>5, <1>6, <1>8, <1>9, <1>10, <1>11 DEF Inv, Buffers

\* The request that was taken is answered.
LEMMA SendKeeps ==
    ASSUME Inv, NEW t \in Thread, Send(t)
    PROVE  Inv'
<1>1. /\ pc[t] = "send"
      /\ pc' = [pc EXCEPT ![t] = IF response[t].close THEN "idle" ELSE "parse"]
      /\ open' = IF response[t].close THEN open \ {conn[t]} ELSE open
      /\ request' = [request EXCEPT ![t] = None]
      /\ UNCHANGED <<inbound, fin, asked, partial, workload, owner, read_buffer_>>
  BY DEF Send, Goto, clientVars, no_more_parse, NextRequest
<1>2. conn' = [conn EXCEPT ![t] = IF response[t].close THEN None ELSE @]
  BY Zenon DEF Send, no_more_parse, NextRequest
<1>3. PICK c \in Client : conn[t] = c /\ c \in open /\ owner[c] = t
  BY <1>1 DEF Inv, Serving, Buffers
<1> DEFINE e == [request |-> request[t], response |-> response[t]]
<1>4. /\ answers' = IF fin[c] THEN answers ELSE [answers EXCEPT ![c] = Append(@, e)]
      /\ e.request = request[t] /\ e.response = response[t]
  BY <1>3 DEF Send
<1> HIDE DEF e
<1>5. PICK S : answers \in [Client -> Seq(S)]
  BY Zenon DEF Inv, Threads
<1>6. Buffers'
  BY <1>1 DEF Inv, Buffers
<1>7. answers' \in [Client -> Seq(S \cup {e})]
  <2>1. answers \in [Client -> Seq(S \cup {e})]
    BY <1>5
  <2>2. Append(answers[c], e) \in Seq(S \cup {e})
    BY <1>5, OneMore
  <2>3. QED
    BY <1>4, <2>1, <2>2
<1>8. Threads'
  <2>1. pc' \in [Thread -> Steps]
    BY <1>1 DEF Inv, Threads, Steps
  <2>2. conn' \in [Thread -> Client \cup {None}]
    BY <1>2 DEF Inv, Threads
  <2>3. request' \in [Thread -> Piece \cup {None}]
    BY <1>1, Zenon DEF Inv, Threads
  <2>4. \E R : answers' \in [Client -> Seq(R)]
    BY <1>7, Zenon
  <2>5. QED
    BY <2>1, <2>2, <2>3, <2>4, Zenon DEF Threads
<1>9. /\ pc'[t] = "idle" \/ conn'[t] = c
      /\ \A v \in Thread \ {t} : pc'[v] = pc[v] /\ conn'[v] = conn[v] /\ request'[v] = request[v]
  BY <1>1, <1>2, <1>3, Zenon DEF Inv, Threads
<1>10. /\ \A v \in Thread \ {t} : pc'[v] # "idle" => conn'[v] \in open' /\ owner'[conn'[v]] = v
       /\ \A d \in Client \ {c} : Answered(d)' /\ (Flow(d) => Flow(d)')
  <2>1. \A d \in Client \ {c} : answers'[d] = answers[d]
    BY <1>4, <1>5
  <2>2. open' \in {open, open \ {c}}
    BY <1>1, <1>3
  <2>3. conn[t] = c /\ owner[c] = t /\ UNCHANGED <<owner, asked, partial>>
    BY <1>1, <1>3
  <2>4. \A d \in Client \ {c} : /\ inbound'[d] = inbound[d] /\ read_buffer_'[d] = read_buffer_[d]
                               /\ answers'[d] = answers[d]
    BY <1>1, <2>1
  <2>5. QED
    BY <1>9, <2>2, <2>3, <2>4, OthersKeep, Zenon
<1>11. Serving'
  <2>1. pc'[t] # "idle" => conn'[t] \in open' /\ owner'[conn'[t]] = t
    BY <1>1, <1>2, <1>3, Zenon DEF Inv, Threads
  <2>2. QED
    BY <1>10, <2>1 DEF Serving
<1>12. ASSUME fin[c] PROVE Answered(c)'
  BY <1>1, <1>4, <1>12 DEF Inv, Answered
<1>13. ASSUME ~fin[c]
       PROVE  Answered(c)' /\ (~response[t].close => Flow(c)')
  <2> DEFINE a == answers[c]
             n == Len(answers[c])
             T == Taken(c)
             L == Len(asked[c])
  <2>1. Flow(c) /\ Busy(c)
    BY <1>1, <1>3, <1>13 DEF Inv, Busy
  <2>2. /\ answers'[c] = Append(a, e) /\ n \in Nat
        /\ Len(answers'[c]) = n + 1
        /\ \A i \in 1 .. n : answers'[c][i] = a[i]
        /\ answers'[c][n + 1] = e
    <3>1. answers'[c] = Append(a, e) /\ a \in Seq(S) /\ n \in Nat
      BY <1>4, <1>5, <1>13
    <3>2. QED
      BY <3>1, OneMore
  <2>3. T = n + 1 /\ T <= L /\ L \in Nat
    BY <2>1, FlowCounts, Zenon
  <2>4. request[t] = asked[c][T] /\ \A i \in 1 .. n : ~a[i].response.close
    BY <1>3, <2>1 DEF Flow
  <2>5. \A i \in 1 .. n : a[i].request = asked[c][i]
    BY DEF Inv, Answered
  <2>6. \A i \in 1 .. n + 1 : i \in 1 .. n \/ i = n + 1
    BY <2>2
  <2> HIDE DEF a, n
  <2>7. ASSUME NEW i \in 1 .. n + 1
        PROVE  /\ answers'[c][i].request = asked[c][i]
               /\ i < n + 1 => ~answers'[c][i].response.close
    <3>1. CASE i = n + 1
      BY <1>4, <2>2, <2>3, <2>4, <3>1
    <3>2. CASE i \in 1 .. n
      BY <2>2, <2>4, <2>5, <3>2, Zenon
    <3>3. QED
      BY <2>6, <3>1, <3>2
  <2>8. Answered(c)'
    BY <1>1, <2>2, <2>3, <2>7 DEF Answered
  <2>9. ASSUME ~response[t].close PROVE Flow(c)'
    <3>1. ~Busy(c)'
      BY <1>1, <1>3, <2>9 DEF Busy, Inv, Threads
    <3>2. Taken(c)' = T
      <4>1. Taken(c)' = Len(answers'[c]) + 0
        BY <3>1 DEF Taken
      <4>2. QED
        BY <2>2, <2>3, <4>1
    <3>3. Unparsed(c)' = Unparsed(c)
      BY <1>1 DEF Unparsed
    <3>4. ASSUME NEW i \in 1 .. n + 1 PROVE ~answers'[c][i].response.close
      <4>1. CASE i = n + 1
        BY <1>4, <2>2, <2>9, <4>1
      <4>2. CASE i \in 1 .. n
        BY <2>2, <2>4, <4>2
      <4>3. QED
        BY <2>6, <4>1, <4>2
    <3>5. QED
      BY <1>1, <2>1, <2>2, <3>1, <3>2, <3>3, <3>4, Zenon DEF Flow
  <2>10. QED
    BY <2>8, <2>9, Zenon
<1>14. ASSUME NEW d \in open', ~fin'[d] PROVE Flow(d)'
  <2>1. d \in Client /\ d \in open /\ ~fin[d]
    BY <1>1, <1>14 DEF Inv, Buffers
  <2>2. Flow(d)
    BY <2>1 DEF Inv
  <2>3. CASE d # c
    BY <1>10, <2>1, <2>2, <2>3
  <2>4. CASE d = c
    BY <1>1, <1>3, <1>13, <1>14, <2>1, <2>4
  <2>5. QED
    BY <2>3, <2>4
<1>15. QED
  BY <1>6, <1>8, <1>10, <1>11, <1>12, <1>13, <1>14 DEF Inv

\* The steps between taking a request and sending its response.
LEMMA ResponseKeeps ==
    ASSUME Inv, NEW t \in Thread,
           \/ Make200Response(t) \/ CheckFileSize(t) \/ LoadHit(t) \/ Relink(t) \/ LoadMiss(t) \/ LoadFile(t)
           \/ Insert(t) \/ InsertNothing(t) \/ Evict(t)
           \/ OpenFile(t) \/ Fork(t) \/ RunFails(t) \/ WaitFails(t) \/ Collect(t)
    PROVE  Inv'
<1> DEFINE Between == Steps \ {"idle", "parse"}
           Step == pc[t] \in Between /\ \E to \in Between : pc' = [pc EXCEPT ![t] = to]
<1>1. UNCHANGED flowVars
  <2> USE DEF flowVars, clientVars, connVars
  <2>1. CASE OnlyThread
    BY <2>1 DEF OnlyThread
  <2>2. CASE OnlyCgi
    BY <2>2 DEF OnlyCgi
  <2>3. QED
    BY <2>1, <2>2, Zenon DEF Make200Response, CheckFileSize, LoadHit, Relink, LoadMiss, LoadFile, Insert,
       InsertNothing, Evict, OpenFile, Fork, RunFails, WaitFails, Collect
<1>2. Step
  <2> USE DEF Goto, Steps
  <2>1. CASE Make200Response(t) \/ CheckFileSize(t)
    <3>1. \E at \in {"make200", "size"} : \E to \in {"size", AfterHeader(t)} : Goto(t, at, to)
      BY <2>1, Zenon DEF Make200Response, CheckFileSize, Abort
    <3>2. AfterHeader(t) \in {"load", "send"}
      BY DEF AfterHeader
    <3>3. QED
      BY <3>1, <3>2
  <2>2. CASE LoadHit(t) \/ Relink(t) \/ LoadMiss(t) \/ LoadFile(t)
    <3>1. \E at \in {"load", "relink", "read"} : \E to \in {"relink", "read", "send", "insert"} : Goto(t, at, to)
      BY <2>2, Zenon DEF LoadHit, Relink, LoadMiss, LoadFile, Abort
    <3>2. QED
      BY <3>1
  <2>3. CASE Insert(t) \/ InsertNothing(t) \/ Evict(t)
    <3>1. \E at \in {"insert", "evict"} : \E to \in {"evict", "send"} : Goto(t, at, to)
      BY <2>3, Zenon DEF Insert, InsertNothing, Evict, EvictAny, Abort
    <3>2. QED
      BY <3>1
  <2>4. CASE OpenFile(t) \/ Fork(t) \/ RunFails(t)
    BY <2>4 DEF OpenFile, Fork, RunFails
  <2>5. CASE WaitFails(t) \/ Collect(t)
    BY <2>5, Zenon DEF WaitFails, Collect
  <2>6. QED
    BY <2>1, <2>2, <2>3, <2>4, <2>5
<1>3. pc' \in [Thread -> Steps]
  BY <1>2 DEF Inv, Threads
<1>4. \A v \in Thread : /\ pc'[v] = "idle" <=> pc[v] = "idle"
                        /\ pc'[v] = "parse" <=> pc[v] = "parse"
  BY <1>2 DEF Inv, Threads
<1>5. QED
  BY <1>1, <1>3, <1>4, ElsewhereKeeps

\* Every step keeps the invariant.
LEMMA NextInv == Inv /\ [HttpNext]_vars => Inv'
<1> SUFFICES ASSUME Inv, [HttpNext]_vars PROVE Inv'
  OBVIOUS
<1>1. ASSUME UNCHANGED flowVars, UNCHANGED pc PROVE Inv'
  <2>1. pc' \in [Thread -> Steps]
    BY <1>1 DEF Inv, Threads
  <2>2. QED
    BY <1>1, <2>1, ElsewhereKeeps
<1>2. CASE UNCHANGED vars
  BY <1>1, <1>2 DEF vars, clientVars, connVars, threadVars, flowVars
<1>3. CASE \E c \in Client : SendHead(c) \/ SendEnd(c) \/ CloseEnd(c)
  BY <1>3, SendHeadKeeps, SendEndKeeps, CloseEndKeeps
<1>4. CASE \E change \in workload.changes : ChangeFile(change[1], change[2])
  BY <1>1, <1>4 DEF ChangeFile, Environment, clientVars, connVars, threadVars, flowVars
<1>5. ASSUME NEW t \in Thread, ChildEnds(t) \/ OrphanEnds(t) PROVE Inv'
  BY <1>1, <1>5 DEF ChildEnds, OrphanEnds, Environment, clientVars, connVars, threadVars, flowVars
<1>6. CASE CallCache
  BY <1>1, <1>6 DEF CallCache, clientVars, connVars, threadVars, flowVars
<1>7. ASSUME NEW t \in Thread, ThreadStep(t) PROVE Inv'
  <2>1. CASE \E c \in Client : Handle(t, c)
    BY <2>1, HandleKeeps
  <2>2. CASE Parse(t)
    BY <2>2, ParseKeeps
  <2>3. CASE NoRequest(t)
    BY <2>3, NoRequestKeeps
  <2>4. CASE Send(t)
    BY <2>4, SendKeeps
  <2>5. CASE \/ Make200Response(t) \/ CheckFileSize(t) \/ LoadHit(t) \/ Relink(t) \/ LoadMiss(t) \/ LoadFile(t)
             \/ Insert(t) \/ InsertNothing(t) \/ Evict(t)
             \/ OpenFile(t) \/ Fork(t) \/ RunFails(t) \/ WaitFails(t) \/ Collect(t)
    BY <2>5, ResponseKeeps
  <2>6. QED
    BY <1>7, <2>1, <2>2, <2>3, <2>4, <2>5 DEF ThreadStep
<1>8. QED
  BY <1>2, <1>3, <1>4, <1>5, <1>6, <1>7 DEF HttpNext

\* Pipelined requests are answered in the order they came, each once, and nothing
\* follows an answer that closes the connection (ProcessHttpRequest, FindAndPopTill).
THEOREM RequestsInOrder == HttpSpec => []AnsweredInOrder
<1>1. HttpSpec => []Inv
  BY InitInv, NextInv, PTL DEF HttpSpec
<1>2. QED
  BY <1>1, InvImplies, PTL
-----------------------------------------------------------------------------
(* How far each response is built. *)

\* Every END follows a head.
HeadsFirst(s) == \A i \in 1 .. Len(s) : s[i] = END => i > 1 /\ s[i - 1] # END

\* So it is in what each client has sent, whatever of it is read.
Framed == \A c \in Client : HeadsFirst(Unparsed(c))

\* A head may follow anything, an END only a head.
LEMMA HeadsFirstAppend ==
    ASSUME NEW s \in Seq(Piece), HeadsFirst(s), NEW e \in Piece,
           e # END \/ (Len(s) >= 1 /\ s[Len(s)] # END)
    PROVE  HeadsFirst(Append(s, e))
<1>1. Len(s) \in Nat /\ Len(Append(s, e)) = Len(s) + 1 /\ Append(s, e)[Len(s) + 1] = e
      /\ \A i \in 1 .. Len(s) : Append(s, e)[i] = s[i]
  OBVIOUS
<1>2. ASSUME NEW i \in 1 .. Len(s) + 1, Append(s, e)[i] = END
      PROVE  i > 1 /\ Append(s, e)[i - 1] # END
  <2>1. CASE i = Len(s) + 1
    <3>1. Len(s) >= 1 /\ s[Len(s)] # END /\ i - 1 = Len(s) /\ Len(s) \in 1 .. Len(s)
      BY <1>1, <1>2, <2>1
    <3>2. QED
      BY <1>1, <2>1, <3>1
  <2>2. CASE i \in 1 .. Len(s)
    <3>1. i > 1 /\ s[i - 1] # END
      BY <1>1, <1>2, <2>2 DEF HeadsFirst
    <3>2. i - 1 \in 1 .. Len(s)
      BY <1>1, <2>2, <3>1
    <3>3. QED
      BY <1>1, <3>1, <3>2
  <2>3. QED
    BY <1>1, <2>1, <2>2
<1>3. QED
  BY <1>1, <1>2 DEF HeadsFirst

\* What the client sends last.
LEMMA FramedSends ==
    ASSUME Inv, Framed, NEW c \in Client, NEW e \in Piece,
           inbound' = [inbound EXCEPT ![c] = Append(@, e)], UNCHANGED read_buffer_,
           e # END \/ (Len(Unparsed(c)) >= 1 /\ Unparsed(c)[Len(Unparsed(c))] # END)
    PROVE  Framed'
<1>1. read_buffer_[c] \in Seq(Piece) /\ inbound[c] \in Seq(Piece) /\ Unparsed(c) \in Seq(Piece)
  BY DEF Inv, Buffers, Unparsed
<1>2. Unparsed(c)' = Append(Unparsed(c), e)
  <2>1. Unparsed(c)' = read_buffer_[c] \o Append(inbound[c], e)
    BY Zenon DEF Inv, Buffers, Unparsed
  <2>2. \A b, q \in Seq(Piece) : b \o Append(q, e) = Append(b \o q, e)
    OBVIOUS
  <2>3. QED
    BY <1>1, <2>1, <2>2, Zenon DEF Unparsed
<1>3. HeadsFirst(Append(Unparsed(c), e))
  BY <1>1, HeadsFirstAppend DEF Framed
<1>4. \A d \in Client \ {c} : Unparsed(d)' = Unparsed(d)
  BY DEF Inv, Buffers, Unparsed
<1>5. QED
  BY <1>2, <1>3, <1>4, Zenon DEF Framed

\* What is left when the first request is taken.
LEMMA FramedPops ==
    ASSUME NEW b \in Seq(Piece), NEW q \in Seq(Piece), HeadsFirst(b \o q), PopTill(b) # <<>>
    PROVE  HeadsFirst(PopRest(b) \o q) /\ PopTill(b)[1] \in HeadPiece /\ PopRest(b) \in Seq(Piece)
<1>1. PICK k \in 1 .. Len(b) :
             /\ b[k] = END /\ \A i \in 1 .. k - 1 : b[i] # END
             /\ PopTill(b)[1] = b[1]
             /\ PopRest(b) \in Seq(Piece)
             /\ Len(PopRest(b)) = Len(b) - k
             /\ \A i \in 1 .. Len(b) - k : PopRest(b)[i] = b[i + k]
  BY PopsFirst, Zenon
<1> DEFINE u == b \o q
           v == PopRest(b) \o q
           N == Len(b)
           M == Len(q)
<1>2. /\ N \in Nat /\ M \in Nat /\ Len(u) = N + M
      /\ \A i \in 1 .. N + M : u[i] = IF i <= N THEN b[i] ELSE q[i - N]
  OBVIOUS
<1>3. /\ Len(v) = (N - k) + M
      /\ \A i \in 1 .. (N - k) + M : v[i] = IF i <= N - k THEN PopRest(b)[i] ELSE q[i - (N - k)]
  <2>1. PopRest(b) \in Seq(Piece) /\ Len(PopRest(b)) = N - k
    BY <1>1
  <2>2. /\ Len(v) = Len(PopRest(b)) + M
        /\ \A i \in 1 .. Len(PopRest(b)) + M :
             v[i] = IF i <= Len(PopRest(b)) THEN PopRest(b)[i] ELSE q[i - Len(PopRest(b))]
    BY <2>1
  <2>3. QED
    BY <2>1, <2>2, Zenon
<1> HIDE DEF u, v, N, M
<1>4. N \in Nat /\ M \in Nat /\ k \in 1 .. N
  BY <1>1, <1>2 DEF N
<1>5. ASSUME NEW i \in 1 .. (N - k) + M PROVE v[i] = u[i + k] /\ i + k \in 1 .. N + M
  <2>1. i + k \in 1 .. N + M /\ i \in Int /\ k \in Int
    BY <1>4
  <2>2. CASE i <= N - k
    <3>1. i + k <= N /\ i \in 1 .. N - k
      BY <1>4, <2>1, <2>2
    <3>2. QED
      BY <1>1, <1>2, <1>3, <2>1, <2>2, <3>1, Zenon DEF N
  <2>3. CASE ~(i <= N - k)
    <3>1. ~(i + k <= N) /\ (i + k) - N = i - (N - k)
      BY <1>4, <2>1, <2>3
    <3>2. QED
      BY <1>2, <1>3, <2>1, <2>3, <3>1, Zenon
  <2>4. QED
    BY <2>2, <2>3
<1>6. ASSUME NEW i \in 1 .. Len(v), v[i] = END PROVE i > 1 /\ v[i - 1] # END
  <2>1. i \in 1 .. (N - k) + M /\ u[i + k] = END /\ i + k \in 1 .. Len(u)
    BY <1>2, <1>3, <1>5, <1>6
  <2>2. u[(i + k) - 1] # END
    BY <2>1, Zenon DEF HeadsFirst, u
  <2>3. i # 1
    <3>1. SUFFICES ASSUME i = 1 PROVE FALSE
      OBVIOUS
    <3>2. (i + k) - 1 = k /\ k \in 1 .. N + M /\ k <= N
      BY <1>4, <3>1
    <3>3. u[k] = b[k]
      BY <1>2, <3>2
    <3>4. QED
      BY <1>1, <2>2, <3>2, <3>3
  <2>4. i - 1 \in 1 .. (N - k) + M /\ (i - 1) + k = (i + k) - 1 /\ i > 1
    BY <1>4, <2>1, <2>3
  <2>5. v[i - 1] = u[(i - 1) + k]
    BY <1>5, <2>4
  <2>6. QED
    BY <2>2, <2>4, <2>5
<1>7. PopTill(b)[1] \in HeadPiece
  <2>1. 1 \in 1 .. Len(u) /\ 1 \in 1 .. N + M /\ 1 <= N /\ 1 \in 1 .. N
    BY <1>2, <1>4
  <2>2. u[1] = b[1] /\ b[1] \in Piece
    BY <1>2, <2>1 DEF N
  <2>3. u[1] # END
    BY <2>1 DEF HeadsFirst, u
  <2>4. QED
    BY <1>1, <2>2, <2>3 DEF Piece
<1>8. QED
  BY <1>1, <1>6, <1>7 DEF HeadsFirst, v

\* A step that leaves the pieces of a client where they are.
LEMMA FramedSame ==
    ASSUME Framed, UNCHANGED <<inbound, read_buffer_>>
    PROVE  Framed'
BY DEF Framed, Unparsed

\* Every step keeps the pieces framed.
LEMMA FramedNext == Inv /\ Framed /\ [HttpNext]_vars => Framed'
<1> SUFFICES ASSUME Inv, Framed, [HttpNext]_vars PROVE Framed'
  OBVIOUS
<1>1. CASE UNCHANGED vars
  BY <1>1, FramedSame DEF vars, clientVars, connVars
<1>2. ASSUME NEW c \in Client, SendHead(c) PROVE Framed'
  <2>1. PICK r \in HeadPiece : inbound' = [inbound EXCEPT ![c] = Append(@, r)]
    BY <1>2, WorkloadIs, Zenon DEF SendHead, Inv, Buffers
  <2>2. UNCHANGED read_buffer_
    BY <1>2 DEF SendHead, Environment, connVars
  <2>3. r \in Piece /\ r # END
    BY HttpAssumption DEF HeadPiece, Piece
  <2>4. QED
    BY <2>1, <2>2, <2>3, FramedSends, Zenon
<1>3. ASSUME NEW c \in Client, SendEnd(c) PROVE Framed'
  <2>1. inbound' = [inbound EXCEPT ![c] = Append(@, END)] /\ UNCHANGED read_buffer_
    BY <1>3 DEF SendEnd, Environment, connVars
  <2>2. c \in open /\ ~fin[c] /\ partial[c] # None
    BY <1>3 DEF SendEnd
  <2>3. Flow(c)
    BY <2>2 DEF Inv
  <2>4. Unparsed(c)[Len(Unparsed(c))] = partial[c] /\ partial[c] # END
    BY <2>2, <2>3, HttpAssumption, Zenon DEF Flow, Inv, Buffers, HeadPiece
  <2>5. Len(Unparsed(c)) >= 1
    <3>1. Len(Unparsed(c)) + 2 * Taken(c) = 2 * Len(asked[c]) + 1
      BY <2>2, <2>3 DEF Flow
    <3>2. Unparsed(c) \in Seq(Piece) /\ Len(Unparsed(c)) \in Nat /\ Len(asked[c]) \in Nat /\ Taken(c) \in Nat
      BY <2>3, FlowCounts, Zenon
    <3> DEFINE n == Len(Unparsed(c))
               a == Len(asked[c])
               k == Taken(c)
    <3>3. n + 2 * k = 2 * a + 1 /\ n \in Nat /\ a \in Nat /\ k \in Nat
      BY <3>1, <3>2
    <3> HIDE DEF n, a, k
    <3>4. n # 0
      BY <3>3
    <3>5. n >= 1
      BY <3>3, <3>4
    <3>6. QED
      BY <3>5 DEF n
  <2>6. END \in Piece
    BY DEF Piece
  <2>7. QED
    BY <2>1, <2>4, <2>5, <2>6, FramedSends, Zenon
<1>4. ASSUME NEW c \in Client, CloseEnd(c) PROVE Framed'
  BY <1>4, FramedSame DEF CloseEnd, Environment, connVars
<1>5. CASE \E change \in workload.changes : ChangeFile(change[1], change[2])
  BY <1>5, FramedSame DEF ChangeFile, Environment, clientVars, connVars
<1>6. ASSUME NEW t \in Thread, ChildEnds(t) \/ OrphanEnds(t) PROVE Framed'
  BY <1>6, FramedSame DEF ChildEnds, OrphanEnds, Environment, clientVars, connVars
<1>7. CASE CallCache
  BY <1>7, FramedSame DEF CallCache, clientVars, connVars
<1>8. ASSUME NEW t \in Thread, NEW c \in Client, Handle(t, c) PROVE Framed'
  <2>1. inbound' = [inbound EXCEPT ![c] = <<>>] /\ read_buffer_' = [read_buffer_ EXCEPT ![c] = @ \o inbound[c]]
    BY <1>8 DEF Handle
  <2>2. read_buffer_[c] \in Seq(Piece) /\ inbound[c] \in Seq(Piece)
    BY DEF Inv, Buffers
  <2>3. inbound'[c] = <<>> /\ read_buffer_'[c] = read_buffer_[c] \o inbound[c]
    BY <2>1 DEF Inv, Buffers
  <2>4. (read_buffer_[c] \o inbound[c]) \o <<>> = read_buffer_[c] \o inbound[c]
    <3>1. \A q \in Seq(Piece) : q \o <<>> = q
      OBVIOUS
    <3>2. QED
      BY <2>2, <3>1
  <2>5. Unparsed(c)' = Unparsed(c)
    BY <2>3, <2>4 DEF Unparsed
  <2>6. \A d \in Client \ {c} : Unparsed(d)' = Unparsed(d)
    BY <2>1 DEF Inv, Buffers, Unparsed
  <2>7. QED
    BY <2>5, <2>6 DEF Framed
<1>9. ASSUME NEW t \in Thread, Parse(t) PROVE Framed'
  <2>1. /\ pc[t] = "parse" /\ PopTill(read_buffer_[conn[t]]) # <<>>
        /\ read_buffer_' = [read_buffer_ EXCEPT ![conn[t]] = PopRest(@)] /\ UNCHANGED inbound
    BY <1>9 DEF Parse, clientVars
  <2>2. PICK c \in Client : conn[t] = c
    BY <2>1 DEF Inv, Serving, Buffers
  <2>3. read_buffer_[c] \in Seq(Piece) /\ inbound[c] \in Seq(Piece)
    BY DEF Inv, Buffers
  <2>4. HeadsFirst(PopRest(read_buffer_[c]) \o inbound[c])
    BY <2>1, <2>2, <2>3, FramedPops, Zenon DEF Framed, Unparsed
  <2>5. Unparsed(c)' = PopRest(read_buffer_[c]) \o inbound[c]
    BY <2>1, <2>2, Zenon DEF Inv, Buffers, Unparsed
  <2>6. \A d \in Client \ {c} : Unparsed(d)' = Unparsed(d)
    BY <2>1, <2>2 DEF Inv, Buffers, Unparsed
  <2>7. QED
    BY <2>4, <2>5, <2>6, Zenon DEF Framed
<1>10. ASSUME NEW t \in Thread, NoRequest(t) \/ Send(t) PROVE Framed'
  BY <1>10, FramedSame, Zenon DEF NoRequest, Send, clientVars, connVars
<1>11. ASSUME NEW t \in Thread,
              \/ Make200Response(t) \/ CheckFileSize(t) \/ LoadHit(t) \/ Relink(t) \/ LoadMiss(t) \/ LoadFile(t)
              \/ Insert(t) \/ InsertNothing(t) \/ Evict(t)
              \/ OpenFile(t) \/ Fork(t) \/ RunFails(t) \/ WaitFails(t) \/ Collect(t)
       PROVE  Framed'
  <2> USE DEF clientVars, connVars
  <2>1. CASE OnlyThread
    BY <2>1, FramedSame DEF OnlyThread
  <2>2. CASE OnlyCgi
    BY <2>2, FramedSame DEF OnlyCgi
  <2>3. QED
    BY <1>11, <2>1, <2>2, Zenon DEF Make200Response, CheckFileSize, LoadHit, Relink, LoadMiss, LoadFile, Insert,
       InsertNothing, Evict, OpenFile, Fork, RunFails, WaitFails, Collect
<1>12. QED
  BY <1>1, <1>2, <1>3, <1>4, <1>5, <1>6, <1>7, <1>8, <1>9, <1>10, <1>11 DEF HttpNext, ThreadStep
-----------------------------------------------------------------------------
\* What the response a is to be for the request q that thread w has served, with the
\* files f of which ch have changed, when waitpid has failed on the threads ls.
Right(w, q, a, f, ch, ls) ==
    a.status = 200 =>
        /\ q.target \in Url \ ch =>
            /\ a.length = Size[f[q.target]]
            /\ a.body = IF q.method = "GET" THEN <<f[q.target]>> ELSE <<>>
        /\ q.target \in Program =>
            /\ a.length = BodySize(a.body)
            /\ w \notin ls => a.body \in {<<q.target>>, <<ErrorText>>}

\* How far the response of t is.
Built(t) ==
    LET q == request[t]
        a == response[t]
    IN
    /\ pc[t] \in {"make200", "size", "load", "relink", "read", "insert", "evict"} => q \in Request /\ q.target \in Url
    /\ pc[t] \in {"cgi", "fork", "wait"} => q \in Request /\ q.target \in Program
    /\ pc[t] = "size" => a \in Response /\ a.status = 200 /\ a.body = <<>>
    /\ pc[t] \in {"load", "read", "insert", "evict"} =>
        /\ q.method = "GET" /\ a \in Response /\ a.status = 200
        /\ q.target \notin changed => a.length = Size[files[q.target]]
    /\ pc[t] \in {"insert", "evict"} =>
        \E d \in Data : a.body = <<d>> /\ (q.target \notin changed => d = files[q.target])
    /\ pc[t] \in {"relink", "send"} => a \in Response /\ Right(t, q, a, files, changed, lost)

\* The CGI file of t holds the output of the program t waits for and nothing else.
OwnOutput(t) ==
    /\ child[t] # None => pc[t] = "wait"
    /\ pc[t] \in {"fork", "wait"} => tmp[t] \in Body
    /\ t \notin lost =>
        /\ orphan[t] = None
        /\ pc[t] = "fork" => tmp[t] = <<>>
        /\ pc[t] = "wait" => \/ child[t] = url(t) /\ tmp[t] = <<>>
                             \/ child[t] = None /\ tmp[t] = <<url(t)>>
        /\ pc[t] \notin {"fork", "wait"} => tmp[t] \in {None, <<>>}

\* Nothing is served, and the cache belongs to whoever made it.
NoServer == open = {} /\ \A c \in Client : ~fin[c] /\ answers[c] = <<>>

\* What is cached, or about to be, is what is on the disk.
Coherent == \A u \in Url \ changed : u \in mapping_ \/ incoming = u => data_[u] = files[u]

\* The types of the stores a step writes to.
Stores ==
    /\ files \in [Url -> Data \cup {None}] /\ changed \subseteq Url
    /\ \A u \in Url \ changed : files[u] \in Data
    /\ tmp \in [Thread -> Body \cup {None}]
    /\ child \in [Thread -> Program \cup {None}] /\ orphan \in [Thread -> Program \cup {None}]
    /\ lost \subseteq Thread
    /\ response \in [Thread -> Response \cup {None}]
    /\ aborted \in BOOLEAN

\* The answers a client has got.
Sent ==
    \A c \in Client : \A i \in 1 .. Len(answers[c]) :
        /\ answers[c][i].response \in Response
        /\ Right(owner[c], answers[c][i].request, answers[c][i].response, files, changed, lost)

\* BodiesExact is not inductive: that an answer is right rests on how the response was
\* built, on what the cache holds, and on whose output is in the CGI file.
BodyInv ==
    /\ Stores /\ Sent
    /\ \A t \in Thread : Built(t) /\ OwnOutput(t)
    /\ NoServer \/ Coherent

\* A response that was right stays right while files that did not change stay, and while
\* a thread that has lost a child stays lost.
LEMMA RightStays ==
    ASSUME NEW w, NEW q, NEW a, NEW f, NEW ch, NEW ls, Right(w, q, a, f, ch, ls),
           NEW g, NEW dh, NEW ms, ch \subseteq dh, ls \subseteq ms, \A u \in Url \ dh : g[u] = f[u]
    PROVE  Right(w, q, a, g, dh, ms)
<1>1. ASSUME q.target \in Url \ dh PROVE q.target \in Url \ ch /\ g[q.target] = f[q.target]
  BY <1>1
<1>2. w \notin ms => w \notin ls
  OBVIOUS
<1>3. QED
  BY <1>1, <1>2, Zenon DEF Right

\* Files that were not changed stay, and what is lost stays lost.
Later ==
    /\ changed \subseteq changed' /\ lost \subseteq lost'
    /\ \A u \in Url \ changed' : files'[u] = files[u]

\* A thread that does nothing.
LEMMA BuiltStays ==
    ASSUME Later, NEW t \in Thread, Built(t),
           pc'[t] = pc[t], request'[t] = request[t], response'[t] = response[t]
    PROVE  Built(t)'
<1>1. ASSUME pc[t] \in {"load", "read", "insert", "evict"}
      PROVE  request[t].target \notin changed' => response[t].length = Size[files'[request[t].target]]
  <2>1. /\ request[t].target \in Url
        /\ request[t].target \notin changed => response[t].length = Size[files[request[t].target]]
    BY <1>1, Zenon DEF Built
  <2>2. QED
    BY <2>1, Zenon DEF Later
<1>2. ASSUME pc[t] \in {"insert", "evict"}
      PROVE  \E d \in Data : response[t].body = <<d>> /\ (request[t].target \notin changed' => d = files'[request[t].target])
  <2>1. request[t].target \in Url
    BY <1>2, Zenon DEF Built
  <2>2. PICK d \in Data : response[t].body = <<d>> /\ (request[t].target \notin changed => d = files[request[t].target])
    BY <1>2, Zenon DEF Built
  <2>3. QED
    BY <2>1, <2>2, Zenon DEF Later
<1>3. ASSUME pc[t] \in {"relink", "send"} PROVE Right(t, request[t], response[t], files', changed', lost')
  <2>1. Right(t, request[t], response[t], files, changed, lost)
    BY <1>3, Zenon DEF Built
  <2>2. changed \subseteq changed' /\ lost \subseteq lost' /\ \A u \in Url \ changed' : files'[u] = files[u]
    BY Zenon DEF Later
  <2>3. QED
    BY <2>1, <2>2, RightStays, Zenon
<1>4. /\ pc'[t] \in {"make200", "size", "load", "relink", "read", "insert", "evict"} =>
          request'[t] \in Request /\ request'[t].target \in Url
      /\ pc'[t] = "size" => response'[t] \in Response /\ response'[t].status = 200 /\ response'[t].body = <<>>
      /\ pc'[t] \in {"cgi", "fork", "wait"} => request'[t] \in Request /\ request'[t].target \in Program
  BY Zenon DEF Built
<1>5. pc'[t] \in {"load", "read", "insert", "evict"} =>
        /\ request'[t].method = "GET" /\ response'[t] \in Response /\ response'[t].status = 200
        /\ request'[t].target \notin changed' => response'[t].length = Size[files'[request'[t].target]]
  BY <1>1, Zenon DEF Built
<1>6. pc'[t] \in {"insert", "evict"} =>
        \E d \in Data : response'[t].body = <<d>> /\ (request'[t].target \notin changed' => d = files'[request'[t].target])
  BY <1>2, Zenon
<1>7. pc'[t] \in {"relink", "send"} => response'[t] \in Response /\ Right(t, request'[t], response'[t], files', changed', lost')
  BY <1>3, Zenon DEF Built
<1>8. QED
  BY <1>4, <1>5, <1>6, <1>7, Zenon DEF Built

\* The CGI file is used in fork and wait only.
LEMMA OutputStays ==
    ASSUME NEW t \in Thread, OwnOutput(t), t \notin lost' => t \notin lost,
           tmp'[t] = tmp[t], child'[t] = child[t], orphan'[t] = orphan[t],
           \/ pc'[t] = pc[t] /\ request'[t] = request[t]
           \/ pc[t] \notin {"fork", "wait"} /\ pc'[t] \notin {"fork", "wait"}
    PROVE  OwnOutput(t)'
BY DEF OwnOutput, url

\* What was sent stays right.
LEMMA SentStays ==
    ASSUME Sent, Later, UNCHANGED <<answers, owner>>
    PROVE  Sent'
<1> SUFFICES ASSUME NEW c \in Client, NEW i \in 1 .. Len(answers[c])
             PROVE  /\ answers[c][i].response \in Response
                    /\ Right(owner[c], answers[c][i].request, answers[c][i].response, files', changed', lost')
  BY Zenon DEF Sent
<1>1. /\ answers[c][i].response \in Response
      /\ Right(owner[c], answers[c][i].request, answers[c][i].response, files, changed, lost)
  BY DEF Sent
<1>2. QED
  BY <1>1, RightStays DEF Later

\* A step of thread t, which has to see to its own response only.
LEMMA ThreadKeeps ==
    ASSUME Inv, BodyInv, NEW t \in Thread, Later,
           \A v \in Thread \ {t} : /\ pc'[v] = pc[v] /\ request'[v] = request[v] /\ response'[v] = response[v]
                                   /\ tmp'[v] = tmp[v] /\ child'[v] = child[v] /\ orphan'[v] = orphan[v]
                                   /\ v \notin lost' => v \notin lost,
           Stores', Sent', Built(t)', OwnOutput(t)', Coherent'
    PROVE  BodyInv'
<1>1. ASSUME NEW v \in Thread \ {t} PROVE Built(v)' /\ OwnOutput(v)'
  BY <1>1, BuiltStays, OutputStays, Zenon DEF BodyInv
<1>2. QED
  BY <1>1 DEF BodyInv

\* While a thread serves, the cache is the server's.
LEMMA Served ==
    ASSUME Inv, BodyInv, NEW t \in Thread, pc[t] # "idle"
    PROVE  Coherent /\ ~NoServer
BY Zenon DEF Inv, Serving, BodyInv, NoServer

\* A step that touches neither cache nor disk.
LEMMA CoherentStays ==
    ASSUME Coherent, UNCHANGED <<cacheVars, diskVars>>
    PROVE  Coherent'
BY DEF Coherent, cacheVars, diskVars

\* A step in which the threads, the cache and what was sent stay as they are.
LEMMA AroundKeeps ==
    ASSUME Inv, BodyInv, Later, UNCHANGED <<pc, request, response, answers, owner>>,
           Stores', NoServer' \/ Coherent',
           \A t \in Thread : OwnOutput(t)'
    PROVE  BodyInv'
<1>1. ASSUME NEW t \in Thread PROVE Built(t)'
  BY BuiltStays DEF BodyInv
<1>2. Sent'
  BY SentStays DEF BodyInv
<1>3. QED
  BY <1>1, <1>2 DEF BodyInv

\* The clients send and close.
LEMMA ClientsKeep ==
    ASSUME Inv, BodyInv, NEW c \in Client, SendHead(c) \/ SendEnd(c) \/ CloseEnd(c)
    PROVE  BodyInv'
<1>1. /\ c \in open /\ UNCHANGED <<cacheVars, files, changed, tmp, child, orphan, lost>>
      /\ UNCHANGED <<pc, request, response, answers, owner, aborted>>
  BY DEF SendHead, SendEnd, CloseEnd, Environment, connVars, threadVars, diskVars, cgiVars
<1>2. Later /\ Stores'
  BY <1>1 DEF Later, BodyInv, Stores
<1>3. Coherent'
  <2>1. Coherent
    BY <1>1 DEF BodyInv, NoServer
  <2>2. QED
    BY <1>1, <2>1, CoherentStays DEF diskVars
<1>4. ASSUME NEW t \in Thread PROVE OwnOutput(t)'
  BY <1>1, OutputStays DEF BodyInv
<1>5. QED
  BY <1>1, <1>2, <1>3, <1>4, AroundKeeps

\* A file that is changed on the disk promises nothing any more.
LEMMA ChangeKeeps ==
    ASSUME Inv, BodyInv, NEW change \in workload.changes, ChangeFile(change[1], change[2])
    PROVE  BodyInv'
<1> DEFINE u == change[1]
           d == change[2]
<1>1. u \in Url /\ d \in Data \cup {None}
  BY WorkloadIs, Zenon DEF Inv, Buffers
<1>2. /\ open # {} /\ changed = {} /\ files' = [files EXCEPT ![u] = d] /\ changed' = {u}
      /\ UNCHANGED <<cacheVars, tmp, child, orphan, lost>>
      /\ UNCHANGED <<pc, request, response, answers, owner, aborted>>
  BY DEF ChangeFile, Environment, connVars, threadVars, cgiVars
<1> HIDE DEF u, d
<1>3. \A v \in Url \ {u} : files'[v] = files[v]
  BY <1>2 DEF BodyInv, Stores
<1>4. Later
  BY <1>2, <1>3 DEF Later
<1>5. Stores'
  <2>1. files' \in [Url -> Data \cup {None}]
    BY <1>1, <1>2 DEF BodyInv, Stores
  <2>2. \A v \in Url \ changed' : files'[v] \in Data
    BY <1>2, <1>3 DEF BodyInv, Stores
  <2>3. QED
    BY <1>1, <1>2, <2>1, <2>2 DEF BodyInv, Stores
<1>6. Coherent'
  <2>1. Coherent
    BY <1>2 DEF BodyInv, NoServer
  <2>2. QED
    BY <1>2, <1>3, <2>1 DEF Coherent, cacheVars
<1>7. ASSUME NEW t \in Thread PROVE OwnOutput(t)'
  BY <1>2, OutputStays DEF BodyInv
<1>8. QED
  BY <1>2, <1>4, <1>5, <1>6, <1>7, AroundKeeps

\* One more chunk.
LEMMA BodyGrows ==
    ASSUME NEW b \in Body, NEW p \in Data \cup Program \cup {ErrorText}
    PROVE  Append(b, p) \in Body /\ <<p>> \in Body /\ <<>> \in Body /\ Append(<<>>, p) = <<p>>
BY DEF Body

\* The children end: the output of a child the thread waits for is its own.
LEMMA ChildKeeps ==
    ASSUME Inv, BodyInv, NEW t \in Thread, ChildEnds(t) \/ OrphanEnds(t)
    PROVE  BodyInv'
<1>1. /\ UNCHANGED <<cacheVars, files, changed, lost>>
      /\ UNCHANGED <<pc, request, response, answers, owner, aborted, open, fin>>
  BY DEF ChildEnds, OrphanEnds, Environment, connVars, threadVars, diskVars, clientVars
<1>2. Later
  BY <1>1 DEF Later
<1>3. NoServer' \/ Coherent'
  BY <1>1, CoherentStays DEF BodyInv, NoServer, diskVars
<1>4. /\ tmp \in [Thread -> Body \cup {None}] /\ child \in [Thread -> Program \cup {None}]
      /\ orphan \in [Thread -> Program \cup {None}]
  BY DEF BodyInv, Stores
<1>5. OwnOutput(t)
  BY DEF BodyInv
<1>6. CASE ChildEnds(t)
  <2>1. /\ child[t] # None /\ tmp' = [tmp EXCEPT ![t] = Append(@, child[t])]
        /\ child' = [child EXCEPT ![t] = None] /\ UNCHANGED orphan
    BY <1>6 DEF ChildEnds
  <2>2. pc[t] = "wait" /\ tmp[t] \in Body /\ child[t] \in Program
    BY <1>4, <1>5, <2>1 DEF OwnOutput
  <2>3. Append(tmp[t], child[t]) \in Body
    BY <2>2, BodyGrows, Zenon
  <2>4. Stores'
    <3>1. tmp' \in [Thread -> Body \cup {None}]
      BY <1>4, <2>1, <2>3
    <3>2. child' \in [Thread -> Program \cup {None}]
      BY <1>4, <2>1
    <3>3. QED
      BY <1>1, <2>1, <3>1, <3>2 DEF BodyInv, Stores
  <2>5. tmp'[t] = Append(tmp[t], child[t]) /\ child'[t] = None
    BY <1>4, <2>1
  <2>6. OwnOutput(t)'
    <3>1. ASSUME t \notin lost PROVE tmp'[t] = <<url(t)>> /\ orphan[t] = None
      <4>1. child[t] = url(t) /\ tmp[t] = <<>> /\ orphan[t] = None
        BY <1>5, <2>1, <2>2, <3>1 DEF OwnOutput
      <4>2. QED
        BY <2>2, <2>5, <4>1, BodyGrows
    <3>2. url(t)' = url(t)
      BY <1>1 DEF url
    <3>3. QED
      BY <1>1, <2>1, <2>2, <2>3, <2>5, <3>1, <3>2 DEF OwnOutput
  <2>7. ASSUME NEW v \in Thread PROVE OwnOutput(v)'
    <3>1. CASE v = t
      BY <2>6, <3>1
    <3>2. CASE v # t
      <4>1. tmp'[v] = tmp[v] /\ child'[v] = child[v] /\ orphan'[v] = orphan[v]
        BY <1>4, <2>1, <3>2
      <4>2. QED
        BY <1>1, <4>1, OutputStays DEF BodyInv
    <3>3. QED
      BY <3>1, <3>2
  <2>8. QED
    BY <1>1, <1>2, <1>3, <2>4, <2>7, AroundKeeps
<1>7. CASE OrphanEnds(t)
  <2>1. /\ orphan[t] # None /\ tmp' = [tmp EXCEPT ![t] = IF @ = None THEN @ ELSE Append(@, orphan[t])]
        /\ orphan' = [orphan EXCEPT ![t] = None] /\ UNCHANGED child
    BY <1>7 DEF OrphanEnds
  <2>2. t \in lost /\ orphan[t] \in Program
    BY <1>4, <1>5, <2>1 DEF OwnOutput
  <2>3. /\ tmp'[t] \in Body \cup {None} /\ orphan'[t] = None
        /\ tmp[t] \in Body => tmp'[t] \in Body
    <3>1. tmp[t] # None => tmp[t] \in Body /\ tmp'[t] = Append(tmp[t], orphan[t])
      BY <1>4, <2>1
    <3>2. tmp[t] = None => tmp'[t] = tmp[t]
      BY <1>4, <2>1
    <3>3. orphan'[t] = None
      BY <1>4, <2>1
    <3>4. QED
      BY <2>2, <3>1, <3>2, <3>3, BodyGrows, Zenon
  <2>4. Stores'
    <3>1. \A v \in Thread : v # t => tmp'[v] = tmp[v]
      BY <1>4, <2>1
    <3>2. tmp' \in [Thread -> Body \cup {None}]
      BY <1>4, <2>1, <2>3, <3>1
    <3>3. orphan' \in [Thread -> Program \cup {None}]
      BY <1>4, <2>1
    <3>4. QED
      BY <1>1, <2>1, <3>2, <3>3 DEF BodyInv, Stores
  <2>5. OwnOutput(t)'
    BY <1>1, <1>5, <2>1, <2>2, <2>3 DEF OwnOutput
  <2>6. ASSUME NEW v \in Thread PROVE OwnOutput(v)'
    <3>1. CASE v = t
      BY <2>5, <3>1
    <3>2. CASE v # t
      <4>1. tmp'[v] = tmp[v] /\ child'[v] = child[v] /\ orphan'[v] = orphan[v]
        BY <1>4, <2>1, <3>2
      <4>2. QED
        BY <1>1, <4>1, OutputStays DEF BodyInv
    <3>3. QED
      BY <3>1, <3>2
  <2>7. QED
    BY <1>1, <1>2, <1>3, <2>4, <2>6, AroundKeeps
<1>8. QED
  BY <1>6, <1>7

\* The cache without a server.
LEMMA CallCacheKeeps ==
    ASSUME Inv, BodyInv, CallCache
    PROVE  BodyInv'
<1>1. /\ NoServer /\ UNCHANGED <<open, fin, answers, owner, files, changed, lost, tmp, child, orphan>>
      /\ UNCHANGED <<pc, request, response, aborted>>
  BY DEF CallCache, NoServer, connVars, clientVars, threadVars, diskVars, cgiVars
<1>2. Later /\ Stores' /\ NoServer'
  BY <1>1, Zenon DEF Later, BodyInv, Stores, NoServer
<1>3. ASSUME NEW t \in Thread PROVE OwnOutput(t)'
  BY <1>1, OutputStays DEF BodyInv
<1>4. QED
  BY <1>1, <1>2, <1>3, AroundKeeps
-----------------------------------------------------------------------------
\* A step of t outside Cgier::Run.
Plain(t) ==
    /\ UNCHANGED <<files, changed, lost, tmp, child, orphan, answers, owner>>
    /\ pc[t] \notin {"fork", "wait"} /\ pc'[t] \notin {"fork", "wait"}
    /\ response' \in [Thread -> Response \cup {None}]
    /\ \A v \in Thread \ {t} : pc'[v] = pc[v] /\ request'[v] = request[v] /\ response'[v] = response[v]

\* Such a step has to see to the response of t and to the cache.
LEMMA PlainKeeps ==
    ASSUME Inv, BodyInv, NEW t \in Thread, Plain(t), aborted' \in BOOLEAN, Built(t)', Coherent'
    PROVE  BodyInv'
<1>1. Later
  BY DEF Later, Plain
<1>2. Stores'
  BY DEF BodyInv, Stores, Plain
<1>3. Sent'
  BY <1>1, SentStays DEF BodyInv, Plain
<1>4. OwnOutput(t)'
  BY OutputStays DEF BodyInv, Plain
<1>5. QED
  BY <1>1, <1>2, <1>3, <1>4, ThreadKeeps DEF Plain

\* The handler is called, and returns when there is no request.
LEMMA ReadKeeps ==
    ASSUME Inv, BodyInv, NEW t \in Thread, (\E c \in Client : Handle(t, c)) \/ NoRequest(t)
    PROVE  BodyInv'
<1>1. /\ UNCHANGED <<cacheVars, files, changed, lost, tmp, child, orphan, answers, owner>>
      /\ UNCHANGED <<request, response, aborted>>
      /\ pc[t] \in {"idle", "parse"}
  BY Zenon DEF Handle, NoRequest, Goto, diskVars, cgiVars, connVars
<1>2. PICK to \in {"idle", "parse"} : pc' = [pc EXCEPT ![t] = to]
  BY Zenon DEF Handle, NoRequest, Goto, AfterRecv
<1>3. pc'[t] \in {"idle", "parse"}
  BY <1>2 DEF Inv, Threads
<1>4. Built(t)'
  BY <1>3 DEF Built
<1>5. Coherent'
  <2>1. open # {} \/ pc[t] # "idle"
    BY Zenon DEF Handle, NoRequest, Goto
  <2>2. open # {} => Coherent
    BY DEF BodyInv, NoServer
  <2>3. Coherent
    BY <2>1, <2>2, Served
  <2>4. QED
    BY <1>1, <2>3, CoherentStays DEF diskVars
<1>6. Plain(t) /\ aborted' \in BOOLEAN
  BY <1>1, <1>2, <1>3, Zenon DEF Plain, BodyInv, Stores, Inv, Threads
<1>7. QED
  BY <1>4, <1>5, <1>6, PlainKeeps

\* The first piece of a complete request is one of the heads.
LEMMA ParsesHead ==
    ASSUME Inv, Framed, NEW t \in Thread, Parse(t)
    PROVE  PopTill(read_buffer_[conn[t]])[1] \in HeadPiece
<1>1. pc[t] = "parse" /\ PopTill(read_buffer_[conn[t]]) # <<>>
  BY DEF Parse
<1>2. PICK c \in Client : conn[t] = c
  BY <1>1 DEF Inv, Serving, Buffers
<1>3. read_buffer_[c] \in Seq(Piece) /\ inbound[c] \in Seq(Piece)
  BY DEF Inv, Buffers
<1>4. QED
  BY <1>1, <1>2, <1>3, FramedPops DEF Framed, Unparsed

\* Parse sends a request for a file on to the cache, one for a program on to Cgier, and
\* answers the others with 400 or 404.
LEMMA ParseBodies ==
    ASSUME Inv, Framed, BodyInv, NEW t \in Thread, Parse(t)
    PROVE  BodyInv'
<1> DEFINE r == PopTill(read_buffer_[conn[t]])[1]
<1>1. /\ UNCHANGED <<cacheVars, files, changed, lost, tmp, child, orphan, answers, owner, aborted>>
      /\ pc[t] = "parse" /\ request' = [request EXCEPT ![t] = r]
  BY DEF Parse, diskVars, cgiVars
<1>2. r \in HeadPiece
  BY ParsesHead
<1>3. \/ /\ r # BAD /\ r.target \in Program
         /\ pc' = [pc EXCEPT ![t] = "cgi"] /\ UNCHANGED response
      \/ /\ r # BAD /\ r.target \in Url
         /\ pc' = [pc EXCEPT ![t] = "make200"] /\ UNCHANGED response
      \/ \E status \in {400, 404} :
         /\ pc' = [pc EXCEPT ![t] = "send"] /\ response' = [response EXCEPT ![t] = ErrorResponse(status)]
  BY DEF Parse, Goto
<1> HIDE DEF r
<1>4. /\ pc \in [Thread -> Steps] /\ request \in [Thread -> Piece \cup {None}]
      /\ response \in [Thread -> Response \cup {None}]
  BY DEF Inv, Threads, BodyInv, Stores
<1>5. request'[t] = r
  BY <1>1, <1>4
<1>6. Coherent'
  <2>1. Coherent
    BY <1>1, Served
  <2>2. QED
    BY <1>1, <2>1, CoherentStays DEF diskVars
<1>7. aborted' \in BOOLEAN /\ \A v \in Thread \ {t} : request'[v] = request[v]
  BY <1>1, <1>4 DEF BodyInv, Stores
<1>8. CASE r # BAD /\ r.target \in Program /\ pc' = [pc EXCEPT ![t] = "cgi"] /\ UNCHANGED response
  <2>1. r \in Request /\ pc'[t] = "cgi"
    BY <1>2, <1>4, <1>8, Zenon DEF HeadPiece
  <2>2. Built(t)'
    BY <1>5, <1>8, <2>1 DEF Built
  <2>3. Plain(t)
    BY <1>1, <1>4, <1>7, <1>8, <2>1 DEF Plain
  <2>4. QED
    BY <1>6, <1>7, <2>2, <2>3, PlainKeeps
<1>9. CASE r # BAD /\ r.target \in Url /\ pc' = [pc EXCEPT ![t] = "make200"] /\ UNCHANGED response
  <2>1. r \in Request /\ pc'[t] = "make200"
    BY <1>2, <1>4, <1>9 DEF HeadPiece
  <2>2. Built(t)'
    BY <1>5, <1>9, <2>1 DEF Built
  <2>3. Plain(t)
    BY <1>1, <1>4, <1>7, <1>9, <2>1 DEF Plain
  <2>4. QED
    BY <1>6, <1>7, <2>2, <2>3, PlainKeeps
<1>10. ASSUME NEW status \in {400, 404}, pc' = [pc EXCEPT ![t] = "send"],
              response' = [response EXCEPT ![t] = ErrorResponse(status)]
       PROVE  BodyInv'
  <2> DEFINE a == ErrorResponse(status)
  <2>1. a \in Response /\ a.status # 200
    BY DEF ErrorResponse, Response, Body
  <2>2. response' = [response EXCEPT ![t] = a]
    BY <1>10
  <2> HIDE DEF a
  <2>3. pc'[t] = "send" /\ response'[t] = a
    BY <1>4, <1>10, <2>2
  <2>4. Built(t)'
    BY <2>1, <2>3 DEF Built, Right
  <2>5. Plain(t)
    BY <1>1, <1>4, <1>7, <1>10, <2>1, <2>2, <2>3 DEF Plain
  <2>6. QED
    BY <1>6, <1>7, <2>4, <2>5, PlainKeeps
<1>11. QED
  BY <1>3, <1>8, <1>9, <1>10

\* The response a of t to its request, which is for a file.
Heading(t, a) ==
    /\ request[t] \in Request /\ url(t) \in Url /\ url(t) \notin Program
    /\ request[t].method \in {"GET", "HEAD"}
    /\ a \in Response /\ a.status = 200 /\ a.body = <<>>

\* The step that writes it and goes on at to.
Headed(t, a, to) ==
    /\ pc[t] \in {"make200", "size"} /\ pc' = [pc EXCEPT ![t] = to] /\ response' = [response EXCEPT ![t] = a]
    /\ UNCHANGED <<sharedVars, files, changed, lost, tmp, child, orphan, answers, owner, request>>
    /\ aborted' \in BOOLEAN /\ Heading(t, a)
    /\ \/ to = "size"
       \/ to = AfterHeader(t) /\ (url(t) \notin changed => a.length = Size[files[url(t)]])

\* Such a step keeps the other responses.
LEMMA HeadingKeeps ==
    ASSUME Inv, BodyInv, NEW t \in Thread, NEW a, NEW to, Headed(t, a, to)
    PROVE  BodyInv'
<1> USE DEF Headed
<1>1. response'[t] = a /\ request'[t] = request[t] /\ pc'[t] = to
  BY DEF Inv, Threads, BodyInv, Stores
<1>2. /\ request[t] \in Request /\ request[t].target \in Url /\ request[t].target \notin Program
      /\ a \in Response /\ a.status = 200 /\ a.body = <<>>
  BY DEF Heading, url
<1>3. Built(t)'
  <2>1. CASE to = "size"
    BY <1>1, <1>2, <2>1, Zenon DEF Built
  <2>2. CASE to # "size" /\ request[t].method = "GET"
    <3>1. to = "load"
      BY <2>2 DEF AfterHeader
    <3>2. QED
      BY <1>1, <1>2, <2>2, <3>1, Zenon DEF Built, url
  <2>3. CASE to # "size" /\ request[t].method # "GET"
    <3>1. to = "send"
      BY <2>3 DEF AfterHeader
    <3>2. Right(t, request[t], a, files, changed, lost)
      BY <1>2, <2>3 DEF Right, url
    <3>3. QED
      BY <1>1, <1>2, <3>1, <3>2, Zenon DEF Built
  <2>4. QED
    BY <2>1, <2>2, <2>3, Zenon
<1>4. Coherent'
  <2>1. Coherent
    BY Served
  <2>2. QED
    BY <2>1, CoherentStays DEF diskVars
<1>5. to \in {"size", "load", "send"}
  BY DEF AfterHeader
<1>6. Plain(t)
  <2>1. response' \in [Thread -> Response \cup {None}]
    BY <1>2, Zenon DEF BodyInv, Stores
  <2>2. \A v \in Thread \ {t} : pc'[v] = pc[v] /\ request'[v] = request[v] /\ response'[v] = response[v]
    BY Zenon DEF Inv, Threads, BodyInv, Stores
  <2>3. QED
    BY <1>1, <1>5, <2>1, <2>2, Zenon DEF Plain
<1>7. QED
  BY <1>3, <1>4, <1>6, PlainKeeps

\* The header of a file's response, before the size is known.
LEMMA HeaderBodies ==
    ASSUME Inv, BodyInv, NEW t \in Thread, Make200Response(t)
    PROVE  BodyInv'
<1> DEFINE q == request[t]
           a == [status |-> 200, length |-> 0, body |-> <<>>, close |-> q.close]
           to == IF files[url(t)] # None THEN "size" ELSE AfterHeader(t)
<1>1. /\ pc[t] = "make200" /\ pc' = [pc EXCEPT ![t] = to] /\ response' = [response EXCEPT ![t] = a]
      /\ UNCHANGED <<sharedVars, files, changed, lost, tmp, child, orphan, answers, owner, request, aborted>>
  BY Zenon DEF Make200Response, Goto, OnlyThread, diskVars, cgiVars, connVars
<1>2. q \in Request /\ url(t) \in Url
  BY <1>1 DEF BodyInv, Built, url
<1>3. q.close \in BOOLEAN /\ q.method \in {"GET", "HEAD"} /\ url(t) \notin Program
  BY <1>2, HttpAssumption DEF Request
<1>4. a \in Response /\ a.status = 200 /\ a.body = <<>>
  BY <1>3 DEF Response, Body
<1> HIDE DEF a
<1>5. Heading(t, a)
  BY <1>2, <1>3, <1>4 DEF Heading
<1>6. url(t) \notin changed => files[url(t)] # None
  <2>1. url(t) \notin changed => files[url(t)] \in Data
    BY <1>2 DEF BodyInv, Stores
  <2>2. QED
    BY <2>1, CacheAssumption
<1>7. aborted' \in BOOLEAN
  BY <1>1 DEF BodyInv, Stores
<1>8. /\ pc[t] \in {"make200", "size"}
      /\ \/ to = "size"
         \/ to = AfterHeader(t) /\ (url(t) \notin changed => a.length = Size[files[url(t)]])
  BY <1>1, <1>6
<1> HIDE DEF to, q
<1>9. Headed(t, a, to)
  BY <1>1, <1>5, <1>7, <1>8, Zenon DEF Headed
<1>10. QED
  BY <1>9, HeadingKeeps, Zenon

\* The size goes into the header, unless the file is gone.
LEMMA SizeBodies ==
    ASSUME Inv, BodyInv, NEW t \in Thread, CheckFileSize(t)
    PROVE  BodyInv'
<1> DEFINE b == response[t]
<1>1. /\ pc[t] = "size"
      /\ UNCHANGED <<sharedVars, files, changed, lost, tmp, child, orphan, answers, owner, request>>
  BY DEF CheckFileSize, OnlyThread, diskVars, cgiVars, connVars
<1>2. request[t] \in Request /\ url(t) \in Url /\ b \in Response /\ b.status = 200 /\ b.body = <<>>
  BY <1>1, Zenon DEF BodyInv, Built, url
<1>3. request[t].method \in {"GET", "HEAD"} /\ url(t) \notin Program
  BY <1>2, HttpAssumption DEF Request
<1>4. CASE files[url(t)] # None
  <2> DEFINE n == Size[files[url(t)]]
             a == [b EXCEPT !.length = n]
             to == AfterHeader(t)
  <2>1. /\ pc' = [pc EXCEPT ![t] = to] /\ response' = [response EXCEPT ![t] = a]
        /\ UNCHANGED aborted
    <3>1. /\ Goto(t, "size", AfterHeader(t)) /\ UNCHANGED aborted
          /\ response' = [response EXCEPT ![t].length = Size[files[url(t)]]]
      BY <1>4, Zenon DEF CheckFileSize
    <3>2. response' = [response EXCEPT ![t] = a]
      BY <3>1
    <3>3. pc' = [pc EXCEPT ![t] = to]
      BY <3>1 DEF Goto
    <3>4. QED
      BY <3>1, <3>2, <3>3
  <2>2. n \in Nat
    <3>1. files \in [Url -> Data \cup {None}]
      BY Zenon DEF BodyInv, Stores
    <3>2. url(t) \in Url
      BY <1>2
    <3>3. files[url(t)] \in Data
      BY <1>4, <3>1, <3>2
    <3>4. QED
      BY <3>3, CacheAssumption
  <2> HIDE DEF n, b
  <2>3. a \in Response /\ a.status = 200 /\ a.body = <<>> /\ a.length = n
    BY <1>2, <2>2 DEF Response
  <2> HIDE DEF a
  <2>4. Heading(t, a)
    BY <1>2, <1>3, <2>3 DEF Heading
  <2>5. aborted' \in BOOLEAN
    BY <2>1 DEF BodyInv, Stores
  <2>6. /\ pc[t] \in {"make200", "size"}
        /\ to = AfterHeader(t) /\ (url(t) \notin changed => a.length = Size[files[url(t)]])
    BY <1>1, <2>3 DEF n
  <2> HIDE DEF to
  <2>7. Headed(t, a, to)
    BY <1>1, <2>1, <2>4, <2>5, <2>6, Zenon DEF Headed
  <2>8. QED
    BY <2>7, HeadingKeeps, Zenon
<1>5. CASE files[url(t)] = None
  <2>1. pc' = [pc EXCEPT ![t] = "size"] /\ aborted' = TRUE /\ UNCHANGED response
    BY <1>5, Zenon DEF CheckFileSize, Goto, Abort
  <2>2. Heading(t, b) /\ aborted' \in BOOLEAN
    BY <1>2, <1>3, <2>1 DEF Heading
  <2>3. response' = [response EXCEPT ![t] = b]
    BY <2>1 DEF BodyInv, Stores
  <2> HIDE DEF b
  <2>4. pc[t] \in {"make200", "size"}
    BY <1>1
  <2>5. Headed(t, b, "size")
    BY <1>1, <2>1, <2>2, <2>3, <2>4, Zenon DEF Headed
  <2>6. QED
    BY <2>5, HeadingKeeps, Zenon
<1>6. QED
  BY <1>4, <1>5

\* The body of t's response is written, and the response is right.
BodyWritten(t, d) ==
    /\ response' \in [Thread -> Response \cup {None}]
    /\ \A v \in Thread \ {t} : response'[v] = response[v]
    /\ response'[t] \in Response /\ response'[t].status = 200 /\ response'[t].body = <<d>>
    /\ response'[t].length = response[t].length
    /\ Right(t, request[t], response'[t], files, changed, lost)

\* The body is set to the contents of the file.
LEMMA BodySet ==
    ASSUME Inv, BodyInv, NEW t \in Thread, pc[t] \in {"load", "read"}, NEW d \in Data, SetBody(t, d),
           request[t].target \notin changed => d = files[request[t].target]
    PROVE  BodyWritten(t, d)
<1> DEFINE q == request[t]
           a == response[t]
           b == <<d>>
<1>1. response' = [response EXCEPT ![t] = [a EXCEPT !.body = b]]
  BY Zenon DEF SetBody
<1>2. /\ q.target \in Url /\ q.method = "GET" /\ a \in Response /\ a.status = 200
      /\ q.target \notin changed => a.length = Size[files[q.target]]
  BY DEF BodyInv, Built
<1>3. b \in Body
  BY BodyGrows DEF Body
<1>4. q.target \notin Program
  BY <1>2, HttpAssumption
<1>5. q.target \notin changed => b = <<files[q.target]>>
  OBVIOUS
<1> DEFINE e == [a EXCEPT !.body = b]
<1> HIDE DEF a, b, q
<1>6. e \in Response /\ e.status = 200 /\ e.body = b /\ e.length = a.length
  BY <1>2, <1>3 DEF Response
<1>7. response' = [response EXCEPT ![t] = e] /\ response \in [Thread -> Response \cup {None}]
  BY <1>1 DEF BodyInv, Stores
<1> HIDE DEF e
<1>8. Right(t, q, e, files, changed, lost)
  BY <1>2, <1>4, <1>5, <1>6 DEF Right
<1>9. response'[t] = e /\ response' \in [Thread -> Response \cup {None}]
      /\ \A v \in Thread \ {t} : response'[v] = response[v]
  BY <1>6, <1>7
<1>10. response'[t] \in Response /\ response'[t].status = 200 /\ response'[t].body = <<d>>
       /\ response'[t].length = response[t].length
  BY <1>6, <1>9, Zenon DEF a, b
<1>11. Right(t, request[t], response'[t], files, changed, lost)
  BY <1>8, <1>9, Zenon DEF q
<1>12. QED
  BY <1>9, <1>10, <1>11, Zenon DEF BodyWritten

\* The cache does not have it.
LEMMA MissBodies ==
    ASSUME Inv, BodyInv, NEW t \in Thread, LoadMiss(t)
    PROVE  BodyInv'
<1>1. /\ pc[t] = "load" /\ pc' = [pc EXCEPT ![t] = "read"]
      /\ UNCHANGED <<cacheVars, files, changed, lost, tmp, child, orphan, answers, owner, request, response, aborted>>
  BY DEF LoadMiss, Goto, OnlyThread, diskVars, cgiVars, connVars
<1>2. pc'[t] = "read" /\ \A v \in Thread \ {t} : pc'[v] = pc[v]
  BY <1>1, Zenon DEF Inv, Threads
<1>3. Built(t)'
  BY <1>1, <1>2 DEF BodyInv, Built
<1>4. Coherent'
  <2>1. Coherent
    BY <1>1, Served
  <2>2. QED
    BY <1>1, <2>1, CoherentStays DEF diskVars
<1>5. Plain(t) /\ aborted' \in BOOLEAN
  BY <1>1, <1>2 DEF Plain, BodyInv, Stores
<1>6. QED
  BY <1>3, <1>4, <1>5, PlainKeeps

\* The file is read, unless it is gone.
LEMMA FileBodies ==
    ASSUME Inv, BodyInv, NEW t \in Thread, LoadFile(t)
    PROVE  BodyInv'
<1> DEFINE u == request[t].target
           d == files[u]
<1>1. /\ pc[t] = "read"
      /\ UNCHANGED <<cacheVars, files, changed, lost, tmp, child, orphan, answers, owner, request>>
  BY DEF LoadFile, OnlyThread, diskVars, cgiVars, connVars
<1>2. Coherent'
  <2>1. Coherent
    BY <1>1, Served
  <2>2. QED
    BY <1>1, <2>1, CoherentStays DEF diskVars
<1>3. CASE d # None
  <2>1. pc' = [pc EXCEPT ![t] = "insert"] /\ SetBody(t, d) /\ UNCHANGED aborted
    BY <1>3, Zenon DEF LoadFile, Goto, url
  <2>2. u \in Url /\ d \in Data
    <3>1. u \in Url
      BY <1>1, Zenon DEF BodyInv, Built
    <3>2. files \in [Url -> Data \cup {None}]
      BY Zenon DEF BodyInv, Stores
    <3>3. QED
      BY <1>3, <3>1, <3>2
  <2> DEFINE b == response'[t]
  <2>3. /\ response' \in [Thread -> Response \cup {None}] /\ b \in Response
        /\ \A v \in Thread \ {t} : response'[v] = response[v]
        /\ b.status = 200 /\ b.body = <<d>> /\ b.length = response[t].length
    <3> HIDE DEF d
    <3>1. request[t].target \notin changed => d = files[request[t].target]
      BY DEF d
    <3>2. pc[t] \in {"load", "read"} /\ SetBody(t, d) /\ d \in Data
      BY <1>1, <2>1, <2>2, Zenon
    <3>3. BodyWritten(t, d)
      BY <3>1, <3>2, BodySet, Zenon
    <3>4. QED
      BY <3>3, Zenon DEF BodyWritten
  <2> HIDE DEF b
  <2>4. pc'[t] = "insert" /\ \A v \in Thread \ {t} : pc'[v] = pc[v]
    BY <2>1 DEF Inv, Threads
  <2>5. \E e \in Data : b.body = <<e>> /\ (u \notin changed => e = files[u])
    BY <2>2, <2>3
  <2>6. /\ request[t] \in Request /\ u \in Url /\ request[t].method = "GET"
        /\ u \notin changed => response[t].length = Size[files[u]]
    BY <1>1, Zenon DEF BodyInv, Built
  <2> HIDE DEF u, d
  <2>7. Built(t)'
    BY <1>1, <2>3, <2>4, <2>5, <2>6, Zenon DEF Built, u, b
  <2>8. Plain(t) /\ aborted' \in BOOLEAN
    BY <1>1, <2>1, <2>3, <2>4, Zenon DEF Plain, BodyInv, Stores
  <2>9. QED
    BY <1>2, <2>7, <2>8, PlainKeeps
<1>4. CASE d = None
  <2>1. pc' = [pc EXCEPT ![t] = "read"] /\ aborted' = TRUE /\ UNCHANGED response
    BY <1>4, Zenon DEF LoadFile, Goto, Abort, url
  <2>2. pc'[t] = "read" /\ \A v \in Thread \ {t} : pc'[v] = pc[v]
    BY <2>1, Zenon DEF Inv, Threads
  <2>3. Built(t)'
    BY <1>1, <2>1, <2>2, Zenon DEF BodyInv, Built
  <2>4. Plain(t) /\ aborted' \in BOOLEAN
    BY <1>1, <2>1, <2>2, Zenon DEF Plain, BodyInv, Stores
  <2>5. QED
    BY <1>2, <2>3, <2>4, PlainKeeps
<1>5. QED
  BY <1>3, <1>4

\* What an insert takes from the response.
LEMMA InsertIs ==
    ASSUME BodyInv, NEW t \in Thread, pc[t] \in {"insert", "evict"}
    PROVE  /\ url(t) \in Url /\ response[t].body[1] \in Data
           /\ url(t) \notin changed => response[t].body[1] = files[url(t)]
<1>1. PICK d \in Data : response[t].body = <<d>> /\ (request[t].target \notin changed => d = files[request[t].target])
  BY DEF BodyInv, Built
<1>2. response[t].body[1] = d
  BY <1>1
<1>3. QED
  BY <1>1, <1>2, Zenon DEF url, BodyInv, Built

\* On the way to the eviction the response stays.
LEMMA EvictBuilt ==
    ASSUME NEW t \in Thread, Built(t), UNCHANGED <<request, response, files, changed>>,
           pc[t] \in {"insert", "evict"}, pc'[t] = "evict"
    PROVE  Built(t)'
<1>1. /\ request[t] \in Request /\ request[t].target \in Url /\ request[t].method = "GET"
      /\ response[t] \in Response /\ response[t].status = 200
      /\ request[t].target \notin changed => response[t].length = Size[files[request[t].target]]
  BY Zenon DEF Built
<1>2. PICK d \in Data : response[t].body = <<d>> /\ (request[t].target \notin changed => d = files[request[t].target])
  BY DEF Built
<1>3. QED
  BY <1>1, <1>2, Zenon DEF Built

\* A response whose body is the file's is sent.
LEMMA FileRight ==
    ASSUME BodyInv, NEW t \in Thread, pc[t] \in {"insert", "evict"}
    PROVE  response[t] \in Response /\ Right(t, request[t], response[t], files, changed, lost)
<1>1. PICK d \in Data : response[t].body = <<d>> /\ (request[t].target \notin changed => d = files[request[t].target])
  BY DEF BodyInv, Built
<1>2. /\ request[t].target \in Url /\ request[t].method = "GET" /\ response[t] \in Response
      /\ request[t].target \notin changed => response[t].length = Size[files[request[t].target]]
  BY DEF BodyInv, Built
<1>3. request[t].target \notin Program
  BY <1>2, HttpAssumption
<1>4. QED
  BY <1>1, <1>2, <1>3, Zenon DEF Right

\* The node moves to the tail, and the response stays.
LEMMA RelinkBodies ==
    ASSUME Inv, BodyInv, NEW t \in Thread, Relink(t)
    PROVE  BodyInv'
<1>1. /\ pc[t] = "relink"
      /\ UNCHANGED <<files, changed, lost, tmp, child, orphan, answers, owner, request, response>>
  BY DEF Relink, OnlyThread, diskVars, cgiVars, connVars
<1>2. UNCHANGED <<mapping_, data_, incoming>>
  BY DEF Relink, TryLoad, cacheVars
<1>3. PICK to \in {"relink", "send"} : pc' = [pc EXCEPT ![t] = to]
  BY Zenon DEF Relink, Goto, Abort
<1>4. aborted' \in BOOLEAN
  <2>1. aborted' = aborted \/ aborted' = TRUE
    BY Zenon DEF Relink, Abort
  <2>2. QED
    BY <2>1 DEF BodyInv, Stores
<1>5. pc'[t] = to /\ \A v \in Thread \ {t} : pc'[v] = pc[v]
  BY <1>3, Zenon DEF Inv, Threads
<1>6. Built(t)'
  BY <1>1, <1>5, Zenon DEF BodyInv, Built
<1>7. Coherent'
  <2>1. Coherent
    BY <1>1, Served
  <2>2. QED
    BY <1>1, <1>2, <2>1 DEF Coherent
<1>8. Plain(t)
  BY <1>1, <1>5 DEF Plain, BodyInv, Stores
<1>9. QED
  BY <1>4, <1>6, <1>7, <1>8, PlainKeeps

\* The eviction of any node, which a spoilt list may lead to.
EraseAny == \E u \in mapping_, d \in Data : Erase(u, Size[d]) /\ UNCHANGED <<list, incoming>>

\* How a step of the server may use the cache: as the cache's specification allows or, once
\* TryLoads have overlapped, to evict any node.
CacheUse == [Next]_cacheVars \/ (raced /\ EraseAny)

\* Each step of the server uses the cache so, and what has raced stays so.
LEMMA CacheCalls ==
    ASSUME BodyInv, raced \in BOOLEAN, [HttpNext]_vars
    PROVE  CacheUse /\ raced' \in BOOLEAN /\ (raced => raced')
<1> DEFINE Fine == CacheUse /\ raced' \in BOOLEAN /\ (raced => raced')
<1>1. ASSUME UNCHANGED <<cacheVars, raced>> PROVE Fine
  BY <1>1 DEF CacheUse
<1>2. ASSUME NEW t \in Thread, LoadHit(t) PROVE Fine
  BY <1>2 DEF LoadHit, CacheUse
<1>3. ASSUME NEW t \in Thread, Relink(t) PROVE Fine
  <2>1. (UNCHANGED cacheVars \/ TryLoad(url(t))) /\ pc[t] = "relink" /\ UNCHANGED raced
    BY <1>3, Zenon DEF Relink
  <2>2. url(t) \in Url
    BY <2>1, Zenon DEF BodyInv, Built, url
  <2>3. QED
    BY <2>1, <2>2 DEF Next, CacheUse
<1>4. ASSUME NEW t \in Thread, Insert(t) PROVE Fine
  <2>1. TryInsert(url(t), response[t].body[1]) /\ pc[t] = "insert" /\ UNCHANGED raced
    BY <1>4 DEF Insert, Goto
  <2>2. url(t) \in Url /\ response[t].body[1] \in Data
    BY <2>1, InsertIs
  <2>3. Next
    BY <2>1, <2>2, Zenon DEF Next
  <2>4. QED
    BY <2>1, <2>3 DEF CacheUse
<1>5. ASSUME NEW t \in Thread, Evict(t) PROVE Fine
  <2>1. UNCHANGED raced /\ (MakeRoom \/ (raced /\ EraseAny) \/ EndInsert \/ UNCHANGED cacheVars)
    BY <1>5, Zenon DEF Evict, EvictAny, EraseAny
  <2>2. QED
    BY <2>1 DEF Next, CacheUse
<1>6. ASSUME CallCache PROVE Fine
  BY <1>6 DEF CallCache, CacheUse
<1>7. ASSUME NEW c \in Client, SendHead(c) \/ SendEnd(c) \/ CloseEnd(c) PROVE UNCHANGED <<cacheVars, raced>>
  BY <1>7 DEF SendHead, SendEnd, CloseEnd, Environment
<1>8. ASSUME \E change \in workload.changes : ChangeFile(change[1], change[2]) PROVE Fine
  BY <1>1, <1>8 DEF ChangeFile, Environment
<1>9. ASSUME NEW t \in Thread, ChildEnds(t) \/ OrphanEnds(t) PROVE UNCHANGED <<cacheVars, raced>>
  BY <1>9 DEF ChildEnds, OrphanEnds, Environment
<1>10. ASSUME NEW t \in Thread,
              \/ \E c \in Client : Handle(t, c)
              \/ Parse(t) \/ NoRequest(t) \/ Make200Response(t) \/ CheckFileSize(t)
              \/ LoadMiss(t) \/ LoadFile(t) \/ InsertNothing(t)
              \/ OpenFile(t) \/ Fork(t) \/ RunFails(t) \/ WaitFails(t) \/ Collect(t) \/ Send(t)
       PROVE  UNCHANGED <<cacheVars, raced>>
  BY <1>10, Zenon DEF Handle, Parse, NoRequest, Make200Response, CheckFileSize, LoadMiss, LoadFile, InsertNothing,
     OpenFile, Fork, RunFails, WaitFails, Collect, Send, OnlyCgi
<1>11. ASSUME UNCHANGED vars PROVE Fine
  BY <1>1, <1>11 DEF vars
<1> HIDE DEF Fine
<1>12. ASSUME NEW t \in Thread, ThreadStep(t) PROVE Fine
  <2>1. \/ LoadHit(t) \/ Relink(t) \/ Insert(t) \/ Evict(t)
        \/ \E c \in Client : Handle(t, c)
        \/ Parse(t) \/ NoRequest(t) \/ Make200Response(t) \/ CheckFileSize(t)
        \/ LoadMiss(t) \/ LoadFile(t) \/ InsertNothing(t)
        \/ OpenFile(t) \/ Fork(t) \/ RunFails(t) \/ WaitFails(t) \/ Collect(t) \/ Send(t)
    BY <1>12, Zenon DEF ThreadStep
  <2>2. QED
    BY <2>1, <1>1, <1>2, <1>3, <1>4, <1>5, <1>10, Zenon
<1>13. ASSUME HttpNext PROVE Fine
  BY <1>13, <1>1, <1>6, <1>7, <1>8, <1>9, <1>12, Zenon DEF HttpNext
<1>14. HttpNext \/ UNCHANGED vars
  OBVIOUS
<1>15. Fine
  BY <1>11, <1>13, <1>14
<1>16. QED
  BY <1>15, Zenon DEF Fine
=============================================================================
