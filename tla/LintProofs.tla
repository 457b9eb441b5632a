----------------------------- MODULE LintProofs -----------------------------
(***************************************************************************)
(* What the operators of cpplint's model return, for lines of any text:    *)
(* the lemmas that the theorems of CpplintProofs rest on.                  *)
(*                                                                         *)
(* The operators loop over tokens, lines, blocks and errors.  What such a  *)
(* loop does is found from the states it passes through (its course):      *)
(* that there is one, by induction on its length, and what every round of  *)
(* it keeps.                                                               *)
(***************************************************************************)
EXTENDS LintNesting, LintGuard, LintFunctions, FiniteSetTheorems, TLAPS
-----------------------------------------------------------------------------
(* Induction, and the functions that recursion defines. *)

\* A set of natural numbers that is not empty has a least element.
LEMMA LeastNat ==
    ASSUME NEW I \in SUBSET Nat, I # {}
    PROVE  \E m \in I : \A i \in I : m <= i
<1>1. PICK m \in I : \A i \in I : ~(<<i, m>> \in OpToRel(<, Nat))
  BY NatLessThanWellFounded, WFMin, Zenon
<1>2. ASSUME NEW i \in I, i < m PROVE FALSE
  BY <1>1, <1>2, Zenon DEF OpToRel
<1>3. QED
  BY <1>2

\* A set of numbers that 0 is in and that has a successor with every number has all of them.
LEMMA Induct ==
    ASSUME NEW k \in Nat, NEW I, 0 \in I, \A n \in 1 .. k : n - 1 \in I => n \in I
    PROVE  \A n \in 0 .. k : n \in I
<1> DEFINE B == {n \in 0 .. k : n \notin I}
<1> SUFFICES ASSUME B # {} PROVE FALSE
  OBVIOUS
<1>1. B \in SUBSET Nat
  OBVIOUS
<1>2. PICK m \in B : \A i \in B : m <= i
  BY <1>1, LeastNat
<1>3. m \in 1 .. k /\ m - 1 \in 0 .. k /\ ~(m <= m - 1)
  OBVIOUS
<1>4. m - 1 \in I
  BY <1>2, <1>3
<1>5. QED
  BY <1>3, <1>4

\* A course whose steps stay in T stays there.
LEMMA StaysIn ==
    ASSUME NEW k \in Nat, NEW T, NEW f, f[0] \in T, \A n \in 1 .. k : f[n - 1] \in T => f[n] \in T
    PROVE  \A n \in 0 .. k : f[n] \in T
<1> DEFINE I == {n \in 0 .. k : f[n] \in T}
<1>1. 0 \in I /\ \A n \in 1 .. k : n - 1 \in I => n \in I
  OBVIOUS
<1>2. \A n \in I : f[n] \in T
  OBVIOUS
<1> HIDE DEF I
<1>3. QED
  BY <1>1, <1>2, Induct, Zenon

\* It ends there.
LEMMA EndsIn ==
    ASSUME NEW k \in Nat, NEW T, NEW f, f[0] \in T, \A n \in 1 .. k : f[n - 1] \in T => f[n] \in T
    PROVE  f[k] \in T
<1>1. k \in 0 .. k
  OBVIOUS
<1>2. QED
  BY <1>1, StaysIn, Zenon

\* f is the course of k steps of G from a.
Course(f, a, G, k) == f[0] = a /\ \A n \in 1 .. k : f[n] = G[n][f[n - 1]]

\* A step that stays in T can be taken k times from a.
LEMMA RecExists ==
    ASSUME NEW k \in Nat, NEW T, NEW a \in T, NEW G, \A n \in 1 .. k : \A x \in T : G[n][x] \in T
    PROVE  \E f \in [0 .. k -> T] : Course(f, a, G, k)
<1> DEFINE I == {m \in 0 .. k : \E f \in [0 .. m -> T] : Course(f, a, G, m)}
<1>1. 0 \in I
  <2> DEFINE f == [n \in 0 .. 0 |-> a]
  <2>1. f \in [0 .. 0 -> T] /\ Course(f, a, G, 0)
    BY DEF Course
  <2> HIDE DEF f
  <2>2. QED
    BY <2>1
<1>2. ASSUME NEW m \in 1 .. k, m - 1 \in I PROVE m \in I
  <2>1. PICK f \in [0 .. m - 1 -> T] : Course(f, a, G, m - 1)
    BY <1>2, Zenon
  <2> DEFINE h == [n \in 0 .. m |-> IF n = m THEN G[m][f[m - 1]] ELSE f[n]]
  <2>2. h \in [0 .. m -> T]
    OBVIOUS
  <2>3. Course(h, a, G, m)
    BY <2>1 DEF Course
  <2> HIDE DEF h
  <2>4. m \in 0 .. k
    OBVIOUS
  <2>5. QED
    BY <2>2, <2>3, <2>4, Zenon
<1> HIDE DEF I
<1>3. k \in I
  BY <1>1, <1>2, Induct
<1>4. QED
  BY <1>3, Zenon DEF I
-----------------------------------------------------------------------------
(* Sequences. *)

\* The least element of a set of natural numbers.
LEMMA MinIs ==
    ASSUME NEW I \in SUBSET Nat, I # {}
    PROVE  Min(I) \in I /\ \A i \in I : Min(I) <= i
BY LeastNat, Zenon DEF Min

\* A sequence has its elements.
LEMMA SeqWithin ==
    ASSUME NEW S, NEW s \in Seq(S), NEW R
    PROVE  s \in Seq(ToSet(s) \cup R)
<1>1. \A i \in 1 .. Len(s) : s[i] \in ToSet(s) \cup R
  BY DEF ToSet
<1>2. QED
  BY <1>1

\* A sequence over a set is one over a larger set.
LEMMA SeqSubset ==
    ASSUME NEW S, NEW T, S \subseteq T, NEW s \in Seq(S)
    PROVE  s \in Seq(T)
<1>1. \A n \in 1 .. Len(s) : s[n] \in T
  OBVIOUS
<1>2. QED
  BY <1>1

\* A part of a sequence is one.
LEMMA PartIs ==
    ASSUME NEW S, NEW s \in Seq(S), NEW a \in Int, NEW b \in Int, 1 <= a, b <= Len(s)
    PROVE  SubSeq(s, a, b) \in Seq(S)
OBVIOUS

\* What is before a place, and from a place on.
LEMMA FromUntil ==
    ASSUME NEW S, NEW s \in Seq(S), NEW n \in 1 .. Len(s) + 1
    PROVE  From(s, n) \in Seq(S) /\ Until(s, n) \in Seq(S)
<1>1. Len(s) \in Nat
  OBVIOUS
<1>2. SubSeq(s, n, Len(s)) \in Seq(S) /\ SubSeq(s, 1, n - 1) \in Seq(S)
  BY <1>1, PartIs
<1>3. QED
  BY <1>2, Zenon DEF From, Until

\* FindToken gives a place of the token, or 0.
LEMMA FindTokenIs ==
    ASSUME NEW S, NEW s \in Seq(S), NEW t
    PROVE  FindToken(s, t) \in 0 .. Len(s) /\ (FindToken(s, t) # 0 => s[FindToken(s, t)] = t)
<1> DEFINE I == {i \in 1 .. Len(s) : s[i] = t}
<1>1. FindToken(s, t) = IF I # {} THEN Min(I) ELSE 0
  BY Zenon DEF FindToken, SelectInSeq
<1>2. I \in SUBSET Nat /\ \A i \in I : i \in 1 .. Len(s) /\ s[i] = t
  OBVIOUS
<1> HIDE DEF I
<1>3. CASE I = {}
  BY <1>1, <1>3
<1>4. CASE I # {}
  <2>1. Min(I) \in I /\ FindToken(s, t) = Min(I)
    BY <1>1, <1>2, <1>4, MinIs, Zenon
  <2>2. Min(I) \in 1 .. Len(s) /\ s[Min(I)] = t
    BY <1>2, <2>1, Zenon
  <2>3. QED
    BY <2>1, <2>2
<1>5. QED
  BY <1>3, <1>4
-----------------------------------------------------------------------------
(* CleanseRawStrings *)

\* A state of the loop on lines of tokens of S.
RawStates(S) == [open : BOOLEAN, line : Seq(S)]

\* The rest of a line after the end of a raw string.
LEMMA CloseRawStringIs ==
    ASSUME NEW S, DQ \in S, NEW line \in Seq(S)
    PROVE  CloseRawString(line) \in RawStates(S)
<1> DEFINE end == FindToken(line, END)
<1>1. end \in 0 .. Len(line)
  BY FindTokenIs
<1> HIDE DEF end
<1>2. From(line, end + 1) \in Seq(S) /\ <<DQ, DQ>> \in Seq(S)
  BY <1>1, FromUntil
<1>3. <<DQ, DQ>> \o From(line, end + 1) \in Seq(S)
  BY <1>2
<1>4. CloseRawString(line) = IF end = 0 THEN [open |-> TRUE, line |-> <<DQ, DQ>>]
                             ELSE [open |-> FALSE, line |-> <<DQ, DQ>> \o From(line, end + 1)]
  BY Zenon DEF CloseRawString, end
<1>5. QED
  BY <1>2, <1>3, <1>4 DEF RawStates

\* A round of the loop brings no token but quotes.
LEMMA ReplaceRawStringIs ==
    ASSUME NEW S, DQ \in S, NEW s \in RawStates(S)
    PROVE  ReplaceRawString(s) \in RawStates(S)
<1> DEFINE begin == FindToken(s.line, RAW)
           rest == From(s.line, begin + 1)
<1>1. s.open \in BOOLEAN /\ s.line \in Seq(S)
  BY DEF RawStates
<1>2. CASE s.open \/ begin = 0 \/ InLineComment(Until(s.line, begin))
  BY <1>2, Zenon DEF ReplaceRawString
<1>3. CASE ~(s.open \/ begin = 0 \/ InLineComment(Until(s.line, begin)))
  <2>1. begin \in 1 .. Len(s.line)
    BY <1>1, <1>3, FindTokenIs
  <2>2. rest \in Seq(S) /\ Until(s.line, begin) \in Seq(S)
    BY <1>1, <2>1, FromUntil
  <2> HIDE DEF begin, rest
  <2>3. CloseRawString(rest) \in RawStates(S)
    BY <2>2, CloseRawStringIs
  <2>4. ReplaceRawString(s) = [open |-> CloseRawString(rest).open,
                               line |-> Until(s.line, begin) \o CloseRawString(rest).line]
    BY <1>3, Zenon DEF ReplaceRawString, begin, rest
  <2>5. QED
    BY <2>2, <2>3, <2>4 DEF RawStates
<1>4. QED
  BY <1>2, <1>3

\* All the rounds.
LEMMA RawRounds ==
    ASSUME NEW S, DQ \in S, NEW s \in RawStates(S), NEW k \in Nat
    PROVE  Iterate(ReplaceRawString, s, k) \in RawStates(S)
<1> DEFINE Step(f) == [n \in 0 .. k |-> IF n = 0 THEN s ELSE ReplaceRawString(f[n - 1])]
           it == CHOOSE f : f = Step(f)
           G == [n \in 1 .. k |-> [x \in RawStates(S) |-> ReplaceRawString(x)]]
<1>1. Iterate(ReplaceRawString, s, k) = it[k]
  BY Zenon DEF Iterate
<1>2. \A x \in RawStates(S) : ReplaceRawString(x) \in RawStates(S)
  BY ReplaceRawStringIs
<1>3. \A n \in 1 .. k : \A x \in RawStates(S) : G[n][x] = ReplaceRawString(x)
  OBVIOUS
<1> HIDE DEF G
<1>4. \A n \in 1 .. k : \A x \in RawStates(S) : G[n][x] \in RawStates(S)
  BY <1>2, <1>3
<1>5. PICK f \in [0 .. k -> RawStates(S)] : Course(f, s, G, k)
  BY <1>4, RecExists, Zenon
<1>6. f = Step(f)
  BY <1>3, <1>5 DEF Course
<1>7. it = Step(it)
  BY <1>6, Zenon
<1> HIDE DEF it
<1>8. it[0] \in RawStates(S) /\ \A n \in 1 .. k : it[n - 1] \in RawStates(S) => it[n] \in RawStates(S)
  BY <1>2, <1>7
<1>9. QED
  BY <1>1, <1>8, StaysIn

\* The rounds on one line.
LEMMA CleanseRawLineIs ==
    ASSUME NEW S, DQ \in S, NEW open \in BOOLEAN, NEW line \in Seq(S)
    PROVE  CleanseRawLine(open, line) \in RawStates(S)
<1> DEFINE s == IF open THEN CloseRawString(line) ELSE [open |-> FALSE, line |-> line]
<1>1. s \in RawStates(S)
  <2>1. CloseRawString(line) \in RawStates(S)
    BY CloseRawStringIs
  <2>2. [open |-> FALSE, line |-> line] \in RawStates(S)
    BY DEF RawStates
  <2>3. QED
    BY <2>1, <2>2
<1>2. Len(line) \in Nat
  OBVIOUS
<1> HIDE DEF s
<1>3. CleanseRawLine(open, line) = Iterate(ReplaceRawString, s, Len(line))
  BY Zenon DEF CleanseRawLine, s
<1>4. Iterate(ReplaceRawString, s, Len(line)) \in RawStates(S)
  BY <1>1, <1>2, RawRounds
<1>5. QED
  BY <1>3, <1>4, Zenon

\* What lines consist of.  The tokens that cleansing puts in are strings too, which the provers
\* do not know of a literal.
Token == STRING \cup {DQ, SQ, "//", "/*", "*/", "marker"}
\* A line is a sequence of tokens.
Line == Seq(Token)

\* No line is added or lost, and a line gets no token but quotes: a NOLINT in it was there.
LEMMA CleanseRawStringsIs ==
    ASSUME NEW raw_lines \in Seq(Line)
    PROVE  /\ CleanseRawStrings(raw_lines) \in Seq(Line)
           /\ DOMAIN CleanseRawStrings(raw_lines) = DOMAIN raw_lines
           /\ \A n \in DOMAIN raw_lines :
                  ToSet(CleanseRawStrings(raw_lines)[n]) \subseteq ToSet(raw_lines[n]) \cup {DQ}
<1> DEFINE k == Len(raw_lines)
           T == RawStates(Token)
           none == [open |-> FALSE, line |-> <<>>]
           Step(f) == [n \in 0 .. k |-> IF n = 0 THEN none ELSE CleanseRawLine(f[n - 1].open, raw_lines[n])]
           it == CHOOSE f : f = Step(f)
           G == [n \in 1 .. k |-> [x \in T |-> CleanseRawLine(x.open, raw_lines[n])]]
<1>0. k \in Nat /\ DQ \in Token /\ DOMAIN raw_lines = 1 .. k /\ none \in T
  <2>1. k \in Nat /\ DOMAIN raw_lines = 1 .. k
    OBVIOUS
  <2>2. DQ \in Token
    BY DEF Token
  <2>3. none \in T
    BY DEF RawStates
  <2>4. QED
    BY <2>1, <2>2, <2>3
<1>1. CleanseRawStrings(raw_lines) = [n \in DOMAIN raw_lines |-> it[n].line]
  BY Zenon DEF CleanseRawStrings
<1>2. \A n \in 1 .. k : \A x \in T : CleanseRawLine(x.open, raw_lines[n]) \in T
  <2> TAKE n \in 1 .. k
  <2> TAKE x \in T
  <2>1. x.open \in BOOLEAN /\ raw_lines[n] \in Seq(Token)
    BY <1>0 DEF RawStates, Line
  <2>2. QED
    BY <1>0, <2>1, CleanseRawLineIs
<1>3. \A n \in 1 .. k : \A x \in T : G[n][x] = CleanseRawLine(x.open, raw_lines[n])
  OBVIOUS
<1> HIDE DEF G, none, k, T
<1>4. \A n \in 1 .. k : \A x \in T : G[n][x] \in T
  BY <1>2, <1>3
<1>5. PICK f \in [0 .. k -> T] : Course(f, none, G, k)
  BY <1>0, <1>4, RecExists, Zenon
<1>6. f = Step(f)
  BY <1>0, <1>3, <1>5 DEF Course
<1>7. it = Step(it)
  BY <1>6, Zenon
<1> HIDE DEF it
<1>8. it[0] = none /\ \A n \in 1 .. k : it[n] = CleanseRawLine(it[n - 1].open, raw_lines[n])
  BY <1>0, <1>7
<1>9. \A n \in 0 .. k : it[n] \in T
  <2>1. it[0] \in T /\ \A n \in 1 .. k : it[n - 1] \in T => it[n] \in T
    BY <1>0, <1>2, <1>8, Zenon
  <2>2. QED
    BY <1>0, <2>1, StaysIn, Zenon
<1>10. ASSUME NEW n \in 1 .. k
       PROVE  it[n].line \in Line /\ ToSet(it[n].line) \subseteq ToSet(raw_lines[n]) \cup {DQ}
  <2> DEFINE S == ToSet(raw_lines[n]) \cup {DQ}
  <2>1. it[n] = CleanseRawLine(it[n - 1].open, raw_lines[n]) /\ n - 1 \in 0 .. k /\ n \in 0 .. k
    BY <1>0, <1>8
  <2>2. it[n - 1].open \in BOOLEAN /\ it[n].line \in Line
    BY <1>9, <2>1 DEF RawStates, T, Line
  <2>3. raw_lines[n] \in Seq(S)
    <3>1. raw_lines[n] \in Seq(Token)
      BY <1>0 DEF Line
    <3>2. QED
      BY <3>1, SeqWithin, Zenon
  <2> DEFINE open == it[n - 1].open
             line == raw_lines[n]
  <2> HIDE DEF S, open, line
  <2>4. DQ \in S
    BY DEF S
  <2>5. CleanseRawLine(open, line) \in RawStates(S)
    BY <2>2, <2>3, <2>4, CleanseRawLineIs, Zenon DEF open, line
  <2>6. it[n].line \in Seq(S)
    BY <2>1, <2>5 DEF RawStates, open, line
  <2>7. ToSet(it[n].line) \subseteq S
    BY <2>6 DEF ToSet
  <2>8. QED
    BY <2>2, <2>7 DEF S
<1>11. QED
  BY <1>0, <1>1, <1>10
-----------------------------------------------------------------------------
(* Comments. *)

\* SelectInSeq gives a place that passes the test, or 0.
LEMMA PlaceIs ==
    ASSUME NEW k \in Nat, NEW I \in SUBSET (1 .. k), NEW at, at = IF I # {} THEN Min(I) ELSE 0
    PROVE  at \in 0 .. k /\ (at # 0 => at \in I)
<1>1. I # {} => Min(I) \in I
  BY MinIs
<1> HIDE DEF Min
<1>2. at \in I \cup {0}
  BY <1>1, Zenon
<1>3. QED
  BY <1>2

\* FirstIn gives a member of the set, or what stands in for one.
LEMMA FirstInIs ==
    ASSUME NEW I \in SUBSET Nat, NEW otherwise \in Nat
    PROVE  FirstIn(I, otherwise) \in I \cup {otherwise}
BY MinIs DEF FirstIn

\* A state of the loop that removes comments of several lines.
CommentStates(k) == [lines : [1 .. k -> Line], lineix : Nat, unclosed : Nat]

\* A round of that loop.
LEMMA RemoveMultiLineCommentIs ==
    ASSUME NEW k \in Nat, NEW s \in CommentStates(k)
    PROVE  RemoveMultiLineComment(s) \in CommentStates(k)
<1> DEFINE begin == FindNextMultiLineCommentStart(s.lines, s.lineix)
           end == FindNextMultiLineCommentEnd(s.lines, begin)
           removed == RemoveMultiLineCommentsFromRange(s.lines, begin, end)
<1>1. s.lines \in [1 .. k -> Line] /\ s.lineix \in Nat /\ Len(s.lines) = k
  BY DEF CommentStates
<1>2. begin \in Nat
  BY <1>1, FirstInIs DEF FindNextMultiLineCommentStart
<1> HIDE DEF begin
<1>3. end \in Nat
  BY <1>1, <1>2, FirstInIs DEF FindNextMultiLineCommentEnd
<1> HIDE DEF end
<1>4. removed \in [1 .. k -> Line]
  <2>1. <<"/*", "*/">> \in Line
    BY DEF Line, Token
  <2>2. QED
    BY <1>1, <2>1 DEF RemoveMultiLineCommentsFromRange
<1> HIDE DEF removed
<1>5. RemoveMultiLineComment(s)
        \in {s, [s EXCEPT !.unclosed = begin], [s EXCEPT !.lines = removed, !.lineix = end + 1]}
  BY Zenon DEF RemoveMultiLineComment, begin, end, removed
<1>6. [s EXCEPT !.unclosed = begin] \in CommentStates(k)
  BY <1>2 DEF CommentStates
<1>7. [s EXCEPT !.lines = removed, !.lineix = end + 1] \in CommentStates(k)
  <2> DEFINE next == end + 1
  <2>1. next \in Nat
    BY <1>3
  <2> HIDE DEF next
  <2>2. [s EXCEPT !.lines = removed, !.lineix = next] \in CommentStates(k)
    BY <1>4, <2>1 DEF CommentStates
  <2>3. QED
    BY <2>2 DEF next
<1>8. QED
  BY <1>5, <1>6, <1>7, Zenon

\* No line is added or lost.
LEMMA RemoveMultiLineCommentsIs ==
    ASSUME NEW raw_lines \in Seq(Line)
    PROVE  RemoveMultiLineComments(raw_lines) \in CommentStates(Len(raw_lines))
<1> DEFINE k == Len(raw_lines)
           T == CommentStates(k)
           s == [lines |-> raw_lines, lineix |-> 1, unclosed |-> 0]
           Step(f) == [n \in 0 .. k |-> IF n = 0 THEN s ELSE RemoveMultiLineComment(f[n - 1])]
           it == CHOOSE f : f = Step(f)
           G == [n \in 1 .. k |-> [x \in T |-> RemoveMultiLineComment(x)]]
<1>1. RemoveMultiLineComments(raw_lines) = it[k]
  BY Zenon DEF RemoveMultiLineComments, Iterate
<1>2. k \in Nat /\ s \in T
  BY DEF CommentStates
<1> HIDE DEF k, s
<1>3. \A x \in T : RemoveMultiLineComment(x) \in T
  BY <1>2, RemoveMultiLineCommentIs
<1>4. \A n \in 1 .. k : \A x \in T : G[n][x] = RemoveMultiLineComment(x)
  OBVIOUS
<1> HIDE DEF G, T
<1>5. \A n \in 1 .. k : \A x \in T : G[n][x] \in T
  BY <1>3, <1>4
<1>6. PICK f \in [0 .. k -> T] : Course(f, s, G, k)
  BY <1>2, <1>5, RecExists, Zenon
<1>7. f = Step(f)
  BY <1>2, <1>4, <1>6 DEF Course
<1>8. it = Step(it)
  BY <1>7, Zenon
<1> HIDE DEF it
<1>9. it[0] \in T /\ \A n \in 1 .. k : it[n - 1] \in T => it[n] \in T
  BY <1>2, <1>3, <1>8
<1>10. it[k] \in T
  BY <1>2, <1>9, EndsIn, Zenon
<1>11. QED
  BY <1>1, <1>10, Zenon DEF T, k

\* Spaces at the end go.
LEMMA RStripIs ==
    ASSUME NEW line \in Line
    PROVE  RStrip(line) \in Line
<1>1. <<>> \in Line
  BY DEF Line
<1>2. QED
  BY <1>1, Zenon DEF RStrip

\* What is left of a line without a comment.
LEMMA RemoveCommentIs ==
    ASSUME NEW line \in Line
    PROVE  RemoveComment(line) \in Line
<1> DEFINE begin == FindToken(line, "/*")
           end == FindToken(From(line, begin), "*/")
           rest == From(line, begin + end)
           before == Until(line, begin)
<1>1. CASE begin = 0 \/ end = 0
  BY <1>1 DEF RemoveComment
<1>2. CASE ~(begin = 0 \/ end = 0)
  <2>1. line \in Seq(Token) /\ begin \in 1 .. Len(line)
    BY <1>2, FindTokenIs DEF Line
  <2> HIDE DEF begin
  <2>2. From(line, begin) \in Seq(Token) /\ Len(From(line, begin)) = Len(line) - begin + 1 /\ before \in Line
    BY <2>1, FromUntil DEF From, Line
  <2>3. end \in 1 .. Len(line) - begin + 1
    BY <1>2, <2>2, FindTokenIs
  <2> HIDE DEF end
  <2>4. rest \in Line
    BY <2>1, <2>3, FromUntil DEF Line
  <2>5. RStrip(before) \in Line
    BY <2>2, RStripIs
  <2>6. RemoveComment(line) \in {before \o rest, RStrip(before) \o rest}
    BY <1>2 DEF RemoveComment, begin, end
  <2> HIDE DEF before, rest
  <2>7. before \o rest \in Line /\ RStrip(before) \o rest \in Line
    BY <2>2, <2>4, <2>5 DEF Line
  <2>8. QED
    BY <2>6, <2>7, Zenon
<1>3. QED
  BY <1>1, <1>2

\* A line without comments is a line.
LEMMA CleanseCommentsIs ==
    ASSUME NEW line \in Line
    PROVE  CleanseComments(line) \in Line
<1> DEFINE k == Len(line)
           slashes == FindToken(line, "//")
           s == IF slashes # 0 /\ ~IsCppString(Until(line, slashes)) THEN RStrip(Until(line, slashes)) ELSE line
           Step(f) == [n \in 0 .. k |-> IF n = 0 THEN s ELSE RemoveComment(f[n - 1])]
           it == CHOOSE f : f = Step(f)
           G == [n \in 1 .. k |-> [x \in Line |-> RemoveComment(x)]]
<1>1. CleanseComments(line) = it[k]
  BY Zenon DEF CleanseComments, Iterate
<1>2. k \in Nat /\ slashes \in 0 .. k
  BY FindTokenIs DEF Line
<1> HIDE DEF slashes
<1>3. slashes # 0 => Until(line, slashes) \in Line
  BY <1>2, FromUntil DEF Line
<1>4. s \in Line
  BY <1>3, RStripIs
<1> HIDE DEF k, s
<1>5. \A x \in Line : RemoveComment(x) \in Line
  BY RemoveCommentIs
<1>6. \A n \in 1 .. k : \A x \in Line : G[n][x] = RemoveComment(x)
  OBVIOUS
<1> HIDE DEF G
<1>7. \A n \in 1 .. k : \A x \in Line : G[n][x] \in Line
  BY <1>5, <1>6
<1>8. PICK f \in [0 .. k -> Line] : Course(f, s, G, k)
  BY <1>2, <1>4, <1>7, RecExists, Zenon
<1>9. f = Step(f)
  BY <1>2, <1>6, <1>8 DEF Course
<1>10. it = Step(it)
  BY <1>9, Zenon
<1> HIDE DEF it
<1>11. it[0] \in Line /\ \A n \in 1 .. k : it[n - 1] \in Line => it[n] \in Line
  BY <1>2, <1>4, <1>5, <1>10
<1>12. it[k] \in Line
  BY <1>2, <1>11, EndsIn, Zenon
<1>13. QED
  BY <1>1, <1>12, Zenon
-----------------------------------------------------------------------------
(* Strings. *)

\* FlattenSeq puts the lists of a list one after the other.
LEMMA FlattenCourse ==
    ASSUME NEW S, NEW ss \in Seq(Seq(S))
    PROVE  \E f : /\ f[0] = <<>> /\ \A n \in 1 .. Len(ss) : f[n] = f[n - 1] \o ss[n]
                  /\ FlattenSeq(ss) = f[Len(ss)]
<1> DEFINE k == Len(ss)
           Step(f) == [i \in 1 .. k |-> IF i = 1 THEN ss[i] ELSE f[i - 1] \o ss[i]]
           it == CHOOSE f : f = Step(f)
           T == Seq(S)
           G == [n \in 1 .. k |-> [x \in T |-> x \o ss[n]]]
<1>1. CASE k = 0
  <2> DEFINE f == [i \in 0 .. 0 |-> <<>>]
  <2>1. f[0] = <<>> /\ FlattenSeq(ss) = f[k] /\ \A n \in 1 .. k : f[n] = f[n - 1] \o ss[n]
    BY <1>1 DEF FlattenSeq
  <2> HIDE DEF f
  <2>2. QED
    BY <2>1, Zenon DEF k
<1>2. CASE k # 0
  <2>1. FlattenSeq(ss) = it[k]
    BY <1>2, Zenon DEF FlattenSeq
  <2>2. k \in Nat /\ \A n \in 1 .. k : ss[n] \in T
    OBVIOUS
  <2>3. \A n \in 1 .. k : \A x \in T : x \o ss[n] \in T
    BY <2>2
  <2>4. \A n \in 1 .. k : \A x \in T : G[n][x] = x \o ss[n]
    OBVIOUS
  <2>5. <<>> \in T /\ \A n \in 1 .. k : <<>> \o ss[n] = ss[n]
    BY <2>2
  <2> HIDE DEF G, T, k
  <2>6. \A n \in 1 .. k : \A x \in T : G[n][x] \in T
    BY <2>3, <2>4
  <2>7. PICK f \in [0 .. k -> T] : Course(f, <<>>, G, k)
    BY <2>2, <2>5, <2>6, RecExists, Zenon
  <2> DEFINE h == [i \in 1 .. k |-> f[i]]
  <2>8. h = Step(h)
    <3>1. ASSUME NEW i \in 1 .. k PROVE f[i] = IF i = 1 THEN ss[i] ELSE h[i - 1] \o ss[i]
      <4>1. i - 1 \in 0 .. k /\ (i = 1 => i - 1 = 0) /\ (i # 1 => i - 1 \in 1 .. k)
        BY <2>2
      <4>2. f[i - 1] \in T
        BY <4>1
      <4>3. f[i] = f[i - 1] \o ss[i]
        BY <2>4, <2>7, <4>2, Zenon DEF Course
      <4>4. f[0] = <<>>
        BY <2>7 DEF Course
      <4>5. i # 1 => h[i - 1] = f[i - 1]
        BY <4>1
      <4>6. QED
        BY <2>5, <4>1, <4>3, <4>4, <4>5, Zenon
    <3>2. QED
      BY <3>1
  <2>9. it = Step(it)
    BY <2>8, Zenon
  <2> HIDE DEF it
  <2> DEFINE f0 == [i \in 0 .. k |-> IF i = 0 THEN <<>> ELSE it[i]]
  <2>10. ASSUME NEW n \in 1 .. k PROVE f0[n] = f0[n - 1] \o ss[n]
    <3>1. f0[n] = it[n] /\ (n # 1 => f0[n - 1] = it[n - 1]) /\ (n = 1 => f0[n - 1] = <<>>)
      BY <2>2
    <3>2. it[n] = IF n = 1 THEN ss[n] ELSE it[n - 1] \o ss[n]
      BY <2>9
    <3>3. QED
      BY <2>5, <3>1, <3>2, Zenon
  <2>11. f0[k] = it[k] /\ f0[0] = <<>>
    BY <1>2, <2>2
  <2> HIDE DEF f0
  <2>12. QED
    BY <2>1, <2>10, <2>11, Zenon DEF k
<1>3. QED
  BY <1>1, <1>2

\* The result is a list of what is in the lists.
LEMMA FlattenSeqIs ==
    ASSUME NEW S, NEW ss \in Seq(Seq(S))
    PROVE  FlattenSeq(ss) \in Seq(S)
<1>1. PICK f : /\ f[0] = <<>> /\ \A n \in 1 .. Len(ss) : f[n] = f[n - 1] \o ss[n]
               /\ FlattenSeq(ss) = f[Len(ss)]
  BY FlattenCourse, Zenon
<1> DEFINE T == Seq(S)
<1>2. Len(ss) \in Nat /\ f[0] \in T
  BY <1>1
<1>3. ASSUME NEW n \in 1 .. Len(ss), f[n - 1] \in T PROVE f[n] \in T
  <2>1. ss[n] \in Seq(S)
    OBVIOUS
  <2>2. f[n] = f[n - 1] \o ss[n]
    BY <1>1, Zenon
  <2>3. QED
    BY <1>3, <2>1, <2>2
<1> HIDE DEF T
<1>4. f[Len(ss)] \in T
  BY <1>2, <1>3, EndsIn, Zenon
<1>5. QED
  BY <1>1, <1>4 DEF T

\* How far a number goes on is within the line.
LEMMA LiteralLengthIs ==
    ASSUME NEW line \in Line
    PROVE  LiteralLength(line) \in 0 .. Len(line)
<1> DEFINE ok == [n \in DOMAIN line |-> IF n % 2 = 1 THEN line[n] = SQ ELSE line[n] \in Words]
           I == {n \in 1 .. Len(ok) : ~ok[n]}
           end == IF I # {} THEN Min(I) ELSE 0
           len == IF end = 0 THEN Len(line) ELSE end - 1
<1>1. LiteralLength(line) = len - (len % 2)
  BY Zenon DEF LiteralLength, SelectInSeq
<1>2. Len(ok) = Len(line) /\ Len(line) \in Nat
  BY DEF Line
<1>3. I \in SUBSET (1 .. Len(line))
  BY <1>2
<1> HIDE DEF I
<1>4. end \in 0 .. Len(line)
  BY <1>2, <1>3, PlaceIs
<1> HIDE DEF end
<1>5. len \in 0 .. Len(line)
  BY <1>2, <1>4
<1> HIDE DEF len
<1>6. QED
  BY <1>1, <1>2, <1>5

\* A state of the loop.
StringStates == [collapsed : Line, elided : Line, done : BOOLEAN]

\* A round of it.
LEMMA CollapseStringIs ==
    ASSUME NEW s \in StringStates
    PROVE  CollapseString(s) \in StringStates
<1> DEFINE I == {i \in 1 .. Len(s.elided) : s.elided[i] \in {DQ, SQ, RAW, END}}
           at == IF I # {} THEN Min(I) ELSE 0
           quote == IF s.elided[at] = SQ THEN {SQ} ELSE {DQ, RAW, END}
           tail == From(s.elided, at + 1)
           J == {i \in 1 .. Len(tail) : tail[i] \in quote}
           second_quote == IF J # {} THEN Min(J) ELSE 0
           literal == LiteralLength(From(s.elided, at))
           quotes == IF quote = {SQ} THEN <<SQ, SQ>> ELSE <<DQ, DQ>>
           all == s.collapsed \o s.elided
           before == s.collapsed \o Until(s.elided, at)
           after == From(s.elided, at + literal)
           both == before \o quotes
           rest == From(tail, second_quote + 1)
<1>1. s.collapsed \in Line /\ s.elided \in Line /\ s.elided \in Seq(Token) /\ Len(s.elided) \in Nat
  BY DEF StringStates, Line
<1>2. CollapseString(s) = CASE s.done -> s
          [] ~s.done /\ at = 0 -> [s EXCEPT !.collapsed = all, !.done = TRUE]
          [] ~s.done /\ at > 1 /\ s.elided[at] = SQ /\ s.elided[at - 1] = NUM /\ literal > 0 ->
               [s EXCEPT !.collapsed = before, !.elided = after]
          [] OTHER ->
               IF second_quote = 0 THEN [s EXCEPT !.collapsed = all, !.done = TRUE]
               ELSE [s EXCEPT !.collapsed = both, !.elided = rest]
  BY Zenon DEF CollapseString, SelectInSeq
<1>3. at \in 0 .. Len(s.elided)
  <2>1. I \in SUBSET (1 .. Len(s.elided))
    OBVIOUS
  <2> HIDE DEF I
  <2>2. QED
    BY <1>1, <2>1, PlaceIs
<1> HIDE DEF at
<1>4. all \in Line /\ tail \in Line /\ tail \in Seq(Token)
  BY <1>1, <1>3, FromUntil DEF Line
<1> HIDE DEF tail
<1>5. second_quote \in 0 .. Len(tail)
  <2>1. J \in SUBSET (1 .. Len(tail)) /\ Len(tail) \in Nat
    BY <1>4
  <2> HIDE DEF J
  <2>2. QED
    BY <2>1, PlaceIs
<1> HIDE DEF second_quote
<1>6. rest \in Line /\ quotes \in Line
  <2>1. rest \in Line
    BY <1>4, <1>5, FromUntil DEF Line
  <2>2. <<SQ, SQ>> \in Line /\ <<DQ, DQ>> \in Line
    BY DEF Line, Token
  <2>3. QED
    BY <2>1, <2>2, Zenon
<1> HIDE DEF all, rest, quotes, quote
<1>7. CASE at = 0
  <2>1. CollapseString(s) \in {s, [s EXCEPT !.collapsed = all, !.done = TRUE]}
    BY <1>2, <1>7
  <2>2. QED
    BY <1>4, <2>1 DEF StringStates
<1>8. CASE at # 0
  <2>1. before \in Line /\ From(s.elided, at) \in Line /\ Len(From(s.elided, at)) = Len(s.elided) - at + 1
    BY <1>1, <1>3, <1>8, FromUntil DEF Line, From
  <2>2. literal \in 0 .. Len(s.elided) - at + 1
    BY <2>1, LiteralLengthIs
  <2> HIDE DEF literal
  <2>3. after \in Line /\ both \in Line
    BY <1>1, <1>3, <1>6, <1>8, <2>1, <2>2, FromUntil DEF Line
  <2> HIDE DEF before, after, both
  <2>4. CollapseString(s) \in {s, [s EXCEPT !.collapsed = all, !.done = TRUE],
                               [s EXCEPT !.collapsed = before, !.elided = after],
                               [s EXCEPT !.collapsed = both, !.elided = rest]}
    BY <1>2, <1>8
  <2>5. QED
    BY <1>4, <1>6, <2>1, <2>3, <2>4 DEF StringStates
<1>9. QED
  BY <1>7, <1>8

\* A line without strings is a line.
LEMMA CollapseStringsIs ==
    ASSUME NEW line \in Line
    PROVE  _CollapseStrings(line) \in Line
<1> DEFINE k == Len(line) + 1
           T == StringStates
           s == [collapsed |-> <<>>, elided |-> WithoutEscapes(line), done |-> FALSE]
           Step(f) == [n \in 0 .. k |-> IF n = 0 THEN s ELSE CollapseString(f[n - 1])]
           it == CHOOSE f : f = Step(f)
           G == [n \in 1 .. k |-> [x \in T |-> CollapseString(x)]]
<1>1. _CollapseStrings(line) \in {line, it[k].collapsed}
  BY Zenon DEF _CollapseStrings, Iterate
<1>2. WithoutEscapes(line) \in Line
  <2> DEFINE parts == [n \in DOMAIN line |-> IF line[n] = ESC THEN <<>> ELSE <<line[n]>>]
  <2>1. parts \in Seq(Seq(Token))
    <3>1. <<>> \in Seq(Token) /\ \A n \in DOMAIN line : <<line[n]>> \in Seq(Token)
      BY DEF Line
    <3>2. \A n \in DOMAIN line : (IF line[n] = ESC THEN <<>> ELSE <<line[n]>>) \in Seq(Token)
      BY <3>1, Zenon
    <3>3. Len(line) \in Nat /\ DOMAIN line = 1 .. Len(line)
      BY DEF Line
    <3>4. QED
      BY <3>2, <3>3
  <2> HIDE DEF parts
  <2>2. FlattenSeq(parts) \in Seq(Token)
    BY <2>1, FlattenSeqIs
  <2>3. QED
    BY <2>2 DEF WithoutEscapes, parts, Line
<1>3. k \in Nat /\ s \in T
  BY <1>2 DEF StringStates, Line
<1> HIDE DEF k, s
<1>4. \A x \in T : CollapseString(x) \in T
  BY CollapseStringIs
<1>5. \A n \in 1 .. k : \A x \in T : G[n][x] = CollapseString(x)
  OBVIOUS
<1> HIDE DEF G, T
<1>6. \A n \in 1 .. k : \A x \in T : G[n][x] \in T
  BY <1>4, <1>5
<1>7. PICK f \in [0 .. k -> T] : Course(f, s, G, k)
  BY <1>3, <1>6, RecExists, Zenon
<1>8. f = Step(f)
  BY <1>3, <1>5, <1>7 DEF Course
<1>9. it = Step(it)
  BY <1>8, Zenon
<1> HIDE DEF it
<1>10. it[0] \in T /\ \A n \in 1 .. k : it[n - 1] \in T => it[n] \in T
  BY <1>3, <1>4, <1>9
<1>11. it[k] \in T
  BY <1>3, <1>10, EndsIn, Zenon
<1>12. QED
  BY <1>1, <1>11 DEF T, StringStates

\* The copies of the lines that the rules read.
CleanLines ==
    {c \in [raw_lines : Seq(Line), lines_without_raw_strings : Seq(Line), lines : Seq(Line), elided : Seq(Line)] :
        /\ Len(c.raw_lines) = Len(c.elided) /\ Len(c.lines) = Len(c.elided)
        /\ Len(c.lines_without_raw_strings) = Len(c.elided)
        /\ \A n \in DOMAIN c.raw_lines :
               ToSet(c.lines_without_raw_strings[n]) \subseteq ToSet(c.raw_lines[n]) \cup {DQ}}

\* All copies have the same number of lines, and the one that is searched for NOLINT where the
\* header guard is checked has only words of the file.
LEMMA CleansedLinesIs ==
    ASSUME NEW lines \in Seq(Line)
    PROVE  CleansedLines(lines) \in CleanLines /\ CleansedLines(lines).raw_lines = lines
<1> DEFINE raw == CleanseRawStrings(lines)
           code == [n \in DOMAIN lines |-> CleanseComments(raw[n])]
           elided == [n \in DOMAIN lines |-> Elide(raw[n])]
<1>1. raw \in Seq(Line) /\ DOMAIN raw = DOMAIN lines
      /\ \A n \in DOMAIN lines : ToSet(raw[n]) \subseteq ToSet(lines[n]) \cup {DQ}
  BY CleanseRawStringsIs
<1> HIDE DEF raw
<1>2. \A n \in DOMAIN lines : CleanseComments(raw[n]) \in Line /\ Elide(raw[n]) \in Line
  <2> TAKE n \in DOMAIN lines
  <2>1. raw[n] \in Line
    BY <1>1
  <2>2. QED
    BY <2>1, CleanseCommentsIs, CollapseStringsIs DEF Elide
<1>3. code \in Seq(Line) /\ elided \in Seq(Line) /\ Len(code) = Len(lines) /\ Len(elided) = Len(lines)
  BY <1>2
<1>4. Len(raw) = Len(lines)
  BY <1>1
<1>5. CleansedLines(lines)
        = [raw_lines |-> lines, lines_without_raw_strings |-> raw, lines |-> code, elided |-> elided]
  BY Zenon DEF CleansedLines, Copies, raw
<1> HIDE DEF code, elided
<1>6. QED
  BY <1>1, <1>3, <1>4, <1>5 DEF CleanLines
-----------------------------------------------------------------------------
(* Lists of errors, and the nesting state. *)

\* s is a list, whatever is in it.
IsList(s) == s \in Seq(ToSet(s))

\* What is put together from lists is a list.
LEMMA ListOf ==
    ASSUME NEW S, NEW s \in Seq(S)
    PROVE  IsList(s)
<1>1. \A i \in 1 .. Len(s) : s[i] \in ToSet(s)
  BY DEF ToSet
<1>2. QED
  BY <1>1 DEF IsList

\* No element, and one: most rules report at most one error.
LEMMA ShortList ==
    ASSUME NEW e
    PROVE  IsList(<<>>) /\ IsList(<<e>>)
<1>1. <<>> \in Seq({}) /\ <<e>> \in Seq({e})
  OBVIOUS
<1>2. QED
  BY <1>1, ListOf, Zenon

\* Two lists, one after the other.
LEMMA JoinLists ==
    ASSUME NEW s, NEW t, IsList(s), IsList(t)
    PROVE  IsList(s \o t)
<1> DEFINE S == ToSet(s) \cup ToSet(t)
<1>1. s \in Seq(S) /\ t \in Seq(S)
  BY DEF IsList
<1> HIDE DEF S
<1>2. s \o t \in Seq(S)
  BY <1>1
<1>3. QED
  BY <1>2, ListOf, Zenon

\* One element more.
LEMMA LongerList ==
    ASSUME NEW s, NEW e, IsList(s)
    PROVE  IsList(Append(s, e))
<1> DEFINE S == ToSet(s) \cup {e}
<1>1. s \in Seq(S) /\ e \in S
  BY DEF IsList
<1> HIDE DEF S
<1>2. Append(s, e) \in Seq(S)
  BY <1>1
<1>3. QED
  BY <1>2, ListOf, Zenon

\* The last element taken off.
LEMMA ShorterList ==
    ASSUME NEW s, IsList(s)
    PROVE  IsList(Front(s))
<1> DEFINE S == ToSet(s)
<1>1. s \in Seq(S)
  BY DEF IsList
<1> HIDE DEF S
<1>2. Front(s) \in Seq(S)
  BY <1>1 DEF Front
<1>3. QED
  BY <1>2, ListOf, Zenon

\* One element replaced.
LEMMA ChangedList ==
    ASSUME NEW s, NEW i, NEW e, IsList(s)
    PROVE  IsList([s EXCEPT ![i] = e])
<1> DEFINE S == ToSet(s) \cup {e}
<1>1. s \in Seq(S) /\ e \in S
  BY DEF IsList
<1> HIDE DEF S
<1>2. [s EXCEPT ![i] = e] \in Seq(S)
  <2>1. s \in [1 .. Len(s) -> S] /\ Len(s) \in Nat
    BY <1>1
  <2>2. [s EXCEPT ![i] = e] \in [1 .. Len(s) -> S]
    BY <1>1, <2>1, Zenon
  <2>3. QED
    BY <2>1, <2>2
<1>3. QED
  BY <1>2, ListOf, Zenon

\* Lists that are put together with FlattenSeq.
LEMMA FlatList ==
    ASSUME NEW k \in Nat, NEW ss, DOMAIN ss = 1 .. k, ss = [n \in 1 .. k |-> ss[n]],
           \A n \in 1 .. k : IsList(ss[n])
    PROVE  IsList(FlattenSeq(ss))
<1> DEFINE S == UNION {ToSet(ss[n]) : n \in 1 .. k}
<1>1. ASSUME NEW n \in 1 .. k PROVE ss[n] \in Seq(S)
  <2> DEFINE R == ToSet(ss[n])
  <2>1. ss[n] \in Seq(R)
    BY Zenon DEF IsList
  <2>2. R \subseteq S
    OBVIOUS
  <2> HIDE DEF R, S
  <2>3. QED
    BY <2>1, <2>2
<1> HIDE DEF S
<1>2. ss \in Seq(Seq(S))
  BY <1>1
<1>3. QED
  BY <1>2, FlattenSeqIs, ListOf, Zenon

\* An error or nothing is a list.
LEMMA MayReport ==
    ASSUME NEW c \in BOOLEAN, NEW e
    PROVE  IsList(IF c THEN <<e>> ELSE <<>>)
BY ShortList

\* What CheckEnd says about a block is a list.
LEMMA CheckEndIs ==
    ASSUME NEW block, NEW lines, NEW raw, NEW p
    PROVE  IsList(CheckEnd(block, lines, raw, p))
<1>1. IsList(ClassCheckEnd(block, lines, raw, p))
  BY ShortList, JoinLists, Zenon DEF ClassCheckEnd
<1>2. IsList(NamespaceCheckEnd(block, lines, raw, p))
  BY ShortList, Zenon DEF NamespaceCheckEnd
<1>3. CheckEnd(block, lines, raw, p)
        \in {ClassCheckEnd(block, lines, raw, p), NamespaceCheckEnd(block, lines, raw, p), <<>>}
  BY DEF CheckEnd
<1>4. QED
  BY <1>1, <1>2, <1>3, ShortList, Zenon

\* The stack, the stacks that were put aside and the errors are lists.
PpInfoOK(info) ==
    DOMAIN info = {"before_if", "before_else", "seen_else"} /\ IsList(info.before_if) /\ IsList(info.before_else)

\* The same of the whole nesting state.
NestingOK(s) ==
    /\ DOMAIN s = {"stack", "pp_stack", "previous_top", "previous_depth", "rest", "errors"}
    /\ IsList(s.stack) /\ IsList(s.errors)
    /\ IsList(s.pp_stack) /\ \A n \in DOMAIN s.pp_stack : PpInfoOK(s.pp_stack[n])

\* A step that leaves the checkpoints alone.
LEMMA NestingKept ==
    ASSUME NEW s, NEW t, NestingOK(s), DOMAIN t = DOMAIN s, t.pp_stack = s.pp_stack, IsList(t.stack), IsList(t.errors)
    PROVE  NestingOK(t)
BY DEF NestingOK

\* A change of the top block leaves a list.
LEMMA ChangeTopIs ==
    ASSUME NEW stack, NEW field, NEW value, IsList(stack)
    PROVE  IsList(ChangeTop(stack, field, value))
BY ChangedList, Zenon DEF ChangeTop

\* #if puts the stack aside, #else and #endif put one back that was put aside.
LEMMA UpdatePreprocessorKeeps ==
    ASSUME NEW s, NEW line, NestingOK(s)
    PROVE  NestingOK(UpdatePreprocessor(s, line))
<1> DEFINE info == Last(s.pp_stack)
           pushed == [before_if |-> s.stack, before_else |-> <<>>, seen_else |-> FALSE]
           marked == [s.pp_stack EXCEPT ![Len(s.pp_stack)] =
                         IF info.seen_else THEN @ ELSE [@ EXCEPT !.seen_else = TRUE, !.before_else = s.stack]]
           a == [s EXCEPT !.pp_stack = Append(@, pushed)]
           b == [s EXCEPT !.pp_stack = marked, !.stack = info.before_if]
           c == [s EXCEPT !.stack = IF info.seen_else THEN info.before_else ELSE @, !.pp_stack = Front(@)]
<1> USE DEF NestingOK
<1>1. PpInfoOK(pushed)
  BY ShortList DEF PpInfoOK
<1>2. NestingOK(a)
  <2> HIDE DEF pushed
  <2>1. IsList(Append(s.pp_stack, pushed))
    BY LongerList
  <2>2. \A n \in DOMAIN Append(s.pp_stack, pushed) : PpInfoOK(Append(s.pp_stack, pushed)[n])
    BY <1>1 DEF IsList
  <2>3. QED
    BY <2>1, <2>2
<1>3. ASSUME s.pp_stack # <<>>
      PROVE  PpInfoOK(info) /\ Len(s.pp_stack) \in DOMAIN s.pp_stack /\ info = s.pp_stack[Len(s.pp_stack)]
  BY <1>3 DEF IsList, Last
<1> HIDE DEF info
<1>4. ASSUME s.pp_stack # <<>> PROVE NestingOK(b)
  <2> DEFINE new == IF info.seen_else THEN info ELSE [info EXCEPT !.seen_else = TRUE, !.before_else = s.stack]
  <2>1. PpInfoOK(new)
    BY <1>3, <1>4 DEF PpInfoOK
  <2>2. marked = [s.pp_stack EXCEPT ![Len(s.pp_stack)] = new]
    BY <1>3, <1>4, Zenon
  <2> HIDE DEF new, marked
  <2>3. IsList(marked)
    BY <2>2, ChangedList, Zenon
  <2>4. \A n \in DOMAIN marked : PpInfoOK(marked[n])
    BY <2>1, <2>2
  <2>5. IsList(info.before_if)
    BY <1>3, <1>4 DEF PpInfoOK
  <2>6. QED
    BY <2>3, <2>4, <2>5
<1>5. ASSUME s.pp_stack # <<>> PROVE NestingOK(c)
  <2>1. IsList(Front(s.pp_stack))
    BY ShorterList
  <2>2. \A n \in DOMAIN Front(s.pp_stack) : PpInfoOK(Front(s.pp_stack)[n])
    BY <1>5 DEF IsList, Front
  <2>3. IsList(info.before_else)
    BY <1>3, <1>5 DEF PpInfoOK
  <2>4. QED
    BY <2>1, <2>2, <2>3
<1>6. UpdatePreprocessor(s, line) \in {s, a} \cup (IF s.pp_stack = <<>> THEN {} ELSE {b, c})
  BY DEF UpdatePreprocessor, info
<1> HIDE DEF a, b, c
<1>7. QED
  BY <1>2, <1>4, <1>5, <1>6, Zenon

\* The parentheses of a line change the top block only.
LEMMA CountParenthesesKeeps ==
    ASSUME NEW s, NEW line, NestingOK(s)
    PROVE  NestingOK(CountParentheses(s, line))
<1>1. PICK open, asm : CountParentheses(s, line) \in
          {s, [s EXCEPT !.stack = ChangeTop(ChangeTop(s.stack, "open_parentheses", open), "inline_asm", asm)]}
  BY Zenon DEF CountParentheses
<1>2. IsList(ChangeTop(ChangeTop(s.stack, "open_parentheses", open), "inline_asm", asm))
  BY ChangeTopIs, Zenon DEF NestingOK
<1>3. QED
  BY <1>1, <1>2, NestingKept DEF NestingOK

\* A namespace is one block more.
LEMMA ConsumeNamespaceKeeps ==
    ASSUME NEW s, NEW p, NestingOK(s)
    PROVE  NestingOK(ConsumeNamespace(s, p))
<1>1. PICK block, rest : ConsumeNamespace(s, p) \in {s, [s EXCEPT !.stack = Append(s.stack, block), !.rest = rest]}
  BY Zenon DEF ConsumeNamespace
<1>2. IsList(Append(s.stack, block))
  BY LongerList DEF NestingOK
<1>3. QED
  BY <1>1, <1>2, NestingKept DEF NestingOK

\* So is a class.
LEMMA ConsumeClassKeeps ==
    ASSUME NEW s, NEW lines, NEW raw, NEW p, NestingOK(s)
    PROVE  NestingOK(ConsumeClass(s, lines, raw, p))
<1>1. PICK block, rest :
        ConsumeClass(s, lines, raw, p) \in {s, [s EXCEPT !.stack = Append(s.stack, block), !.rest = rest]}
  BY Zenon DEF ConsumeClass
<1>2. IsList(Append(s.stack, block))
  BY LongerList DEF NestingOK
<1>3. QED
  BY <1>1, <1>2, NestingKept DEF NestingOK

\* An access specifier changes the top block, and may be reported.
LEMMA UpdateAccessKeeps ==
    ASSUME NEW s, NEW p, NestingOK(s)
    PROVE  NestingOK(UpdateAccess(s, p))
<1>1. PICK access, e : UpdateAccess(s, p) \in
          {s, [s EXCEPT !.stack = ChangeTop(s.stack, "access", access), !.errors = s.errors \o <<e>>],
              [s EXCEPT !.stack = ChangeTop(s.stack, "access", access), !.errors = s.errors \o <<>>]}
  BY Zenon DEF UpdateAccess
<1>2. IsList(ChangeTop(s.stack, "access", access)) /\ IsList(s.errors \o <<e>>) /\ IsList(s.errors \o <<>>)
  BY ChangeTopIs, JoinLists, ShortList, Zenon DEF NestingOK
<1>3. QED
  BY <1>1, <1>2, NestingKept DEF NestingOK

\* A brace or a semicolon opens a block, closes the top one, or changes it.
LEMMA ConsumeBraceKeeps ==
    ASSUME NEW s, NEW lines, NEW raw, NEW p, NestingOK(s)
    PROVE  NestingOK(ConsumeBrace(s, lines, raw, p))
<1> DEFINE errors == s.errors \o CheckEnd(Last(s.stack), lines, raw, p)
<1>1. PICK rest, block : ConsumeBrace(s, lines, raw, p) \in
          {s, [s EXCEPT !.rest = rest],
           [[s EXCEPT !.rest = rest] EXCEPT !.stack = ChangeTop(s.stack, "seen_open_brace", TRUE)],
           [[s EXCEPT !.rest = rest] EXCEPT !.stack = Append(s.stack, block)],
           [[s EXCEPT !.rest = rest] EXCEPT !.stack = Front(s.stack)],
           [[s EXCEPT !.rest = rest] EXCEPT !.stack = s.stack],
           [[s EXCEPT !.rest = rest] EXCEPT !.stack = Front(s.stack), !.errors = errors]}
  BY DEF ConsumeBrace, NestingOK
<1>2. IsList(ChangeTop(s.stack, "seen_open_brace", TRUE)) /\ IsList(Append(s.stack, block)) /\ IsList(Front(s.stack))
  BY ChangeTopIs, LongerList, ShorterList, Zenon DEF NestingOK
<1>3. IsList(errors)
  BY JoinLists, CheckEndIs, Zenon DEF NestingOK
<1> HIDE DEF errors
<1>4. QED
  BY <1>1, <1>2, <1>3, NestingKept DEF NestingOK

\* A property of the first state that every step keeps is one of the last.
LEMMA EndHas ==
    ASSUME NEW k \in Nat, NEW I, 0 \in I, \A n \in 1 .. k : n - 1 \in I => n \in I
    PROVE  k \in I
<1>1. k \in 0 .. k
  OBVIOUS
<1>2. QED
  BY <1>1, Induct, Zenon

\* The states the loop over the namespaces of a line passes through.
NamespaceCourse(s, p, k) ==
    CHOOSE f : f = [n \in 0 .. k |-> IF n = 0 THEN s ELSE ConsumeNamespace(f[n - 1], p)]

\* The rounds over the namespaces of a line.
LEMMA NamespaceRounds ==
    ASSUME NEW s, NEW p, NEW k \in Nat, NestingOK(s)
    PROVE  NestingOK(NamespaceCourse(s, p, k)[k])
<1> DEFINE Step(f, m) == [n \in 0 .. m |-> IF n = 0 THEN s ELSE ConsumeNamespace(f[n - 1], p)]
           I == {m \in 0 .. k : \E f : f = Step(f, m)}
           it == CHOOSE f : f = Step(f, k)
<1>2. 0 \in I
  <2> DEFINE h == [n \in 0 .. 0 |-> s]
  <2>1. h = Step(h, 0)
    OBVIOUS
  <2> HIDE DEF h
  <2>2. QED
    BY <2>1
<1>3. ASSUME NEW m \in 1 .. k, m - 1 \in I PROVE m \in I
  <2>1. PICK f : f = Step(f, m - 1)
    BY <1>3
  <2> DEFINE h == [n \in 0 .. m |-> IF n = m THEN ConsumeNamespace(f[m - 1], p) ELSE f[n]]
  <2>2. h = Step(h, m)
    BY <2>1
  <2> HIDE DEF h
  <2>3. m \in 0 .. k
    OBVIOUS
  <2>4. QED
    BY <2>2, <2>3, Zenon
<1> HIDE DEF I
<1>4. k \in I
  BY <1>2, <1>3, EndHas
<1>5. it = Step(it, k)
  BY <1>4, Zenon DEF I
<1> HIDE DEF it
<1> DEFINE J == {n \in 0 .. k : NestingOK(it[n])}
<1>6. 0 \in J
  BY <1>5
<1>7. ASSUME NEW n \in 1 .. k, n - 1 \in J PROVE n \in J
  <2>1. it[n] = ConsumeNamespace(it[n - 1], p) /\ n \in 0 .. k
    BY <1>5
  <2>2. QED
    BY <1>7, <2>1, ConsumeNamespaceKeeps, Zenon
<1> HIDE DEF J
<1>8. k \in J
  BY <1>6, <1>7, EndHas
<1>9. QED
  BY <1>8, Zenon DEF J, it, NamespaceCourse

\* The states the loop over the braces of a line passes through.
BraceCourse(s, lines, raw, p, k) ==
    CHOOSE f : f = [n \in 0 .. k |-> IF n = 0 THEN s ELSE ConsumeBrace(f[n - 1], lines, raw, p)]

\* The rounds over its braces.
LEMMA BraceRounds ==
    ASSUME NEW s, NEW lines, NEW raw, NEW p, NEW k \in Nat, NestingOK(s)
    PROVE  NestingOK(BraceCourse(s, lines, raw, p, k)[k])
<1> DEFINE Step(f, m) == [n \in 0 .. m |-> IF n = 0 THEN s ELSE ConsumeBrace(f[n - 1], lines, raw, p)]
           I == {m \in 0 .. k : \E f : f = Step(f, m)}
           it == CHOOSE f : f = Step(f, k)
<1>2. 0 \in I
  <2> DEFINE h == [n \in 0 .. 0 |-> s]
  <2>1. h = Step(h, 0)
    OBVIOUS
  <2> HIDE DEF h
  <2>2. QED
    BY <2>1
<1>3. ASSUME NEW m \in 1 .. k, m - 1 \in I PROVE m \in I
  <2>1. PICK f : f = Step(f, m - 1)
    BY <1>3
  <2> DEFINE h == [n \in 0 .. m |-> IF n = m THEN ConsumeBrace(f[m - 1], lines, raw, p) ELSE f[n]]
  <2>2. h = Step(h, m)
    BY <2>1
  <2> HIDE DEF h
  <2>3. m \in 0 .. k
    OBVIOUS
  <2>4. QED
    BY <2>2, <2>3, Zenon
<1> HIDE DEF I
<1>4. k \in I
  BY <1>2, <1>3, EndHas
<1>5. it = Step(it, k)
  BY <1>4, Zenon DEF I
<1> HIDE DEF it
<1> DEFINE J == {n \in 0 .. k : NestingOK(it[n])}
<1>6. 0 \in J
  BY <1>5
<1>7. ASSUME NEW n \in 1 .. k, n - 1 \in J PROVE n \in J
  <2>1. it[n] = ConsumeBrace(it[n - 1], lines, raw, p) /\ n \in 0 .. k
    BY <1>5
  <2>2. QED
    BY <1>7, <2>1, ConsumeBraceKeeps, Zenon
<1> HIDE DEF J
<1>8. k \in J
  BY <1>6, <1>7, EndHas
<1>9. QED
  BY <1>8, Zenon DEF J, it, BraceCourse

\* Update keeps lists lists.
LEMMA UpdateKeeps ==
    ASSUME NEW s, NEW lines, NEW raw, NEW p, NestingOK(s), Len(lines[p]) \in Nat
    PROVE  NestingOK(Update(s, lines, raw, p))
<1> DEFINE line == lines[p]
           top == IF s.stack = <<>> THEN "none" ELSE Last(s.stack).kind
           begun == [s EXCEPT !.previous_top = top, !.previous_depth = Len(s.stack), !.rest = line, !.errors = <<>>]
           counted == CountParentheses(UpdatePreprocessor(begun, line), line)
           named == Iterate(LAMBDA r : ConsumeNamespace(r, p), counted, Len(line))
           accessed == UpdateAccess(ConsumeClass(named, lines, raw, p), p)
           last == Iterate(LAMBDA r : ConsumeBrace(r, lines, raw, p), accessed, Len(line))
<1>1. Update(s, lines, raw, p) = [last EXCEPT !.rest = <<>>]
  BY Zenon DEF Update
<1>2. NestingOK(begun)
  <2> HIDE DEF top, line
  <2>1. QED
    BY ShortList, NestingKept DEF NestingOK
<1> HIDE DEF begun, line
<1>3. NestingOK(counted)
  BY <1>2, UpdatePreprocessorKeeps, CountParenthesesKeeps, Zenon
<1> HIDE DEF counted
<1>4. NestingOK(named)
  <2> DEFINE k == Len(line)
  <2>1. k \in Nat
    BY DEF line
  <2> HIDE DEF k
  <2>2. NestingOK(NamespaceCourse(counted, p, k)[k])
    BY <1>3, <2>1, NamespaceRounds, Zenon
  <2>3. QED
    BY <2>2, Zenon DEF NamespaceCourse, Iterate, k
<1> HIDE DEF named
<1>5. NestingOK(accessed)
  BY <1>4, ConsumeClassKeeps, UpdateAccessKeeps, Zenon
<1> HIDE DEF accessed
<1>6. NestingOK(last)
  <2> DEFINE k == Len(line)
  <2>1. k \in Nat
    BY DEF line
  <2> HIDE DEF k
  <2>2. NestingOK(BraceCourse(accessed, lines, raw, p, k)[k])
    BY <1>5, <2>1, BraceRounds, Zenon
  <2>3. QED
    BY <2>2, Zenon DEF BraceCourse, Iterate, k
<1> HIDE DEF last
<1>7. QED
  BY <1>1, <1>6, NestingKept DEF NestingOK

\* The errors after the last line are a list.
LEMMA CheckCompletedBlocksIs ==
    ASSUME NEW stack, IsList(stack)
    PROVE  IsList(CheckCompletedBlocks(stack))
<1> DEFINE Of(n) == CASE stack[n].kind = "class" -> <<Err(stack[n].start, <<"build", "class">>, 5)>>
                      [] stack[n].kind = "namespace" -> <<Err(stack[n].start, <<"build", "namespaces">>, 5)>>
                      [] OTHER -> <<>>
           ss == [n \in DOMAIN stack |-> Of(n)]
<1>1. \A n : IsList(Of(n))
  BY ShortList
<1>2. DOMAIN stack = 1 .. Len(stack) /\ Len(stack) \in Nat
  BY DEF IsList
<1>3. CheckCompletedBlocks(stack) = FlattenSeq(ss)
  BY Zenon DEF CheckCompletedBlocks
<1> HIDE DEF Of
<1>4. /\ DOMAIN ss = 1 .. Len(stack) /\ ss = [n \in 1 .. Len(stack) |-> ss[n]]
      /\ \A n \in 1 .. Len(stack) : IsList(ss[n])
  BY <1>1, <1>2
<1> HIDE DEF ss
<1>5. QED
  BY <1>2, <1>3, <1>4, FlatList, Zenon
-----------------------------------------------------------------------------
(* The counts of errors. *)

\* The greatest element of a set of line numbers.
LEMMA MaxIs ==
    ASSUME NEW m \in Nat, NEW I \in SUBSET (0 .. m), I # {}
    PROVE  Max(I) \in I /\ \A i \in I : i <= Max(I)
<1> DEFINE J == {n \in 0 .. m : m - n \in I}
<1>1. PICK i \in I : TRUE
  OBVIOUS
<1>2. m - i \in J
  BY <1>1
<1>3. J \in SUBSET Nat
  OBVIOUS
<1>4. PICK n \in J : \A k \in J : n <= k
  BY <1>2, <1>3, LeastNat, Zenon
<1>5. m - n \in I
  OBVIOUS
<1>6. ASSUME NEW k \in I PROVE k <= m - n
  <2>1. m - k \in J
    OBVIOUS
  <2>2. n <= m - k
    BY <1>4, <2>1, Zenon
  <2>3. n \in Int /\ k \in Int
    OBVIOUS
  <2> HIDE DEF J
  <2>4. QED
    BY <2>2, <2>3
<1>7. QED
  BY <1>5, <1>6, Zenon DEF Max

\* The fields of the state of errors.
CppFields == {"verbose_level", "error_count", "filters", "_filters_backup", "counting", "errors_by_category",
              "quiet", "output_format", "messages", "reported", "suppressed", "global"}

\* The errors that are counted under the key k.
Under(c, k) == {n \in DOMAIN c.reported : CountedAs(c.counting, c.reported[n].category) = k}

\* The counts are those of what was written out.
Counted(c) ==
    /\ c.error_count = Len(c.reported)
    /\ c.counting \in {"toplevel", "detailed"} =>
           /\ DOMAIN c.errors_by_category
                = {CountedAs(c.counting, c.reported[n].category) : n \in DOMAIN c.reported}
           /\ \A k \in DOMAIN c.errors_by_category : c.errors_by_category[k] = Cardinality(Under(c, k))

\* The module-wide state, with its counts.
CppOK(c) ==
    /\ DOMAIN c = CppFields /\ IsList(c.reported)
    /\ c.verbose_level \in Nat /\ c.messages \in Nat
    /\ Counted(c)

\* What an error does not change.
SameButErrors(c, d) ==
    /\ d.verbose_level = c.verbose_level /\ d.filters = c.filters /\ d._filters_backup = c._filters_backup
    /\ d.counting = c.counting /\ d.messages = c.messages /\ d.suppressed = c.suppressed

\* An error more under its key, and under no other.
LEMMA OneMoreCounts ==
    ASSUME NEW c, NEW d, NEW e, IsList(c.reported), d.reported = Append(c.reported, e), d.counting = c.counting,
           NEW k
    PROVE  /\ k = CountedAs(c.counting, e.category) => Cardinality(Under(d, k)) = Cardinality(Under(c, k)) + 1
           /\ k # CountedAs(c.counting, e.category) => Cardinality(Under(d, k)) = Cardinality(Under(c, k))
           /\ Cardinality(Under(c, k)) \in Nat
<1> DEFINE L == Len(c.reported)
<1>1. L \in Nat /\ DOMAIN c.reported = 1 .. L /\ DOMAIN d.reported = 1 .. L + 1 /\ d.reported[L + 1] = e
      /\ \A n \in 1 .. L : d.reported[n] = c.reported[n]
  BY DEF IsList
<1> HIDE DEF L
<1>2. IsFiniteSet(Under(c, k))
  <2>1. Under(c, k) \subseteq 1 .. L
    BY <1>1 DEF Under
  <2>2. IsFiniteSet(1 .. L)
    BY <1>1, FS_Interval
  <2>3. QED
    BY <2>1, <2>2, FS_Subset, Zenon
<1>3. L + 1 \notin Under(c, k)
  BY <1>1 DEF Under
<1>4. k = CountedAs(c.counting, e.category) => Under(d, k) = Under(c, k) \cup {L + 1}
  BY <1>1 DEF Under
<1>5. k # CountedAs(c.counting, e.category) => Under(d, k) = Under(c, k)
  BY <1>1 DEF Under
<1>6. Cardinality(Under(c, k)) \in Nat
  BY <1>2, FS_CardinalityType
<1>7. Cardinality(Under(c, k) \cup {L + 1}) = Cardinality(Under(c, k)) + 1
  BY <1>2, <1>3, FS_AddElement
<1>8. QED
  BY <1>4, <1>5, <1>6, <1>7

\* A category that has not been counted has no errors.
LEMMA NoneUnder ==
    ASSUME NEW c, NEW k,
           k \notin {CountedAs(c.counting, c.reported[n].category) : n \in DOMAIN c.reported}
    PROVE  Cardinality(Under(c, k)) = 0
<1>1. Under(c, k) = {}
  BY Zenon DEF Under
<1>2. QED
  BY <1>1, FS_EmptySet

\* Error adds to the counts what it writes out.
LEMMA ErrorKeeps ==
    ASSUME NEW c, NEW e, CppOK(c)
    PROVE  CppOK(Error(c, e)) /\ SameButErrors(c, Error(c, e))
<1>1. CASE ~_ShouldPrintError(c, e)
  <2>1. Error(c, e) = c
    BY <1>1, Zenon DEF Error
  <2>2. QED
    BY <2>1, Zenon DEF SameButErrors
<1>2. CASE _ShouldPrintError(c, e)
  <2> DEFINE d == Error(c, e)
             K == CountedAs(c.counting, e.category)
             styled == c.counting \in {"toplevel", "detailed"}
             more == IF styled THEN OneMore(c.errors_by_category, K) ELSE c.errors_by_category
             total == c.error_count + 1
             longer == Append(c.reported, e)
  <2>1. d = [[c EXCEPT !.error_count = total, !.errors_by_category = more] EXCEPT !.reported = longer]
    <3>1. DOMAIN c = CppFields
      BY DEF CppOK
    <3>2. IncrementErrorCount(c, e.category) = [c EXCEPT !.error_count = total, !.errors_by_category = more]
      BY Zenon DEF IncrementErrorCount
    <3>3. IncrementErrorCount(c, e.category).reported = c.reported
      BY <3>1, <3>2 DEF CppFields
    <3>4. QED
      BY <1>2, <3>2, <3>3, Zenon DEF Error
  <2> HIDE DEF d, more, total, longer
  <2>2. DOMAIN c = CppFields
    BY DEF CppOK
  <2>3. /\ DOMAIN d = CppFields /\ d.reported = longer /\ d.error_count = total /\ d.errors_by_category = more
        /\ d.counting = c.counting
    BY <2>1, <2>2 DEF CppFields
  <2>4. SameButErrors(c, d)
    BY <2>1, <2>2 DEF SameButErrors, CppFields
  <2>5. IsList(longer) /\ Len(longer) = Len(c.reported) + 1 /\ Len(c.reported) \in Nat
        /\ DOMAIN longer = DOMAIN c.reported \cup {Len(c.reported) + 1} /\ longer[Len(c.reported) + 1] = e
        /\ \A n \in DOMAIN c.reported : longer[n] = c.reported[n]
    <3>1. IsList(longer)
      BY LongerList, Zenon DEF CppOK, longer
    <3>2. QED
      BY <3>1 DEF CppOK, longer, IsList
  <2>6. total = Len(longer)
    BY <2>5 DEF total, CppOK, Counted
  <2>7. ASSUME styled
        PROVE  /\ DOMAIN more = {CountedAs(c.counting, longer[n].category) : n \in DOMAIN longer}
               /\ \A k \in DOMAIN more : more[k] = Cardinality(Under(d, k))
    <3> DEFINE before == {CountedAs(c.counting, c.reported[n].category) : n \in DOMAIN c.reported}
    <3>1. DOMAIN c.errors_by_category = before
          /\ \A k \in DOMAIN c.errors_by_category : c.errors_by_category[k] = Cardinality(Under(c, k))
      BY <2>7 DEF CppOK, Counted
    <3>2. DOMAIN more = DOMAIN c.errors_by_category \cup {K}
          /\ \A k \in DOMAIN more :
                 more[k] = (IF k \in DOMAIN c.errors_by_category THEN c.errors_by_category[k] ELSE 0)
                           + (IF k = K THEN 1 ELSE 0)
      BY <2>7, Zenon DEF more, OneMore
    <3>3. {CountedAs(c.counting, longer[n].category) : n \in DOMAIN longer} = before \cup {K}
      BY <2>5
    <3>4. ASSUME NEW k \in DOMAIN more PROVE more[k] = Cardinality(Under(d, k))
      <4>1. IsList(c.reported) /\ d.reported = Append(c.reported, e)
        BY <2>3 DEF CppOK, longer
      <4>2. /\ k = K => Cardinality(Under(d, k)) = Cardinality(Under(c, k)) + 1
            /\ k # K => Cardinality(Under(d, k)) = Cardinality(Under(c, k))
            /\ Cardinality(Under(c, k)) \in Nat
        BY <2>3, <4>1, OneMoreCounts, Zenon
      <4>3. k \notin before => Cardinality(Under(c, k)) = 0
        BY NoneUnder, Zenon
      <4> HIDE DEF before, K
      <4>4. more[k] = (IF k \in before THEN Cardinality(Under(c, k)) ELSE 0) + (IF k = K THEN 1 ELSE 0)
        BY <3>1, <3>2, Zenon
      <4>5. QED
        BY <4>2, <4>3, <4>4
    <3>5. QED
      BY <3>1, <3>2, <3>3, <3>4, Zenon
  <2>8. Counted(d)
    BY <2>3, <2>6, <2>7, Zenon DEF Counted
  <2>9. CppOK(d)
    <3>1. /\ c.verbose_level \in Nat /\ c.messages \in Nat
          /\ d.verbose_level = c.verbose_level /\ d.messages = c.messages
      BY <2>4 DEF CppOK, SameButErrors
    <3>2. QED
      BY <2>3, <2>5, <2>8, <3>1, Zenon DEF CppOK
  <2>10. QED
    BY <2>4, <2>9, Zenon DEF d
<1>3. QED
  BY <1>1, <1>2

\* The sets of places a fold from the left goes through.
LEMMA FoldPlaces ==
    ASSUME NEW m \in Nat, NEW s \in SUBSET (1 .. m), s # {}
    PROVE  /\ Max(s) \in s /\ Max(s) \in 1 .. m /\ s \ {Max(s)} \in SUBSET (1 .. m)
           /\ m \in s => Max(s) = m /\ s \ {m} \in SUBSET (1 .. m - 1)
           /\ m \notin s => s \in SUBSET (1 .. m - 1) /\ m \notin s \ {Max(s)}
<1>1. s \in SUBSET (0 .. m)
  OBVIOUS
<1>2. Max(s) \in s /\ \A i \in s : i <= Max(s)
  BY <1>1, MaxIs
<1> DEFINE x == Max(s)
<1>3. x \in s /\ x \in 1 .. m /\ \A i \in s : i <= x
  BY <1>2, Zenon
<1> HIDE DEF x
<1>4. s \ {x} \in SUBSET (1 .. m) /\ (m \in s => x = m)
  BY <1>3
<1>5. m \in s => s \ {m} \in SUBSET (1 .. m - 1)
  OBVIOUS
<1>6. m \notin s => s \in SUBSET (1 .. m - 1)
  OBVIOUS
<1>7. QED
  BY <1>3, <1>4, <1>5, <1>6, Zenon DEF x

\* Report is the course of Error over the list.
LEMMA ReportCourse ==
    ASSUME NEW c, NEW errors, IsList(errors)
    PROVE  \E f : /\ f[0] = c /\ \A n \in 1 .. Len(errors) : f[n] = Error(f[n - 1], errors[n])
                  /\ Report(c, errors) = f[Len(errors)]
<1> DEFINE k == Len(errors)
           Step(f, m) == [s \in SUBSET (1 .. m) |->
                            IF s = {} THEN c ELSE Error(f[s \ {Max(s)}], errors[Max(s)])]
           I == {m \in 0 .. k : \E f : f = Step(f, m)}
           it == CHOOSE f : f = Step(f, k)
<1>1. k \in Nat /\ DOMAIN errors = 1 .. k
  BY DEF IsList
<1>2. Report(c, errors) = it[1 .. k]
  BY <1>1, Zenon DEF Report, FoldLeft, MapThenFoldSet
<1> HIDE DEF k
<1>3. 0 \in I
  <2> DEFINE h == [s \in SUBSET (1 .. 0) |-> c]
  <2>1. \A s \in SUBSET (1 .. 0) : s = {}
    OBVIOUS
  <2>2. h = Step(h, 0)
    BY <2>1
  <2> HIDE DEF h
  <2>3. 0 \in 0 .. k
    BY <1>1
  <2>4. QED
    BY <2>2, <2>3, Zenon
<1>4. ASSUME NEW m \in 1 .. k, m - 1 \in I PROVE m \in I
  <2>1. PICK f : f = Step(f, m - 1)
    BY <1>4, Zenon
  <2> DEFINE h == [s \in SUBSET (1 .. m) |-> IF m \in s THEN Error(f[s \ {m}], errors[m]) ELSE f[s]]
  <2>2. m \in Nat /\ m \in 0 .. k /\ {} \in SUBSET (1 .. m - 1)
    BY <1>1
  <2>3. ASSUME NEW s \in SUBSET (1 .. m)
        PROVE  h[s] = IF s = {} THEN c ELSE Error(h[s \ {Max(s)}], errors[Max(s)])
    <3>1. CASE s = {}
      <4>1. h[s] = f[{}]
        BY <3>1
      <4>2. f[{}] = c
        BY <2>1, <2>2
      <4>3. QED
        BY <3>1, <4>1, <4>2, Zenon
    <3>2. CASE s # {} /\ m \in s
      <4>1. Max(s) = m /\ s \ {m} \in SUBSET (1 .. m) /\ m \notin s \ {m}
        BY <2>2, <3>2, FoldPlaces
      <4>2. h[s] = Error(f[s \ {m}], errors[m]) /\ h[s \ {m}] = f[s \ {m}]
        BY <3>2, <4>1, Zenon
      <4> HIDE DEF h
      <4>3. QED
        BY <3>2, <4>1, <4>2, Zenon
    <3>3. CASE s # {} /\ m \notin s
      <4>1. s \in SUBSET (1 .. m - 1) /\ s \ {Max(s)} \in SUBSET (1 .. m) /\ m \notin s \ {Max(s)}
        BY <2>2, <3>3, FoldPlaces
      <4>2. h[s] = f[s] /\ h[s \ {Max(s)}] = f[s \ {Max(s)}]
        BY <3>3, <4>1, Zenon
      <4>3. f[s] = Error(f[s \ {Max(s)}], errors[Max(s)])
        BY <2>1, <3>3, <4>1, Zenon
      <4> HIDE DEF h
      <4>4. QED
        BY <3>3, <4>2, <4>3, Zenon
    <3>4. QED
      BY <3>1, <3>2, <3>3, Zenon
  <2>4. h = Step(h, m)
    <3>1. DOMAIN h = SUBSET (1 .. m) /\ h = [s \in SUBSET (1 .. m) |-> h[s]]
      BY Zenon
    <3> HIDE DEF h
    <3>2. QED
      BY <2>3, <3>1, Zenon
  <2> HIDE DEF h
  <2>5. QED
    BY <2>2, <2>4, Zenon
<1> HIDE DEF I
<1>5. k \in I
  BY <1>1, <1>3, <1>4, EndHas
<1>6. it = Step(it, k)
  BY <1>5, Zenon DEF I
<1> HIDE DEF it
<1> DEFINE f == [n \in 0 .. k |-> it[1 .. n]]
<1>7. f[0] = c
  <2>1. 1 .. 0 = {} /\ {} \in SUBSET (1 .. k) /\ 0 \in 0 .. k
    BY <1>1
  <2>2. it[{}] = c
    BY <1>6, <2>1, Zenon
  <2>3. QED
    BY <2>1, <2>2, Zenon
<1>8. ASSUME NEW n \in 1 .. k PROVE f[n] = Error(f[n - 1], errors[n])
  <2>1. n \in Nat /\ n \in 1 .. n /\ 1 .. n # {} /\ 1 .. n \in SUBSET (1 .. k) /\ (1 .. n) \ {n} = 1 .. n - 1
        /\ n \in 0 .. k /\ n - 1 \in 0 .. k
    BY <1>1
  <2>2. Max(1 .. n) = n
    <3> DEFINE s == 1 .. n
    <3>1. s \in SUBSET (1 .. n) /\ s # {} /\ n \in s
      BY <2>1
    <3> HIDE DEF s
    <3>2. Max(s) = n
      BY <2>1, <3>1, FoldPlaces, Zenon
    <3>3. QED
      BY <3>2 DEF s
  <2>3. it[1 .. n] = Error(it[1 .. n - 1], errors[n])
    BY <1>6, <2>1, <2>2, Zenon
  <2>4. QED
    BY <2>1, <2>3, Zenon
<1>9. f[k] = it[1 .. k]
  BY <1>1
<1> HIDE DEF f
<1>10. QED
  BY <1>2, <1>7, <1>8, <1>9, Zenon DEF k

\* Report keeps the counts right and changes nothing else.
LEMMA ReportKeeps ==
    ASSUME NEW c, NEW errors, IsList(errors), CppOK(c)
    PROVE  CppOK(Report(c, errors)) /\ SameButErrors(c, Report(c, errors))
<1>1. PICK f : /\ f[0] = c /\ \A n \in 1 .. Len(errors) : f[n] = Error(f[n - 1], errors[n])
               /\ Report(c, errors) = f[Len(errors)]
  BY ReportCourse, Zenon
<1> DEFINE k == Len(errors)
           I == {n \in 0 .. k : CppOK(f[n]) /\ SameButErrors(c, f[n])}
<1>2. k \in Nat
  BY DEF IsList
<1>3. 0 \in I
  <2>1. 0 \in 0 .. k
    BY <1>2
  <2>2. SameButErrors(c, c)
    BY Zenon DEF SameButErrors
  <2>3. QED
    BY <1>1, <2>1, <2>2, Zenon
<1>4. ASSUME NEW n \in 1 .. k, n - 1 \in I PROVE n \in I
  <2>1. n \in 0 .. k
    BY <1>2
  <2>2. CppOK(f[n]) /\ SameButErrors(f[n - 1], f[n])
    BY <1>1, <1>4, ErrorKeeps, Zenon
  <2>3. SameButErrors(c, f[n])
    BY <1>4, <2>2, Zenon DEF SameButErrors
  <2>4. QED
    BY <2>1, <2>2, <2>3, Zenon
<1> HIDE DEF I
<1>5. k \in I
  BY <1>2, <1>3, <1>4, EndHas
<1>6. QED
  BY <1>1, <1>5, Zenon DEF I
-----------------------------------------------------------------------------
(* Suppressions. *)

\* What a line can be suppressed by: a NOLINT of its own, or a NOLINTNEXTLINE before it.
Local(c, raw_lines) ==
    \A s \in c.suppressed : \/ Contains(raw_lines[s[2] + 1], "NOLINT")
                            \/ s[2] > 0 /\ Contains(raw_lines[s[2]], "NOLINTNEXTLINE")

\* Neither the filters nor the copy that was put aside has changed.
SameFilters(c, d) == d.filters = c.filters /\ d._filters_backup = c._filters_backup

\* A change of other fields leaves the counts right.
LEMMA CppKept ==
    ASSUME NEW c, NEW d, CppOK(c), DOMAIN d = DOMAIN c, d.reported = c.reported, d.error_count = c.error_count,
           d.errors_by_category = c.errors_by_category, d.counting = c.counting,
           d.verbose_level \in Nat, d.messages \in Nat
    PROVE  CppOK(d)
<1>1. \A k : Under(d, k) = Under(c, k)
  BY Zenon DEF Under
<1>2. Counted(d)
  BY <1>1, Zenon DEF CppOK, Counted
<1>3. QED
  BY <1>2, Zenon DEF CppOK

\* What Error does to the suppressions and the filters: nothing.
LEMMA ErrorLocal ==
    ASSUME NEW c, NEW e, NEW raw_lines, CppOK(c)
    PROVE  /\ CppOK(Error(c, e)) /\ SameFilters(c, Error(c, e))
           /\ Local(c, raw_lines) => Local(Error(c, e), raw_lines)
BY ErrorKeeps, Zenon DEF SameButErrors, SameFilters, Local

\* The same for a list of errors.
LEMMA ReportLocal ==
    ASSUME NEW c, NEW errors, NEW raw_lines, CppOK(c), IsList(errors)
    PROVE  /\ CppOK(Report(c, errors)) /\ SameFilters(c, Report(c, errors))
           /\ Local(c, raw_lines) => Local(Report(c, errors), raw_lines)
BY ReportKeeps, Zenon DEF SameButErrors, SameFilters, Local

\* A word of line that has only words of raw is one of raw.
LEMMA SaysToo ==
    ASSUME NEW line \in Line, NEW raw \in Line, NEW t, t # DQ, ToSet(line) \subseteq ToSet(raw) \cup {DQ},
           NEW n \in 1 .. Len(line), line[n] = t
    PROVE  Contains(raw, t)
<1>1. DOMAIN line = 1 .. Len(line) /\ DOMAIN raw = 1 .. Len(raw)
  BY DEF Line
<1>2. t \in ToSet(raw)
  BY <1>1, Zenon DEF ToSet
<1>3. QED
  BY <1>1, <1>2, Zenon DEF Contains, ToSet

\* ParseNolintSuppressions suppresses a line only where the text says so.
LEMMA ParseNolintSuppressionsIs ==
    ASSUME NEW c, CppOK(c), NEW raw_lines, NEW p \in Nat, p > 0, NEW line \in Line, raw_lines[p] \in Line,
           ToSet(line) \subseteq ToSet(raw_lines[p]) \cup {DQ}
    PROVE  /\ CppOK(ParseNolintSuppressions(c, line, p))
           /\ SameFilters(c, ParseNolintSuppressions(c, line, p))
           /\ Local(c, raw_lines) => Local(ParseNolintSuppressions(c, line, p), raw_lines)
<1> DEFINE d == ParseNolintSuppressions(c, line, p)
           I == {i \in 1 .. Len(line) : line[i] \in {"NOLINT", "NOLINTNEXTLINE"}}
           at == SelectInSeq(line, LAMBDA t : t \in {"NOLINT", "NOLINTNEXTLINE"})
           l == IF line[at] = "NOLINTNEXTLINE" THEN p ELSE p - 1
           e == Err(p, <<"readability", "nolint">>, 5)
<1>1. d \in {c, Error(c, e)} \/ (at # 0 /\ \E x : d = [c EXCEPT !.suppressed = c.suppressed \cup {<<x, l>>}])
  <2> DEFINE given == at < Len(line)
                      /\ line[at + 1] \in DOMAIN ErrorCategories \cup LegacyCategories \cup UnknownCategories
             category == line[at + 1]
             Suppress(x) == [c EXCEPT !.suppressed = c.suppressed \cup {<<x, l>>}]
  <2>2. d = CASE at = 0 -> c
              [] at # 0 /\ ~given -> Suppress(AnyCategory)
              [] at # 0 /\ given /\ category \in DOMAIN ErrorCategories -> Suppress(ErrorCategories[category])
              [] at # 0 /\ given /\ category \in LegacyCategories -> c
              [] OTHER -> Error(c, e)
    BY Zenon DEF ParseNolintSuppressions
  <2> HIDE DEF d, at, given, category, e, l
  <2>3. d \in {c, Error(c, e)} \/ (at # 0 /\ d \in {Suppress(AnyCategory), Suppress(ErrorCategories[category])})
    BY <2>2
  <2>4. QED
    BY <2>3, Zenon
<1>2. at # 0 => at \in I
  <2>1. I \in SUBSET Nat
    OBVIOUS
  <2>2. at = IF I # {} THEN Min(I) ELSE 0
    BY Zenon DEF SelectInSeq
  <2> HIDE DEF I, at
  <2>3. QED
    BY <2>1, <2>2, MinIs
<1>3. CASE d = c
  BY <1>3, Zenon DEF SameFilters
<1>4. CASE d = Error(c, e)
  <2> HIDE DEF e
  <2>1. QED
    BY <1>4, ErrorLocal, Zenon
<1>5. ASSUME at # 0, NEW x, d = [c EXCEPT !.suppressed = c.suppressed \cup {<<x, l>>}]
      PROVE  CppOK(d) /\ SameFilters(c, d) /\ (Local(c, raw_lines) => Local(d, raw_lines))
  <2> HIDE DEF at
  <2> DEFINE S == c.suppressed \cup {<<x, l>>}
  <2>1. DOMAIN c = CppFields /\ c.verbose_level \in Nat /\ c.messages \in Nat
    BY DEF CppOK
  <2>2. at \in 1 .. Len(line) /\ (line[at] = "NOLINT" \/ line[at] = "NOLINTNEXTLINE")
    BY <1>2, <1>5
  <2>3. line[at] = "NOLINT" => Contains(raw_lines[p], "NOLINT")
    <3>1. "NOLINT" # DQ
      BY DEF DQ
    <3>2. QED
      BY <2>2, <3>1, SaysToo, Zenon
  <2>4. line[at] = "NOLINTNEXTLINE" => Contains(raw_lines[p], "NOLINTNEXTLINE")
    <3>1. "NOLINTNEXTLINE" # DQ
      BY DEF DQ
    <3>2. QED
      BY <2>2, <3>1, SaysToo, Zenon
  <2>5. \/ l > 0 /\ Contains(raw_lines[l], "NOLINTNEXTLINE")
        \/ Contains(raw_lines[l + 1], "NOLINT")
    BY <2>2, <2>3, <2>4
  <2> HIDE DEF d, l
  <2>6. DOMAIN d = DOMAIN c /\ d.suppressed = S /\ SameFilters(c, d)
        /\ d.reported = c.reported /\ d.error_count = c.error_count /\ d.errors_by_category = c.errors_by_category
        /\ d.counting = c.counting /\ d.verbose_level = c.verbose_level /\ d.messages = c.messages
    BY <1>5, <2>1 DEF SameFilters, CppFields
  <2>7. CppOK(d)
    BY <2>1, <2>6, CppKept, Zenon
  <2>8. ASSUME Local(c, raw_lines) PROVE Local(d, raw_lines)
    <3>1. <<x, l>>[2] = l
      OBVIOUS
    <3>2. QED
      BY <2>5, <2>6, <2>8, <3>1, Zenon DEF Local
  <2>9. QED
    BY <2>6, <2>7, <2>8, Zenon
<1>6. QED
  BY <1>1, <1>3, <1>4, <1>5, Zenon
-----------------------------------------------------------------------------
(* The header guard. *)

\* The step from c to d keeps the counts right, the filters, and the suppressions of raw_lines local.
Keeps(c, d, raw_lines) == CppOK(d) /\ SameFilters(c, d) /\ (Local(c, raw_lines) => Local(d, raw_lines))

\* Two such steps are one.
LEMMA KeepsOn ==
    ASSUME NEW c, NEW d, NEW e, NEW raw_lines, Keeps(c, d, raw_lines), Keeps(d, e, raw_lines)
    PROVE  Keeps(c, e, raw_lines)
BY Zenon DEF Keeps, SameFilters

\* CheckForHeaderGuard reports errors, and parses the NOLINT of the lines it names.
LEMMA CheckForHeaderGuardKeeps ==
    ASSUME NEW c, CppOK(c), NEW clean \in CleanLines, clean.elided # <<>>, NEW g, NEW disk, NEW filename
    PROVE  Keeps(c, CheckForHeaderGuard(c, g, disk, filename, clean.lines_without_raw_strings), clean.raw_lines)
<1> DEFINE lines == clean.lines_without_raw_strings
           raw_lines == clean.raw_lines
           cppvar == GetHeaderGuardCPPVariable(g, disk, filename)
           ifndef == FirstWithArgument(lines, "#ifndef")
           define == FirstWithArgument(lines, "#define")
           endif == Max({1} \cup {n \in DOMAIN lines : IsPrefix(<<"#endif">>, lines[n])})
           d == CheckForHeaderGuard(c, g, disk, filename, lines)
<1>1. d \in {c, CheckGuard(c, cppvar, lines, ifndef, define, endif)}
  BY Zenon DEF CheckForHeaderGuard
<1>2. /\ lines \in Seq(Line) /\ raw_lines \in Seq(Line) /\ Len(lines) = Len(raw_lines) /\ Len(lines) > 0
      /\ \A n \in 1 .. Len(lines) : ToSet(lines[n]) \subseteq ToSet(raw_lines[n]) \cup {DQ}
  BY DEF CleanLines
<1>3. ifndef \in 0 .. Len(lines)
  <2> DEFINE I == {i \in 1 .. Len(lines) : StartsWith(lines[i], <<"#ifndef">>) /\ Argument(lines[i]) # <<>>}
  <2>1. ifndef = IF I # {} THEN Min(I) ELSE 0
    BY Zenon DEF FirstWithArgument, SelectInSeq
  <2>2. I \in SUBSET (1 .. Len(lines)) /\ Len(lines) \in Nat
    BY <1>2
  <2> HIDE DEF I, lines
  <2>3. QED
    BY <2>1, <2>2, PlaceIs, Zenon
<1>4. endif \in 1 .. Len(lines)
  <2> DEFINE I == {1} \cup {n \in DOMAIN lines : IsPrefix(<<"#endif">>, lines[n])}
  <2>1. I \in SUBSET (0 .. Len(lines)) /\ I # {} /\ \A i \in I : i \in 1 .. Len(lines)
    BY <1>2
  <2>2. Len(lines) \in Nat
    BY <1>2
  <2> HIDE DEF I
  <2>3. Max(I) \in I
    BY <2>1, <2>2, MaxIs
  <2>4. QED
    BY <2>1, <2>3 DEF I
<1>5. \A e : CppOK(e) => \A n \in 1 .. Len(lines) : Keeps(e, ParseNolintSuppressions(e, lines[n], n), raw_lines)
  <2> SUFFICES ASSUME NEW e, CppOK(e), NEW n \in 1 .. Len(lines)
               PROVE  Keeps(e, ParseNolintSuppressions(e, lines[n], n), raw_lines)
    BY Zenon
  <2>1. /\ n \in Nat /\ n > 0 /\ lines[n] \in Line /\ raw_lines[n] \in Line
        /\ ToSet(lines[n]) \subseteq ToSet(raw_lines[n]) \cup {DQ}
    <3> HIDE DEF lines, raw_lines
    <3>1. QED
      BY <1>2
  <2> HIDE DEF lines, raw_lines
  <2>2. QED
    BY <2>1, ParseNolintSuppressionsIs, Zenon DEF Keeps
<1> HIDE DEF lines, raw_lines, cppvar, ifndef, define, endif
<1>6. \A e, x : CppOK(e) => Keeps(e, Error(e, x), raw_lines) /\ Keeps(e, e, raw_lines)
  BY ErrorLocal, Zenon DEF Keeps, SameFilters
<1> DEFINE name == Argument(lines[ifndef])
           named == CheckGuardName(c, cppvar, name, lines[ifndef], ifndef)
           parsed == ParseNolintSuppressions(named, lines[endif], endif)
           ended == CheckGuardEnd(parsed, cppvar, lines, endif)
<1>7. ASSUME ifndef # 0 PROVE Keeps(c, named, raw_lines)
  <2>1. ifndef \in 1 .. Len(lines)
    BY <1>2, <1>3, <1>7
  <2> DEFINE before == ParseNolintSuppressions(c, lines[ifndef], ifndef)
  <2>2. Keeps(c, before, raw_lines)
    BY <1>5, <2>1, Zenon
  <2>3. named = c \/ \E x : named = Error(before, x)
    BY Zenon DEF CheckGuardName
  <2> HIDE DEF before, named
  <2>4. \A x : Keeps(before, Error(before, x), raw_lines)
    BY <1>6, <2>2, Zenon DEF Keeps
  <2>5. QED
    BY <1>6, <2>2, <2>3, <2>4, KeepsOn, Zenon
<1>8. ASSUME ifndef # 0 PROVE Keeps(c, ended, raw_lines)
  <2> HIDE DEF named
  <2>1. Keeps(c, parsed, raw_lines)
    BY <1>4, <1>5, <1>7, <1>8, KeepsOn, Zenon DEF Keeps
  <2> HIDE DEF parsed
  <2>2. ended = parsed \/ \E x : ended = Error(parsed, x)
    BY Zenon DEF CheckGuardEnd
  <2> HIDE DEF ended
  <2>3. Keeps(parsed, ended, raw_lines)
    BY <1>6, <2>1, <2>2, Zenon DEF Keeps
  <2>4. QED
    BY <2>1, <2>3, KeepsOn, Zenon
<1>9. Keeps(c, CheckGuard(c, cppvar, lines, ifndef, define, endif), raw_lines)
  <2>1. CASE ifndef = 0 \/ define = 0 \/ Argument(lines[ifndef]) # Argument(lines[define])
    BY <1>6, <2>1, Zenon DEF CheckGuard
  <2>2. CASE ~(ifndef = 0 \/ define = 0 \/ Argument(lines[ifndef]) # Argument(lines[define]))
    <3>1. CheckGuard(c, cppvar, lines, ifndef, define, endif) = ended
      BY <2>2, Zenon DEF CheckGuard
    <3> HIDE DEF ended
    <3>2. QED
      BY <1>8, <2>2, <3>1, Zenon
  <2>3. QED
    BY <2>1, <2>2
<1>10. QED
  BY <1>1, <1>6, <1>9, Zenon DEF lines, raw_lines
-----------------------------------------------------------------------------
(* The lengths of functions. *)

\* f doubles k times from 1.
Doubles(f, k) == f[0] = 1 /\ \A n \in 1 .. k : f[n] = 2 * f[n - 1]

\* Such a function exists, and all of them agree.
LEMMA DoublesExists ==
    ASSUME NEW k \in Nat
    PROVE  \E f \in [0 .. k -> Nat] : Doubles(f, k)
<1> DEFINE G == [n \in 1 .. k |-> [x \in Nat |-> 2 * x]]
<1>1. \A n \in 1 .. k : \A x \in Nat : G[n][x] = 2 * x
  OBVIOUS
<1> HIDE DEF G
<1>2. \A n \in 1 .. k : \A x \in Nat : G[n][x] \in Nat
  BY <1>1
<1>3. PICK f \in [0 .. k -> Nat] : Course(f, 1, G, k)
  BY <1>2, RecExists, Zenon
<1>4. ASSUME NEW n \in 1 .. k PROVE f[n] = 2 * f[n - 1]
  <2>1. f[n - 1] \in Nat
    OBVIOUS
  <2>2. QED
    BY <1>1, <1>3, <2>1 DEF Course
<1>5. QED
  BY <1>3, <1>4 DEF Course, Doubles

\* There is one such function.
LEMMA DoublesAgree ==
    ASSUME NEW k \in Nat, NEW f, NEW h, Doubles(f, k), Doubles(h, k)
    PROVE  f[k] = h[k]
<1> DEFINE I == {n \in 0 .. k : f[n] = h[n]}
<1>1. 0 \in I
  BY DEF Doubles
<1>2. ASSUME NEW n \in 1 .. k, n - 1 \in I PROVE n \in I
  BY <1>2 DEF Doubles
<1> HIDE DEF I
<1>3. k \in I
  BY <1>1, <1>2, EndHas
<1>4. QED
  BY <1>3 DEF I

\* Pow2 is defined on all numbers, and doubles.
LEMMA Pow2Is == Pow2[0] = 1 /\ \A n \in Nat : Pow2[n] \in Nat /\ Pow2[n + 1] = 2 * Pow2[n]
<1> DEFINE F(n) == CHOOSE f \in [0 .. n -> Nat] : Doubles(f, n)
           h == [n \in Nat |-> F(n)[n]]
           Step(f) == [n \in Nat |-> IF n = 0 THEN 1 ELSE 2 * f[n - 1]]
<1>1. \A n \in Nat : F(n) \in [0 .. n -> Nat] /\ Doubles(F(n), n)
  BY DoublesExists, Zenon
<1> HIDE DEF F
<1>2. ASSUME NEW n \in Nat PROVE h[n] = IF n = 0 THEN 1 ELSE 2 * h[n - 1]
  <2>1. CASE n = 0
    BY <1>1, <2>1 DEF Doubles
  <2>2. CASE n # 0
    <3>1. n - 1 \in Nat /\ n \in 1 .. n
      BY <2>2
    <3>2. Doubles(F(n), n - 1) /\ Doubles(F(n - 1), n - 1)
      BY <1>1, <3>1 DEF Doubles
    <3>3. F(n)[n - 1] = F(n - 1)[n - 1]
      BY <3>1, <3>2, DoublesAgree, Zenon
    <3>4. F(n)[n] = 2 * F(n)[n - 1]
      BY <1>1, <3>1 DEF Doubles
    <3>5. h[n] = F(n)[n] /\ h[n - 1] = F(n - 1)[n - 1]
      BY <3>1
    <3>6. QED
      BY <2>2, <3>3, <3>4, <3>5, Zenon
  <2>3. QED
    BY <2>1, <2>2
<1>3. h = Step(h)
  BY <1>2
<1>4. Pow2 = Step(Pow2)
  <2> HIDE DEF h
  <2>1. \E f : f = Step(f)
    BY <1>3, Zenon
  <2>2. QED
    BY <2>1, Zenon DEF Pow2
<1>5. ASSUME NEW n \in Nat PROVE Pow2[n] \in Nat
  <2>1. \A m \in 1 .. n : Pow2[m - 1] \in Nat => Pow2[m] \in Nat
    BY <1>4
  <2>2. Pow2[0] \in Nat
    BY <1>4
  <2>3. QED
    BY <2>1, <2>2, EndsIn
<1>6. QED
  BY <1>4, <1>5

\* Past 5, the powers are at least 2**5.
LEMMA Pow2Grows ==
    ASSUME NEW v \in Nat, v >= 5
    PROVE  Pow2[5] <= Pow2[v]
<1> DEFINE f == [n \in 0 .. v - 5 |-> Pow2[n + 5]]
           T == {x \in Nat : Pow2[5] <= x}
<1>1. Pow2[5] \in Nat /\ v - 5 \in Nat /\ f[0] = Pow2[5]
  BY Pow2Is
<1>2. ASSUME NEW n \in 1 .. v - 5, f[n - 1] \in T PROVE f[n] \in T
  <2>1. n + 4 \in Nat /\ f[n - 1] = Pow2[n + 4] /\ f[n] = Pow2[n + 5] /\ (n + 4) + 1 = n + 5
    BY <1>1
  <2>2. Pow2[n + 5] = 2 * Pow2[n + 4] /\ Pow2[n + 4] \in Nat
    BY <2>1, Pow2Is
  <2>3. QED
    BY <1>1, <1>2, <2>1, <2>2
<1>3. f[0] \in T
  BY <1>1
<1>4. f[v - 5] = Pow2[v]
  BY <1>1
<1> HIDE DEF f, T
<1>5. f[v - 5] \in T
  BY <1>1, <1>2, <1>3, EndsIn
<1>6. QED
  BY <1>4, <1>5 DEF T

\* More lines than the trigger at verbosity v: the level is at least v, or 5.
LEMMA LevelPasses ==
    ASSUME NEW v \in Nat, NEW lines \in Nat, NEW base \in Nat, lines > base * Pow2[v]
    PROVE  ErrorLevel(lines, base) >= Min({v, 5})
<1> DEFINE I == {0} \cup {k \in 1 .. 5 : lines >= base * Pow2[k]}
           w == IF v <= 5 THEN v ELSE 5
<1>1. ErrorLevel(lines, base) = Max(I)
  BY Zenon DEF ErrorLevel
<1>2. Min({v, 5}) = w
  <2>1. {v, 5} \in SUBSET Nat /\ {v, 5} # {}
    OBVIOUS
  <2>2. Min({v, 5}) \in {v, 5} /\ \A i \in {v, 5} : Min({v, 5}) <= i
    BY <2>1, MinIs
  <2>3. QED
    BY <2>2
<1>3. w \in I
  <2>1. CASE w = 0
    BY <2>1
  <2>2. CASE w # 0
    <3>1. w \in 1 .. 5 /\ Pow2[w] \in Nat /\ Pow2[v] \in Nat
      BY <2>2, Pow2Is
    <3>2. Pow2[w] <= Pow2[v]
      BY <3>1, Pow2Grows
    <3>3. \A x, y \in Nat : x <= y => base * x <= base * y
      OBVIOUS
    <3>4. base * Pow2[w] <= base * Pow2[v] /\ base * Pow2[w] \in Nat /\ base * Pow2[v] \in Nat
      BY <3>1, <3>2, <3>3
    <3>5. QED
      BY <3>1, <3>4
  <2>3. QED
    BY <2>1, <2>2
<1>4. I \in SUBSET (0 .. 5) /\ I # {} /\ \A i \in I : i \in Int
  OBVIOUS
<1> HIDE DEF I, w
<1>5. Max(I) \in I /\ \A i \in I : i <= Max(I)
  BY <1>4, MaxIs
<1>6. w <= Max(I) /\ w \in Int /\ Max(I) \in Int
  BY <1>3, <1>4, <1>5, Zenon
<1>7. QED
  BY <1>1, <1>2, <1>6

\* No more lines are counted than were gone through.
FnOK(fn, k) ==
    DOMAIN fn = {"in_a_function", "lines_in_function", "current_function"} /\ fn.lines_in_function \in 0 .. k

\* CheckForFunctionLengths counts a line at most once, and reports a list.
LEMMA CheckForFunctionLengthsIs ==
    ASSUME NEW k \in Nat, NEW fn, FnOK(fn, k), NEW lines, NEW p, NEW verbose_level
    PROVE  /\ FnOK(CheckForFunctionLengths(fn, lines, p, verbose_level).fn, k + 1)
           /\ IsList(CheckForFunctionLengths(fn, lines, p, verbose_level).errors)
<1> DEFINE r == CheckForFunctionLengths(fn, lines, p, verbose_level)
           name == lines[p][FindToken(lines[p], "(") - 1]
<1>1. r.fn \in {fn, Begin(name), End(fn), CountLine(fn)}
  BY DEF CheckForFunctionLengths
<1>2. r.errors \in {<<>>, <<Err(p, <<"readability", "fn_size">>, 5)>>, Check(fn, p, verbose_level)}
  BY DEF CheckForFunctionLengths
<1> HIDE DEF r, name
<1>3. IsList(Check(fn, p, verbose_level))
  BY ShortList, Zenon DEF Check
<1>4. IsList(r.errors)
  BY <1>2, <1>3, ShortList, Zenon
<1>5. FnOK(fn, k + 1) /\ FnOK(Begin(name), k + 1) /\ FnOK(End(fn), k + 1) /\ FnOK(CountLine(fn), k + 1)
  BY DEF FnOK, Begin, End, CountLine
<1>6. QED
  BY <1>1, <1>4, <1>5, Zenon DEF r
-----------------------------------------------------------------------------
(* The lists of headers. *)

\* No header is twice in the lists of L.
Unique(L) ==
    \A a, b \in DOMAIN L : \A i \in DOMAIN L[a], j \in DOMAIN L[b] :
        L[a][i].header = L[b][j].header => a = b /\ i = j

\* There is a list to add to, and no header is in two of them.
ListsOK(L) == IsList(L) /\ L # <<>> /\ (\A k \in DOMAIN L : IsList(L[k])) /\ Unique(L)

\* The same header is at the same place.
LEMMA UniqueIs ==
    ASSUME NEW L, Unique(L), NEW a \in DOMAIN L, NEW b \in DOMAIN L, NEW i \in DOMAIN L[a], NEW j \in DOMAIN L[b],
           L[a][i].header = L[b][j].header
    PROVE  a = b /\ i = j
BY DEF Unique

\* The same of one list.
Once(s) == \A m, o \in DOMAIN s : s[m].header = s[o].header => m = o

\* Every place of s \o t is one of s or of t.
LEMMA JoinPlaces ==
    ASSUME NEW S, NEW s \in Seq(S), NEW t \in Seq(S), NEW m \in DOMAIN (s \o t)
    PROVE  \/ m \in DOMAIN s /\ (s \o t)[m] = s[m]
           \/ m - Len(s) \in DOMAIN t /\ (s \o t)[m] = t[m - Len(s)]
OBVIOUS

\* Two lists without a common header.
LEMMA JoinOnce ==
    ASSUME NEW S, NEW s \in Seq(S), NEW t \in Seq(S), Once(s), Once(t),
           \A m \in DOMAIN s : \A j \in DOMAIN t : s[m].header # t[j].header
    PROVE  Once(s \o t)
<1> DEFINE u == s \o t
           q == Len(s)
<1> SUFFICES ASSUME NEW m \in DOMAIN u, NEW o \in DOMAIN u, u[m].header = u[o].header PROVE m = o
  BY Zenon DEF Once
<1>1. m \in Int /\ o \in Int /\ q \in Int
  OBVIOUS
<1>2. (m \in DOMAIN s /\ u[m] = s[m]) \/ (m - q \in DOMAIN t /\ u[m] = t[m - q])
  BY JoinPlaces, Zenon
<1>3. (o \in DOMAIN s /\ u[o] = s[o]) \/ (o - q \in DOMAIN t /\ u[o] = t[o - q])
  BY JoinPlaces, Zenon
<1> HIDE DEF u, q
<1>4. m = o \/ m - q = o - q
  BY <1>2, <1>3, Zenon DEF Once
<1>5. QED
  BY <1>1, <1>4

\* Then no header is twice in the lists put together.
LEMMA FlatUnique ==
    ASSUME NEW L, ListsOK(L)
    PROVE  Once(FlattenSeq(L))
<1> DEFINE k == Len(L)
           S == UNION {ToSet(L[n]) : n \in 1 .. k}
<1>1. k \in Nat /\ DOMAIN L = 1 .. k /\ L = [n \in 1 .. k |-> L[n]] /\ \A n \in 1 .. k : IsList(L[n])
  BY DEF ListsOK, IsList
<1>2. ASSUME NEW n \in 1 .. k PROVE L[n] \in Seq(S)
  <2> DEFINE R == ToSet(L[n])
  <2>1. L[n] \in Seq(R)
    BY <1>1, Zenon DEF IsList
  <2>2. R \subseteq S
    OBVIOUS
  <2> HIDE DEF R, S
  <2>3. QED
    BY <2>1, <2>2
<1> HIDE DEF S
<1>3. L \in Seq(Seq(S))
  <2> HIDE DEF k
  <2>1. QED
    BY <1>1, <1>2
<1>4. PICK f : /\ f[0] = <<>> /\ \A n \in 1 .. k : f[n] = f[n - 1] \o L[n]
               /\ FlattenSeq(L) = f[k]
  BY <1>3, FlattenCourse, Zenon
<1> HIDE DEF k
<1> DEFINE Known(n) == \A m \in DOMAIN f[n] : \E a \in 1 .. n : \E i \in DOMAIN L[a] : f[n][m] = L[a][i]
           I == {n \in 0 .. k : f[n] \in Seq(S) /\ Known(n) /\ Once(f[n])}
<1>5. 0 \in I
  <2>1. <<>> \in Seq(S) /\ \A m : m \notin DOMAIN <<>>
    OBVIOUS
  <2>2. 0 \in 0 .. k
    BY <1>1
  <2>3. QED
    BY <1>4, <2>1, <2>2, Zenon DEF Once
<1>6. ASSUME NEW n \in 1 .. k, n - 1 \in I PROVE n \in I
  <2> DEFINE s == f[n - 1]
             t == L[n]
  <2>1. s \in Seq(S) /\ Known(n - 1) /\ Once(s)
    BY <1>6, Zenon
  <2>2. t \in Seq(S) /\ f[n] = s \o t
    BY <1>2, <1>4, Zenon
  <2>3. n \in 0 .. k /\ n \in 1 .. n /\ \A a \in 1 .. n - 1 : a \in 1 .. n /\ a # n /\ a \in 1 .. k
    BY <1>1
  <2>4. \A m \in DOMAIN s : \E a \in 1 .. n - 1 : \E i \in DOMAIN L[a] : s[m] = L[a][i]
    BY <2>1, Zenon
  <2>5. ASSUME NEW m \in DOMAIN s, NEW j \in DOMAIN t, s[m].header = t[j].header PROVE FALSE
    <3>1. PICK a \in 1 .. n - 1 : \E i \in DOMAIN L[a] : s[m] = L[a][i]
      BY <2>4, Zenon
    <3>2. PICK i \in DOMAIN L[a] : s[m] = L[a][i]
      BY <3>1, Zenon
    <3>3. a \in DOMAIN L /\ n \in DOMAIN L /\ a # n /\ L[a][i].header = L[n][j].header
      BY <1>1, <2>3, <2>5, <3>2, Zenon
    <3>4. QED
      BY <3>3, UniqueIs, Zenon DEF ListsOK
  <2>6. Once(t)
    <3>1. n \in DOMAIN L /\ Unique(L)
      BY <1>1, Zenon DEF ListsOK
    <3>2. QED
      BY <3>1, UniqueIs, Zenon DEF Once
  <2> HIDE DEF s
  <2>7. Once(s \o t)
    BY <2>1, <2>2, <2>5, <2>6, JoinOnce, Zenon
  <2>8. Known(n)
    <3> SUFFICES ASSUME NEW m \in DOMAIN (s \o t)
                 PROVE  \E a \in 1 .. n : \E i \in DOMAIN L[a] : (s \o t)[m] = L[a][i]
      BY <2>2, Zenon
    <3>1. \/ m \in DOMAIN s /\ (s \o t)[m] = s[m]
          \/ m - Len(s) \in DOMAIN t /\ (s \o t)[m] = t[m - Len(s)]
      BY <2>1, <2>2, JoinPlaces, Zenon
    <3>2. QED
      BY <2>3, <2>4, <3>1, Zenon
  <2>9. s \o t \in Seq(S)
    BY <2>1, <2>2
  <2>10. QED
    BY <2>2, <2>3, <2>7, <2>8, <2>9, Zenon
<1> HIDE DEF I
<1>7. k \in I
  BY <1>1, <1>5, <1>6, EndHas
<1>8. QED
  BY <1>4, <1>7, Zenon DEF I

\* A change that empties lists or adds empty ones.
LEMMA EmptiedUnique ==
    ASSUME NEW L, NEW M, Unique(L), \A n \in DOMAIN M : M[n] = <<>> \/ (n \in DOMAIN L /\ M[n] = L[n])
    PROVE  Unique(M)
<1>1. \A m : m \notin DOMAIN <<>>
  OBVIOUS
<1> SUFFICES ASSUME NEW a \in DOMAIN M, NEW b \in DOMAIN M, NEW i \in DOMAIN M[a], NEW j \in DOMAIN M[b],
                    M[a][i].header = M[b][j].header
             PROVE  a = b /\ i = j
  BY Zenon DEF Unique
<1>2. a \in DOMAIN L /\ M[a] = L[a] /\ b \in DOMAIN L /\ M[b] = L[b]
  BY <1>1, Zenon
<1>3. i \in DOMAIN L[a] /\ j \in DOMAIN L[b] /\ L[a][i].header = L[b][j].header
  BY <1>2
<1>4. QED
  BY <1>2, <1>3, UniqueIs

\* A header that is in no list can go into the last one.
LEMMA AddToLast ==
    ASSUME NEW L, ListsOK(L), NEW e, \A a \in DOMAIN L : \A i \in DOMAIN L[a] : L[a][i].header # e.header
    PROVE  ListsOK([L EXCEPT ![Len(L)] = Append(L[Len(L)], e)])
<1> DEFINE k == Len(L)
           t == L[k]
           longer == Append(t, e)
           q == Len(t)
           M == [L EXCEPT ![k] = longer]
<1>1. k \in DOMAIN L /\ IsList(t)
  BY DEF ListsOK, IsList
<1>2. /\ q \in Nat /\ DOMAIN t = 1 .. q /\ DOMAIN longer = 1 .. q + 1
      /\ longer[q + 1] = e /\ \A i \in 1 .. q : longer[i] = t[i]
  BY <1>1 DEF IsList
<1>3. IsList(longer)
  BY <1>1, LongerList, Zenon
<1>4. IsList(M)
  BY ChangedList, Zenon DEF ListsOK
<1> HIDE DEF longer, k, q
<1>5. DOMAIN M = DOMAIN L /\ M[k] = longer /\ \A a \in DOMAIN L : a # k => M[a] = L[a]
  BY <1>1, Zenon
<1>6. M # <<>>
  BY <1>1, <1>5
<1> HIDE DEF M
<1>7. \A a \in DOMAIN M : IsList(M[a])
  BY <1>3, <1>5, Zenon DEF ListsOK
<1>8. \A i \in 1 .. q + 1 : i \in 1 .. q \/ i = q + 1
  BY <1>2
<1>9. \A a \in DOMAIN M : \A i \in DOMAIN M[a] :
          (i \in DOMAIN L[a] /\ M[a][i] = L[a][i]) \/ (a = k /\ i = q + 1 /\ M[a][i] = e)
  BY <1>2, <1>5, <1>8, Zenon
<1>10. Unique(M)
  <2> SUFFICES ASSUME NEW a \in DOMAIN M, NEW b \in DOMAIN M, NEW i \in DOMAIN M[a], NEW j \in DOMAIN M[b],
                      M[a][i].header = M[b][j].header
               PROVE  a = b /\ i = j
    BY Zenon DEF Unique
  <2>1. (i \in DOMAIN L[a] /\ M[a][i] = L[a][i]) \/ (a = k /\ i = q + 1 /\ M[a][i] = e)
    BY <1>9, Zenon
  <2>2. (j \in DOMAIN L[b] /\ M[b][j] = L[b][j]) \/ (b = k /\ j = q + 1 /\ M[b][j] = e)
    BY <1>9, Zenon
  <2>3. a \in DOMAIN L /\ b \in DOMAIN L /\ Unique(L)
    BY <1>5, Zenon DEF ListsOK
  <2>4. CASE i \in DOMAIN L[a] /\ M[a][i] = L[a][i] /\ j \in DOMAIN L[b] /\ M[b][j] = L[b][j]
    <3>1. L[a][i].header = L[b][j].header
      BY <2>4
    <3>2. QED
      BY <2>3, <2>4, <3>1, UniqueIs
  <2>5. QED
    BY <2>1, <2>2, <2>3, <2>4, Zenon
<1>11. QED
  BY <1>4, <1>6, <1>7, <1>10, Zenon DEF ListsOK, M, longer, k
=============================================================================
