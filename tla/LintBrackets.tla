---------------------------- MODULE LintBrackets ----------------------------
(***************************************************************************)
(* build_support/cpplint.py: which bracket closes which.  The tokens are   *)
(* the brackets, ";", "-", "=", "operator" and words; spaces are left out. *)
(* A position is a pair of a line and a place on it, both from 1.          *)
(***************************************************************************)
EXTENDS Integers, Sequences, SequencesExt

Opens == {"(", "[", "{"}
Closes == {")", "]", "}"}
Pair == {<<"(", ")">>, <<"[", "]">>, <<"{", "}">>, <<"<", ">">>}

Top(stack) == IF stack = <<>> THEN "none" ELSE Last(stack)

\* Mutant: a stray < stays on the stack when a parenthesis closes.
PopAll_Nothing(stack, t) == stack

\* Pop every t from the top: angle brackets that were operators after all.
PopAll(stack, t) == SubSeq(stack, 1, SelectLastInSeq(stack, LAMBDA u : u # t))

\* The state of a scan: still going with a stack, at the match, or given up.
Going(stack) == [at |-> 0, stack |-> stack, failed |-> FALSE]
Found(i) == [at |-> i, stack |-> <<>>, failed |-> FALSE]
Failed == [at |-> 0, stack |-> <<>>, failed |-> TRUE]

\* After a pop: the expression ends here if nothing is open any more.
Popped(stack, i) == IF Len(stack) = 1 THEN Found(i) ELSE Going(Front(stack))

\* Nothing is open any more, and nothing was closed.
GoingUnlessEmpty(stack) == IF stack = <<>> THEN Failed ELSE Going(stack)

Before(line, i, t) == i > 1 /\ line[i - 1] = t

\* A bracket of the other direction, on the stack without the angle brackets at its top.
Closing(stack, i, partner) ==
    IF stack # <<>> /\ Last(stack) = partner THEN Popped(stack, i) ELSE Failed

OpenerOf == [c \in Closes |-> CHOOSE o \in Opens : <<o, c>> \in Pair]
CloserOf == [o \in Opens |-> CHOOSE c \in Closes : <<o, c>> \in Pair]

\* What the token at place i does to the stack, going forward.
ScanForward(line, i, stack) ==
    LET t == line[i] IN
    CASE t \in Opens -> Going(Append(stack, t))
      [] t = "<" /\ Before(line, i, "<") ->
           IF Top(stack) # "<" THEN Going(stack)
           ELSE GoingUnlessEmpty(Front(stack))
      [] t = "<" /\ Before(line, i, "operator") -> Going(stack)
      [] t = "<" /\ ~Before(line, i, "<") /\ ~Before(line, i, "operator") ->
           Going(Append(stack, t))
      [] t \in Closes -> Closing(PopAll(stack, "<"), i, OpenerOf[t])
      [] t = ">" ->
           IF Before(line, i, "-") \/ (i > 2 /\ line[i - 2] = "operator") \/ Top(stack) # "<"
           THEN Going(stack) ELSE Popped(stack, i)
      [] t = ";" -> GoingUnlessEmpty(PopAll(stack, "<"))
      [] OTHER -> Going(stack)

\* One line, from startpos, until the match, a contradiction or the end of the line.
FindEndOfExpressionInLine(line, startpos, stack) ==
    LET f[i \in startpos - 1 .. Len(line)] ==
          IF i = startpos - 1 THEN Going(stack)
          ELSE IF f[i - 1].at # 0 \/ f[i - 1].failed THEN f[i - 1]
          ELSE ScanForward(line, i, f[i - 1].stack)
    IN  f[Len(line)]

Nowhere == <<0, 0>>

Place(end) == IF end.scan.at = 0 THEN Nowhere ELSE <<end.on, end.scan.at>>

\* The place of the bracket that closes the one at <<linenum, pos>>.
CloseExpression(lines, linenum, pos) ==
    LET line == lines[linenum]
        f[n \in linenum .. Len(lines)] ==
          IF n = linenum THEN [scan |-> FindEndOfExpressionInLine(line, pos, <<>>), on |-> n]
          ELSE IF f[n - 1].scan.stack = <<>> THEN f[n - 1]
          ELSE [scan |-> FindEndOfExpressionInLine(lines[n], 1, f[n - 1].scan.stack), on |-> n]
    IN  IF \/ line[pos] \notin Opens \cup {"<"}
           \/ line[pos] = "<" /\ pos < Len(line) /\ line[pos + 1] \in {"<", "="}
        THEN Nowhere ELSE Place(f[Len(lines)])

\* What the token at place i does to the stack, going backward, and whether the
\* token before it is passed over too.
ScanBackward(line, i, stack) ==
    LET t == line[i] IN
    CASE t \in Closes -> Going(Append(stack, t))
      [] t = ">" -> IF Before(line, i, "-") \/ Before(line, i, "operator")
                    THEN Going(stack) ELSE Going(Append(stack, t))
      [] t = "<" -> IF Before(line, i, "<") \/ Top(stack) # ">"
                    THEN Going(stack) ELSE Popped(stack, i)
      [] t \in Opens -> Closing(PopAll(stack, ">"), i, CloserOf[t])
      [] t = ";" -> GoingUnlessEmpty(PopAll(stack, ">"))
      [] OTHER -> Going(stack)

SkipsTwo(line, i) ==
    \/ line[i] = ">" /\ (Before(line, i, "-") \/ Before(line, i, "operator"))
    \/ line[i] = "<" /\ Before(line, i, "<")

FindStartOfExpressionInLine(line, endpos, stack) ==
    LET \* f[k]: the scan when k tokens are left to look at, and where it stands
        f[k \in 0 .. endpos] ==
          IF k = endpos THEN [scan |-> Going(stack), next |-> endpos]
          ELSE LET p == f[k + 1] IN
               IF p.scan.at # 0 \/ p.scan.failed \/ p.next # k + 1 THEN p
               ELSE [scan |-> ScanBackward(line, k + 1, p.scan.stack),
                     next |-> IF SkipsTwo(line, k + 1) THEN k - 1 ELSE k]
    IN  f[0].scan

\* The place of the bracket that opens the one at <<linenum, pos>>.
ReverseCloseExpression(lines, linenum, pos) ==
    LET f[n \in 1 .. linenum] ==
          IF n = linenum
          THEN [scan |-> FindStartOfExpressionInLine(lines[n], pos, <<>>), on |-> n]
          ELSE IF f[n + 1].scan.stack = <<>> THEN f[n + 1]
          ELSE [scan |-> FindStartOfExpressionInLine(lines[n], Len(lines[n]), f[n + 1].scan.stack),
                on |-> n]
    IN  IF lines[linenum][pos] \notin Closes \cup {">"} THEN Nowhere ELSE Place(f[1])
=============================================================================
