--------------------------- MODULE LintReference ---------------------------
(***************************************************************************)
(* What cpplint's text processing is measured against: the lexical         *)
(* structure of C++ that LintText's tokens have, and balanced brackets.    *)
(* Nothing here comes from build_support/cpplint.py.                       *)
(***************************************************************************)
EXTENDS LintText, LintBrackets

\* The state of a C++ lexer after token t.
Lex(state, t) ==
    CASE state = "code" ->
           (CASE t = DQ -> "string" [] t = SQ -> "char" [] t = RAW -> "raw" [] t = END -> "string"
              [] t = "//" -> "line" [] t = "/*" -> "block" [] OTHER -> "code")
      [] state = "string" -> IF t \in {DQ, RAW, END} THEN "code" ELSE "string"
      [] state = "char" -> IF t = SQ THEN "code" ELSE "char"
      [] state = "raw" -> IF t = END THEN "code" ELSE "raw"
      [] state = "block" -> IF t = "*/" THEN "code" ELSE "block"
      [] state = "line" -> "line"

\* The state before every line and, on it, after every token; only raw strings and block
\* comments go on to the next line.
LexLine(state, line) ==
    LET f[n \in 0 .. Len(line)] == IF n = 0 THEN state ELSE Lex(f[n - 1], line[n]) IN f

LexLines(lines) ==
    LET f[n \in DOMAIN lines] ==
          LET last == IF n = 1 THEN "code" ELSE f[n - 1][Len(lines[n - 1])]
          IN  LexLine(IF last \in {"raw", "block"} THEN last ELSE "code", lines[n])
    IN  f

CodeWords(states, line) ==
    LET code == SelectSeq([n \in DOMAIN line |-> n],
                          LAMBDA n : states[n] = "code" /\ states[n - 1] = "code" /\ line[n] \in Words)
    IN  [k \in DOMAIN code |-> line[code[k]]]

\* Text that follows the conventions cpplint relies on: strings end on their line, a block
\* comment of several lines begins its first and ends its last line, no line inside a raw
\* string begins as a block comment does, and block comments hold no marks of strings.
Conventional(lines) ==
    LET lex == LexLines(lines)
        After(n) == lex[n][Len(lines[n])]
        Ends == {"code", "line", "block", "raw"}
        Allowed(state, t) ==
            CASE state = "block" -> t \in Words \cup {"/*", "*/"}
              [] state = "raw" -> t \in Words \cup {DQ, "//", "/*", "*/", END}
              [] state = "code" -> t \notin {"*/", END, ESC}
              [] state = "char" -> t \in Words \cup {DQ, SQ}
              [] state = "string" -> t \notin {SQ, RAW, END}
              [] state = "line" -> TRUE
    IN  /\ After(Len(lines)) \notin {"block", "raw"}
        /\ \A n \in DOMAIN lines :
             /\ After(n) \in Ends
             /\ \A k \in DOMAIN lines[n] : Allowed(lex[n][k - 1], lines[n][k])
             /\ lex[n][0] = "raw" => ~IsPrefix(<<"/*">>, lines[n])
             /\ After(n) = "block" => lex[n][0] = "block" \/ lines[n][1] = "/*"
             /\ lex[n][0] = "block" /\ Contains(lines[n], "*/") => FindToken(lines[n], "*/") = Len(lines[n])
-----------------------------------------------------------------------------
Positions(lines) == UNION {{n} \X DOMAIN lines[n] : n \in DOMAIN lines}

At(lines, p) == lines[p[1]][p[2]]

NotAfter(p, q) == p[1] < q[1] \/ (p[1] = q[1] /\ p[2] <= q[2])

\* The text from p to q.
TextBetween(lines, p, q) ==
    FlattenSeq([n \in 1 .. q[1] - p[1] + 1 |->
        LET line == lines[p[1] + n - 1]
        IN  SubSeq(line, IF n = 1 THEN p[2] ELSE 1, IF n = q[1] - p[1] + 1 THEN q[2] ELSE Len(line))])

\* Take out pairs of neighbours until none is left.
RemovePair(w) ==
    LET k == FirstIn({n \in 1 .. Len(w) - 1 : <<w[n], w[n + 1]>> \in Pair}, 0)
    IN  IF k = 0 THEN w ELSE SubSeq(w, 1, k - 1) \o From(w, k + 2)

Balanced(text) ==
    LET brackets == SelectSeq(text, LAMBDA t : \E b \in Pair : t \in {b[1], b[2]})
    IN  Iterate(RemovePair, brackets, Len(brackets)) = <<>>

\* q closes the bracket at p.
Encloses(lines, p, q) ==
    /\ NotAfter(p, q) /\ <<At(lines, p), At(lines, q)>> \in Pair
    /\ Balanced(TextBetween(lines, p, q))
    /\ \A r \in Positions(lines) :
         NotAfter(p, r) /\ NotAfter(r, q) /\ r # q => ~Balanced(TextBetween(lines, p, r))

\* No operator that looks like an angle bracket, and no statement between p and q.
Simple(lines, p, q) ==
    /\ \A r \in Positions(lines) :
         /\ At(lines, r) \notin {"operator", "-", "="}
         /\ r[2] > 1 => <<lines[r[1]][r[2] - 1], At(lines, r)>> # <<"<", "<">>
    /\ \A r \in Positions(lines) : NotAfter(p, r) /\ NotAfter(r, q) => At(lines, r) # ";"
=============================================================================
