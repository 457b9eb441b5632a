------------------------------ MODULE LintText ------------------------------
(***************************************************************************)
(* build_support/cpplint.py: how comments, strings and raw strings are     *)
(* taken out of the lines before any rule looks at them.                   *)
(*                                                                         *)
(* A line is a sequence of tokens.  The ones this module tells apart:      *)
(*   DQ  a double quote        SQ  a single quote    ESC  \" (an escape)   *)
(*   RAW R"( opens and END )" closes a raw string, each with a quote in it *)
(*   "//", "/*", "*/"  comment marks        NUM  a number                  *)
(* Every other token stands for a word; two words have a space between     *)
(* them, other neighbours do not.  " " stands for one space of indentation *)
(* at the beginning of a line.                                             *)
(***************************************************************************)
EXTENDS Integers, Sequences, SequencesExt

\* What a rule reports about the line at position p, which has number p - 1.
Err(p, category, confidence) ==
    [line |-> p - 1, category |-> category, confidence |-> confidence]

DQ == "\""
SQ == "'"
ESC == "\\\""
RAW == "R\"("
END == ")\""
NUM == "1"

Words == {"x", "API", "TEST", "class", "struct", "namespace", "template", "asm", "extern", "operator",
          "std", "string", "vector", "max", NUM}

\* "#if" stands for #if and #ifdef too, "#else" for #elif too.
Directives == {"#include", "#if", "#ifndef", "#else", "#endif", "#define", "#pragma"}

\* str.find: the first place of token t, or 0.
FindToken(line, t) == SelectInSeq(line, LAMBDA u : u = t)

From(line, n) == SubSeq(line, n, Len(line))
Until(line, n) == SubSeq(line, 1, n - 1)

FirstIn(S, otherwise) == IF S = {} THEN otherwise ELSE Min(S)

\* The number of leading spaces; none if there is nothing else.
GetIndentLevel(line) == FirstIn({n \in DOMAIN line : line[n] # " "}, 1) - 1

LStrip(line) == IF ToSet(line) \subseteq {" "} THEN <<>> ELSE From(line, GetIndentLevel(line) + 1)

StartsWith(line, text) == IsPrefix(text, LStrip(line))

RStrip(line) == IF ToSet(line) \subseteq {" "} THEN <<>> ELSE line

\* How many double quotes there are, leaving out escapes and '"'.
CountQuotes(line) ==
    Cardinality({n \in DOMAIN line : line[n] \in {DQ, RAW, END}})
    - Cardinality({n \in 2 .. Len(line) - 1 :
                     line[n] = DQ /\ line[n - 1] = SQ /\ line[n + 1] = SQ})

IsCppString(line) == CountQuotes(line) % 2 = 1
-----------------------------------------------------------------------------
(* CleanseRawStrings *)

\* Where each quote of the line is open: "" outside, else the quote to be closed.
OpenQuote(line) ==
    LET open[n \in 0 .. Len(line)] ==
          IF n = 0 THEN ""
          ELSE LET o == open[n - 1]
                   q == IF line[n] \in {RAW, END} THEN DQ ELSE line[n]
               IN  IF o = "" /\ q \in {DQ, SQ} THEN q ELSE IF q = o THEN "" ELSE o
    IN  open

\* The text has a // that no string and no character literal contains.
InLineComment(line) ==
    LET open == OpenQuote(line)
    IN  \E n \in DOMAIN line : line[n] = "//" /\ open[n - 1] = ""

\* Inside a raw string: drop everything up to its end, if that is on this line.
CloseRawString(line) ==
    LET end == FindToken(line, END)
    IN  IF end = 0 THEN [open |-> TRUE, line |-> <<DQ, DQ>>]
                   ELSE [open |-> FALSE, line |-> <<DQ, DQ>> \o From(line, end + 1)]

\* Mutant: a raw string may begin in a comment.
ReplaceRawString_InComment(s) ==
    LET begin == FindToken(s.line, RAW)
        rest == CloseRawString(From(s.line, begin + 1))
    IN  IF s.open \/ begin = 0 THEN s
        ELSE [open |-> rest.open, line |-> Until(s.line, begin) \o rest.line]

\* One round of the loop: the first raw string becomes "".
ReplaceRawString(s) ==
    LET begin == FindToken(s.line, RAW)
        rest == CloseRawString(From(s.line, begin + 1))
    IN  IF s.open \/ begin = 0 \/ InLineComment(Until(s.line, begin))
        THEN s
        ELSE [open |-> rest.open, line |-> Until(s.line, begin) \o rest.line]

Iterate(F(_), s, times) ==
    LET f[n \in 0 .. times] == IF n = 0 THEN s ELSE F(f[n - 1]) IN f[times]

CleanseRawLine(open, line) ==
    LET s == IF open THEN CloseRawString(line) ELSE [open |-> FALSE, line |-> line]
    IN  Iterate(ReplaceRawString, s, Len(line))

CleanseRawStrings(raw_lines) ==
    LET f[n \in 0 .. Len(raw_lines)] ==
          IF n = 0 THEN [open |-> FALSE, line |-> <<>>]
                   ELSE CleanseRawLine(f[n - 1].open, raw_lines[n])
    IN  [n \in DOMAIN raw_lines |-> f[n].line]
-----------------------------------------------------------------------------
(* Comments.  Line numbers count from 1 here, as positions of a sequence.   *)

\* A line that begins with a comment which does not end on it.
FindNextMultiLineCommentStart(lines, lineix) ==
    FirstIn({n \in lineix .. Len(lines) :
                StartsWith(lines[n], <<"/*">>) /\ ~Contains(lines[n], "*/")},
            Len(lines) + 1)

\* A line that ends with the mark.
FindNextMultiLineCommentEnd(lines, lineix) ==
    FirstIn({n \in lineix .. Len(lines) : IsSuffix(<<"*/">>, lines[n])}, Len(lines) + 1)

RemoveMultiLineCommentsFromRange(lines, begin, end) ==
    [n \in DOMAIN lines |-> IF n \in begin .. end THEN <<"/*", "*/">> ELSE lines[n]]

\* One round of the loop.
RemoveMultiLineComment(s) ==
    LET begin == FindNextMultiLineCommentStart(s.lines, s.lineix)
        end == FindNextMultiLineCommentEnd(s.lines, begin)
    IN  IF s.unclosed # 0 \/ begin > Len(s.lines) THEN s
        ELSE IF end > Len(s.lines) THEN [s EXCEPT !.unclosed = begin]
        ELSE [s EXCEPT !.lines = RemoveMultiLineCommentsFromRange(@, begin, end), !.lineix = end + 1]

\* The lines, and the line of a comment that is not closed (0 if there is none).
RemoveMultiLineComments(raw_lines) ==
    Iterate(RemoveMultiLineComment, [lines |-> raw_lines, lineix |-> 1, unclosed |-> 0], Len(raw_lines))

\* The first /* ... */ on the line goes, and the space before it unless a word follows.
RemoveComment(line) ==
    LET begin == FindToken(line, "/*")
        end == FindToken(From(line, begin), "*/")
        rest == From(line, begin + end)
        joined == rest # <<>> /\ Head(rest) \in Words
    IN  IF begin = 0 \/ end = 0 THEN line
        ELSE (IF joined THEN Until(line, begin) ELSE RStrip(Until(line, begin))) \o rest

CleanseComments(line) ==
    LET slashes == FindToken(line, "//")
        code == IF slashes # 0 /\ ~IsCppString(Until(line, slashes))
                THEN RStrip(Until(line, slashes)) ELSE line
    IN  Iterate(RemoveComment, code, Len(line))
-----------------------------------------------------------------------------
(* _CollapseStrings *)

\* How far a number with digit separators goes on after its first quote.
LiteralLength(line) ==
    LET end == SelectInSeq([n \in DOMAIN line |->
                   IF n % 2 = 1 THEN line[n] = SQ ELSE line[n] \in Words], LAMBDA ok : ~ok)
        len == IF end = 0 THEN Len(line) ELSE end - 1
    IN  len - (len % 2)

\* One round of the loop on what is left: the first quote and what it opens.
CollapseString(s) ==
    LET at == SelectInSeq(s.elided, LAMBDA t : t \in {DQ, SQ, RAW, END})
        quote == IF s.elided[at] = SQ THEN {SQ} ELSE {DQ, RAW, END}
        tail == From(s.elided, at + 1)
        second_quote == SelectInSeq(tail, LAMBDA t : t \in quote)
        literal == LiteralLength(From(s.elided, at))
    IN  CASE s.done -> s
          [] ~s.done /\ at = 0 -> [s EXCEPT !.collapsed = @ \o s.elided, !.done = TRUE]
          \* a digit separator: the rest of the literal joins the number
          [] ~s.done /\ at > 1 /\ s.elided[at] = SQ /\ s.elided[at - 1] = NUM /\ literal > 0 ->
               [s EXCEPT !.collapsed = @ \o Until(s.elided, at),
                         !.elided = From(s.elided, at + literal)]
          [] OTHER ->
               IF second_quote = 0 THEN [s EXCEPT !.collapsed = @ \o s.elided, !.done = TRUE]
               ELSE [s EXCEPT !.collapsed = @ \o Until(s.elided, at)
                                              \o (IF quote = {SQ} THEN <<SQ, SQ>> ELSE <<DQ, DQ>>),
                              !.elided = From(tail, second_quote + 1)]

\* Escaped characters go before quotes are looked at.
WithoutEscapes(line) == FlattenSeq([n \in DOMAIN line |-> IF line[n] = ESC THEN <<>> ELSE <<line[n]>>])

_CollapseStrings(line) ==
    IF line # <<>> /\ Head(line) = "#include" THEN line
    ELSE Iterate(CollapseString, [collapsed |-> <<>>, elided |-> WithoutEscapes(line), done |-> FALSE],
                 Len(line) + 1).collapsed

Elide(line) == CleanseComments(_CollapseStrings(line))

\* The four copies of the lines that the rules read.
Copies(lines, without_raw_strings) ==
    [raw_lines |-> lines,
     lines_without_raw_strings |-> without_raw_strings,
     lines |-> [n \in DOMAIN lines |-> CleanseComments(without_raw_strings[n])],
     elided |-> [n \in DOMAIN lines |-> Elide(without_raw_strings[n])]]

CleansedLines(lines) == Copies(lines, CleanseRawStrings(lines))
=============================================================================
