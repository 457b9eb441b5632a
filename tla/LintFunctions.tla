--------------------------- MODULE LintFunctions ---------------------------
(***************************************************************************)
(* build_support/cpplint.py: the length of functions.  lines are the lines *)
(* without comments; "TEST" is the name of a test macro and "API" a name   *)
(* in capitals.                                                            *)
(***************************************************************************)
EXTENDS LintText

CONSTANTS NormalTrigger,  \* lines at verbosity 0 (250)
          TestTrigger     \* lines of a test at verbosity 0 (400)

ASSUME FunctionsAssumption == NormalTrigger \in Nat \ {0} /\ TestTrigger \in Nat \ {0}

_FunctionState == [in_a_function |-> FALSE, lines_in_function |-> 0, current_function |-> ""]

Begin(name) == [in_a_function |-> TRUE, lines_in_function |-> 0, current_function |-> name]

CountLine(fn) == IF fn.in_a_function THEN [fn EXCEPT !.lines_in_function = @ + 1] ELSE fn

End(fn) == [fn EXCEPT !.in_a_function = FALSE]

BaseTrigger(fn) == IF fn.current_function = "TEST" THEN TestTrigger ELSE NormalTrigger

\* 2**n
Pow2[n \in Nat] == IF n = 0 THEN 1 ELSE 2 * Pow2[n - 1]

\* Mutant: one level too low.
ErrorLevel_OneLess(lines, base) == Max({0} \cup {k \in 1 .. 5 : lines >= base * Pow2[k + 1]})

\* int(log2(lines / base)) for more lines than base, and at most 5.
ErrorLevel(lines, base) == Max({0} \cup {k \in 1 .. 5 : lines >= base * Pow2[k]})

Check(fn, p, verbose_level) ==
    IF fn.in_a_function /\ fn.lines_in_function > BaseTrigger(fn) * Pow2[verbose_level]
    THEN <<Err(p, <<"readability", "fn_size">>, ErrorLevel(fn.lines_in_function, BaseTrigger(fn)))>>
    ELSE <<>>

\* Words from the first column on, up to the first parenthesis; the last one is the
\* name, and a name in capitals is taken for a macro unless it is TEST.
StartsFunction(line) ==
    LET open == FindToken(line, "(")
        macro == line[open - 1] = "API" /\ (open = 2 \/ line[open - 2] # "::")
    IN  /\ open > 1 /\ line[1] \in Words
        /\ \A n \in 1 .. open - 1 : line[n] \in Words \cup {"::"}
        /\ ~macro

\* What the first line that has a brace or a semicolon says of the function.
BodyStart(lines, p) ==
    LET decided == {n \in p .. Len(lines) : ToSet(lines[n]) \cap {";", "}", "{"} # {}}
    IN  IF decided = {} THEN "missing"
        ELSE IF ToSet(lines[Min(decided)]) \cap {";", "}"} # {} THEN "ignored"
        ELSE "body"

\* The new state and the errors.
CheckForFunctionLengths(fn, lines, p, verbose_level) ==
    LET line == lines[p]
        found == BodyStart(lines, p)
        name == line[FindToken(line, "(") - 1]
    IN  CASE StartsFunction(line) ->
               [fn |-> IF found = "body" THEN Begin(name) ELSE fn,
                errors |-> IF found = "missing"
                           THEN <<Err(p, <<"readability", "fn_size">>, 5)>> ELSE <<>>]
          [] ~StartsFunction(line) /\ line = <<"}">> ->
               [fn |-> End(fn), errors |-> Check(fn, p, verbose_level)]
          [] ~StartsFunction(line) /\ line # <<"}">> ->
               [fn |-> IF LStrip(line) = <<>> THEN fn ELSE CountLine(fn), errors |-> <<>>]
=============================================================================
