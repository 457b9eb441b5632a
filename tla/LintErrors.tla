---------------------------- MODULE LintErrors -----------------------------
(***************************************************************************)
(* build_support/cpplint.py: _CppLintState and the suppressions, that is   *)
(* what happens to an error between the rule that finds it and the output. *)
(*                                                                         *)
(* A category is the sequence of its words: build/include_alpha is         *)
(* <<"build", "include", "alpha">>, so that startswith is IsPrefix.  A     *)
(* filter is a sign and such a prefix.                                     *)
(***************************************************************************)
EXTENDS LintText

CONSTANTS ErrorCategories,    \* what stands in parentheses after NOLINT |-> the category
          LegacyCategories,   \* what may stand there and has no effect
          UnknownCategories   \* what should not stand there

ASSUME ErrorsAssumption == "(*)" \notin DOMAIN ErrorCategories \cup LegacyCategories

Filter(sign, prefix) == [sign |-> sign, prefix |-> prefix]

_DEFAULT_FILTERS == <<Filter("-", <<"build", "include", "alpha">>)>>

\* suppressed holds pairs of a category and a line; AnyCategory stands for None.
AnyCategory == <<>>

_CppLintState ==
    [verbose_level |-> 1, error_count |-> 0, filters |-> _DEFAULT_FILTERS,
     _filters_backup |-> _DEFAULT_FILTERS, counting |-> "total", errors_by_category |-> <<>>,
     quiet |-> FALSE, output_format |-> "emacs", messages |-> 0, reported |-> <<>>,
     suppressed |-> {}, global |-> {}]
-----------------------------------------------------------------------------
(* Filters. *)

\* Every filter starts with + or -, or AddFilters raises a ValueError.
FiltersValid(filters) == \A n \in DOMAIN filters : filters[n].sign \in {"+", "-"}

AddFilters(cpp, filters) == [cpp EXCEPT !.filters = @ \o filters]

SetFilters(cpp, filters) == AddFilters([cpp EXCEPT !.filters = _DEFAULT_FILTERS], filters)

BackupFilters(cpp) == [cpp EXCEPT !._filters_backup = cpp.filters]

\* Mutant: the backup is not read.
RestoreFilters_Not(cpp) == cpp

RestoreFilters(cpp) == [cpp EXCEPT !.filters = cpp._filters_backup]

\* The last filter that applies decides.
IsFiltered(filters, category) ==
    LET applying == {n \in DOMAIN filters : IsPrefix(filters[n].prefix, category)}
    IN  applying # {} /\ filters[Max(applying)].sign = "-"
-----------------------------------------------------------------------------
(* Suppressions. *)

\* Mutant: what one file suppressed stays suppressed.
ResetNolintSuppressions_GlobalOnly(cpp) == [cpp EXCEPT !.global = {}]

ResetNolintSuppressions(cpp) == [cpp EXCEPT !.suppressed = {}, !.global = {}]

IsErrorSuppressedByNolint(cpp, category, line) ==
    \/ category \in cpp.global
    \/ <<category, line>> \in cpp.suppressed
    \/ <<AnyCategory, line>> \in cpp.suppressed

ProcessGlobalSuppresions(cpp, lines) ==
    LET Says(t) == \E n \in DOMAIN lines : Contains(lines[n], t)
    IN  [cpp EXCEPT !.global = @
            \cup (IF Says("LINT_C_FILE") THEN {<<"readability", "casting">>} ELSE {})
            \cup (IF Says("LINT_KERNEL_FILE") THEN {<<"whitespace", "tab">>} ELSE {})]
-----------------------------------------------------------------------------
(* Errors. *)

_ShouldPrintError(cpp, e) ==
    /\ ~IsErrorSuppressedByNolint(cpp, e.category, e.line)
    /\ e.confidence >= cpp.verbose_level
    /\ ~IsFiltered(cpp.filters, e.category)

\* The key errors_by_category counts under, in the style that was asked for.
CountedAs(counting, category) == IF counting = "detailed" THEN category ELSE <<Head(category)>>

\* A key that is not there yet is counted from 0.
OneMore(counts, key) ==
    [k \in DOMAIN counts \cup {key} |-> (IF k \in DOMAIN counts THEN counts[k] ELSE 0) + (IF k = key THEN 1 ELSE 0)]

\* Mutant: the categories are counted and the total is not.
IncrementErrorCount_NoTotal(cpp, category) ==
    IF cpp.counting \in {"toplevel", "detailed"}
    THEN [cpp EXCEPT !.errors_by_category = OneMore(@, CountedAs(cpp.counting, category))] ELSE cpp

IncrementErrorCount(cpp, category) ==
    [cpp EXCEPT !.error_count = @ + 1,
                !.errors_by_category = IF cpp.counting \in {"toplevel", "detailed"}
                                       THEN OneMore(@, CountedAs(cpp.counting, category)) ELSE @]

\* reported stands for what went to stderr, or into the JUnit failures.
Error(cpp, e) ==
    IF _ShouldPrintError(cpp, e)
    THEN [IncrementErrorCount(cpp, e.category) EXCEPT !.reported = Append(@, e)]
    ELSE cpp

Report(cpp, errors) == FoldLeft(Error, cpp, errors)

\* messages counts what PrintError writes that is not an error of a file.
PrintError(cpp) == [cpp EXCEPT !.messages = @ + 1]

ResetErrorCounts(cpp) == [cpp EXCEPT !.error_count = 0, !.errors_by_category = <<>>]

\* The first NOLINT of the line, with the category in parentheses that may follow it.
ParseNolintSuppressions(cpp, raw_line, p) ==
    LET at == SelectInSeq(raw_line, LAMBDA t : t \in {"NOLINT", "NOLINTNEXTLINE"})
        suppressed_line == IF raw_line[at] = "NOLINTNEXTLINE" THEN p ELSE p - 1
        given == at < Len(raw_line)
                 /\ raw_line[at + 1] \in DOMAIN ErrorCategories \cup LegacyCategories
                                         \cup UnknownCategories
        category == raw_line[at + 1]
        Suppress(c) == [cpp EXCEPT !.suppressed = @ \cup {<<c, suppressed_line>>}]
    IN  CASE at = 0 -> cpp
          [] at # 0 /\ ~given -> Suppress(AnyCategory)
          [] at # 0 /\ given /\ category \in DOMAIN ErrorCategories ->
               Suppress(ErrorCategories[category])
          [] at # 0 /\ given /\ category \in LegacyCategories -> cpp
          [] OTHER -> Error(cpp, Err(p, <<"readability", "nolint">>, 5))
=============================================================================
