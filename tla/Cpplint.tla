------------------------------ MODULE Cpplint ------------------------------
(***************************************************************************)
(* build_support/cpplint.py as a whole: one invocation, from the command   *)
(* line through the CPPLINT.cfg files and the lines of every file to the   *)
(* exit status.                                                            *)
(*                                                                         *)
(* Everything the program keeps between two steps is a variable: the       *)
(* module-wide state (cpp), the global settings (g) and, for the file at   *)
(* the head of todo, the states of the rules.  The rules that look at one  *)
(* line and keep nothing are RuleOf: a token that stands for what such a   *)
(* rule reports.                                                           *)
(***************************************************************************)
EXTENDS LintNesting, LintFunctions, LintIncludes, LintGuard, LintReference, TLC

CONSTANTS Invocations,  \* families of command lines, each with the files it meets
          RuleOf        \* token |-> the category and the confidence it is reported with

\* One line of a CPPLINT.cfg.
ConfigOptions == [name : STRING, filters : Seq([sign : STRING, prefix : Seq(STRING)]),
                  names : SUBSET STRING, number : Int, path : Seq(STRING)]

\* Levels and lengths are written in digits, lists are finite, and files consist of lines.
ASSUME InvocationsAssumption ==
    \A family \in DOMAIN Invocations : \A i \in Invocations[family] :
        /\ i.args.verbose \in Nat /\ i.args.linelength \in Nat
        /\ IsFiniteSet(i.args.extensions) /\ IsFiniteSet(i.args.headers)
        /\ \A f \in DOMAIN i.disk : i.disk[f].lines \in Seq(Seq(STRING))
        /\ \A d \in DOMAIN i.configs : /\ i.configs[d].options \in Seq(ConfigOptions)
                                        /\ \A option \in ToSet(i.configs[d].options) : IsFiniteSet(option.names)

VARIABLES
    input,        \* the invocation
    pc,
    todo,         \* filenames that are still to be processed
    cpp,          \* _cpplint_state, _error_suppressions, _global_error_suppressions
    g,            \* _line_length, _valid_extensions, _hpp_headers, _root, _repository
    look,         \* abs_filename: where to look for the next CPPLINT.cfg
    cfg_filters,
    clean,        \* clean_lines
    p,            \* the position of the line to process next
    nesting_state,
    first,        \* a NestingState that never sees what follows an #else
    include_state,
    function_state,
    status        \* the exit status

fileState == <<look, cfg_filters, clean, p, nesting_state, first, include_state, function_state>>
vars == <<input, pc, todo, cpp, g, status, fileState>>

args == input.args
disk == input.disk
filename == Head(todo)
file == disk[FullName(filename)]

NoLines == CleansedLines(<<>>)

InitialSettings == [line_length |-> 80, valid_extensions |-> {}, hpp_headers |-> {}, root |-> <<>>,
                    repository |-> <<>>]

Init ==
    /\ \E family \in DOMAIN Invocations : input \in Invocations[family]
    /\ pc = "main" /\ todo = <<>> /\ status = 0
    /\ cpp = _CppLintState /\ g = InitialSettings
    /\ look = <<>> /\ cfg_filters = <<>> /\ clean = NoLines /\ p = 1
    /\ nesting_state = NoBlocks /\ first = NoBlocks
    /\ include_state = _IncludeState /\ function_state = _FunctionState
-----------------------------------------------------------------------------
(* ParseArguments *)

\* The files below a directory, by the name os.walk gives them.
FilesBelow(dir) ==
    {dir \o From(f, Len(FullName(dir)) + 1) :
        f \in {e \in DOMAIN disk : IsPrefix(FullName(dir) \o <<"/">>, e)}}

\* Every file, and every file below every directory; then only those with a known extension.
_ExpandDirectories(settings, filenames) ==
    LET expanded == UNION {IF FilesBelow(f) = {} THEN {f} ELSE FilesBelow(f) : f \in ToSet(filenames)}
    IN  {f \in expanded : Extension(f) \in GetAllExtensions(settings)}

_FilterExcludedFiles(filenames) ==
    SelectSeq(filenames, LAMBDA f : FullName(f) \notin {FullName(e) : e \in args.exclude})

\* Usage errors and --help end the program; a filter without a sign raises a ValueError.
ParseArguments ==
    LET settings == [g EXCEPT !.line_length = args.linelength,
                              !.valid_extensions = args.extensions, !.hpp_headers = args.headers,
                              !.root = args.root, !.repository = args.repository]
        state == SetFilters([cpp EXCEPT !.output_format = args.output, !.quiet = args.quiet,
                                        !.verbose_level = args.verbose, !.counting = args.counting],
                            args.filters)
        filenames == IF args.recursive THEN SetToSeqs(_ExpandDirectories(settings, args.filenames))
                     ELSE {args.filenames}
    IN  /\ pc = "main"
        /\ UNCHANGED <<input, fileState>>
        /\ \/ /\ args.filenames = <<>> \/ ~FiltersValid(state.filters)
              /\ pc' = "exit" /\ status' = 1
              /\ UNCHANGED <<todo, cpp, g>>
           \/ /\ args.filenames # <<>> /\ FiltersValid(state.filters)
              /\ \E names \in filenames : todo' = _FilterExcludedFiles(names)
              /\ g' = settings /\ cpp' = ResetErrorCounts(state)
              /\ pc' = "next" /\ UNCHANGED status
-----------------------------------------------------------------------------
(* ProcessFile *)

BeginFile ==
    /\ pc = "next" /\ todo # <<>>
    /\ cpp' = BackupFilters(cpp)
    /\ look' = FullName(filename) /\ cfg_filters' = <<>>
    /\ pc' = "config"
    /\ UNCHANGED <<input, todo, g, status, clean, p, nesting_state, first, include_state, function_state>>

\* The file is done with; what the rules keep is as if it had never been there.
LeaveFile(state) ==
    /\ cpp' = RestoreFilters(state)
    /\ todo' = Tail(todo) /\ pc' = "next"
    /\ look' = <<>> /\ cfg_filters' = <<>> /\ clean' = NoLines /\ p' = 1
    /\ nesting_state' = NoBlocks /\ first' = NoBlocks
    /\ include_state' = _IncludeState /\ function_state' = _FunctionState
    /\ UNCHANGED <<input, status>>

Die ==
    /\ pc' = "exit" /\ status' = 1
    /\ UNCHANGED <<input, todo, g, fileState>>

\* One line of a CPPLINT.cfg in directory dir; name is the part of the path below dir, and a
\* number that is not in Nat stands for text that int() does not take.
ConfigOption(s, option, dir, name) ==
    CASE s.excluded -> s
      [] ~s.excluded /\ option.name = "set noparent" -> [s EXCEPT !.keep_looking = FALSE]
      [] ~s.excluded /\ option.name = "filter" -> [s EXCEPT !.filters = Append(@, option.filters)]
      [] ~s.excluded /\ option.name = "exclude_files" -> [s EXCEPT !.excluded = name \in option.names]
      [] ~s.excluded /\ option.name = "linelength" ->
           IF option.number \in Nat THEN [s EXCEPT !.g.line_length = option.number]
           ELSE [s EXCEPT !.cpp = PrintError(@)]
      [] ~s.excluded /\ option.name = "extensions" -> [s EXCEPT !.g.valid_extensions = option.names]
      [] ~s.excluded /\ option.name = "root" ->
           [s EXCEPT !.g.root = dir \o <<"/">> \o option.path]
      [] ~s.excluded /\ option.name = "headers" -> [s EXCEPT !.g.hpp_headers = option.names]
      [] OTHER -> [s EXCEPT !.cpp = PrintError(@)]

\* All the lines of that file.
ReadOptions(s, options, dir, name) ==
    FoldLeft(LAMBDA t, option : ConfigOption(t, option, dir, name), s, options)

\* The directories at or above the place reached that hold a CPPLINT.cfg.
ConfigDirs == Ancestors(look) \cap DOMAIN input.configs

\* The nearest CPPLINT.cfg.
ReadConfig ==
    \E dir \in ConfigDirs :
        LET config == input.configs[dir]
            read == ReadOptions([cpp |-> cpp, g |-> g, filters |-> cfg_filters, keep_looking |-> TRUE,
                                 excluded |-> FALSE], config.options, dir, look[Len(dir) + 2])
        IN  /\ pc = "config" /\ \A d \in ConfigDirs : Len(d) <= Len(dir)
            /\ \/ /\ ~config.readable
                  /\ cpp' = PrintError(cpp)
                  /\ look' = <<>> /\ pc' = pc
                  /\ UNCHANGED <<input, todo, g, status, cfg_filters, clean, p, nesting_state, first,
                                 include_state, function_state>>
               \/ /\ config.readable /\ read.excluded
                  /\ g' = read.g
                  /\ LeaveFile(read.cpp)
               \/ /\ config.readable /\ ~read.excluded
                  /\ cpp' = read.cpp /\ g' = read.g /\ cfg_filters' = read.filters
                  /\ look' = IF read.keep_looking THEN dir ELSE <<>>
                  /\ pc' = pc
                  /\ UNCHANGED <<input, todo, status, clean, p, nesting_state, first, include_state,
                                 function_state>>

\* The filters of the outermost configuration come first; one without a sign raises a
\* ValueError that nothing catches.
ApplyConfig ==
    LET state == AddFilters(cpp, FlattenSeq(Reverse(cfg_filters)))
    IN  /\ pc = "config" /\ ConfigDirs = {}
        /\ cpp' = state
        /\ \/ FiltersValid(state.filters) /\ pc' = "open" /\ UNCHANGED <<input, todo, g, status, fileState>>
           \/ ~FiltersValid(state.filters) /\ Die
-----------------------------------------------------------------------------
(* ProcessFileData *)

CheckForCopyright(lines) ==
    IF \E n \in 2 .. Min({Len(lines), 11}) : Contains(lines[n], "Copyright") THEN <<>>
    ELSE <<Err(1, <<"legal", "copyright">>, 5)>>

Marked(lines) == << <<"//", "marker">> >> \o lines \o << <<"//", "marker">> >>

\* A name without a dot is its own extension, which nothing allows.
FileExtension == IF ExtensionDot(filename) = 0 THEN "-" ELSE Extension(filename)

Readable == FullName(filename) \in DOMAIN disk /\ file.readable

Ignored == filename # <<"-">> /\ FileExtension \notin GetAllExtensions(g)

CheckGuardOfHeader(state, raw_lines) ==
    IF IsHeaderExtension(g, FileExtension)
    THEN CheckForHeaderGuard(state, g, disk, filename, raw_lines) ELSE state

\* Up to the first line.
OpenFile ==
    LET lines == Marked(file.lines)
        removed == RemoveMultiLineComments(lines)
        unclosed == IF removed.unclosed = 0 THEN <<>>
                    ELSE <<Err(removed.unclosed + 1, <<"readability", "multiline_comment">>, 5)>>
        begun == ProcessGlobalSuppresions(Report(ResetNolintSuppressions(cpp), CheckForCopyright(lines)), lines)
    IN  /\ pc = "open" /\ Readable /\ ~Ignored
        /\ clean' = CleansedLines(removed.lines) /\ p' = 1 /\ pc' = "line"
        /\ cpp' = CheckGuardOfHeader(Report(begun, unclosed), clean'.lines_without_raw_strings)
        /\ UNCHANGED <<input, todo, g, status, look, cfg_filters, nesting_state, first, include_state,
                       function_state>>

\* A file that cannot be read, or has an extension that is not allowed.
SkipFile ==
    /\ pc = "open" /\ ~(Readable /\ ~Ignored)
    /\ LeaveFile(PrintError(cpp))
    /\ UNCHANGED g

CheckForMultilineCommentsAndStrings(line) ==
    (IF Count(line, "/*") > Count(line, "*/")
     THEN <<Err(p, <<"readability", "multiline_comment">>, 5)>> ELSE <<>>)
    \o (IF Cardinality({n \in DOMAIN line : line[n] \in {DQ, RAW, END}}) % 2 = 1
        THEN <<Err(p, <<"readability", "multiline_string">>, 5)>> ELSE <<>>)

\* The part of CheckStyle that reads a setting; a token is one column wide.
CheckLineLength(line, cppvar) ==
    LET is_header_guard ==
            /\ IsHeaderExtension(g, FileExtension)
            /\ \E start \in {<<"#ifndef">>, <<"#define">>, <<"#endif", "//">>} : IsPrefix(start \o cppvar, line)
        one_word_comment == Len(LStrip(line)) <= 2 /\ StartsWith(line, <<"//">>)
    IN  IF /\ ~IsPrefix(<<"#include">>, line) /\ ~is_header_guard /\ ~one_word_comment
           /\ Len(line) > g.line_length
        THEN <<Err(p, <<"whitespace", "line_length">>, 2)>> ELSE <<>>

\* The rules that keep nothing from line to line.
RuleErrors(line) ==
    FlattenSeq([n \in DOMAIN line |->
        IF line[n] \in DOMAIN RuleOf
        THEN <<Err(p, RuleOf[line[n]].category, RuleOf[line[n]].confidence)>> ELSE <<>>])

Cxx11Headers == {<<h>> : h \in {"cfenv", "condition_variable", "future", "mutex", "thread", "chrono",
                                "ratio", "regex", "system_error"}} \cup {<<"fenv", ".", "h">>}

FlagCxx11Features(line) ==
    LET include == Included(line)
        feature == <<Err(p, <<"build", "c++11">>, 5)>>
    IN  IF IsInclude(line)
        THEN (IF IsPrefix(<<"tr1">>, include) THEN <<Err(p, <<"build", "c++tr1">>, 5)>> ELSE <<>>)
             \o (IF include \in Cxx11Headers THEN feature ELSE <<>>)
        ELSE IF /\ \E t \in {"alignment_of", "aligned_union"} : IsSubstring(<<"std", "::", t>>, line)
                /\ ~IsDirective(line, Directives \ {"#define"})
        THEN feature ELSE <<>>

\* The part of CheckLanguage that keeps the list of headers.
CheckLanguage(line) ==
    LET text == LStrip(line)
    IN  IF IsInclude(line) THEN CheckIncludeLine(include_state, g, disk, filename, clean, p)
        ELSE [incl |-> IF text # <<>> /\ Head(text) \in {"#if", "#ifndef", "#else", "#endif"}
                       THEN ResetSection(include_state, Head(text)) ELSE include_state,
              errors |-> <<>>]

\* How many #if are open after each line, and whether a line is after an #else of one of them.
IfDepth ==
    LET f[n \in 0 .. Len(clean.elided)] ==
          IF n = 0 THEN 0
          ELSE IF IsDirective(clean.elided[n], {"#if", "#ifndef"}) THEN f[n - 1] + 1
          ELSE IF IsDirective(clean.elided[n], {"#endif"}) /\ f[n - 1] > 0 THEN f[n - 1] - 1
          ELSE f[n - 1]
    IN  f

InElse(n) ==
    \E k \in 1 .. n - 1 : /\ IsDirective(clean.elided[k], {"#else"}) /\ IfDepth[k] > 0
                          /\ \A m \in k .. n - 1 : IfDepth[m] >= IfDepth[k]

FirstBranch(n) == ~InElse(n) /\ ~IsDirective(clean.elided[n], {"#if", "#ifndef", "#else", "#endif"})

\* The rules that are left out inside an asm block; function and language are the outcomes
\* of CheckForFunctionLengths and CheckLanguage.
CheckOutsideAsm(line, function, language) ==
    function.errors \o CheckForMultilineCommentsAndStrings(line)
    \o CheckLineLength(clean.lines_without_raw_strings[p], GetHeaderGuardCPPVariable(g, disk, filename))
    \o language.errors \o RuleErrors(line)

\* The rules on line p, once the nesting state is up to date.
CheckLine(nesting, asm, function, language) ==
    LET line == clean.elided[p]
    IN  /\ function_state' = IF asm THEN function_state ELSE function.fn
        /\ include_state' = IF asm THEN include_state ELSE language.incl
        /\ cpp' = Report(ParseNolintSuppressions(cpp, clean.raw_lines[p], p),
                         nesting.errors \o CheckForNamespaceIndentation(nesting, clean.elided, p)
                         \o (IF asm THEN <<>> ELSE CheckOutsideAsm(line, function, language))
                         \o FlagCxx11Features(line))

ProcessLine ==
    /\ pc = "line" /\ p <= Len(clean.elided)
    /\ p' = p + 1
    /\ nesting_state' = Update(nesting_state, clean.elided, clean.raw_lines, p)
    /\ first' = IF FirstBranch(p) THEN Update(first, clean.elided, clean.raw_lines, p) ELSE first
    /\ CheckLine(nesting_state', InAsmBlock(nesting_state'.stack),
                 CheckForFunctionLengths(function_state, clean.lines, p, cpp.verbose_level),
                 CheckLanguage(clean.elided[p]))
    /\ UNCHANGED <<input, pc, todo, g, status, look, cfg_filters, clean>>

CheckForBadCharacters(lines) ==
    FlattenSeq([n \in DOMAIN lines |->
        (IF Contains(lines[n], "U+FFFD") THEN <<Err(n, <<"readability", "utf8">>, 5)>> ELSE <<>>)
        \o (IF Contains(lines[n], "NUL") THEN <<Err(n, <<"readability", "nul">>, 5)>> ELSE <<>>)])

\* The line before the marker is what follows the last newline.
CheckForNewlineAtEOF(lines) ==
    IF Len(lines) < 3 \/ lines[Len(lines) - 1] # <<>>
    THEN <<Err(Len(lines) - 1, <<"whitespace", "ending_newline">>, 5)>> ELSE <<>>

\* Lines that end with CR are reported if others do not.
CheckLineEndings ==
    LET ended == 1 .. Len(file.lines) - 1
    IN  IF ended \subseteq file.crlf THEN <<>>
        ELSE FlattenSeq([n \in ended |->
                 IF n \in file.crlf THEN <<Err(n + 1, <<"whitespace", "newline">>, 1)>> ELSE <<>>])

\* After the last line: the rules that look at the whole file.
EndFile ==
    LET Own(headers) == IF _IsSourceExtension(g, FileExtension)
                        THEN CheckHeaderFileIncluded(include_state, g, disk, filename, headers) ELSE <<>>
    IN  /\ pc = "line" /\ p > Len(clean.elided)
        /\ \E headers \in ExistingHeaders(g, disk, filename) :
              LeaveFile(Report(cpp,
                  CheckCompletedBlocks(nesting_state.stack)
                  \o CheckForIncludeWhatYouUse(include_state, g, disk, filename, clean.elided)
                  \o Own(headers) \o CheckForBadCharacters(clean.raw_lines)
                  \o CheckForNewlineAtEOF(clean.raw_lines) \o CheckLineEndings))
        /\ UNCHANGED g

\* The end of main.
Exit ==
    /\ pc = "next" /\ todo = <<>>
    /\ pc' = "exit" /\ status' = IF cpp.error_count > 0 THEN 1 ELSE 0
    /\ UNCHANGED <<input, todo, cpp, g, fileState>>

Next ==
    \/ ParseArguments \/ BeginFile \/ ReadConfig \/ ApplyConfig
    \/ OpenFile \/ SkipFile \/ ProcessLine \/ EndFile \/ Exit

Spec == Init /\ [][Next]_vars
-----------------------------------------------------------------------------
(* Properties *)

\* Every variable has its type; there is always a list of headers to add to, and a file in
\* progress until the program is between two files.
TypeOK ==
    /\ pc \in {"main", "next", "config", "open", "line", "exit"}
    /\ pc \in {"config", "open", "line"} => todo # <<>>
    /\ cpp.error_count \in Nat /\ cpp.messages \in Nat /\ cpp.verbose_level \in Nat
    /\ g.line_length \in Nat /\ status \in {0, 1}
    /\ p \in 1 .. Len(clean.elided) + 1
    /\ include_state.section \in _INITIAL_SECTION .. _OTHER_H_SECTION
    /\ include_state.include_list # <<>>
    /\ function_state.lines_in_function \in 0 .. Len(clean.elided)

\* Between two files the filters are those of the command line: what the CPPLINT.cfg files of
\* one file add is taken back on every way out of ProcessFile.
FiltersRestored == pc = "next" => cpp.filters = _DEFAULT_FILTERS \o args.filters

\* The error count, the counts by category and the exit status agree with what was written
\* out; status 0 means that every file was gone through and nothing was reported.
CountsReported ==
    /\ cpp.error_count = Len(cpp.reported)
    /\ cpp.counting \in {"toplevel", "detailed"} =>
           LET key == [n \in DOMAIN cpp.reported |-> CountedAs(cpp.counting, cpp.reported[n].category)]
           IN  /\ DOMAIN cpp.errors_by_category = {key[n] : n \in DOMAIN key}
               /\ \A k \in DOMAIN cpp.errors_by_category :
                      cpp.errors_by_category[k] = Cardinality({n \in DOMAIN key : key[n] = k})
    /\ pc = "exit" /\ status = 0 => cpp.reported = <<>> /\ todo = <<>>

\* While the lines of a file are processed, an entry of _error_suppressions for a line is
\* there only because that line, or the line before it, has a NOLINT in this file.  What
\* suppresses a category in the whole file is kept apart and is not meant.
SuppressionsLocal ==
    pc = "line" =>
        \A s \in cpp.suppressed :
            \/ Contains(clean.raw_lines[s[2] + 1], "NOLINT")
            \/ s[2] > 0 /\ Contains(clean.raw_lines[s[2]], "NOLINTNEXTLINE")

\* What is compared of two nesting states.
Blocks(s) == [n \in DOMAIN s.stack |-> [s.stack[n] EXCEPT !.name = "", !.access = ""]]

\* Outside conditional code the open blocks are those of the text without the parts after
\* #else: UpdatePreprocessor saves and restores the right stack however #if are nested.
FirstBranchCounts == nesting_state.pp_stack = <<>> => Blocks(nesting_state) = Blocks(first)

\* No header is in the lists twice, across all the lists that #if begins and #else empties:
\* CheckIncludeLine adds a header only if FindHeader does not know it.
IncludesUnique ==
    LET headers == FlattenSeq(include_state.include_list)
    IN  \A m, n \in DOMAIN headers : headers[m].header = headers[n].header => m = n

\* A function that is too long for the verbosity is reported with a confidence that passes
\* it: the trigger and the level are computed apart from each other.
LongFunctionReported ==
    LET base == BaseTrigger(function_state)
    IN  function_state.lines_in_function > base * Pow2[cpp.verbose_level]
        => ErrorLevel(function_state.lines_in_function, base) >= Min({cpp.verbose_level, 5})

\* In text that keeps to the conventions, the words left in the elided lines are exactly the
\* words outside comments, strings and raw strings (#include lines keep their strings).
ElidedIsCode ==
    pc = "line" /\ p = 1 /\ Conventional(file.lines) =>
        LET lex == LexLines(file.lines)
        IN  \A n \in {m \in DOMAIN file.lines : ~IsPrefix(<<"#include">>, file.lines[m])} :
              SelectSeq(clean.elided[n + 1], LAMBDA t : t \in Words) = CodeWords(lex[n], file.lines[n])

\* CloseExpression and ReverseCloseExpression find the bracket that closes, or opens, in
\* text without operators, and agree on ( [ and { in any text.
BracketsMatch ==
    pc = "line" /\ p = 1 =>
        LET lines == clean.elided
            Close(a) == CloseExpression(lines, a[1], a[2])
            Opening(b) == ReverseCloseExpression(lines, b[1], b[2])
        IN  /\ \A a, b \in Positions(lines) :
                 Encloses(lines, a, b) /\ Simple(lines, a, b) => Close(a) = b /\ Opening(b) = a
            /\ \A a \in Positions(lines) :
                 At(lines, a) \in Opens /\ Close(a) # Nowhere => Opening(Close(a)) = a
=============================================================================
