----------------------------- MODULE LintGuard -----------------------------
(***************************************************************************)
(* build_support/cpplint.py: the header guard.  Its name is a sequence of  *)
(* words and "_", made from the path of the file.                          *)
(***************************************************************************)
EXTENDS LintFiles, LintErrors

\* What is left of a path below the directory root, or nothing.
StripListPrefix(path, root) ==
    IF IsPrefix(root \o <<"/">>, path) THEN From(path, Len(root) + 2) ELSE <<>>

FixupPathFromRoot(g, filename, file_path_from_root) ==
    LET stripped == StripListPrefix(file_path_from_root, g.root)
        prepended == StripListPrefix(FullName(filename), FullName(g.root))
    IN  IF g.root = <<>> THEN file_path_from_root
        ELSE IF stripped # <<>> THEN stripped
        ELSE IF prepended # <<>> THEN prepended
        ELSE file_path_from_root

GuardOf(path) ==
    [n \in DOMAIN path |-> IF path[n] \in {"/", ".", "-"} THEN "_" ELSE ToUpper(path[n])] \o <<"_">>

GetHeaderGuardCPPVariable(g, disk, filename) ==
    GuardOf(FixupPathFromRoot(g, filename, RepositoryName(g, disk, filename)))

\* The second word of a line.
Argument(line) ==
    LET text == LStrip(line)
        comment == FirstIn({n \in DOMAIN text : text[n] \in {"//", "/*"}}, Len(text) + 1)
    IN  SubSeq(text, 2, comment - 1)

\* The first line of the kind with an argument, or 0.
FirstWithArgument(lines, directive) ==
    SelectInSeq(lines, LAMBDA line : StartsWith(line, <<directive>>) /\ Argument(line) # <<>>)

\* Nothing after the guard's name in the comment after #endif is good, a second underscore
\* is old style.
AfterName(rest, mark) ==
    LET Ends(r) == IF mark = "/*" THEN r # <<>> /\ Head(r) = "*/"
                   ELSE r = <<>> \/ Head(r) \in {"//", "/*", "*/", ";"}
    IN  IF Ends(rest) THEN "good" ELSE IF rest # <<>> /\ Head(rest) = "_" /\ Ends(Tail(rest)) THEN "old" ELSE "bad"

EndifComment(endif, mark, cppvar) ==
    IF IsPrefix(<<"#endif", mark>> \o cppvar, endif) THEN AfterName(From(endif, Len(cppvar) + 3), mark)
    ELSE "bad"

\* The name after #ifndef.
CheckGuardName(cpp, cppvar, name, line, ifndef) ==
    IF name = cppvar THEN cpp
    ELSE Error(ParseNolintSuppressions(cpp, line, ifndef),
               Err(ifndef, <<"build", "header", "guard">>, IF name = Append(cppvar, "_") THEN 0 ELSE 5))

\* The comment after #endif; /* is for files that have no // at all.
CheckGuardEnd(cpp, cppvar, raw_lines, endif) ==
    LET slashes == EndifComment(raw_lines[endif], "//", cppvar)
        no_single_line_comments == \A n \in 2 .. Len(raw_lines) - 1 : ~InLineComment(raw_lines[n])
        comment == IF slashes = "bad" /\ no_single_line_comments
                   THEN EndifComment(raw_lines[endif], "/*", cppvar) ELSE slashes
    IN  IF comment = "good" THEN cpp
        ELSE Error(cpp, Err(endif, <<"build", "header", "guard">>, IF comment = "old" THEN 0 ELSE 5))

CheckGuard(cpp, cppvar, raw_lines, ifndef, define, endif) ==
    IF ifndef = 0 \/ define = 0 \/ Argument(raw_lines[ifndef]) # Argument(raw_lines[define])
    THEN Error(cpp, Err(1, <<"build", "header", "guard">>, 5))
    ELSE CheckGuardEnd(
             ParseNolintSuppressions(
                 CheckGuardName(cpp, cppvar, Argument(raw_lines[ifndef]), raw_lines[ifndef], ifndef),
                 raw_lines[endif], endif),
             cppvar, raw_lines, endif)

\* raw_lines are the lines without raw strings; the marker line stands in when there is no #endif.
CheckForHeaderGuard(cpp, g, disk, filename, raw_lines) ==
    LET Says(n, t) == \E k \in 1 .. Len(raw_lines[n]) - 2 : SubSeq(raw_lines[n], k, k + 2) = t
    IN  IF \E n \in DOMAIN raw_lines : \/ Says(n, <<"//", "NOLINT", "(build/header_guard)">>)
                                       \/ StartsWith(raw_lines[n], <<"#pragma", "once">>)
        THEN cpp
        ELSE CheckGuard(cpp, GetHeaderGuardCPPVariable(g, disk, filename), raw_lines,
                        FirstWithArgument(raw_lines, "#ifndef"), FirstWithArgument(raw_lines, "#define"),
                        Max({1} \cup {n \in DOMAIN raw_lines : IsPrefix(<<"#endif">>, raw_lines[n])}))
=============================================================================
