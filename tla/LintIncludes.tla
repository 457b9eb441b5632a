---------------------------- MODULE LintIncludes ----------------------------
(***************************************************************************)
(* build_support/cpplint.py: _IncludeState, the headers a file has         *)
(* included so far and the section of the list it is in, and the rules     *)
(* about #include lines.                                                   *)
(*                                                                         *)
(* An #include line is "#include", "<" or a quote, the path as in          *)
(* LintFiles, and ">" or a quote.                                          *)
(***************************************************************************)
EXTENDS LintFiles

CONSTANTS CppHeaders,  \* the C++ system headers, of one word each
          Collation    \* the tokens of paths in alphabetical order

ASSUME IncludesAssumption == IsInjective(Collation)

\* The sections a list of headers goes through.
_INITIAL_SECTION == 0
_MY_H_SECTION == 1
_C_SECTION == 2
_CPP_SECTION == 3
_OTHER_H_SECTION == 4

_IncludeState == [include_list |-> << <<>> >>, section |-> _INITIAL_SECTION, last_header |-> <<>>]

\* _RE_PATTERN_INCLUDE: the place of the closing mark, or 0.
IncludeEnd(line) ==
    LET text == LStrip(line)
        end == SelectInSeq(From(text, 3), LAMBDA t : t \in {">", DQ})
    IN  IF Len(text) > 2 /\ text[1] = "#include" /\ text[2] \in {"<", DQ} /\ end # 0
        THEN end + 2 ELSE 0

IsInclude(line) == IncludeEnd(line) # 0
Included(line) == SubSeq(LStrip(line), 3, IncludeEnd(line) - 1)
IsSystem(line) == LStrip(line)[2] = "<"

\* Mutant: only the headers since the last #if are known.
FindHeader_LastList(incl, header) ==
    \E n \in DOMAIN Last(incl.include_list) : Last(incl.include_list)[n].header = header

\* Some list has the header.
FindHeader(incl, header) ==
    \E k \in DOMAIN incl.include_list : \E n \in DOMAIN incl.include_list[k] :
        incl.include_list[k][n].header = header

\* Mutant: #else drops the last list instead of emptying it.
ResetSection_Drops(incl, directive) ==
    [section |-> _INITIAL_SECTION, last_header |-> <<>>,
     include_list |-> CASE directive \in {"#if", "#ifndef"} -> Append(incl.include_list, <<>>)
                        [] directive = "#else" -> Front(incl.include_list)
                        [] directive = "#endif" -> incl.include_list]

\* "#if" opens a list that is never closed, "#else" empties the last one.
ResetSection(incl, directive) ==
    [section |-> _INITIAL_SECTION, last_header |-> <<>>,
     include_list |-> CASE directive \in {"#if", "#ifndef"} -> Append(incl.include_list, <<>>)
                        [] directive = "#else" -> Append(Front(incl.include_list), <<>>)
                        [] directive = "#endif" -> incl.include_list]

\* -inl.h is as .h, - as _, and capitals as small letters.
CanonicalizeAlphabeticalOrder(path) ==
    LET n == Len(path)
        short == IF IsSuffix(<<"-", "inl", ".", "h">>, path)
                 THEN SubSeq(path, 1, n - 4) \o <<".", "h">> ELSE path
    IN  [k \in DOMAIN short |-> IF short[k] = "-" THEN "_" ELSE ToLower(short[k])]

Rank(t) == SelectInSeq(Collation, LAMBDA u : u = t)

\* a > b, as strings.
After(a, b) ==
    \E k \in 1 .. Len(a) : /\ IsPrefix(SubSeq(a, 1, k - 1), b)
                           /\ Len(b) < k \/ Rank(a[k]) > Rank(b[k])

IsInAlphabeticalOrder(incl, elided, p, header) ==
    ~(After(incl.last_header, header) /\ p > 1 /\ StartsWith(elided[p - 1], <<"#include">>))

\* The new state, and whether the header comes too late.
CheckNextIncludeOrder(incl, header_type) ==
    LET section == incl.section
        next == CASE header_type = "C system" -> IF section <= _C_SECTION THEN _C_SECTION ELSE section
                  [] header_type = "C++ system" ->
                       IF section <= _CPP_SECTION THEN _CPP_SECTION ELSE section
                  [] header_type \in {"likely my", "possible my"} ->
                       IF section <= _MY_H_SECTION THEN _MY_H_SECTION ELSE _OTHER_H_SECTION
                  [] header_type = "other" -> _OTHER_H_SECTION
        late == \/ header_type = "C system" /\ section > _C_SECTION
                \/ header_type = "C++ system" /\ section > _CPP_SECTION
    IN  [late |-> late,
         incl |-> [incl EXCEPT !.section = next,
                               !.last_header = IF late \/ next # section THEN <<>> ELSE @]]
-----------------------------------------------------------------------------
(* The rules. *)

\* The name of a library's header: a capital in it and no directory.
_THIRD_PARTY_HEADERS_PATTERN(path) ==
    /\ ~Contains(path, "/") /\ IsSuffix(<<".", "h">>, path)
    /\ \E n \in DOMAIN path : ToLower(path[n]) # path[n]

FirstComponent(base) ==
    LET end == SelectInSeq(base, LAMBDA t : t \in {"-", "_", "."})
    IN  IF end = 0 THEN base ELSE Until(base, end)

\* normpath of dir/../public
PublicBeside(dir) ==
    IF dir = <<>> THEN <<"/", "public">>
    ELSE IF Dirname(dir) = <<>> THEN <<"public">> ELSE Dirname(dir) \o <<"/", "public">>

\* Both without their suffixes.
ClassifyOwn(target, own) ==
    IF /\ Basename(target) = Basename(own)
       /\ Dirname(own) \in {Dirname(target), PublicBeside(Dirname(target))}
    THEN "likely my"
    ELSE IF /\ FirstComponent(Basename(target)) # <<>>
            /\ FirstComponent(Basename(target)) = FirstComponent(Basename(own))
    THEN "possible my"
    ELSE "other"

_ClassifyInclude(g, disk, filename, include, is_system) ==
    IF is_system /\ Extension(include) \notin {"hpp", "hxx", "h++"}
    THEN IF Len(include) = 1 /\ include[1] \in CppHeaders THEN "C++ system" ELSE "C system"
    ELSE ClassifyOwn(_DropCommonSuffixes(g, RepositoryName(g, disk, filename)),
                     _DropCommonSuffixes(g, include))

\* The names a header of this file may have, and whether include is one of them.
HeaderNames(g, disk, filename) ==
    {RepositoryName(g, disk, NoExtension(filename) \o <<".", ext>>) : ext \in GetHeaderExtensions(g)}

Matches(headername, include) == IsSubstring(headername, include) \/ IsSubstring(include, headername)

\* A header of this project without its directory.
NoSubdir(line, include) ==
    /\ ~IsSystem(line) /\ LStrip(line) = line /\ ~Contains(include, "/")
    /\ IsSuffix(<<".", "h">>, include) /\ ~_THIRD_PARTY_HEADERS_PATTERN(include)

\* The error of a wrong place among the sections, and of one in the alphabet.
CheckIncludeOrder(order, canonical_include, elided, p) ==
    [incl |-> [order.incl EXCEPT !.last_header = canonical_include],
     errors |-> (IF order.late THEN <<Err(p, <<"build", "include", "order">>, 4)>> ELSE <<>>)
                \o (IF IsInAlphabeticalOrder(order.incl, elided, p, canonical_include) THEN <<>>
                    ELSE <<Err(p, <<"build", "include", "alpha">>, 4)>>)]

\* A header that is not known yet goes into the last list.
AddHeader(incl, g, disk, filename, clean, p, include) ==
    CheckIncludeOrder(
        CheckNextIncludeOrder(
            [incl EXCEPT !.include_list[Len(incl.include_list)] = Append(@, [header |-> include, line |-> p - 1])],
            _ClassifyInclude(g, disk, filename, include, IsSystem(clean.lines[p]))),
        CanonicalizeAlphabeticalOrder(include), clean.elided, p)

\* The new state and the errors of an #include line.
IncludeErrors(incl, g, disk, filename, clean, p, include) ==
    LET foreign == /\ Extension(include) \in GetNonHeaderExtensions(g)
                   /\ Dirname(RepositoryName(g, disk, filename)) # Dirname(include)
        third_src_header == \E h \in HeaderNames(g, disk, filename) : Matches(h, include)
    IN  IF FindHeader(incl, include) \/ foreign
        THEN [incl |-> incl, errors |-> <<Err(p, <<"build", "include">>, 4)>>]
        ELSE IF ~third_src_header /\ _THIRD_PARTY_HEADERS_PATTERN(include)
        THEN [incl |-> incl, errors |-> <<>>]
        ELSE AddHeader(incl, g, disk, filename, clean, p, include)

CheckIncludeLine(incl, g, disk, filename, clean, p) ==
    LET include == Included(clean.lines[p])
    IN  IF ~IsInclude(clean.lines[p]) THEN [incl |-> incl, errors |-> <<>>]
        ELSE [IncludeErrors(incl, g, disk, filename, clean, p, include) EXCEPT
                 !.errors = (IF NoSubdir(clean.lines[p], include)
                             THEN <<Err(p, <<"build", "include", "subdir">>, 4)>> ELSE <<>>) \o @]
-----------------------------------------------------------------------------
(* The rules that look at the whole file. *)

\* Not a member of a namespace other than std.
InStd(line, n) == n = 1 \/ line[n - 1] # "::" \/ (n > 2 /\ line[n - 2] = "std")

First(line, t, Follows(_)) == FirstIn({n \in DOMAIN line : line[n] = t /\ Follows(n)}, 0)

\* The standard headers whose names a line uses; "string" stands for the type, "vector"
\* for the templates and "max" for the functions that may be templates.
UsedHeaders(line) ==
    LET Alone(n) == TRUE
        Template(n) == n < Len(line) /\ line[n + 1] = "<"
        Called(n) == /\ n > 1 /\ line[n - 1] \notin {">", "."}
                     /\ n + 1 < Len(line) /\ line[n + 1] = "(" /\ line[n + 2] # ")"
        string == First(line, "string", Alone)
        vector == First(line, "vector", Template)
    IN  IF line = <<>> \/ Head(line) \in Directives THEN {}
        ELSE {h \in {"string", "vector", "algorithm"} :
                CASE h = "string" -> string # 0 /\ InStd(line, string)
                  [] h = "vector" -> vector # 0 /\ InStd(line, vector)
                  [] h = "algorithm" -> First(line, "max", Called) # 0}

\* The headers that the file on disk includes.
HeadersOf(lines) == {Included(CleanseComments(lines[n])) : n \in {k \in DOMAIN lines : IsInclude(CleanseComments(lines[k]))}}

\* The headers that are needed, with the last line that needs them.
Required(elided) ==
    LET Uses(h) == {p \in DOMAIN elided : h \in UsedHeaders(elided[p])}
    IN  [h \in {k \in {"string", "vector", "algorithm"} : Uses(k) # {}} |-> Max(Uses(h))]

\* The files on disk that belong to filename and that it includes.
OwnHeaders(g, disk, filename, direct) ==
    {path \in {FilesBelongToSameModule(g, FullName(filename), h) \o h : h \in direct} :
        path \in DOMAIN disk /\ disk[path].readable}

\* Every missing header is asked for once, in the order of the lines.
AskFor(elided, included) ==
    LET Asked(p) == {h \in DOMAIN Required(elided) : <<h>> \notin included /\ Required(elided)[h] = p}
    IN  FlattenSeq([p \in DOMAIN elided |->
            [n \in 1 .. Cardinality(Asked(p)) |-> Err(p, <<"build", "include", "what_you_use">>, 4)]])

\* direct is what the file includes itself, loaded are the headers of its own that were read.
AskUnlessUnread(g, disk, filename, elided, direct, loaded) ==
    IF loaded = {} /\ Extension(filename) \in GetNonHeaderExtensions(g) THEN <<>>
    ELSE AskFor(elided, direct \cup UNION {HeadersOf(disk[path].lines) : path \in loaded})

CheckForIncludeWhatYouUse(incl, g, disk, filename, elided) ==
    LET direct == {e.header : e \in ToSet(FlattenSeq(incl.include_list))}
    IN  AskUnlessUnread(g, disk, filename, elided, direct, OwnHeaders(g, disk, filename, direct))

\* Where CheckHeaderFileIncluded has no line to name.
NoLine == 0

\* headers are the files that could be the header of this one, in the order that the set
\* of extensions is gone through.
CheckHeaderFileIncluded(incl, g, disk, filename, headers) ==
    LET all == FlattenSeq(incl.include_list)
        Own(h) == \E e \in ToSet(all) : Matches(RepositoryName(g, disk, h), e.header)
        found == SelectInSeq(headers, Own)
        first_include == IF all = <<>> THEN NoLine ELSE all[1].line + 1
    IN  IF IsTestFile(filename) THEN <<>>
        ELSE [n \in 1 .. (IF found = 0 THEN Len(headers) ELSE found - 1) |->
                Err(first_include, <<"build", "include">>, 5)]

\* The header files that exist beside the file, in every order.
ExistingHeaders(g, disk, filename) ==
    LET names == {NoExtension(filename) \o <<".", ext>> : ext \in GetHeaderExtensions(g)}
    IN  SetToSeqs({h \in names : FullName(h) \in DOMAIN disk})
=============================================================================
