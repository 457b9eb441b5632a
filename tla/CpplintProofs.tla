--------------------------- MODULE CpplintProofs ---------------------------
(***************************************************************************)
(* cpplint, for any command line, any files and any CPPLINT.cfg: what is   *)
(* counted is what was reported, neither the filters that a CPPLINT.cfg    *)
(* adds for one file nor what that file suppresses reach the next one, no  *)
(* header is listed twice, and no function that is too long is kept quiet. *)
(*                                                                         *)
(* Inv says what is known between two steps of the program.  Every step    *)
(* keeps it, and it implies the properties.                                *)
(***************************************************************************)
EXTENDS Cpplint, LintProofs
-----------------------------------------------------------------------------
(* The headers of a file. *)

\* The lists of headers, and where in the order of headers the file is.
InclOK(incl) ==
    /\ DOMAIN incl = {"include_list", "section", "last_header"}
    /\ incl.section \in _INITIAL_SECTION .. _OTHER_H_SECTION
    /\ ListsOK(incl.include_list)

\* ResetSection opens or empties a list.
LEMMA ResetSectionIs ==
    ASSUME NEW incl, InclOK(incl), NEW directive \in {"#if", "#ifndef", "#else", "#endif"}
    PROVE  InclOK(ResetSection(incl, directive))
<1> DEFINE L == incl.include_list
           k == Len(L)
           K == [section |-> _INITIAL_SECTION, last_header |-> <<>>, include_list |-> L]
           r == ResetSection(incl, directive)
<1>1. r.include_list \in {L, Append(L, <<>>), Append(Front(L), <<>>)}
      /\ DOMAIN r = {"include_list", "section", "last_header"} /\ r.section = _INITIAL_SECTION
  BY DEF ResetSection
<1> HIDE DEF r
<1>2. L \in Seq(ToSet(L)) /\ k \in Nat /\ k > 0 /\ ListsOK(L) /\ (\A n \in 1 .. k : IsList(L[n])) /\ DOMAIN L = 1 .. k
  BY DEF InclOK, ListsOK, IsList
<1> HIDE DEF L
<1>3. IsList(<<>>)
  BY ShortList, Zenon
<1>4. ListsOK(Append(L, <<>>))
  <2> DEFINE M == Append(L, <<>>)
  <2>1. IsList(M)
    BY <1>2, LongerList, Zenon DEF ListsOK
  <2>2. DOMAIN M = 1 .. k + 1 /\ M[k + 1] = <<>> /\ (\A n \in 1 .. k : M[n] = L[n]) /\ M # <<>>
    BY <1>2
  <2> HIDE DEF M
  <2>3. \A n \in 1 .. k + 1 : n \in 1 .. k \/ n = k + 1
    BY <1>2
  <2>4. \A n \in DOMAIN M : IsList(M[n])
    BY <1>2, <1>3, <2>2, <2>3, Zenon
  <2>5. Unique(M)
    BY <1>2, <2>2, <2>3, EmptiedUnique, Zenon DEF ListsOK
  <2>6. QED
    BY <2>1, <2>2, <2>4, <2>5, Zenon DEF ListsOK, M
<1>5. ListsOK(Append(Front(L), <<>>))
  <2> DEFINE M == Append(Front(L), <<>>)
  <2>1. IsList(M)
    BY <1>2, LongerList, ShorterList, Zenon DEF ListsOK
  <2>2. DOMAIN M = 1 .. k /\ M[k] = <<>> /\ (\A n \in 1 .. k : n # k => M[n] = L[n]) /\ M # <<>>
    <3> DEFINE F == Front(L)
    <3>1. F \in Seq(ToSet(L)) /\ Len(F) = k - 1 /\ \A n \in 1 .. k - 1 : F[n] = L[n]
      BY <1>2 DEF Front
    <3> HIDE DEF F
    <3>2. M = Append(F, <<>>)
      BY DEF F
    <3>3. \A n \in 1 .. k : n # k => n \in 1 .. k - 1
      <4>1. k \in Nat
        BY <1>2, Zenon
      <4> HIDE DEF k
      <4>2. QED
        BY <4>1
    <3>4. DOMAIN M = 1 .. k /\ M[k] = <<>> /\ (\A n \in 1 .. k - 1 : M[n] = F[n]) /\ M # <<>>
      <4> DEFINE S == ToSet(L) \cup {<<>>}
      <4>1. F \in Seq(S) /\ <<>> \in S
        BY <3>1
      <4>2. k \in Nat /\ k > 0 /\ Len(F) = k - 1
        BY <1>2, <3>1, Zenon
      <4> HIDE DEF M, S, k
      <4>3. M = Append(F, <<>>) /\ Len(Append(F, <<>>)) = k
        BY <3>2, <4>1, <4>2
      <4>4. QED
        BY <4>1, <4>2, <4>3
    <3>5. QED
      BY <3>1, <3>3, <3>4, Zenon
  <2> HIDE DEF M
  <2>3. \A n \in DOMAIN M : IsList(M[n])
    BY <1>2, <1>3, <2>2, Zenon
  <2>4. Unique(M)
    BY <1>2, <2>2, EmptiedUnique, Zenon DEF ListsOK
  <2>5. QED
    BY <2>1, <2>2, <2>3, <2>4, Zenon DEF ListsOK, M
<1>6. ListsOK(r.include_list)
  BY <1>1, <1>2, <1>4, <1>5, Zenon
<1>7. QED
  BY <1>1, <1>6 DEF InclOK, r, _INITIAL_SECTION, _OTHER_H_SECTION

\* A change of the section or of the last header.
LEMMA InclKept ==
    ASSUME NEW incl, NEW new, InclOK(incl), DOMAIN new = DOMAIN incl, new.include_list = incl.include_list,
           new.section \in _INITIAL_SECTION .. _OTHER_H_SECTION
    PROVE  InclOK(new)
BY Zenon DEF InclOK

\* The sections are the numbers up to 4.
LEMMA SectionsAre ==
    _C_SECTION \in 0 .. 4 /\ _CPP_SECTION \in 0 .. 4 /\ _MY_H_SECTION \in 0 .. 4 /\ _OTHER_H_SECTION \in 0 .. 4
BY DEF _C_SECTION, _CPP_SECTION, _MY_H_SECTION, _OTHER_H_SECTION

\* CheckNextIncludeOrder goes to one of the sections.
LEMMA CheckNextIncludeOrderIs ==
    ASSUME NEW incl, InclOK(incl),
           NEW header_type \in {"C system", "C++ system", "likely my", "possible my", "other"}
    PROVE  InclOK(CheckNextIncludeOrder(incl, header_type).incl)
<1> DEFINE r == CheckNextIncludeOrder(incl, header_type).incl
<1>1. incl.section \in 0 .. 4 /\ DOMAIN incl = {"include_list", "section", "last_header"}
  BY DEF InclOK, _INITIAL_SECTION, _OTHER_H_SECTION
<1>2. PICK next, header : r = [incl EXCEPT !.section = next, !.last_header = header] /\ next \in 0 .. 4
  <2> DEFINE section == incl.section
             next == CASE header_type = "C system" -> IF section <= _C_SECTION THEN _C_SECTION ELSE section
                       [] header_type = "C++ system" -> IF section <= _CPP_SECTION THEN _CPP_SECTION ELSE section
                       [] header_type \in {"likely my", "possible my"} ->
                            IF section <= _MY_H_SECTION THEN _MY_H_SECTION ELSE _OTHER_H_SECTION
                       [] header_type = "other" -> _OTHER_H_SECTION
             late == \/ header_type = "C system" /\ section > _C_SECTION
                     \/ header_type = "C++ system" /\ section > _CPP_SECTION
             header == IF late \/ next # section THEN <<>> ELSE incl.last_header
  <2>1. next \in 0 .. 4
    <3>1. section \in 0 .. 4
      BY <1>1, Zenon
    <3> HIDE DEF section
    <3>2. next \in {_C_SECTION, _CPP_SECTION, _MY_H_SECTION, _OTHER_H_SECTION, section}
      OBVIOUS
    <3> HIDE DEF next
    <3>3. QED
      BY <3>1, <3>2, SectionsAre, Zenon
  <2>2. r = [incl EXCEPT !.section = next, !.last_header = header]
    <3> DEFINE new == [incl EXCEPT !.section = next, !.last_header = header]
    <3>1. CheckNextIncludeOrder(incl, header_type) = [late |-> late, incl |-> new]
      BY Zenon DEF CheckNextIncludeOrder
    <3> HIDE DEF late, new
    <3>2. \A x, y : [late |-> x, incl |-> y].incl = y
      OBVIOUS
    <3>3. r = new
      BY <3>1, <3>2, Zenon
    <3>4. QED
      BY <3>3, Zenon DEF new
  <2> HIDE DEF r, next, header
  <2>3. QED
    BY <2>1, <2>2, Zenon
<1> HIDE DEF r
<1>3. DOMAIN r = DOMAIN incl /\ r.include_list = incl.include_list /\ r.section = next
  BY <1>1, <1>2
<1>4. QED
  BY <1>2, <1>3, InclKept DEF r, _INITIAL_SECTION, _OTHER_H_SECTION

\* Then the order and the alphabet are checked.
LEMMA CheckIncludeOrderIs ==
    ASSUME NEW order, InclOK(order.incl), NEW canonical_include, NEW elided, NEW at
    PROVE  /\ InclOK(CheckIncludeOrder(order, canonical_include, elided, at).incl)
           /\ IsList(CheckIncludeOrder(order, canonical_include, elided, at).errors)
<1> DEFINE r == CheckIncludeOrder(order, canonical_include, elided, at)
           a == IF order.late THEN <<Err(at, <<"build", "include", "order">>, 4)>> ELSE <<>>
           b == IF IsInAlphabeticalOrder(order.incl, elided, at, canonical_include) THEN <<>>
                ELSE <<Err(at, <<"build", "include", "alpha">>, 4)>>
           new == [order.incl EXCEPT !.last_header = canonical_include]
<1>1. r = [incl |-> new, errors |-> a \o b]
  BY Zenon DEF CheckIncludeOrder
<1>2. IsList(a \o b)
  <2>1. IsList(a) /\ IsList(b)
    BY ShortList, Zenon
  <2> HIDE DEF a, b
  <2>2. QED
    BY <2>1, JoinLists, Zenon
<1>3. InclOK(new)
  <2>1. DOMAIN new = DOMAIN order.incl /\ new.include_list = order.incl.include_list
        /\ new.section = order.incl.section
    BY DEF InclOK
  <2> HIDE DEF new
  <2>2. QED
    BY <2>1, InclKept, Zenon DEF InclOK
<1> HIDE DEF r, a, b, new
<1>4. r.incl = new /\ r.errors = a \o b
  BY <1>1
<1>5. QED
  BY <1>2, <1>3, <1>4, Zenon DEF r

\* AddHeader adds a header that no list has.
LEMMA AddHeaderIs ==
    ASSUME NEW incl, InclOK(incl), NEW settings, NEW files, NEW name, NEW copies, NEW at, NEW include,
           ~FindHeader(incl, include)
    PROVE  /\ InclOK(AddHeader(incl, settings, files, name, copies, at, include).incl)
           /\ IsList(AddHeader(incl, settings, files, name, copies, at, include).errors)
<1> DEFINE L == incl.include_list
           n == at - 1
           e == [header |-> include, line |-> n]
           M == [L EXCEPT ![Len(L)] = Append(L[Len(L)], e)]
           added == [incl EXCEPT !.include_list = M]
           type == _ClassifyInclude(settings, files, name, include, IsSystem(copies.lines[at]))
           order == CheckNextIncludeOrder(added, type)
           canonical_include == CanonicalizeAlphabeticalOrder(include)
<1>1. AddHeader(incl, settings, files, name, copies, at, include)
        = CheckIncludeOrder(order, canonical_include, copies.elided, at)
  BY Zenon DEF AddHeader
<1>2. ListsOK(M)
  <2> HIDE DEF n
  <2>1. e.header = include /\ ListsOK(L)
    BY DEF InclOK
  <2>2. \A a \in DOMAIN L : \A i \in DOMAIN L[a] : L[a][i].header # e.header
    BY <2>1, Zenon DEF FindHeader
  <2> HIDE DEF e, L
  <2>3. QED
    BY <2>1, <2>2, AddToLast, Zenon
<1> HIDE DEF M
<1>3. InclOK(added)
  BY <1>2 DEF InclOK
<1>4. type \in {"C system", "C++ system", "likely my", "possible my", "other"}
  BY DEF _ClassifyInclude, ClassifyOwn
<1> HIDE DEF added, type
<1>5. InclOK(order.incl)
  BY <1>3, <1>4, CheckNextIncludeOrderIs, Zenon
<1> HIDE DEF order
<1>6. QED
  BY <1>1, <1>5, CheckIncludeOrderIs, Zenon

\* CheckIncludeLine keeps the headers unique.
LEMMA CheckIncludeLineIs ==
    ASSUME NEW incl, InclOK(incl), NEW settings, NEW files, NEW name, NEW copies, NEW at
    PROVE  /\ InclOK(CheckIncludeLine(incl, settings, files, name, copies, at).incl)
           /\ IsList(CheckIncludeLine(incl, settings, files, name, copies, at).errors)
<1> DEFINE include == Included(copies.lines[at])
           found == IncludeErrors(incl, settings, files, name, copies, at, include)
           a == IF NoSubdir(copies.lines[at], include) THEN <<Err(at, <<"build", "include", "subdir">>, 4)>> ELSE <<>>
           none == [incl |-> incl, errors |-> <<>>]
           again == [incl |-> incl, errors |-> <<Err(at, <<"build", "include">>, 4)>>]
           r == CheckIncludeLine(incl, settings, files, name, copies, at)
<1>1. r = IF ~IsInclude(copies.lines[at]) THEN none ELSE [found EXCEPT !.errors = a \o found.errors]
  BY Zenon DEF CheckIncludeLine
<1>2. IsList(none.errors) /\ none.incl = incl /\ IsList(again.errors) /\ again.incl = incl
      /\ DOMAIN none = {"incl", "errors"} /\ DOMAIN again = {"incl", "errors"}
  BY ShortList
<1>3. IsList(a)
  BY ShortList, Zenon
<1> HIDE DEF include, a, r
<1>4. InclOK(found.incl) /\ IsList(found.errors) /\ DOMAIN found = {"incl", "errors"}
  <2> DEFINE added == AddHeader(incl, settings, files, name, copies, at, include)
  <2>1. found \in {none, again} \/ (~FindHeader(incl, include) /\ found = added)
    BY Zenon DEF IncludeErrors
  <2>2. DOMAIN added = {"incl", "errors"}
    BY DEF AddHeader, CheckIncludeOrder
  <2> HIDE DEF found, none, again, added
  <2>3. CASE found \in {none, again}
    BY <1>2, <2>3, Zenon
  <2>4. CASE ~FindHeader(incl, include) /\ found = added
    BY <2>2, <2>4, AddHeaderIs, Zenon DEF added
  <2>5. QED
    BY <2>1, <2>3, <2>4, Zenon
<1> HIDE DEF found, none
<1> DEFINE longer == a \o found.errors
           more == [found EXCEPT !.errors = longer]
<1>5. IsList(longer)
  BY <1>3, <1>4, JoinLists, Zenon
<1> HIDE DEF longer
<1>6. more.incl = found.incl /\ more.errors = longer
  BY <1>4
<1>7. r \in {none, more}
  BY <1>1, Zenon DEF longer
<1> HIDE DEF more
<1>8. QED
  BY <1>2, <1>4, <1>5, <1>6, <1>7, Zenon DEF r
-----------------------------------------------------------------------------
(* The rules that look at the whole file. *)

\* One error for every header that is missing.
LEMMA AskForIs ==
    ASSUME NEW elided, IsList(elided), NEW included
    PROVE  IsList(AskFor(elided, included))
<1> DEFINE Asked(at) == {h \in DOMAIN Required(elided) : <<h>> \notin included /\ Required(elided)[h] = at}
           E(at) == Err(at, <<"build", "include", "what_you_use">>, 4)
           Of(at) == [n \in 1 .. Cardinality(Asked(at)) |-> E(at)]
           k == Len(elided)
           ss == [at \in DOMAIN elided |-> Of(at)]
<1>1. AskFor(elided, included) = FlattenSeq(ss)
  BY Zenon DEF AskFor
<1>2. k \in Nat /\ DOMAIN elided = 1 .. k
  BY DEF IsList
<1>3. ASSUME NEW at PROVE IsList(Of(at))
  <2> DEFINE D == {"string", "vector", "algorithm"}
             n == Cardinality(Asked(at))
  <2>1. Asked(at) \subseteq D
    BY DEF Required
  <2>2. IsFiniteSet(D)
    <3>1. IsFiniteSet((({} \cup {"string"}) \cup {"vector"}) \cup {"algorithm"})
      BY FS_EmptySet, FS_AddElement
    <3>2. D = (({} \cup {"string"}) \cup {"vector"}) \cup {"algorithm"}
      OBVIOUS
    <3>3. QED
      BY <3>1, <3>2, Zenon
  <2> HIDE DEF D, Asked
  <2>3. n \in Nat
    BY <2>1, <2>2, FS_Subset, FS_CardinalityType
  <2> HIDE DEF n, E
  <2>4. [m \in 1 .. n |-> E(at)] \in Seq({E(at)})
    BY <2>3
  <2>5. QED
    BY <2>4, ListOf, Zenon DEF n
<1> HIDE DEF Of
<1>4. DOMAIN ss = 1 .. k /\ ss = [n \in 1 .. k |-> ss[n]] /\ \A n \in 1 .. k : IsList(ss[n])
  BY <1>2, <1>3, Zenon
<1> HIDE DEF ss, k
<1>5. QED
  BY <1>1, <1>2, <1>4, FlatList, Zenon

\* One error for every header beside the file before the one that is included.
LEMMA CheckHeaderFileIncludedIs ==
    ASSUME NEW incl, NEW settings, NEW files, NEW name, NEW headers, IsList(headers)
    PROVE  IsList(CheckHeaderFileIncluded(incl, settings, files, name, headers))
<1> DEFINE all == FlattenSeq(incl.include_list)
           Own(h) == \E e \in ToSet(all) : Matches(RepositoryName(settings, files, h), e.header)
           found == SelectInSeq(headers, Own)
           first_include == IF all = <<>> THEN NoLine ELSE all[1].line + 1
           m == IF found = 0 THEN Len(headers) ELSE found - 1
           E == Err(first_include, <<"build", "include">>, 5)
<1>1. CheckHeaderFileIncluded(incl, settings, files, name, headers) \in {<<>>, [n \in 1 .. m |-> E]}
  BY Zenon DEF CheckHeaderFileIncluded
<1>2. Len(headers) \in Nat
  BY DEF IsList
<1>3. found \in 0 .. Len(headers)
  <2> DEFINE I == {i \in 1 .. Len(headers) : Own(headers[i])}
  <2>1. found = IF I # {} THEN Min(I) ELSE 0
    BY Zenon DEF SelectInSeq
  <2>2. I \in SUBSET (1 .. Len(headers))
    OBVIOUS
  <2> HIDE DEF I, found
  <2>3. QED
    BY <1>2, <2>1, <2>2, PlaceIs, Zenon
<1> HIDE DEF found, E
<1>4. m \in Nat
  BY <1>2, <1>3
<1> HIDE DEF m
<1>5. [n \in 1 .. m |-> E] \in Seq({E})
  BY <1>4
<1>6. QED
  BY <1>1, <1>5, ShortList, ListOf, Zenon

\* The settings name finitely many extensions.
SettingsOK(settings) ==
    /\ DOMAIN settings = {"line_length", "valid_extensions", "hpp_headers", "root", "repository"}
    /\ settings.line_length \in Nat /\ IsFiniteSet(settings.valid_extensions) /\ IsFiniteSet(settings.hpp_headers)

\* So there are finitely many headers beside a file.
LEMMA ExistingHeadersIs ==
    ASSUME NEW settings, SettingsOK(settings), NEW files, NEW name,
           NEW headers \in ExistingHeaders(settings, files, name)
    PROVE  IsList(headers)
<1> DEFINE exts == GetHeaderExtensions(settings)
           Name(ext) == NoExtension(name) \o <<".", ext>>
           names == {Name(ext) : ext \in exts}
           H == {h \in names : FullName(h) \in DOMAIN files}
           n == Cardinality(H)
<1>1. IsFiniteSet(HeaderLike)
  <2> DEFINE A == ((({} \cup {"h"}) \cup {"hh"}) \cup {"hpp"}) \cup {"hxx"}
  <2>1. IsFiniteSet(A)
    BY FS_EmptySet, FS_AddElement
  <2>2. IsFiniteSet((A \cup {"h++"}) \cup {"cuh"})
    <3> HIDE DEF A
    <3>1. QED
      BY <2>1, FS_AddElement
  <2>3. HeaderLike = (A \cup {"h++"}) \cup {"cuh"}
    BY DEF HeaderLike
  <2>4. QED
    BY <2>2, <2>3, Zenon
<1>2. IsFiniteSet(exts)
  <2>1. IsFiniteSet(settings.valid_extensions \cap HeaderLike)
    BY <1>1, FS_Intersection, Zenon
  <2>2. QED
    BY <1>1, <2>1, Zenon DEF GetHeaderExtensions, SettingsOK
<1> HIDE DEF exts
<1>3. IsFiniteSet(names)
  <2> DEFINE f == [ext \in exts |-> Name(ext)]
  <2>1. f \in Surjection(exts, names)
    BY DEF Surjection
  <2> HIDE DEF f, names
  <2>2. QED
    BY <1>2, <2>1, FS_Surjection
<1>4. n \in Nat
  <2>1. H \subseteq names
    OBVIOUS
  <2> HIDE DEF H, names
  <2>2. QED
    BY <1>3, <2>1, FS_Subset, FS_CardinalityType
<1>5. headers \in [1 .. n -> H]
  BY Zenon DEF ExistingHeaders, SetToSeqs, exts
<1> HIDE DEF n, H
<1>6. headers \in Seq(H)
  BY <1>4, <1>5
<1>7. QED
  BY <1>6, ListOf, Zenon
-----------------------------------------------------------------------------
(* The rules report lists of errors. *)

\* Every token of a line may be reported by its rule.
LEMMA RuleErrorsIs ==
    ASSUME NEW line, IsList(line)
    PROVE  IsList(RuleErrors(line))
<1> DEFINE Of(n) == IF line[n] \in DOMAIN RuleOf
                    THEN <<Err(p, RuleOf[line[n]].category, RuleOf[line[n]].confidence)>> ELSE <<>>
           k == Len(line)
           ss == [n \in DOMAIN line |-> Of(n)]
<1>1. \A n : IsList(Of(n))
  BY ShortList, Zenon
<1>2. k \in Nat /\ DOMAIN line = 1 .. k
  BY DEF IsList
<1>3. RuleErrors(line) = FlattenSeq(ss)
  BY Zenon DEF RuleErrors
<1> HIDE DEF Of, k
<1>4. DOMAIN ss = 1 .. k /\ ss = [n \in 1 .. k |-> ss[n]] /\ \A n \in 1 .. k : IsList(ss[n])
  BY <1>1, <1>2, Zenon
<1> HIDE DEF ss
<1>5. QED
  BY <1>2, <1>3, <1>4, FlatList, Zenon

\* What is said about one line.
LEMMA LineErrorsIs ==
    ASSUME NEW nesting, NEW asm, NEW function, NEW language, NEW line, IsList(line),
           IsList(nesting.errors), IsList(function.errors), IsList(language.errors)
    PROVE  IsList(nesting.errors \o CheckForNamespaceIndentation(nesting, clean.elided, p)
                  \o (IF asm THEN <<>> ELSE CheckOutsideAsm(line, function, language))
                  \o FlagCxx11Features(line))
<1>1. IsList(CheckForNamespaceIndentation(nesting, clean.elided, p))
  BY ShortList, Zenon DEF CheckForNamespaceIndentation
<1>2. IsList(CheckForMultilineCommentsAndStrings(line))
  BY ShortList, JoinLists, Zenon DEF CheckForMultilineCommentsAndStrings
<1>3. \A text, cppvar : IsList(CheckLineLength(text, cppvar))
  BY ShortList, Zenon DEF CheckLineLength
<1>4. IsList(FlagCxx11Features(line))
  BY ShortList, JoinLists, Zenon DEF FlagCxx11Features
<1>5. IsList(CheckOutsideAsm(line, function, language))
  BY <1>2, <1>3, RuleErrorsIs, JoinLists, Zenon DEF CheckOutsideAsm
<1>6. IsList(IF asm THEN <<>> ELSE CheckOutsideAsm(line, function, language))
  BY <1>5, ShortList, Zenon
<1>7. QED
  BY <1>1, <1>4, <1>6, JoinLists, Zenon

\* What is said about the bytes of the file.
LEMMA CheckForBadCharactersIs ==
    ASSUME NEW lines, IsList(lines)
    PROVE  IsList(CheckForBadCharacters(lines))
<1> DEFINE Of(n) == (IF Contains(lines[n], "U+FFFD") THEN <<Err(n, <<"readability", "utf8">>, 5)>> ELSE <<>>)
                    \o (IF Contains(lines[n], "NUL") THEN <<Err(n, <<"readability", "nul">>, 5)>> ELSE <<>>)
           k == Len(lines)
           ss == [n \in DOMAIN lines |-> Of(n)]
<1>1. \A n : IsList(Of(n))
  BY ShortList, JoinLists, Zenon
<1>2. k \in Nat /\ DOMAIN lines = 1 .. k
  BY DEF IsList
<1>3. CheckForBadCharacters(lines) = FlattenSeq(ss)
  BY Zenon DEF CheckForBadCharacters
<1> HIDE DEF Of, k
<1>4. DOMAIN ss = 1 .. k /\ ss = [n \in 1 .. k |-> ss[n]] /\ \A n \in 1 .. k : IsList(ss[n])
  BY <1>1, <1>2, Zenon
<1> HIDE DEF ss
<1>5. QED
  BY <1>2, <1>3, <1>4, FlatList, Zenon

\* What is said about the ends of the lines.
LEMMA CheckLineEndingsIs ==
    ASSUME IsList(file.lines)
    PROVE  IsList(CheckLineEndings)
<1> DEFINE k == Len(file.lines) - 1
           Of(n) == IF n \in file.crlf THEN <<Err(n + 1, <<"whitespace", "newline">>, 1)>> ELSE <<>>
           ss == [n \in 1 .. k |-> Of(n)]
           K == IF k \in Nat THEN k ELSE 0
<1>1. CheckLineEndings \in {<<>>, FlattenSeq(ss)}
  BY Zenon DEF CheckLineEndings
<1>2. \A n : IsList(Of(n))
  BY ShortList, Zenon
<1>3. K \in Nat /\ 1 .. k = 1 .. K
  BY DEF IsList
<1> HIDE DEF Of, k, K
<1>4. DOMAIN ss = 1 .. K /\ ss = [n \in 1 .. K |-> ss[n]] /\ \A n \in 1 .. K : IsList(ss[n])
  BY <1>2, <1>3, Zenon
<1> HIDE DEF ss
<1>5. IsList(FlattenSeq(ss))
  BY <1>3, <1>4, FlatList, Zenon
<1>6. QED
  BY <1>1, <1>5, ShortList, Zenon

\* What is said at the end of the file.
LEMMA FileErrorsIs ==
    ASSUME NEW own, IsList(own), IsList(nesting_state.stack), clean \in CleanLines, IsList(file.lines)
    PROVE  IsList(CheckCompletedBlocks(nesting_state.stack)
                  \o CheckForIncludeWhatYouUse(include_state, g, disk, filename, clean.elided)
                  \o own \o CheckForBadCharacters(clean.raw_lines)
                  \o CheckForNewlineAtEOF(clean.raw_lines) \o CheckLineEndings)
<1>1. IsList(clean.elided) /\ IsList(clean.raw_lines)
  <2>1. clean.elided \in Seq(Line) /\ clean.raw_lines \in Seq(Line)
    BY DEF CleanLines
  <2>2. QED
    BY <2>1, ListOf, Zenon
<1>2. IsList(CheckForIncludeWhatYouUse(include_state, g, disk, filename, clean.elided))
  BY <1>1, AskForIs, ShortList, Zenon DEF CheckForIncludeWhatYouUse, AskUnlessUnread
<1>3. IsList(CheckForNewlineAtEOF(clean.raw_lines))
  BY ShortList, Zenon DEF CheckForNewlineAtEOF
<1>4. QED
  BY <1>1, <1>2, <1>3, CheckCompletedBlocksIs, CheckForBadCharactersIs, CheckLineEndingsIs, JoinLists, Zenon
-----------------------------------------------------------------------------
(* The CPPLINT.cfg files. *)

\* A state of the loop over the options that began with the errors c.
ConfigOK(s, c) ==
    /\ DOMAIN s = {"cpp", "g", "filters", "keep_looking", "excluded"}
    /\ CppOK(s.cpp) /\ SameFilters(c, s.cpp) /\ SettingsOK(s.g)

\* A message is not an error.
LEMMA PrintErrorKeeps ==
    ASSUME NEW c, CppOK(c)
    PROVE  CppOK(PrintError(c)) /\ SameFilters(c, PrintError(c)) /\ PrintError(c).reported = c.reported
<1> DEFINE m == c.messages + 1
           d == [c EXCEPT !.messages = m]
<1>1. PrintError(c) = d
  BY Zenon DEF PrintError
<1>2. DOMAIN c = CppFields /\ m \in Nat /\ c.verbose_level \in Nat
  BY DEF CppOK
<1> HIDE DEF m
<1>3. /\ DOMAIN d = DOMAIN c /\ d.reported = c.reported /\ d.error_count = c.error_count
      /\ d.errors_by_category = c.errors_by_category /\ d.counting = c.counting
      /\ d.verbose_level = c.verbose_level /\ d.messages = m /\ SameFilters(c, d)
  BY <1>2 DEF CppFields, SameFilters
<1> HIDE DEF d
<1>4. CppOK(d)
  BY <1>2, <1>3, CppKept, Zenon
<1>5. QED
  BY <1>1, <1>3, <1>4, Zenon

\* One option.
LEMMA ConfigOptionKeeps ==
    ASSUME NEW s, NEW c, ConfigOK(s, c), NEW option \in ConfigOptions, IsFiniteSet(option.names), NEW dir, NEW name
    PROVE  ConfigOK(ConfigOption(s, option, dir, name), c)
<1> DEFINE r == ConfigOption(s, option, dir, name)
           printed == [s EXCEPT !.cpp = PrintError(s.cpp)]
           Set(field, x) == [s EXCEPT !.g = [s.g EXCEPT ![field] = x]]
<1>1. \/ r \in {s, printed, Set("valid_extensions", option.names), Set("hpp_headers", option.names)}
      \/ option.number \in Nat /\ r = Set("line_length", option.number)
      \/ \E x : r = Set("root", x)
      \/ \E x : r \in {[s EXCEPT !.keep_looking = x], [s EXCEPT !.filters = x], [s EXCEPT !.excluded = x]}
  BY DEF ConfigOption
<1> HIDE DEF r
<1>2. DOMAIN s = {"cpp", "g", "filters", "keep_looking", "excluded"} /\ SettingsOK(s.g)
  BY DEF ConfigOK
<1>3. ConfigOK(printed, c)
  <2> DEFINE d == PrintError(s.cpp)
  <2>1. CppOK(d) /\ SameFilters(c, d)
    BY PrintErrorKeeps, Zenon DEF ConfigOK, SameFilters
  <2> HIDE DEF d
  <2>2. printed.cpp = d /\ printed.g = s.g /\ DOMAIN printed = DOMAIN s
    BY <1>2 DEF d
  <2>3. QED
    BY <1>2, <2>1, <2>2, Zenon DEF ConfigOK
<1>4. ASSUME NEW new, SettingsOK(new) PROVE ConfigOK([s EXCEPT !.g = new], c)
  BY <1>2, <1>4 DEF ConfigOK
<1>5. ASSUME NEW x PROVE ConfigOK([s EXCEPT !.keep_looking = x], c) /\ ConfigOK([s EXCEPT !.filters = x], c)
                         /\ ConfigOK([s EXCEPT !.excluded = x], c)
  BY DEF ConfigOK
<1>6. /\ SettingsOK([s.g EXCEPT !["valid_extensions"] = option.names])
      /\ SettingsOK([s.g EXCEPT !["hpp_headers"] = option.names])
      /\ option.number \in Nat => SettingsOK([s.g EXCEPT !["line_length"] = option.number])
      /\ \A x : SettingsOK([s.g EXCEPT !["root"] = x])
  BY <1>2 DEF SettingsOK
<1>7. QED
  BY <1>1, <1>3, <1>4, <1>5, <1>6, Zenon DEF r

\* f[n] is what the first n lines of a CPPLINT.cfg make of the settings c.
ReadInTurn(f, c, options, dir, name) ==
    /\ f[0] = c
    /\ \A n \in 1 .. Len(options) : f[n] = ConfigOption(f[n - 1], options[n], dir, name)
    /\ ReadOptions(c, options, dir, name) = f[Len(options)]

\* ReadOptions is the course of ConfigOption over the lines.
LEMMA OptionsCourse ==
    ASSUME NEW c, NEW options, IsList(options), NEW dir, NEW name
    PROVE  \E f : ReadInTurn(f, c, options, dir, name)
<1> DEFINE k == Len(options)
           Step(f, m) == [s \in SUBSET (1 .. m) |->
                            IF s = {} THEN c ELSE ConfigOption(f[s \ {Max(s)}], options[Max(s)], dir, name)]
           I == {m \in 0 .. k : \E f : f = Step(f, m)}
           it == CHOOSE f : f = Step(f, k)
<1>1. k \in Nat /\ DOMAIN options = 1 .. k
  BY DEF IsList
<1>2. ReadOptions(c, options, dir, name) = it[1 .. k]
  BY <1>1, Zenon DEF ReadOptions, FoldLeft, MapThenFoldSet
<1> HIDE DEF k
<1>3. 0 \in I
  <2> DEFINE h == [s \in SUBSET (1 .. 0) |-> c]
  <2>1. \A s \in SUBSET (1 .. 0) : s = {}
    OBVIOUS
  <2>2. h = Step(h, 0)
    BY <2>1
  <2> HIDE DEF h
  <2>3. 0 \in 0 .. k
    BY <1>1
  <2>4. QED
    BY <2>2, <2>3, Zenon
<1>4. ASSUME NEW m \in 1 .. k, m - 1 \in I PROVE m \in I
  <2>1. PICK f : f = Step(f, m - 1)
    BY <1>4, Zenon
  <2> DEFINE h == [s \in SUBSET (1 .. m) |->
                     IF m \in s THEN ConfigOption(f[s \ {m}], options[m], dir, name) ELSE f[s]]
  <2>2. m \in Nat /\ m \in 0 .. k /\ {} \in SUBSET (1 .. m - 1)
    BY <1>1
  <2>3. ASSUME NEW s \in SUBSET (1 .. m)
        PROVE  h[s] = IF s = {} THEN c ELSE ConfigOption(h[s \ {Max(s)}], options[Max(s)], dir, name)
    <3>1. CASE s = {}
      <4>1. h[s] = f[{}]
        BY <3>1
      <4>2. f[{}] = c
        BY <2>1, <2>2
      <4>3. QED
        BY <3>1, <4>1, <4>2, Zenon
    <3>2. CASE s # {} /\ m \in s
      <4>1. Max(s) = m /\ s \ {m} \in SUBSET (1 .. m) /\ m \notin s \ {m}
        BY <2>2, <3>2, FoldPlaces
      <4>2. h[s] = ConfigOption(f[s \ {m}], options[m], dir, name) /\ h[s \ {m}] = f[s \ {m}]
        BY <3>2, <4>1, Zenon
      <4> HIDE DEF h
      <4>3. QED
        BY <3>2, <4>1, <4>2, Zenon
    <3>3. CASE s # {} /\ m \notin s
      <4>1. s \in SUBSET (1 .. m - 1) /\ s \ {Max(s)} \in SUBSET (1 .. m) /\ m \notin s \ {Max(s)}
        BY <2>2, <3>3, FoldPlaces
      <4>2. h[s] = f[s] /\ h[s \ {Max(s)}] = f[s \ {Max(s)}]
        BY <3>3, <4>1, Zenon
      <4>3. f[s] = ConfigOption(f[s \ {Max(s)}], options[Max(s)], dir, name)
        BY <2>1, <3>3, <4>1, Zenon
      <4> HIDE DEF h
      <4>4. QED
        BY <3>3, <4>2, <4>3, Zenon
    <3>4. QED
      BY <3>1, <3>2, <3>3, Zenon
  <2>4. h = Step(h, m)
    <3>1. DOMAIN h = SUBSET (1 .. m) /\ h = [s \in SUBSET (1 .. m) |-> h[s]]
      BY Zenon
    <3> HIDE DEF h
    <3>2. QED
      BY <2>3, <3>1, Zenon
  <2> HIDE DEF h
  <2>5. QED
    BY <2>2, <2>4, Zenon
<1> HIDE DEF I
<1>5. k \in I
  BY <1>1, <1>3, <1>4, EndHas
<1>6. it = Step(it, k)
  BY <1>5, Zenon DEF I
<1> HIDE DEF it
<1> DEFINE f == [n \in 0 .. k |-> it[1 .. n]]
<1>7. f[0] = c
  <2>1. 1 .. 0 = {} /\ {} \in SUBSET (1 .. k) /\ 0 \in 0 .. k
    BY <1>1
  <2>2. it[{}] = c
    BY <1>6, <2>1, Zenon
  <2>3. QED
    BY <2>1, <2>2, Zenon
<1>8. ASSUME NEW n \in 1 .. k PROVE f[n] = ConfigOption(f[n - 1], options[n], dir, name)
  <2>1. n \in Nat /\ n \in 1 .. n /\ 1 .. n # {} /\ 1 .. n \in SUBSET (1 .. k) /\ (1 .. n) \ {n} = 1 .. n - 1
        /\ n \in 0 .. k /\ n - 1 \in 0 .. k
    BY <1>1
  <2>2. Max(1 .. n) = n
    <3> DEFINE s == 1 .. n
    <3>1. s \in SUBSET (1 .. n) /\ s # {} /\ n \in s
      BY <2>1
    <3> HIDE DEF s
    <3>2. Max(s) = n
      BY <2>1, <3>1, FoldPlaces, Zenon
    <3>3. QED
      BY <3>2 DEF s
  <2>3. it[1 .. n] = ConfigOption(it[1 .. n - 1], options[n], dir, name)
    BY <1>6, <2>1, <2>2, Zenon
  <2>4. QED
    BY <2>1, <2>3, Zenon
<1>9. f[k] = it[1 .. k]
  BY <1>1
<1> HIDE DEF f
<1>10. ReadInTurn(f, c, options, dir, name)
  BY <1>2, <1>7, <1>8, <1>9, Zenon DEF k, ReadInTurn
<1>11. QED
  BY <1>10, Zenon

\* Whatever the lines say, the counts are right, the filters are left alone, and the
\* settings stay settings.
LEMMA ReadOptionsKeeps ==
    ASSUME NEW s, NEW c, ConfigOK(s, c), NEW options \in Seq(ConfigOptions),
           \A option \in ToSet(options) : IsFiniteSet(option.names), NEW dir, NEW name
    PROVE  ConfigOK(ReadOptions(s, options, dir, name), c)
<1>1. IsList(options)
  BY ListOf, Zenon
<1>2. \A n \in 1 .. Len(options) : options[n] \in ConfigOptions /\ options[n] \in ToSet(options)
  <2>1. \A n \in 1 .. Len(options) : options[n] \in ConfigOptions
    OBVIOUS
  <2>2. DOMAIN options = 1 .. Len(options)
    OBVIOUS
  <2>3. QED
    BY <2>1, <2>2, Zenon DEF ToSet
<1>3. PICK f : ReadInTurn(f, s, options, dir, name)
  BY <1>1, OptionsCourse, Zenon
<1> DEFINE k == Len(options)
           I == {n \in 0 .. k : ConfigOK(f[n], c)}
<1>4. k \in Nat
  OBVIOUS
<1>5. 0 \in I
  <2>1. 0 \in 0 .. k
    BY <1>4
  <2>2. QED
    BY <1>3, <2>1, Zenon DEF ReadInTurn
<1>6. ASSUME NEW n \in 1 .. k, n - 1 \in I PROVE n \in I
  <2>1. n \in 0 .. k
    BY <1>4
  <2>2. ConfigOK(f[n], c)
    BY <1>3, <1>6, <1>2, ConfigOptionKeeps, Zenon DEF ReadInTurn
  <2>3. QED
    BY <2>1, <2>2, Zenon
<1> HIDE DEF I
<1>7. k \in I
  BY <1>4, <1>5, <1>6, EndHas
<1>8. QED
  BY <1>3, <1>7, Zenon DEF I, ReadInTurn
-----------------------------------------------------------------------------
(* The inductive invariant. *)

\* What is known of the file in progress.
FileOK ==
    /\ InclOK(include_state) /\ NestingOK(nesting_state)
    /\ clean \in CleanLines /\ p \in 1 .. Len(clean.elided) + 1 /\ FnOK(function_state, p - 1)

\* What is known at each step: where the filters of the command line are, and where the
\* suppressions come from.
StepOK ==
    /\ pc \in {"main", "next", "config", "open", "line", "exit"} /\ status \in {0, 1}
    /\ pc # "line" => p = 1
    /\ pc = "main" => cpp = _CppLintState
    /\ pc = "next" => cpp.filters = _DEFAULT_FILTERS \o args.filters
    /\ pc \in {"config", "open", "line"} =>
           todo # <<>> /\ cpp._filters_backup = _DEFAULT_FILTERS \o args.filters
    /\ pc = "line" => Readable /\ Local(cpp, clean.raw_lines)
    /\ pc = "exit" /\ status = 0 => cpp.reported = <<>> /\ todo = <<>>

\* The invocation is one of those that are considered.
InputOK == \E family \in DOMAIN Invocations : input \in Invocations[family]

\* All of it together.
Inv == InputOK /\ CppOK(cpp) /\ SettingsOK(g) /\ FileOK /\ StepOK
-----------------------------------------------------------------------------
(* The states things begin with, and the changes of cpp that concern no error. *)

\* What the command line and the disk hold.
LEMMA InputIs ==
    ASSUME InputOK
    PROVE  /\ args.verbose \in Nat /\ args.linelength \in Nat
           /\ IsFiniteSet(args.extensions) /\ IsFiniteSet(args.headers)
           /\ \A f \in DOMAIN disk : disk[f].lines \in Seq(Seq(STRING))
           /\ \A d \in DOMAIN input.configs :
                  /\ input.configs[d].options \in Seq(ConfigOptions)
                  /\ \A option \in ToSet(input.configs[d].options) : IsFiniteSet(option.names)
BY InvocationsAssumption, Zenon DEF InputOK, args, disk

\* A file that has not been begun.
LEMMA NothingRead ==
    /\ InclOK(_IncludeState) /\ NestingOK(NoBlocks) /\ FnOK(_FunctionState, 0)
    /\ NoLines \in CleanLines /\ 1 \in 1 .. Len(NoLines.elided) + 1
<1>1. IsList(<<>>)
  BY ShortList, Zenon
<1>2. InclOK(_IncludeState)
  <2> DEFINE L == << <<>> >>
  <2>1. DOMAIN L = {1} /\ L[1] = <<>> /\ DOMAIN <<>> = {} /\ L # <<>>
    OBVIOUS
  <2>2. IsList(L)
    BY ShortList, Zenon
  <2> HIDE DEF L
  <2>3. ListsOK(L)
    BY <1>1, <2>1, <2>2 DEF ListsOK, Unique
  <2>4. /\ DOMAIN _IncludeState = {"include_list", "section", "last_header"}
        /\ _IncludeState.section \in _INITIAL_SECTION .. _OTHER_H_SECTION
        /\ _IncludeState.include_list = L
    BY DEF _IncludeState, _INITIAL_SECTION, _OTHER_H_SECTION, ResetSection, L
  <2>5. QED
    BY <2>3, <2>4, Zenon DEF InclOK
<1>3. NestingOK(NoBlocks)
  BY <1>1 DEF NestingOK, NoBlocks
<1>4. FnOK(_FunctionState, 0)
  BY DEF FnOK, _FunctionState
<1>5. NoLines \in CleanLines /\ 1 \in 1 .. Len(NoLines.elided) + 1
  <2>1. <<>> \in Seq(Line)
    OBVIOUS
  <2>2. NoLines \in CleanLines
    BY <2>1, CleansedLinesIs, Zenon DEF NoLines
  <2>3. Len(NoLines.elided) \in Nat
    BY <2>2 DEF CleanLines
  <2>4. QED
    BY <2>2, <2>3
<1>6. QED
  BY <1>2, <1>3, <1>4, <1>5, Zenon

\* Nothing has been reported yet.
LEMMA NothingReported ==
    /\ CppOK(_CppLintState) /\ _CppLintState.reported = <<>> /\ _CppLintState.filters = _DEFAULT_FILTERS
    /\ SettingsOK(InitialSettings)
<1> DEFINE c == _CppLintState
<1>1. /\ DOMAIN c = CppFields /\ c.reported = <<>> /\ c.error_count = 0 /\ c.counting = "total"
      /\ c.verbose_level \in Nat /\ c.messages \in Nat /\ c.filters = _DEFAULT_FILTERS
  BY DEF _CppLintState, CppFields
<1> HIDE DEF c
<1>2. Counted(c)
  BY <1>1 DEF Counted
<1>3. CppOK(c)
  BY <1>1, <1>2, ShortList, Zenon DEF CppOK
<1>4. SettingsOK(InitialSettings)
  BY FS_EmptySet DEF SettingsOK, InitialSettings
<1>5. QED
  BY <1>1, <1>3, <1>4, Zenon DEF c

\* The filters are not part of the counts.
LEMMA FiltersChanged ==
    ASSUME NEW c, CppOK(c), NEW filters
    PROVE  /\ CppOK([c EXCEPT !.filters = filters]) /\ CppOK([c EXCEPT !._filters_backup = filters])
           /\ [c EXCEPT !.filters = filters].filters = filters
           /\ [c EXCEPT !.filters = filters]._filters_backup = c._filters_backup
           /\ [c EXCEPT !._filters_backup = filters]._filters_backup = filters
<1> DEFINE a == [c EXCEPT !.filters = filters]
           b == [c EXCEPT !._filters_backup = filters]
           Same(d) == /\ DOMAIN d = DOMAIN c /\ d.reported = c.reported /\ d.error_count = c.error_count
                      /\ d.errors_by_category = c.errors_by_category /\ d.counting = c.counting
                      /\ d.verbose_level = c.verbose_level /\ d.messages = c.messages
<1>1. DOMAIN c = CppFields /\ c.verbose_level \in Nat /\ c.messages \in Nat
  BY Zenon DEF CppOK
<1>2. /\ Same(a) /\ a.filters = filters /\ a._filters_backup = c._filters_backup
      /\ Same(b) /\ b._filters_backup = filters
  BY <1>1 DEF CppFields
<1> HIDE DEF a, b
<1>3. CppOK(a) /\ CppOK(b)
  BY <1>1, <1>2, CppKept, Zenon
<1>4. QED
  BY <1>2, <1>3, Zenon DEF a, b

\* The suppressions are not part of the counts either.
LEMMA SuppressionsChanged ==
    ASSUME NEW c, CppOK(c), NEW raw_lines, NEW lines
    PROVE  /\ CppOK(ResetNolintSuppressions(c)) /\ SameFilters(c, ResetNolintSuppressions(c))
           /\ Local(ResetNolintSuppressions(c), raw_lines)
           /\ Keeps(c, ProcessGlobalSuppresions(c, lines), raw_lines)
<1> DEFINE a == ResetNolintSuppressions(c)
           b == ProcessGlobalSuppresions(c, lines)
           Same(d) == /\ DOMAIN d = DOMAIN c /\ d.reported = c.reported /\ d.error_count = c.error_count
                      /\ d.errors_by_category = c.errors_by_category /\ d.counting = c.counting
                      /\ d.verbose_level = c.verbose_level /\ d.messages = c.messages
                      /\ d.filters = c.filters /\ d._filters_backup = c._filters_backup
<1>1. DOMAIN c = CppFields /\ c.verbose_level \in Nat /\ c.messages \in Nat
  BY Zenon DEF CppOK
<1>2. a = [c EXCEPT !.suppressed = {}, !.global = {}] /\ \E x : b = [c EXCEPT !.global = x]
  BY Zenon DEF ResetNolintSuppressions, ProcessGlobalSuppresions
<1> HIDE DEF a, b
<1>3. Same(a) /\ a.suppressed = {} /\ Same(b) /\ b.suppressed = c.suppressed
  BY <1>1, <1>2 DEF CppFields
<1>4. CppOK(a) /\ CppOK(b)
  BY <1>1, <1>3, CppKept, Zenon
<1>5. Local(a, raw_lines) /\ (Local(c, raw_lines) => Local(b, raw_lines))
  BY <1>3, Zenon DEF Local
<1>6. QED
  BY <1>3, <1>4, <1>5, Zenon DEF a, b, Keeps, SameFilters
-----------------------------------------------------------------------------
(* The initial states, and the steps. *)

\* The program starts with nothing reported, the default filters and no file.
LEMMA InitInv == Init => Inv
<1> SUFFICES ASSUME Init PROVE Inv
  OBVIOUS
<1>1. InputOK /\ CppOK(cpp) /\ SettingsOK(g)
  BY NothingReported, Zenon DEF Init, InputOK
<1>2. FileOK
  BY NothingRead DEF Init, FileOK
<1>3. StepOK
  BY DEF Init, StepOK
<1>4. QED
  BY <1>1, <1>2, <1>3, Zenon DEF Inv

\* Where nothing of the file in progress changes.
LEMMA FileKept ==
    ASSUME FileOK,
           UNCHANGED <<clean, p, nesting_state, include_state, function_state>>
    PROVE  FileOK'
BY Zenon DEF FileOK

\* The command line.
LEMMA ParseArgumentsInv ==
    ASSUME Inv, ParseArguments
    PROVE  Inv'
<1> DEFINE settings == [g EXCEPT !.line_length = args.linelength,
                                 !.valid_extensions = args.extensions, !.hpp_headers = args.headers,
                                 !.root = args.root, !.repository = args.repository]
           given == [cpp EXCEPT !.output_format = args.output, !.quiet = args.quiet,
                                !.verbose_level = args.verbose, !.counting = args.counting]
           state == SetFilters(given, args.filters)
<1>1. /\ pc = "main" /\ UNCHANGED <<input, fileState>>
      /\ \/ pc' = "exit" /\ status' = 1 /\ UNCHANGED <<todo, cpp, g>>
         \/ g' = settings /\ cpp' = ResetErrorCounts(state) /\ pc' = "next" /\ UNCHANGED status
  BY Zenon DEF ParseArguments
<1>2. InputOK' /\ FileOK' /\ args' = args /\ p' = p
  BY <1>1, FileKept, Zenon DEF Inv, InputOK, fileState, args
<1>3. p = 1 /\ status \in {0, 1} /\ cpp = _CppLintState
  BY <1>1 DEF Inv, StepOK
<1>4. CASE pc' = "exit" /\ status' = 1 /\ UNCHANGED <<todo, cpp, g>>
  <2>1. CppOK(cpp)' /\ SettingsOK(g)'
    BY <1>4, Zenon DEF Inv
  <2>2. StepOK'
    BY <1>2, <1>3, <1>4 DEF StepOK
  <2>3. QED
    BY <1>2, <2>1, <2>2, Zenon DEF Inv
<1>5. CASE g' = settings /\ cpp' = ResetErrorCounts(state) /\ pc' = "next" /\ UNCHANGED status
  <2>1. /\ args.verbose \in Nat /\ args.linelength \in Nat
        /\ IsFiniteSet(args.extensions) /\ IsFiniteSet(args.headers)
    BY InputIs, Zenon DEF Inv
  <2>2. SettingsOK(settings)
    BY <2>1 DEF Inv, SettingsOK
  <2>3. /\ DOMAIN cpp = CppFields /\ cpp.reported = <<>> /\ cpp.messages \in Nat
    BY <1>3, NothingReported, Zenon DEF CppOK
  <2> DEFINE d == ResetErrorCounts(state)
             filters == _DEFAULT_FILTERS \o args.filters
  <2>4. d = [[[given EXCEPT !.filters = _DEFAULT_FILTERS] EXCEPT !.filters = filters]
                EXCEPT !.error_count = 0, !.errors_by_category = <<>>]
    <3> HIDE DEF given
    <3> DEFINE e == [given EXCEPT !.filters = _DEFAULT_FILTERS]
    <3>1. e.filters = _DEFAULT_FILTERS
      BY <2>3 DEF given, CppFields
    <3> HIDE DEF e
    <3>2. QED
      BY <3>1, Zenon DEF ResetErrorCounts, SetFilters, AddFilters, e
  <2> HIDE DEF d, filters
  <2>5. /\ DOMAIN d = CppFields /\ d.reported = <<>> /\ d.messages \in Nat /\ d.verbose_level \in Nat
        /\ d.error_count = 0 /\ d.errors_by_category = <<>> /\ d.filters = filters
    BY <2>1, <2>3, <2>4 DEF CppFields
  <2>6. CppOK(d)
    <3>1. Counted(d)
      BY <2>5 DEF Counted
    <3>2. QED
      BY <2>5, <3>1, ShortList, Zenon DEF CppOK
  <2>7. CppOK(cpp)' /\ SettingsOK(g)' /\ cpp'.filters = _DEFAULT_FILTERS \o args.filters
    BY <1>5, <2>2, <2>5, <2>6, Zenon DEF d, filters
  <2>8. StepOK'
    BY <1>2, <1>3, <1>5, <2>7 DEF StepOK
  <2>9. QED
    BY <1>2, <2>7, <2>8, Zenon DEF Inv
<1>6. QED
  BY <1>1, <1>4, <1>5, Zenon

\* ProcessFile puts the filters aside.
LEMMA BeginFileInv ==
    ASSUME Inv, BeginFile
    PROVE  Inv'
<1>1. /\ pc = "next" /\ todo # <<>> /\ pc' = "config" /\ cpp' = BackupFilters(cpp)
      /\ UNCHANGED <<input, todo, g, status, clean, p, nesting_state, include_state, function_state>>
  BY Zenon DEF BeginFile
<1>2. InputOK' /\ FileOK' /\ SettingsOK(g)' /\ args' = args
  BY <1>1, FileKept, Zenon DEF Inv, InputOK, args
<1>3. p = 1 /\ status \in {0, 1} /\ cpp.filters = _DEFAULT_FILTERS \o args.filters
  BY <1>1 DEF Inv, StepOK
<1>4. CppOK(cpp)' /\ cpp'._filters_backup = cpp.filters
  BY <1>1, FiltersChanged, Zenon DEF Inv, BackupFilters
<1>5. StepOK'
  BY <1>1, <1>2, <1>3, <1>4 DEF StepOK
<1>6. QED
  BY <1>2, <1>4, <1>5, Zenon DEF Inv

\* On every way out of ProcessFile the filters are the ones that were put aside.
LEMMA LeaveFileInv ==
    ASSUME Inv, NEW state, CppOK(state), state._filters_backup = _DEFAULT_FILTERS \o args.filters,
           SettingsOK(g)', LeaveFile(state)
    PROVE  Inv'
<1>1. /\ cpp' = RestoreFilters(state) /\ pc' = "next" /\ clean' = NoLines /\ p' = 1
      /\ nesting_state' = NoBlocks /\ include_state' = _IncludeState /\ function_state' = _FunctionState
      /\ UNCHANGED <<input, status>>
  BY Zenon DEF LeaveFile
<1>2. InputOK' /\ args' = args
  BY <1>1, Zenon DEF Inv, InputOK, args
<1>3. FileOK'
  BY <1>1, NothingRead DEF FileOK
<1>4. CppOK(cpp)' /\ cpp'.filters = _DEFAULT_FILTERS \o args.filters
  BY <1>1, FiltersChanged, Zenon DEF RestoreFilters
<1>5. status \in {0, 1}
  BY DEF Inv, StepOK
<1>6. StepOK'
  BY <1>1, <1>2, <1>4, <1>5 DEF StepOK
<1>7. QED
  BY <1>2, <1>3, <1>4, <1>6, Zenon DEF Inv

\* A CPPLINT.cfg changes settings and collects filters; none is added to those in force yet.
LEMMA ReadConfigInv ==
    ASSUME Inv, ReadConfig
    PROVE  Inv'
<1> DEFINE begun == [cpp |-> cpp, g |-> g, filters |-> cfg_filters, keep_looking |-> TRUE, excluded |-> FALSE]
           Read(dir) == ReadOptions(begun, input.configs[dir].options, dir, look[Len(dir) + 2])
<1>1. PICK dir \in ConfigDirs :
        /\ pc = "config"
        /\ \/ /\ cpp' = PrintError(cpp) /\ pc' = pc
              /\ UNCHANGED <<input, todo, g, status, clean, p, nesting_state, include_state, function_state>>
           \/ g' = Read(dir).g /\ LeaveFile(Read(dir).cpp)
           \/ /\ cpp' = Read(dir).cpp /\ g' = Read(dir).g /\ pc' = pc
              /\ UNCHANGED <<input, todo, status, clean, p, nesting_state, include_state, function_state>>
  BY Zenon DEF ReadConfig
<1> DEFINE read == Read(dir)
<1>2. p = 1 /\ status \in {0, 1} /\ todo # <<>> /\ cpp._filters_backup = _DEFAULT_FILTERS \o args.filters
  BY <1>1 DEF Inv, StepOK
<1>3. ConfigOK(read, cpp)
  <2>1. DOMAIN begun = {"cpp", "g", "filters", "keep_looking", "excluded"} /\ begun.cpp = cpp /\ begun.g = g
    OBVIOUS
  <2> HIDE DEF begun
  <2>2. ConfigOK(begun, cpp)
    BY <2>1, Zenon DEF Inv, ConfigOK, SameFilters
  <2>3. dir \in DOMAIN input.configs
    BY <1>1, Zenon DEF ConfigDirs
  <2>4. QED
    BY <2>2, <2>3, InputIs, ReadOptionsKeeps, Zenon DEF Inv
<1> HIDE DEF read
<1>4. /\ CppOK(read.cpp) /\ SettingsOK(read.g)
      /\ read.cpp._filters_backup = _DEFAULT_FILTERS \o args.filters
  BY <1>2, <1>3, Zenon DEF ConfigOK, SameFilters
<1>5. CASE g' = read.g /\ LeaveFile(read.cpp)
  BY <1>4, <1>5, LeaveFileInv, Zenon
<1>6. ASSUME cpp' \in {PrintError(cpp), read.cpp}, g' \in {g, read.g}, pc' = pc,
             UNCHANGED <<input, todo, status, clean, p, nesting_state, include_state, function_state>>
      PROVE  Inv'
  <2>1. InputOK' /\ FileOK' /\ SettingsOK(g)' /\ args' = args
    BY <1>4, <1>6, FileKept, Zenon DEF Inv, InputOK, args
  <2>2. CppOK(cpp)' /\ cpp'._filters_backup = _DEFAULT_FILTERS \o args.filters
    BY <1>2, <1>4, <1>6, PrintErrorKeeps, Zenon DEF Inv, SameFilters
  <2>3. StepOK'
    BY <1>1, <1>2, <1>6, <2>1, <2>2 DEF StepOK
  <2>4. QED
    BY <2>1, <2>2, <2>3, Zenon DEF Inv
<1>7. QED
  BY <1>1, <1>5, <1>6, Zenon DEF read

\* The filters of the configuration are added, or the program ends.
LEMMA ApplyConfigInv ==
    ASSUME Inv, ApplyConfig
    PROVE  Inv'
<1> DEFINE state == AddFilters(cpp, FlattenSeq(Reverse(cfg_filters)))
<1>1. /\ pc = "config" /\ cpp' = state /\ UNCHANGED <<input, todo, g, fileState>>
      /\ \/ pc' = "open" /\ UNCHANGED status
         \/ pc' = "exit" /\ status' = 1
  BY Zenon DEF ApplyConfig, Die
<1>2. InputOK' /\ FileOK' /\ SettingsOK(g)' /\ args' = args /\ p' = p
  BY <1>1, FileKept, Zenon DEF Inv, InputOK, args, fileState
<1>3. p = 1 /\ status \in {0, 1} /\ todo # <<>> /\ cpp._filters_backup = _DEFAULT_FILTERS \o args.filters
  BY <1>1 DEF Inv, StepOK
<1>4. CppOK(state) /\ state._filters_backup = cpp._filters_backup
  BY FiltersChanged, Zenon DEF Inv, AddFilters
<1> HIDE DEF state
<1>5. CppOK(cpp)' /\ cpp'._filters_backup = _DEFAULT_FILTERS \o args.filters
  BY <1>1, <1>3, <1>4, Zenon
<1>6. StepOK'
  BY <1>1, <1>2, <1>3, <1>5 DEF StepOK
<1>7. QED
  BY <1>2, <1>5, <1>6, Zenon DEF Inv

\* The end of main: there is an error in the count exactly if one was written out.
LEMMA ExitInv ==
    ASSUME Inv, Exit
    PROVE  Inv'
<1>1. /\ pc = "next" /\ todo = <<>> /\ pc' = "exit" /\ status' = IF cpp.error_count > 0 THEN 1 ELSE 0
      /\ UNCHANGED <<input, todo, cpp, g, fileState>>
  BY Zenon DEF Exit
<1>2. InputOK' /\ FileOK' /\ CppOK(cpp)' /\ SettingsOK(g)' /\ p' = p
  BY <1>1, FileKept, Zenon DEF Inv, InputOK, fileState
<1>3. p = 1
  BY <1>1 DEF Inv, StepOK
<1>4. cpp.error_count \in Nat /\ (cpp.error_count = 0 => cpp.reported = <<>>)
  <2>1. cpp.error_count = Len(cpp.reported) /\ IsList(cpp.reported)
    BY Zenon DEF Inv, CppOK, Counted
  <2>2. QED
    BY <2>1 DEF IsList
<1>6. StepOK'
  BY <1>1, <1>2, <1>3, <1>4 DEF StepOK
<1>7. QED
  BY <1>2, <1>6, Zenon DEF Inv
-----------------------------------------------------------------------------
(* ProcessFileData. *)

\* The lines that are read, between two that are not there.
LEMMA MarkedIs ==
    ASSUME NEW lines \in Seq(Seq(STRING))
    PROVE  Marked(lines) \in Seq(Line) /\ Marked(lines) # <<>>
<1> DEFINE marker == <<"//", "marker">>
<1>1. marker \in Line
  BY DEF Line, Token
<1>2. lines \in Seq(Line)
  <2>1. STRING \subseteq Token
    BY DEF Token
  <2>2. Seq(STRING) \subseteq Line
    BY <2>1, SeqSubset, Zenon DEF Line
  <2>3. QED
    BY <2>2, SeqSubset, Zenon
<1>3. Marked(lines) = <<marker>> \o lines \o <<marker>>
  BY Zenon DEF Marked
<1> HIDE DEF marker
<1>4. QED
  BY <1>1, <1>2, <1>3

\* A file begins without suppressions; those that the check of the header guard adds are its own.
LEMMA OpenFileInv ==
    ASSUME Inv, OpenFile
    PROVE  Inv'
<1> DEFINE lines == Marked(file.lines)
           removed == RemoveMultiLineComments(lines)
           unclosed == IF removed.unclosed = 0 THEN <<>>
                       ELSE <<Err(removed.unclosed + 1, <<"readability", "multiline_comment">>, 5)>>
           reset == ResetNolintSuppressions(cpp)
           copyright == Report(reset, CheckForCopyright(lines))
           begun == ProcessGlobalSuppresions(copyright, lines)
           reported == Report(begun, unclosed)
           new == CleansedLines(removed.lines)
           guarded == CheckGuardOfHeader(reported, new.lines_without_raw_strings)
           raw_lines == new.raw_lines
<1>1. /\ pc = "open" /\ Readable /\ clean' = new /\ p' = 1 /\ pc' = "line" /\ cpp' = guarded
      /\ UNCHANGED <<input, todo, g, status, nesting_state, include_state, function_state>>
  BY Zenon DEF OpenFile
<1>2. p = 1 /\ status \in {0, 1} /\ todo # <<>> /\ cpp._filters_backup = _DEFAULT_FILTERS \o args.filters
  BY <1>1 DEF Inv, StepOK
<1>3. new \in CleanLines /\ new.elided # <<>>
  <2>1. file.lines \in Seq(Seq(STRING))
    BY <1>1, InputIs, Zenon DEF Inv, Readable, file
  <2>2. lines \in Seq(Line) /\ lines # <<>>
    BY <2>1, MarkedIs, Zenon
  <2> HIDE DEF lines
  <2>3. removed.lines \in Seq(Line) /\ Len(removed.lines) = Len(lines)
    BY <2>2, RemoveMultiLineCommentsIs DEF CommentStates
  <2> HIDE DEF removed
  <2>4. new \in CleanLines /\ new.raw_lines = removed.lines
    BY <2>3, CleansedLinesIs, Zenon
  <2> HIDE DEF new
  <2>5. Len(new.elided) = Len(lines)
    BY <2>3, <2>4 DEF CleanLines
  <2>6. QED
    BY <2>2, <2>4, <2>5
<1> HIDE DEF new, lines, removed
<1>4. CppOK(reset) /\ SameFilters(cpp, reset) /\ Local(reset, raw_lines)
  BY SuppressionsChanged, Zenon DEF Inv
<1> HIDE DEF reset
<1>5. Keeps(reset, copyright, raw_lines)
  <2>1. IsList(CheckForCopyright(lines))
    BY ShortList, Zenon DEF CheckForCopyright
  <2>2. QED
    BY <1>4, <2>1, ReportLocal, Zenon DEF Keeps
<1> HIDE DEF copyright
<1>6. Keeps(copyright, begun, raw_lines)
  BY <1>5, SuppressionsChanged, Zenon DEF Keeps
<1> HIDE DEF begun
<1>7. Keeps(begun, reported, raw_lines)
  <2>1. IsList(unclosed)
    BY ShortList, Zenon
  <2> HIDE DEF unclosed
  <2>2. QED
    BY <1>6, <2>1, ReportLocal, Zenon DEF Keeps
<1> HIDE DEF reported
<1>8. Keeps(reported, guarded, raw_lines)
  <2>1. CppOK(reported)
    BY <1>7, Zenon DEF Keeps
  <2>2. guarded \in {reported, CheckForHeaderGuard(reported, g, disk, filename, new.lines_without_raw_strings)}
    BY Zenon DEF CheckGuardOfHeader
  <2>3. Keeps(reported, CheckForHeaderGuard(reported, g, disk, filename, new.lines_without_raw_strings), raw_lines)
    BY <1>3, <2>1, CheckForHeaderGuardKeeps, Zenon
  <2>4. Keeps(reported, reported, raw_lines)
    BY <2>1, Zenon DEF Keeps, SameFilters
  <2>5. QED
    BY <2>2, <2>3, <2>4, Zenon
<1> HIDE DEF guarded
<1>9. CppOK(guarded) /\ SameFilters(cpp, guarded) /\ Local(guarded, raw_lines)
  BY <1>4, <1>5, <1>6, <1>7, <1>8, Zenon DEF Keeps, SameFilters
<1>10. InputOK' /\ SettingsOK(g)' /\ args' = args /\ CppOK(cpp)'
  BY <1>1, <1>9, Zenon DEF Inv, InputOK, args
<1>11. FileOK'
  <2>1. Len(new.elided) \in Nat
    BY <1>3 DEF CleanLines
  <2>2. 1 \in 1 .. Len(new.elided) + 1
    BY <2>1
  <2>3. FnOK(function_state, 1 - 1)
    BY <1>2, Zenon DEF Inv, FileOK
  <2>4. QED
    BY <1>1, <1>3, <2>2, <2>3, Zenon DEF Inv, FileOK
<1>12. StepOK'
  <2>1. cpp'._filters_backup = _DEFAULT_FILTERS \o args.filters /\ Local(cpp', clean'.raw_lines)
    BY <1>1, <1>2, <1>9, Zenon DEF SameFilters
  <2>2. Readable'
    BY <1>1, Zenon DEF Readable, file, filename, disk
  <2>3. QED
    BY <1>1, <1>2, <1>10, <2>1, <2>2 DEF StepOK
<1>13. QED
  BY <1>10, <1>11, <1>12, Zenon DEF Inv

\* A file that is not processed.
LEMMA SkipFileInv ==
    ASSUME Inv, SkipFile
    PROVE  Inv'
<1>1. pc = "open" /\ LeaveFile(PrintError(cpp)) /\ UNCHANGED g
  BY Zenon DEF SkipFile
<1>2. cpp._filters_backup = _DEFAULT_FILTERS \o args.filters
  BY <1>1 DEF Inv, StepOK
<1> DEFINE state == PrintError(cpp)
<1>3. CppOK(state) /\ state._filters_backup = _DEFAULT_FILTERS \o args.filters
  BY <1>2, PrintErrorKeeps, Zenon DEF Inv, SameFilters
<1>4. SettingsOK(g)' /\ LeaveFile(state)
  BY <1>1, Zenon DEF Inv
<1> HIDE DEF state
<1>5. QED
  BY <1>3, <1>4, LeaveFileInv, Zenon

\* What CheckLanguage leaves behind.
LEMMA CheckLanguageIs ==
    ASSUME NEW line, InclOK(include_state)
    PROVE  InclOK(CheckLanguage(line).incl) /\ IsList(CheckLanguage(line).errors)
<1> DEFINE text == LStrip(line)
           read == CheckIncludeLine(include_state, g, disk, filename, clean, p)
           incl == IF text # <<>> /\ Head(text) \in {"#if", "#ifndef", "#else", "#endif"}
                   THEN ResetSection(include_state, Head(text)) ELSE include_state
           other == [incl |-> incl, errors |-> <<>>]
<1>1. CheckLanguage(line) \in {read, other}
  BY Zenon DEF CheckLanguage
<1>2. InclOK(read.incl) /\ IsList(read.errors)
  BY CheckIncludeLineIs, Zenon
<1>3. InclOK(incl)
  BY ResetSectionIs, Zenon
<1> HIDE DEF incl, read
<1>4. other.incl = incl /\ other.errors = <<>>
  OBVIOUS
<1> HIDE DEF other
<1>5. QED
  BY <1>1, <1>2, <1>3, <1>4, ShortList, Zenon

\* A line: the suppressions it adds are in its text.
LEMMA ProcessLineInv ==
    ASSUME Inv, ProcessLine
    PROVE  Inv'
<1> DEFINE line == clean.elided[p]
           nesting == Update(nesting_state, clean.elided, clean.raw_lines, p)
           asm == InAsmBlock(nesting.stack)
           function == CheckForFunctionLengths(function_state, clean.lines, p, cpp.verbose_level)
           language == CheckLanguage(line)
           errors == nesting.errors \o CheckForNamespaceIndentation(nesting, clean.elided, p)
                     \o (IF asm THEN <<>> ELSE CheckOutsideAsm(line, function, language))
                     \o FlagCxx11Features(line)
           parsed == ParseNolintSuppressions(cpp, clean.raw_lines[p], p)
           new == Report(parsed, errors)
<1>1. /\ pc = "line" /\ p <= Len(clean.elided) /\ p' = p + 1 /\ nesting_state' = nesting
      /\ function_state' = (IF asm THEN function_state ELSE function.fn)
      /\ include_state' = (IF asm THEN include_state ELSE language.incl)
      /\ cpp' = new /\ UNCHANGED <<input, pc, todo, g, status, clean>>
  BY Zenon DEF ProcessLine, CheckLine
<1>2. /\ status \in {0, 1} /\ todo # <<>> /\ cpp._filters_backup = _DEFAULT_FILTERS \o args.filters
      /\ Readable /\ Local(cpp, clean.raw_lines)
  BY <1>1 DEF Inv, StepOK
<1>3. InclOK(include_state) /\ NestingOK(nesting_state) /\ clean \in CleanLines /\ FnOK(function_state, p - 1)
      /\ CppOK(cpp)
  BY Zenon DEF Inv, FileOK
<1>4. p \in Nat /\ p > 0 /\ p - 1 \in Nat /\ (p - 1) + 1 = p /\ p' - 1 = p /\ p' \in 1 .. Len(clean.elided) + 1
      /\ p \in 1 .. Len(clean.elided)
  <2>1. p \in 1 .. Len(clean.elided) + 1 /\ Len(clean.elided) \in Nat
    BY <1>3 DEF Inv, FileOK, CleanLines
  <2>2. QED
    BY <1>1, <2>1
<1>5. line \in Line /\ clean.raw_lines[p] \in Line
  BY <1>3, <1>4 DEF CleanLines
<1>6. Len(line) \in Nat /\ IsList(line)
  <2> HIDE DEF line
  <2>1. IsList(line)
    BY <1>5, ListOf, Zenon DEF Line
  <2>2. QED
    BY <2>1 DEF IsList
<1>7. NestingOK(nesting) /\ IsList(nesting.errors)
  BY <1>3, <1>6, UpdateKeeps, Zenon DEF NestingOK
<1>8. FnOK(function.fn, p) /\ IsList(function.errors)
  BY <1>3, <1>4, CheckForFunctionLengthsIs, Zenon
<1>9. InclOK(language.incl) /\ IsList(language.errors)
  BY <1>3, CheckLanguageIs, Zenon
<1> HIDE DEF line, nesting, asm, function, language
<1>10. IsList(errors)
  BY <1>6, <1>7, <1>8, <1>9, LineErrorsIs, Zenon
<1> HIDE DEF errors
<1>11. CppOK(parsed) /\ SameFilters(cpp, parsed) /\ Local(parsed, clean.raw_lines)
  <2> DEFINE raw == clean.raw_lines[p]
  <2>1. ToSet(raw) \subseteq ToSet(raw) \cup {DQ}
    BY Zenon
  <2>2. QED
    BY <1>2, <1>3, <1>4, <1>5, <2>1, ParseNolintSuppressionsIs, Zenon
<1> HIDE DEF parsed
<1>12. CppOK(new) /\ SameFilters(cpp, new) /\ Local(new, clean.raw_lines)
  BY <1>10, <1>11, ReportLocal, Zenon DEF SameFilters
<1> HIDE DEF new
<1>13. InputOK' /\ SettingsOK(g)' /\ args' = args /\ CppOK(cpp)'
  BY <1>1, <1>12, Zenon DEF Inv, InputOK, args
<1>14. FnOK(function_state', p)
  <2>1. FnOK(function_state, p)
    BY <1>3, <1>4 DEF FnOK
  <2>2. QED
    BY <1>1, <1>8, <2>1, Zenon
<1>15. FileOK'
  <2>1. InclOK(include_state') /\ NestingOK(nesting_state') /\ clean' = clean
    BY <1>1, <1>3, <1>7, <1>9, Zenon
  <2>2. QED
    BY <1>3, <1>4, <1>14, <2>1, Zenon DEF FileOK
<1>16. StepOK'
  <2>1. cpp'._filters_backup = _DEFAULT_FILTERS \o args.filters /\ Local(cpp', clean'.raw_lines)
    BY <1>1, <1>2, <1>12, Zenon DEF SameFilters
  <2>2. Readable'
    BY <1>1, <1>2, Zenon DEF Readable, file, filename, disk
  <2>3. QED
    BY <1>1, <1>2, <1>13, <2>1, <2>2 DEF StepOK
<1>17. QED
  BY <1>13, <1>15, <1>16, Zenon DEF Inv
-----------------------------------------------------------------------------
\* The end of a file: everything that is left to say is reported before the filters go back.
LEMMA EndFileInv ==
    ASSUME Inv, EndFile
    PROVE  Inv'
<1> DEFINE Own(headers) == IF _IsSourceExtension(g, FileExtension)
                           THEN CheckHeaderFileIncluded(include_state, g, disk, filename, headers) ELSE <<>>
           Errors(headers) == CheckCompletedBlocks(nesting_state.stack)
                              \o CheckForIncludeWhatYouUse(include_state, g, disk, filename, clean.elided)
                              \o Own(headers) \o CheckForBadCharacters(clean.raw_lines)
                              \o CheckForNewlineAtEOF(clean.raw_lines) \o CheckLineEndings
<1>1. PICK headers \in ExistingHeaders(g, disk, filename) :
        pc = "line" /\ LeaveFile(Report(cpp, Errors(headers))) /\ UNCHANGED g
  BY Zenon DEF EndFile
<1> DEFINE errors == Errors(headers)
           state == Report(cpp, errors)
<1>2. cpp._filters_backup = _DEFAULT_FILTERS \o args.filters /\ Readable
  BY <1>1 DEF Inv, StepOK
<1>3. IsList(Own(headers))
  BY <1>1, ExistingHeadersIs, CheckHeaderFileIncludedIs, ShortList, Zenon DEF Inv
<1>4. IsList(nesting_state.stack) /\ clean \in CleanLines /\ IsList(file.lines)
  <2>1. file.lines \in Seq(Seq(STRING))
    BY <1>2, InputIs, Zenon DEF Inv, Readable, file
  <2>2. QED
    BY <2>1, ListOf, Zenon DEF Inv, FileOK, NestingOK
<1> HIDE DEF Own
<1>5. IsList(errors)
  BY <1>3, <1>4, FileErrorsIs, Zenon
<1> HIDE DEF errors
<1>6. CppOK(state) /\ state._filters_backup = _DEFAULT_FILTERS \o args.filters
  BY <1>2, <1>5, ReportLocal, Zenon DEF Inv, SameFilters
<1>7. SettingsOK(g)' /\ LeaveFile(state)
  BY <1>1, Zenon DEF Inv, errors
<1> HIDE DEF state
<1>8. QED
  BY <1>6, <1>7, LeaveFileInv, Zenon

\* A step that changes nothing.
LEMMA StutterInv ==
    ASSUME Inv, UNCHANGED vars
    PROVE  Inv'
<1>1. UNCHANGED <<input, pc, todo, cpp, g, status, clean, p, nesting_state, include_state, function_state>>
  BY Zenon DEF vars, fileState
<1>2. InputOK' /\ CppOK(cpp)' /\ SettingsOK(g)' /\ FileOK' /\ args' = args
  BY <1>1, FileKept, Zenon DEF Inv, InputOK, args
<1>3. StepOK'
  <2>1. Readable' = Readable
    BY <1>1, Zenon DEF Readable, file, filename, disk
  <2>2. QED
    BY <1>1, <1>2, <2>1, Zenon DEF Inv, StepOK
<1>4. QED
  BY <1>2, <1>3, Zenon DEF Inv

\* Every step of the program keeps the invariant.
LEMMA NextInv == Inv /\ [Next]_vars => Inv'
BY ParseArgumentsInv, BeginFileInv, ReadConfigInv, ApplyConfigInv, OpenFileInv, SkipFileInv, ProcessLineInv,
   EndFileInv, ExitInv, StutterInv, Zenon DEF Next

\* So it holds in every state of every run of the program.
THEOREM Invariance == Spec => []Inv
<1>1. Init => Inv
  BY InitInv
<1>2. Inv /\ [Next]_vars => Inv'
  BY NextInv
<1>3. QED
  BY <1>1, <1>2, PTL DEF Spec
-----------------------------------------------------------------------------
(* The properties. *)

\* Every variable keeps its type: line numbers stay within the file, there is always a list of
\* headers to add to, and no function has more lines than were read.
THEOREM TypeCorrect == Spec => []TypeOK
<1>1. Inv => TypeOK
  <2> SUFFICES ASSUME Inv PROVE TypeOK
    OBVIOUS
  <2>1. cpp.error_count \in Nat /\ cpp.messages \in Nat /\ cpp.verbose_level \in Nat
    <3>1. cpp.error_count = Len(cpp.reported) /\ IsList(cpp.reported) /\ cpp.messages \in Nat
          /\ cpp.verbose_level \in Nat
      BY Zenon DEF Inv, CppOK, Counted
    <3>2. QED
      BY <3>1 DEF IsList
  <2>2. /\ g.line_length \in Nat /\ p \in 1 .. Len(clean.elided) + 1
        /\ include_state.section \in _INITIAL_SECTION .. _OTHER_H_SECTION
        /\ include_state.include_list # <<>> /\ clean \in CleanLines
        /\ function_state.lines_in_function \in 0 .. p - 1
    BY Zenon DEF Inv, SettingsOK, FileOK, InclOK, ListsOK, FnOK
  <2>3. function_state.lines_in_function \in 0 .. Len(clean.elided)
    <3>1. Len(clean.elided) \in Nat
      BY <2>2 DEF CleanLines
    <3>2. QED
      BY <2>2, <3>1
  <2>4. /\ pc \in {"main", "next", "config", "open", "line", "exit"} /\ status \in {0, 1}
        /\ pc \in {"config", "open", "line"} => todo # <<>>
    BY Zenon DEF Inv, StepOK
  <2>5. QED
    BY <2>1, <2>2, <2>3, <2>4, Zenon DEF TypeOK
<1>2. QED
  BY <1>1, Invariance, PTL

\* Between two files the filters are those of the command line, whichever way ProcessFile was
\* left and whatever the CPPLINT.cfg files said: BackupFilters saw no other ones, and nothing
\* between it and RestoreFilters writes the copy.
THEOREM FiltersAreRestored == Spec => []FiltersRestored
<1>1. Inv => FiltersRestored
  BY Zenon DEF Inv, StepOK, FiltersRestored
<1>2. QED
  BY <1>1, Invariance, PTL

\* The error count, the counts by category and an exit status of 0 agree with what was written
\* out, however Error, the filters and the suppressions decided.
THEOREM CountsAreReported == Spec => []CountsReported
<1>1. Inv => CountsReported
  <2> SUFFICES ASSUME Inv PROVE CountsReported
    OBVIOUS
  <2> DEFINE key == [n \in DOMAIN cpp.reported |-> CountedAs(cpp.counting, cpp.reported[n].category)]
  <2>1. Counted(cpp) /\ (pc = "exit" /\ status = 0 => cpp.reported = <<>> /\ todo = <<>>)
    BY Zenon DEF Inv, CppOK, StepOK
  <2>2. {key[n] : n \in DOMAIN key} = {CountedAs(cpp.counting, cpp.reported[n].category) : n \in DOMAIN cpp.reported}
    BY Zenon
  <2>3. \A k : {n \in DOMAIN key : key[n] = k} = Under(cpp, k)
    BY Zenon DEF Under
  <2> HIDE DEF key
  <2>4. QED
    BY <2>1, <2>2, <2>3, Zenon DEF Counted, CountsReported, key
<1>2. QED
  BY <1>1, Invariance, PTL

\* A line is suppressed only by a NOLINT on it, or a NOLINTNEXTLINE on the line before it, of the
\* same file: the check of the header guard and the loop over the lines both parse them.
THEOREM SuppressionsAreLocal == Spec => []SuppressionsLocal
<1>1. Inv => SuppressionsLocal
  BY Zenon DEF Inv, StepOK, SuppressionsLocal, Local
<1>2. QED
  BY <1>1, Invariance, PTL

\* No header is in the lists twice, in whatever order #include, #if, #else and #endif come.
THEOREM IncludesAreUnique == Spec => []IncludesUnique
<1>1. Inv => IncludesUnique
  <2> SUFFICES ASSUME Inv PROVE IncludesUnique
    OBVIOUS
  <2>1. ListsOK(include_state.include_list)
    BY Zenon DEF Inv, FileOK, InclOK
  <2>2. QED
    BY <2>1, FlatUnique, Zenon DEF IncludesUnique, Once
<1>2. QED
  BY <1>1, Invariance, PTL

\* Whatever its length, the triggers and the verbosity, a function that is too long gets a
\* confidence that passes the verbosity, which the trigger was computed from.
THEOREM LongFunctionsAreReported == Spec => []LongFunctionReported
<1>1. Inv => LongFunctionReported
  <2> SUFFICES ASSUME Inv PROVE LongFunctionReported
    OBVIOUS
  <2>1. cpp.verbose_level \in Nat
    BY Zenon DEF Inv, CppOK
  <2>2. function_state.lines_in_function \in Nat
    <3>1. function_state.lines_in_function \in 0 .. p - 1
      BY Zenon DEF Inv, FileOK, FnOK
    <3>2. QED
      BY <3>1
  <2>3. BaseTrigger(function_state) \in Nat
    BY FunctionsAssumption DEF BaseTrigger
  <2>4. QED
    BY <2>1, <2>2, <2>3, LevelPasses, Zenon DEF LongFunctionReported
<1>2. QED
  BY <1>1, Invariance, PTL
=============================================================================
