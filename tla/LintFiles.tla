----------------------------- MODULE LintFiles -----------------------------
(***************************************************************************)
(* build_support/cpplint.py: file names.  A path is a sequence of tokens:  *)
(* words, and "/", ".", "_" and "-".  Paths that start with "/" are        *)
(* absolute, the others are relative to Cwd, which ends with "/".  g holds *)
(* the global settings that the command line and CPPLINT.cfg files change, *)
(* disk maps the full name of every file that exists to its lines.         *)
(***************************************************************************)
EXTENDS LintText

CONSTANTS Cwd,        \* the working directory
          Checkouts,  \* the directories with a .git or .hg in them
          SvnDirs,    \* the directories with a .svn in them
          Upper       \* lower-case words |-> the same in upper case

ASSUME FilesAssumption ==
    /\ Cwd # <<>> /\ Head(Cwd) = "/" /\ Last(Cwd) = "/"
    /\ \A a, b \in DOMAIN Upper : Upper[a] = Upper[b] => a = b

\* str.upper and str.lower, and the substring test.
ToUpper(t) == IF t \in DOMAIN Upper THEN Upper[t] ELSE t
ToLower(t) == IF \E u \in DOMAIN Upper : Upper[u] = t
              THEN CHOOSE u \in DOMAIN Upper : Upper[u] = t ELSE t

IsSubstring(a, b) == \E k \in 0 .. Len(b) - Len(a) : SubSeq(b, k + 1, k + Len(a)) = a
-----------------------------------------------------------------------------
(* os.path *)

LastToken(path, t) == SelectLastInSeq(path, LAMBDA u : u = t)

Dirname(path) ==
    LET k == LastToken(path, "/") IN IF k = 1 THEN <<"/">> ELSE SubSeq(path, 1, k - 1)

Basename(path) == From(path, LastToken(path, "/") + 1)

\* A dot at the beginning of a name does not begin an extension.
ExtensionDot(path) ==
    LET dot == LastToken(path, ".") IN IF dot > LastToken(path, "/") + 1 THEN dot ELSE 0

NoExtension(path) == IF ExtensionDot(path) = 0 THEN path ELSE Until(path, ExtensionDot(path))

Extension(path) == IF ExtensionDot(path) = 0 THEN "" ELSE Last(path)
-----------------------------------------------------------------------------
(* Extensions.  "h" in ext is true of the ones in HeaderLike. *)

HeaderLike == {"h", "hh", "hpp", "hxx", "h++", "cuh"}

GetHeaderExtensions(g) ==
    IF g.hpp_headers # {} THEN g.hpp_headers
    ELSE IF g.valid_extensions # {} THEN g.valid_extensions \cap HeaderLike
    ELSE HeaderLike

GetAllExtensions(g) ==
    GetHeaderExtensions(g) \cup (IF g.valid_extensions # {} THEN g.valid_extensions
                                 ELSE {"c", "cc", "cpp", "cxx", "c++", "cu"})

GetNonHeaderExtensions(g) == GetAllExtensions(g) \ GetHeaderExtensions(g)

IsHeaderExtension(g, ext) == ext \in GetHeaderExtensions(g)

_IsSourceExtension(g, ext) == ext \in GetNonHeaderExtensions(g)
-----------------------------------------------------------------------------
(* FileInfo *)

FullName(filename) == IF filename # <<>> /\ Head(filename) = "/" THEN filename ELSE Cwd \o filename

\* The directories that contain the file, but for the root.
Ancestors(full) == {Until(full, k) : k \in {n \in 2 .. Len(full) : full[n] = "/"}}

Outermost(dirs) == CHOOSE d \in dirs : \A e \in dirs : Len(d) <= Len(e)

\* The .svn directories without a gap above that of the file.
SvnChain(full) ==
    {d \in Ancestors(full) : \A e \in Ancestors(full) : Len(e) >= Len(d) => e \in SvnDirs}

Below(full, dir) == From(full, Len(dir) + 2)

\* full without the root of the project.
ProjectName(g, full, repository) ==
    LET marked == Ancestors(full) \cap (Checkouts \cup SvnDirs)
    IN  IF g.repository # <<>> /\ repository \in Ancestors(full) THEN Below(full, repository)
        ELSE IF SvnChain(full) # {} THEN Below(full, Outermost(SvnChain(full)))
        ELSE IF marked # {} THEN Below(full, Outermost(marked))
        ELSE full

RepositoryName(g, disk, filename) ==
    IF FullName(filename) \notin DOMAIN disk THEN FullName(filename)
    ELSE ProjectName(g, FullName(filename), FullName(g.repository))

BaseName(filename) == NoExtension(Basename(filename))

\* _TEST_FILE_SUFFIX
TestSuffixes == {<<"_", "test">>, <<"_", "regtest">>, <<"_", "unittest">>}

IsTestFile(filename) == \E s \in TestSuffixes : IsSuffix(s, BaseName(filename))
-----------------------------------------------------------------------------
(* Which file a header belongs to. *)

\* foo_test.cc, foo-inl.h and the like become foo.
_DropCommonSuffixes(g, path) ==
    LET n == Len(path)
        common == {"test", "regtest", "unittest"} \X GetNonHeaderExtensions(g)
                  \cup {"inl", "imp", "internal"} \X GetHeaderExtensions(g)
    IN  IF n >= 4 /\ path[n - 3] \in {"-", "_"} /\ path[n - 1] = "." /\ <<path[n - 2], path[n]>> \in common
        THEN SubSeq(path, 1, n - 4) ELSE NoExtension(path)

\* str.replace of /public/ and /internal/ by /
DropPublic(path) ==
    LET Dropped(n) == /\ n > 1 /\ n < Len(path) /\ path[n] \in {"public", "internal"}
                      /\ path[n - 1] = "/" /\ path[n + 1] = "/"
        kept == SelectSeq([n \in DOMAIN path |-> n], LAMBDA n : ~Dropped(n) /\ ~Dropped(n - 1))
    IN  [k \in DOMAIN kept |-> path[kept[k]]]

\* The part of the source file's name that goes before the header's to open it, or
\* NotSameModule.
NotSameModule == <<"?">>

\* name without the first of the suffixes, all of two tokens, that it has.
DropSuffix(name, suffixes) ==
    IF \E s \in suffixes : IsSuffix(s, name) THEN SubSeq(name, 1, Len(name) - 2) ELSE name

PrefixBefore(cc, h) == IF IsSuffix(h, cc) THEN SubSeq(cc, 1, Len(cc) - Len(h)) ELSE NotSameModule

FilesBelongToSameModule(g, filename_cc, filename_h) ==
    IF /\ Extension(filename_cc) \in GetNonHeaderExtensions(g)
       /\ IsHeaderExtension(g, Extension(filename_h))
    THEN PrefixBefore(DropPublic(DropSuffix(NoExtension(filename_cc), TestSuffixes)),
                      DropPublic(DropSuffix(NoExtension(filename_h), {<<"-", "inl">>})))
    ELSE NotSameModule
=============================================================================
