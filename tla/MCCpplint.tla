----------------------------- MODULE MCCpplint -----------------------------
(***************************************************************************)
(* Instances of Cpplint for TLC: families of invocations, each over all    *)
(* files of a few lines from an alphabet that its question calls for.      *)
(***************************************************************************)
EXTENDS Cpplint

MCCwd == <<"/", "home", "/", "repo", "/">>
MCCheckouts == {<<"/", "home", "/", "repo">>}
MCUpper == [api |-> "API", foo |-> "FOO", src |-> "SRC", h |-> "H"]
MCCppHeaders == {"string", "vector", "algorithm"}
MCCollation == <<".", "/", "_", "api", "bar", "c", "foo", "h", "src", "string", "thread", "tr1">>
MCErrorCategories == ("(build/include)" :> <<"build", "include">>)
                     @@ ("(build/header_guard)" :> <<"build", "header", "guard">>)
MCLegacyCategories == {"(readability/function)"}
MCUnknownCategories == {"(x)"}
MCRuleOf == [cast |-> [category |-> <<"readability", "casting">>, confidence |-> 4],
             tab |-> [category |-> <<"whitespace", "tab">>, confidence |-> 1]]

src == <<"/", "home", "/", "repo", "/", "src">>
foo_cc == <<"src", "/", "foo", ".", "cc">>
foo_h == <<"src", "/", "foo", ".", "h">>
foo_hpp == <<"src", "/", "foo", ".", "hpp">>
bar_cc == <<"src", "/", "bar", ".", "cc">>

DefaultArgs ==
    [verbose |-> 1, filters |-> <<>>, counting |-> "", quiet |-> FALSE, output |-> "emacs",
     linelength |-> 80, extensions |-> {}, headers |-> {}, root |-> <<>>, repository |-> <<>>,
     recursive |-> FALSE, exclude |-> {}, filenames |-> <<foo_cc>>]

File(lines) == [readable |-> TRUE, lines |-> Append(lines, <<>>), crlf |-> {}]
NoConfigs == <<>>

\* One file, with nothing on the command line but its name.
One(name, lines) ==
    [args |-> [DefaultArgs EXCEPT !.filenames = <<name>>], configs |-> NoConfigs,
     disk |-> (FullName(name) :> File(lines))]

Lines(alphabet, k) == UNION {[1 .. n -> alphabet] : n \in 0 .. k}

\* Comments and strings.
TextTokens == {"x", DQ, SQ, "//", "/*", "*/", RAW, END, ESC}
Texts == {<<a>> : a \in Lines(TextTokens, 3) \cup [1 .. 4 -> TextTokens \ {SQ, ESC}]}
         \cup [1 .. 2 -> Lines(TextTokens, 2)]

\* Brackets.
BracketTokens == {"(", ")", "{", "}", "<", ">", "x"}
Brackets == {<<a>> : a \in Lines(BracketTokens, 4)} \cup {<<a, b>> : a, b \in Lines(BracketTokens \ {"x"}, 2)}
            \cup {<<a>> : a \in Lines({"(", "<", ">", ")", ";", "-", "operator", "["}, 3)}

\* Blocks and conditional code.
NestingLines == {<<"namespace", "x", "{">>, <<" ", "class", "x", "{">>, <<"x", "{">>, <<"}">>, <<"#if">>,
                 <<"#else">>, <<"#endif">>, <<"asm", "(">>}
\* Conditional code in both parts of conditional code, each part with a block that begins or
\* ends in it, or none.
Blocks1 == {<<>>, << <<"x", "{">> >>, << <<"}">> >>}
Conditional(a, b) == << <<"#if">> >> \o a \o << <<"#else">> >> \o b \o << <<"#endif">> >>
Parts == Blocks1 \cup {Conditional(a, b) : a, b \in Blocks1}
Nestings == UNION {[1 .. n -> NestingLines] : n \in 1 .. 4}
            \cup [1 .. 5 -> {<<"x", "{">>, <<"}">>, <<"#if">>, <<"#else">>, <<"#endif">>}]
            \cup {Conditional(a, b) \o c : a, b \in Parts, c \in Blocks1}

\* Headers.
Include(open, path, close) == <<"#include", open>> \o path \o <<close>>
IncludeLines == {Include("<", <<"c", ".", "h">>, ">"), Include("<", <<"string">>, ">"),
                 Include(DQ, foo_h, DQ), Include(DQ, <<"API", ".", "h">>, DQ), <<"#if">>, <<"#else">>,
                 <<"std", "::", "string", "x", ";">>}
Includes == UNION {[1 .. n -> IncludeLines] : n \in 1 .. 4}

\* Functions; NormalTrigger is 1.
FunctionLines == {<<"x", "(", ")", "{">>, <<"x", ";">>, <<"}">>, <<"TEST", "(">>, <<"{">>}
Functions5 == UNION {[1 .. n -> FunctionLines] : n \in 1 .. 5}
\* A file with a header on disk, which includes <string>, or with two headers.
HeadersOnDisk == {FullName(foo_h) :> File(<<Include("<", <<"string">>, ">")>>),
                  (FullName(foo_h) :> File(<<>>)) @@ (FullName(foo_hpp) :> File(<<>>))}
WithHeader(lines, headers) == [One(foo_cc, lines) EXCEPT !.disk = @ @@ headers]

\* Classes and templates, and headers in and out of order, with the alphabetical order asked for.
MixedLines == {Include(DQ, <<"foo", ".", "h">>, DQ), Include(DQ, <<"bar", ".", "h">>, DQ),
               Include("<", <<"thread">>, ">"), Include("<", <<"tr1", "/", "c">>, ">"),
               <<"class", "API", "x", "{">>, <<"DISALLOW", "(", "x", ")", ";">>, <<" ", "private:">>, <<"}", ";">>,
               <<"template", "<", "class", "x", ">">>, <<"std", "::", "vector", "<", "x">>,
               <<"x", "=", "max", "(", "x">>, <<"std", "::", "alignment_of">>, <<"class", "x", ";">>}
Mixed == UNION {[1 .. n -> MixedLines] : n \in 1 .. 3}
         \cup {<< <<"class", "x", "{">>, <<"DISALLOW", ";">>, line, <<"}", ";">> >> : line \in MixedLines}
Alphabetical(lines) == [One(foo_cc, lines) EXCEPT !.args.filters = <<Filter("+", <<"build", "include", "alpha">>)>>]

\* Header guards.
Guard == <<"SRC", "_", "FOO", "_", "H", "_">>
GuardLines == {<<"#ifndef">> \o Guard, <<"#define">> \o Guard, <<"#endif", "//">> \o Guard, <<"#endif">>,
               <<"#ifndef">> \o Guard \o <<"_">>, <<"#define">> \o Guard \o <<"_">>,
               <<"#endif", "//", "NOLINT">>, <<"#pragma", "once">>, <<"//", "NOLINT", "(build/header_guard)">>,
               <<"#endif", "/*">> \o Guard \o <<"_", "*/">>}
Guards == UNION {[1 .. n -> GuardLines] : n \in 1 .. 3}

\* Two files, with suppressions of every kind.
NolintLines == {<<"x", "cast">>, <<"tab", "//", "NOLINT">>, <<"//", "NOLINTNEXTLINE", "(build/include)">>,
                <<"//", "LINT_C_FILE">>, <<"//", "NOLINT", "(x)">>, <<"//", "Copyright", "NUL">>}
NolintFiles == UNION {[1 .. n -> NolintLines] : n \in 1 .. 2}
Two(style, a, b) ==
    [args |-> [DefaultArgs EXCEPT !.filenames = <<foo_cc, bar_cc>>, !.counting = style, !.linelength = 2],
     configs |-> NoConfigs,
     disk |-> (FullName(foo_cc) :> [File(a) EXCEPT !.crlf = {1}]) @@ (FullName(bar_cc) :> File(b))]

\* CPPLINT.cfg files.
Option(name) == [name |-> name, filters |-> <<>>, names |-> {}, number |-> 0, path |-> <<>>]
Options == {Option("set noparent"), Option("misspelt"), [Option("linelength") EXCEPT !.number = -1],
            [Option("filter") EXCEPT !.filters = <<Filter("-", <<"readability">>)>>],
            [Option("filter") EXCEPT !.filters = <<Filter("?", <<"readability">>)>>],
            [Option("exclude_files") EXCEPT !.names = {"foo", "src"}],
            [Option("linelength") EXCEPT !.number = 1], [Option("extensions") EXCEPT !.names = {"h"}],
            [Option("headers") EXCEPT !.names = {"cc"}], [Option("root") EXCEPT !.path = <<"foo">>]}
Config(options) == [readable |-> TRUE, options |-> options]
SrcConfigs == {[readable |-> FALSE, options |-> <<>>]} \cup {Config(o) : o \in UNION {[1 .. n -> Options] : n \in 0 .. 2}}
RepoConfigs == {Config(<<o>>) : o \in Options}
Configured(in_src, in_repo, filters) ==
    [args |-> [DefaultArgs EXCEPT !.filenames = <<foo_cc, <<"bar", ".", "cc">>, foo_h>>, !.filters = filters,
                                  !.verbose = 0],
     configs |-> (src :> in_src) @@ (<<"/", "home", "/", "repo">> :> in_repo),
     disk |-> (FullName(foo_cc) :> File(<< <<"x", "cast">> >>)) @@ (FullName(foo_h) :> File(<< >>))]
Filterings == {<<>>, <<Filter("-", <<>>), Filter("+", <<"readability">>)>>, <<Filter("?", <<>>)>>}

\* Directories, exclusions and extensions.
Recursive ==
    {[args |-> [DefaultArgs EXCEPT !.recursive = TRUE, !.exclude = ex, !.extensions = exts, !.filenames = names],
      configs |-> NoConfigs,
      disk |-> (FullName(foo_cc) :> File(<<>>)) @@ (FullName(foo_h) :> File(<<>>))
               @@ (FullName(bar_cc) :> [File(<<>>) EXCEPT !.readable = FALSE])] :
        ex \in {{}, {foo_cc}}, exts \in {{}, {"cc"}}, names \in {<<>>, << <<"src">> >>, <<foo_cc, <<"src">> >>}}

MCInvocations ==
    <<{One(foo_cc, lines) : lines \in Texts},
      {One(foo_cc, lines) : lines \in Brackets},
      {One(foo_cc, lines) : lines \in Nestings},
      {One(foo_cc, lines) : lines \in Functions5},
      {WithHeader(lines, headers) : lines \in Includes, headers \in HeadersOnDisk},
      {Alphabetical(lines) : lines \in Mixed},
      {One(foo_h, lines) : lines \in Guards},
      {Two(style, a, b) : style \in {"total", "detailed"}, a, b \in NolintFiles},
      {Configured(a, b, <<>>) : a \in SrcConfigs, b \in RepoConfigs},
      {Configured(Config(<<>>), Config(<<>>), f) : f \in Filterings},
      Recursive>>
=============================================================================
