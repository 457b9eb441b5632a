---------------------------- MODULE LintNesting ----------------------------
(***************************************************************************)
(* build_support/cpplint.py: NestingState, the stack of namespaces,        *)
(* classes and other blocks that are open, with its checkpoints at #if and *)
(* #else, and the rules that read it.                                      *)
(*                                                                         *)
(* A line is a sequence of tokens (LintText, LintBrackets); " " stands for *)
(* one space of indentation.  lines are the elided lines, raw the lines    *)
(* with comments; position p of either is line number p - 1 of the file,   *)
(* position 1 being the marker line.                                       *)
(***************************************************************************)
EXTENDS LintText, LintBrackets

CONSTANT NamespaceLines  \* from this size on a namespace needs a closing comment (10)

ASSUME NestingAssumption == NamespaceLines \in Nat

Count(line, t) == Cardinality({n \in DOMAIN line : line[n] = t})

_MATCH_ASM(line) == StartsWith(line, <<"asm", "{">>) \/ StartsWith(line, <<"asm", "(">>)

IsDirective(line, names) == LStrip(line) # <<>> /\ Head(LStrip(line)) \in names
-----------------------------------------------------------------------------
(* The blocks. *)

_BlockInfo(kind, p, seen_open_brace) ==
    [kind |-> kind, start |-> p, seen_open_brace |-> seen_open_brace, open_parentheses |-> 0,
     inline_asm |-> "no", name |-> "", access |-> "", indent |-> 0]

_ClassInfo(class_or_struct, name, raw, p) ==
    [_BlockInfo("class", p, FALSE) EXCEPT
        !.name = name,
        !.access = IF class_or_struct = "struct" THEN "public:" ELSE "private:",
        !.indent = GetIndentLevel(raw[p])]

_NamespaceInfo(name, p) == [_BlockInfo("namespace", p, FALSE) EXCEPT !.name = name]

SeenOpenBrace(stack) == stack = <<>> \/ Last(stack).seen_open_brace

InAsmBlock(stack) == stack # <<>> /\ Last(stack).inline_asm # "no"

ChangeTop(stack, field, value) == [stack EXCEPT ![Len(stack)][field] = value]

\* DISALLOW_... comes after everything else in the class, and "}" is aligned.
ClassCheckEnd(block, lines, raw, p) ==
    LET disallow == {n \in block.start + 1 .. p - 1 : Contains(lines[n], "DISALLOW")}
        filled == {n \in block.start + 1 .. p - 1 : LStrip(lines[n]) # <<>>}
        misplaced == disallow # {} /\ Max(filled) # Max(disallow)
    IN  (IF misplaced THEN <<Err(Max(disallow), <<"readability", "constructors">>, 3)>> ELSE <<>>)
        \o (IF StartsWith(lines[p], <<"}">>) /\ GetIndentLevel(lines[p]) # block.indent
            THEN <<Err(p, <<"whitespace", "indent">>, 3)>> ELSE <<>>)

\* What follows "} // " or "} /*", or <<>> if there is no such comment.
ClosingComment(line) ==
    LET text == LStrip(line)
        mark == SelectInSeq(text, LAMBDA t : t \in {"//", "/*"})
    IN  IF mark > 1 /\ text[1] = "}" /\ \A n \in 2 .. mark - 1 : text[n] = ";"
        THEN From(text, mark + 1) ELSE <<>>

\* The comment names the namespace, as its last word; a short namespace needs none.
EndsNamespace(block, line, p) ==
    LET comment == SelectSeq(ClosingComment(line), LAMBDA t : t \notin {"*/", " "})
        wanted == IF block.name = "" THEN <<"namespace">> ELSE <<"namespace", block.name>>
    IN  \/ p - block.start < NamespaceLines /\ ~Contains(comment, "namespace")
        \/ IsSuffix(wanted, comment)

NamespaceCheckEnd(block, lines, raw, p) ==
    IF EndsNamespace(block, raw[p], p) THEN <<>> ELSE <<Err(p, <<"readability", "namespace">>, 5)>>

CheckEnd(block, lines, raw, p) ==
    CASE block.kind = "class" -> ClassCheckEnd(block, lines, raw, p)
      [] block.kind = "namespace" -> NamespaceCheckEnd(block, lines, raw, p)
      [] OTHER -> <<>>
-----------------------------------------------------------------------------
(* The preprocessor. *)

\* Mutant: #endif restores what the outermost #else has saved.
UpdatePreprocessor_Outermost(s, line) ==
    LET info == Last(s.pp_stack) IN
    CASE IsDirective(line, {"#if", "#ifndef"}) ->
           [s EXCEPT !.pp_stack = Append(@, [before_if |-> s.stack, before_else |-> <<>>,
                                             seen_else |-> FALSE])]
      [] IsDirective(line, {"#else"}) /\ s.pp_stack # <<>> ->
           [s EXCEPT !.pp_stack[Len(s.pp_stack)] =
                         IF info.seen_else THEN @
                         ELSE [@ EXCEPT !.seen_else = TRUE, !.before_else = s.stack],
                     !.stack = info.before_if]
      [] IsDirective(line, {"#endif"}) /\ s.pp_stack # <<>> ->
           [s EXCEPT !.stack = IF info.seen_else THEN s.pp_stack[1].before_else ELSE @,
                     !.pp_stack = Front(@)]
      [] OTHER -> s

\* The stack before #if comes back at #else, and the one before the first #else at #endif.
UpdatePreprocessor(s, line) ==
    LET info == Last(s.pp_stack) IN
    CASE IsDirective(line, {"#if", "#ifndef"}) ->
           [s EXCEPT !.pp_stack = Append(@, [before_if |-> s.stack, before_else |-> <<>>,
                                             seen_else |-> FALSE])]
      [] IsDirective(line, {"#else"}) /\ s.pp_stack # <<>> ->
           [s EXCEPT !.pp_stack[Len(s.pp_stack)] =
                         IF info.seen_else THEN @
                         ELSE [@ EXCEPT !.seen_else = TRUE, !.before_else = s.stack],
                     !.stack = info.before_if]
      [] IsDirective(line, {"#endif"}) /\ s.pp_stack # <<>> ->
           [s EXCEPT !.stack = IF info.seen_else THEN info.before_else ELSE @,
                     !.pp_stack = Front(@)]
      [] OTHER -> s
-----------------------------------------------------------------------------
(* The parts of Update.  s.rest is what is left of the line. *)

CountParentheses(s, line) ==
    LET top == Last(s.stack)
        depth_change == Count(line, "(") - Count(line, ")")
        open == top.open_parentheses + depth_change
        asm == CASE top.inline_asm \in {"no", "end"} ->
                      IF depth_change # 0 /\ open = 1 /\ _MATCH_ASM(line) THEN "inside" ELSE "no"
                 [] top.inline_asm = "inside" /\ open = 0 -> "end"
                 [] OTHER -> top.inline_asm
    IN  IF s.stack = <<>> THEN s
        ELSE [s EXCEPT !.stack = ChangeTop(ChangeTop(@, "open_parentheses", open),
                                           "inline_asm", asm)]

\* One round: a namespace at the beginning of what is left.
ConsumeNamespace(s, p) ==
    LET text == LStrip(s.rest)
        named == Len(text) > 1 /\ text[2] \in Words
        tail == From(text, IF named THEN 3 ELSE 2)
        brace == FindToken(tail, "{")
        block == [_NamespaceInfo(IF named THEN text[2] ELSE "", p) EXCEPT
                     !.seen_open_brace = brace # 0]
    IN  IF ~StartsWith(s.rest, <<"namespace">>) THEN s
        ELSE [s EXCEPT !.stack = Append(@, block), !.rest = From(tail, brace + 1)]

\* The place of "class" or "struct" in a declaration that may follow "template <...>".
ClassKeyword(text) ==
    LET IsKeyword(n) == n \in DOMAIN text /\ text[n] \in {"class", "struct"}
        ends == {n \in 3 .. Len(text) :
                   /\ text[n] = ">" /\ IsKeyword(n + 1)
                   /\ \A m \in 3 .. n - 1 : text[m] \in Words \cup {"<", ">", "="}}
    IN  IF IsKeyword(1) THEN 1
        ELSE IF IsPrefix(<<"template", "<">>, text) /\ ends # {} THEN Max(ends) + 1
        ELSE 0

\* The place of the name: decorations in capitals come before it.
ClassName(text) ==
    LET k == ClassKeyword(text)
        names == {n \in k + 1 .. Len(text) :
                    /\ text[n] \in Words
                    /\ \A m \in k + 1 .. n - 1 : text[m] = "API"}
    IN  IF k = 0 \/ names = {} THEN 0 ELSE Max(names)

\* On from the end of what "<" opens.
GoAfter(s, close) ==
    IF close = Nowhere THEN [s EXCEPT !.answer = "no"]
    ELSE [s EXCEPT !.line = close[1], !.pos = close[2] + 1]

\* From <<line, pos>> on, does a template argument list end before the statement does?
\* Undecided while answer is "".
LookFurther(s, lines) ==
    LET line == lines[s.line]
        at == SelectInSubSeq(line, s.pos, Len(line),
                             LAMBDA t : t \in {"{", "}", ";", "=", "[", "]", ".", "<", ">"})
    IN  CASE s.answer # "" -> s
          [] s.answer = "" /\ at = 0 ->
               IF s.line = Len(lines) THEN [s EXCEPT !.answer = "no"]
               ELSE [s EXCEPT !.line = @ + 1, !.pos = 1]
          [] s.answer = "" /\ at # 0 /\ line[at] \in {"{", "}", ";"} -> [s EXCEPT !.answer = "no"]
          [] s.answer = "" /\ at # 0 /\ line[at] \in {">", "=", "[", "]", "."} ->
               [s EXCEPT !.answer = "yes"]
          [] OTHER -> GoAfter(s, CloseExpression(lines, s.line, at))

InTemplateArgumentList(lines, p, pos) ==
    LET tokens == SumFunction([n \in DOMAIN lines |-> Len(lines[n]) + 1])
    IN  Iterate(LAMBDA s : LookFurther(s, lines),
                [line |-> p, pos |-> pos, answer |-> ""], tokens).answer = "yes"

\* A class whose name is on this line, unless it is a parameter of some kind.
ConsumeClass(s, lines, raw, p) ==
    LET text == LStrip(s.rest)
        name == ClassName(text)
        end_declaration == GetIndentLevel(s.rest) + name + 1
    IN  IF \/ name = 0
           \/ s.stack # <<>> /\ Last(s.stack).open_parentheses # 0
           \/ InTemplateArgumentList(lines, p, end_declaration)
        THEN s
        ELSE [s EXCEPT !.stack = Append(@, _ClassInfo(text[ClassKeyword(text)], text[name], raw, p)),
                       !.rest = From(text, name + 1)]

\* public: and the like, which are indented one space more than the class.
UpdateAccess(s, p) ==
    LET at == SelectLastInSeq(s.rest, LAMBDA t : t \in {"public:", "private:"})
    IN  IF s.stack = <<>> \/ Last(s.stack).kind # "class" \/ at = 0 THEN s
        ELSE [s EXCEPT !.stack = ChangeTop(@, "access", s.rest[at]),
                       !.errors = @ \o
                           IF at - 1 # Last(s.stack).indent + 1 /\ GetIndentLevel(s.rest) = at - 1
                           THEN <<Err(p, <<"whitespace", "indent">>, 3)>> ELSE <<>>]

\* The block that "{" opens when no head is waiting for it.
OpenedBlock(line, p) ==
    IF IsPrefix(<<"extern", DQ, DQ, "{">>, line) THEN _BlockInfo("extern", p, TRUE)
    ELSE [_BlockInfo("block", p, TRUE) EXCEPT
             !.inline_asm = IF _MATCH_ASM(line) THEN "block" ELSE "no"]

\* One round: the first brace, semicolon or closing parenthesis of what is left.
ConsumeBrace(s, lines, raw, p) ==
    LET at == SelectInSeq(s.rest, LAMBDA t : t \in {"{", ";", ")", "}"})
        pending == ~SeenOpenBrace(s.stack)
        next == [s EXCEPT !.rest = From(@, at + 1)]
    IN  CASE at = 0 -> s
          [] at # 0 /\ s.rest[at] = "{" ->
               [next EXCEPT !.stack = IF pending THEN ChangeTop(@, "seen_open_brace", TRUE)
                                      ELSE Append(@, OpenedBlock(s.rest, p))]
          [] at # 0 /\ s.rest[at] \in {";", ")"} ->
               [next EXCEPT !.stack = IF pending THEN Front(@) ELSE @]
          [] OTHER ->
               IF s.stack = <<>> THEN next
               ELSE [next EXCEPT !.stack = Front(@),
                                 !.errors = @ \o CheckEnd(Last(s.stack), lines, raw, p)]

\* What the rules read of a NestingState, and the errors of the last Update.
NoBlocks == [stack |-> <<>>, pp_stack |-> <<>>, previous_top |-> "none", previous_depth |-> 0,
             rest |-> <<>>, errors |-> <<>>]

Update(s, lines, raw, p) ==
    LET line == lines[p]
        begun == [s EXCEPT !.previous_top = IF s.stack = <<>> THEN "none" ELSE Last(s.stack).kind,
                           !.previous_depth = Len(s.stack),
                           !.rest = line, !.errors = <<>>]
    IN  [Iterate(LAMBDA r : ConsumeBrace(r, lines, raw, p),
             UpdateAccess(
                 ConsumeClass(
                     Iterate(LAMBDA r : ConsumeNamespace(r, p),
                             CountParentheses(UpdatePreprocessor(begun, line), line), Len(line)),
                     lines, raw, p),
                 p),
             Len(line)) EXCEPT !.rest = <<>>]

\* At the end of the file no class and no namespace is open.
CheckCompletedBlocks(stack) ==
    FlattenSeq([n \in DOMAIN stack |->
        CASE stack[n].kind = "class" -> <<Err(stack[n].start, <<"build", "class">>, 5)>>
          [] stack[n].kind = "namespace" -> <<Err(stack[n].start, <<"build", "namespaces">>, 5)>>
          [] OTHER -> <<>>])
-----------------------------------------------------------------------------
(* The rule against indenting in a namespace. *)

\* The line ends with "class x;".
IsForwardClassDeclaration(line) == \E w \in Words : IsSuffix(<<"class", w, ";">>, line)

IsMacroDefinition(lines, p) ==
    \/ IsPrefix(<<"#define">>, lines[p])
    \/ p > 1 /\ IsSuffix(<<"\\">>, lines[p - 1])

CheckNamespaceIndentation == {"class", "namespace"}

IsBlockInNameSpace(stack, is_forward_declaration) ==
    IF is_forward_declaration THEN stack # <<>> /\ Last(stack).kind = "namespace"
    ELSE /\ Len(stack) > 1
         /\ Last(stack).kind \in CheckNamespaceIndentation
         /\ stack[Len(stack) - 1].kind = "namespace"

CheckForNamespaceIndentation(s, lines, p) ==
    LET is_namespace_indent_item ==
            /\ Len(s.stack) > 1
            /\ Last(s.stack).kind \in CheckNamespaceIndentation
            /\ s.previous_top = "namespace"
            /\ s.previous_depth = Len(s.stack) - 1
        is_forward_declaration == IsForwardClassDeclaration(lines[p])
    IN  IF /\ is_namespace_indent_item \/ is_forward_declaration
           /\ ~IsMacroDefinition(lines, p)
           /\ IsBlockInNameSpace(s.stack, is_forward_declaration)
           /\ GetIndentLevel(lines[p]) > 0
        THEN <<Err(p, <<"runtime", "indentation_namespace">>, 4)>> ELSE <<>>
=============================================================================
