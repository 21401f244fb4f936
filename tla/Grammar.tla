------------------------------- MODULE Grammar -------------------------------
(* The programs the parser is meant to read, and the tree it is meant to    *)
(* make of each: leftmost derivations of the ECMAScript grammar, for the    *)
(* part of the language that Parser covers.  A behaviour derives one        *)
(* program of a family, a set of enabled productions with a bound on the    *)
(* length of the source.                                                    *)
(*                                                                          *)
(* The productions come from the language and not from the code.  Programs  *)
(* are bodies of an async generator, so that yield, await and return are in *)
(* place; the early errors of the language are not part of the grammar.     *)
EXTENDS Naturals, SequencesExt

CONSTANTS
    Families    \* name |-> [productions, tokens, statements]

VARIABLES
    family,     \* the name of the family of this behaviour
    todo,       \* the symbols still to be derived, leftmost first
    source,     \* the tokens and newlines derived so far
    shape,      \* the tree of the source, its nodes opened and closed in turn
    departures  \* the constructs in the source that the parser misreads

vars == <<family, todo, source, shape, departures>>

----------------------------------------------------------------------------
(* Symbols: tokens, the opening of a node and its closing, and nonterminals *)
(* with the attributes                                                      *)
(*   levels  the binding strengths an expression may have here,             *)
(*   in      "yes", "no" in the head of a for loop, and "nested" where the  *)
(*           head is left for brackets, an argument or a function body,     *)
(*   left    what the symbol is the leftmost part of: a "statement", the    *)
(*           "body" of an arrow, the "callee" of new, what is after the     *)
(*           "modifier" of a method, or none of them,                       *)
(*   open    the statement may end in an if without else.                   *)
Symbol(is) == [is |-> is, text |-> "", levels |-> {}, in |-> "yes",
               left |-> "any", open |-> TRUE]
T(token) == [Symbol("token") EXCEPT !.text = token]
N(node, symbols) ==
    <<[Symbol("open") EXCEPT !.text = node]>> \o symbols \o <<Symbol("close")>>
Ready == {"token", "open", "close"}

In(is, in) == [Symbol(is) EXCEPT !.in = in]
First(is, in, left) == [In(is, in) EXCEPT !.left = left]
Body(in, open) == [In("statement", in) EXCEPT !.open = open]
E(levels, in, left) == [First("expression", in, left) EXCEPT !.levels = levels]

Nested(in) == IF in = "yes" THEN "yes" ELSE "nested"
Whole(in) == E(0..21, in, "any")        \* Expression
One(in) == E(1..21, in, "any")          \* AssignmentExpression
Tokens(texts) == [i \in DOMAIN texts |-> T(texts[i])]
Commas(symbols) ==
    FlattenSeq([i \in DOMAIN symbols |->
        IF i = 1 THEN <<symbols[i]>> ELSE <<T(","), symbols[i]>>])
Times(n, symbol) == [i \in 1..n |-> symbol]

Word(text) == N(text, <<T(text)>>)

(* A production: its name, the level of an expression, what it derives, and *)
(* the departure it brings.                                                 *)
P(name, level, symbols) ==
    [name |-> name, level |-> level, derives |-> symbols, departs |-> {}]
Departing(production, departure) == [production EXCEPT !.departs = {departure}]

----------------------------------------------------------------------------
(* Expressions by level: 0 comma, 1 assignment, 2 conditional, 3 ??, 4 ||,  *)
(* 5 &&, 6 |, 7 ^, 8 &, 9 equality, 10 relation, 11 shift, 12 sum,          *)
(* 13 product, 14 power, 15 unary, 16 update, 17 new without arguments,     *)
(* 18 optional chain, 19 call, 20 member, 21 primary.                       *)
LeftGrouping == {<<"||", 4>>, <<"&&", 5>>, <<"|", 6>>, <<"^", 7>>, <<"&", 8>>,
                 <<"==", 9>>, <<"<", 10>>, <<"<<", 11>>, <<"+", 12>>, <<"-", 12>>,
                 <<"*", 13>>, <<"/", 13>>}
Operations(in, left) ==
    LET Infix(op, level) ==
            P(op, level, N(op, <<E(level..21, in, left), T(op), E(level + 1..21, in, "any")>>))
        Prefix(op, node) == P(op, 15, N(node, <<T(op), E(15..21, in, "any")>>))
    IN  {Infix(o[1], o[2]) : o \in LeftGrouping}
        \cup {IF in = "yes" THEN Infix("in", 10)
              ELSE Departing(Infix("in", 10), "in inside the head of a for loop") :
                i \in {in} \ {"no"}}
        \cup {P(",", 0, N("sequence", <<E(1..21, in, left), T(",")>>
                                      \o Commas(Times(n, One(in))))) : n \in 1..2}
        \cup {P("?", 2, N("?", <<E(3..21, in, left), T("?"), One(Nested(in)),
                                 T(":"), One(in)>>)),
              P("??", 3, N("??", <<E({3} \cup 6..21, in, left), T("??"),
                                   E(6..21, in, "any")>>)),
              P("**", 14, N("**", <<E(16..21, in, left), T("**"), E(14..21, in, "any")>>)),
              Prefix("-", "minus"), Prefix("!", "!"), Prefix("typeof", "typeof"),
              Prefix("await", "await")}

Assignments(in, left) ==
    LET target(kind) == First(kind, in, left)
    IN  {P("=", 1, N("=", <<target("target"), T("="), One(in)>>)),
         P("+=", 1, N("+=", <<target("reference"), T("+="), One(in)>>)),
         P("/=", 1, N("/=", <<target("reference"), T("/="), One(in)>>)),
         P("++", 16, N("prefix", <<T("++"), In("reference", in)>>)),
         P("++", 16, N("postfix", <<target("reference"), T("++")>>)),
         P("yield", 1, N("yield", <<T("yield")>>)),
         P("yield", 1, N("yield", <<T("yield"), One(in)>>)),
         P("yield", 1, N("yield*", <<T("yield"), T("*"), One(in)>>))}

(* Members, calls and new.  A chain keeps its level when more links follow. *)
Names == {"a", "if"}
Indexed(in) == <<T("["), Whole(Nested(in)), T("]")>>
TemplateParts(in) ==
    {<<T("text")>>, <<T("text${"), Whole(Nested(in)), T("}"), T("text")>>}
Links(level, objects, in, left) ==
    LET object == <<E(objects, in, left)>>
        Tagged(parts) == P("tagged", level, N("tagged", object \o parts))
    IN  {P(".", level, N(".", object \o <<T(".")>> \o Word(name))) : name \in Names}
        \cup {P("[]", level, N("[]", object \o Indexed(in)))}
        \cup {IF left = "callee" THEN Departing(Tagged(parts), "template in the callee of new")
              ELSE Tagged(parts) : parts \in IF level = 18 THEN {} ELSE TemplateParts(in)}

(* Calls of a node, one for each list of arguments after the symbols first. *)
Calls(name, level, node, first, in) ==
    LET argument == In("argument", Nested(in))
    IN  {P(name, level, N(node, first \o <<T("(")>> \o Commas(Times(n, argument)) \o <<T(")")>>)) :
            n \in 0..2}
        \cup {Departing(P("call,", level, N(node, first \o <<T("("), argument, T(","), T(")")>>)),
                        "comma after the last argument")}
Chains(in, left) ==
    LET Chain(name, symbols) ==
            P(name, 18, N(name, <<E(18..21, in, left), T("?.")>> \o symbols))
    IN  Links(20, {20, 21}, in, left) \cup Links(19, {19}, in, left)
        \cup Links(18, {18}, in, left)
        \cup Calls("call", 19, "call", <<E({19, 20, 21}, in, left)>>, in)
        \cup Calls("call", 18, "call", <<E({18}, in, left)>>, in)
        \cup Calls("?.()", 18, "?.()", <<E(18..21, in, left), T("?.")>>, in)
        \cup {Chain("?.", Word(name)) : name \in Names} \cup {Chain("?.[]", Indexed(in))}
        \cup Calls("new", 20, "new", <<T("new"), E({20, 21}, in, "callee")>>, in)
        \cup {P("new", 17, N("new", <<T("new"), E({17, 20, 21}, in, "callee")>>)),
              P("new.target", 20, N("new.target", <<T("new"), T("."), T("target")>>))}

(* Arrays, of expressions, targets or patterns: the last hole has a comma   *)
(* of its own, and where a rest element must be the last one, so it is.     *)
Arrays(item, spread, in, free) ==
    LET Element(kind) == CASE kind = "item" -> <<In(item, in)>>
                           [] kind = "hole" -> N("hole", <<>>)
                           [] kind = "spread" -> N("...", <<T("..."), In(spread, in)>>)
        Separated(kinds) == FlattenSeq([i \in DOMAIN kinds |->
            (IF i = 1 THEN <<>> ELSE <<T(",")>>) \o Element(kinds[i])])
        lists == UNION {[1..n -> {"item", "hole", "spread"}] : n \in 0..2}
        Closed(kinds, comma) ==
            /\ kinds = <<>> => ~comma
            /\ kinds # <<>> => (Last(kinds) = "hole" => comma)
            /\ \A i \in DOMAIN kinds : kinds[i] = "spread" /\ ~free =>
                   i = Len(kinds) /\ ~comma
    IN  {P("array", 21, N("array", <<T("[")>> \o Separated(c[1])
                                   \o (IF c[2] THEN <<T(",")>> ELSE <<>>) \o <<T("]")>>)) :
            c \in {c \in lists \X BOOLEAN : Closed(c[1], c[2])}}

(* Functions.  An arrow is an assignment, the other functions are primary.  *)
FunctionOf(prefix, op, in, names) ==
    LET parts(name) == name \o <<In("list", Nested(in)), In("block", Nested(in))>>
    IN  {P(op, 21, N(op, prefix \o <<T("function")>> \o parts(name))) : name \in names}
        \cup {P("generator", 21,
                N("generator", N(op, prefix \o <<T("function"), T("*")>> \o parts(name)))) :
                name \in names}
FunctionsNamed(in, names) ==
    FunctionOf(<<>>, "function", in, names)
        \cup FunctionOf(<<T("async")>>, "async function", in, names)
ParameterLists(in) ==
    LET Plain(n) == Commas(Times(n, In("parameter", in)))
    IN  {Plain(n) : n \in 0..2}
        \cup {Plain(1) \o <<T(",")>>}
        \cup {Plain(n) \o (IF n = 0 THEN <<>> ELSE <<T(",")>>)
              \o N("...", <<T("..."), In("pattern", in)>>) : n \in 0..1}
Arrows(in) ==
    LET Arrow(op, prefix, list) ==
            P(op, 1, N(op, prefix \o list \o <<T("=>"), In("body", in)>>))
        lists == {<<T("(")>> \o list \o <<T(")")>> : list \in ParameterLists(Nested(in))}
                 \cup {Word("a")}
    IN  {Arrow("arrow", <<>>, list) : list \in lists}
        \cup {Arrow("async arrow", <<T("async")>>, list) : list \in lists}

(* Objects, of properties, target properties or parameter properties.       *)
Words == {P(text, 0, Word(text)) : text \in {"a", "if", "1"}}
         \cup {P("special names", 0, Word(text)) : text \in {"get", "async", "static"}}
Objects(item, rest, in, free) ==
    LET lists == {Times(n, <<In(item, in)>>) : n \in 0..2}
                 \cup {Times(n, <<In(item, in)>>)
                       \o <<N("...", <<T("..."), In(rest, in)>>)>> : n \in 0..1}
        Separated(list) == FlattenSeq([i \in DOMAIN list |->
            (IF i = 1 THEN <<>> ELSE <<T(",")>>) \o list[i]])
        Object(list, comma) == P("object", 21, N("object", <<T("{")>> \o Separated(list)
                                 \o (IF comma THEN <<T(",")>> ELSE <<>>) \o <<T("}")>>))
        IsRest(list) == list # <<>> /\ Len(Last(list)) > 1
    IN  {Object(list, FALSE) : list \in lists}
        \cup {Object(list, TRUE) : list \in {l \in lists : l # <<>> /\ (IsRest(l) => free)}}

(* Methods, of objects and of classes, with the modifiers before their key. *)
Methods(in) ==
    LET Method(kind, modifiers) ==
            P(kind, 0, N(kind, modifiers \o
                <<First("key", in, IF modifiers = <<>> THEN "any" ELSE "modifier"),
                  In("list", in), In("block", in)>>))
    IN  {Method("method", <<>>), Method("generator method", <<T("*")>>),
         Method("async method", <<T("async")>>),
         Method("async generator method", <<T("async"), T("*")>>)}
Getter(in, left) ==
    P("get", 0, N("get", <<T("get"), First("key", in, left)>>
                         \o N("list", <<T("("), T(")")>>) \o <<In("block", in)>>))
Keys(s) ==
    Words \cup {LET computed == P("computed", 0, N("computed", Indexed(s.in)))
               IN  IF s.left = "modifier"
                   THEN Departing(computed, "computed key after a modifier") ELSE computed}
Properties(in) ==
    Methods(in)
    \cup {Getter(in, "modifier"),
          P("property", 0, N("property", <<In("key", in), T(":"), One(in)>>)),
          P("a", 0, N("shorthand", Word("a")))}
    \cup {P("special names", 0, N("shorthand", Word(text))) : text \in {"get", "async", "static"}}

(* Classes.  A field whose name is also a modifier ends with a semicolon or *)
(* with its class: a newline would make it the modifier of the next member. *)
Fields(in, isStatic) ==
    LET end == <<Symbol("terminator")>>
        last == <<[Symbol("terminator") EXCEPT !.text = "last"]>>
        value == <<T("="), One(in)>>
        Field(name, symbols) == P(name, 0, N("field", symbols))
        keys == {Word("a"), N("computed", Indexed(in))}
    IN  {Field("field", key \o v \o end) : key \in keys, v \in {<<>>, value}}
        \cup {Field("special names", Word(word) \o v) :
                word \in {"async", "static"}, v \in {<<T(";")>>, value \o end}}
        \cup {Field("special names", Word("async") \o last)}
        \cup {IF isStatic THEN p ELSE Departing(p, "field named static before the end") :
                p \in {Field("special names", Word("static") \o last)}}
        \cup {Departing(Field("special names", Word("get") \o v), "field named get") :
                v \in {<<T(";")>>, last, value \o end}}
Members(in) ==
    Methods(in) \cup Fields(in, FALSE)
    \cup {Getter(in, "any"),
          P("static", 0, N("static", <<T("static"), In("static member", in)>>)),
          P("static", 0, N("static", <<T("static"), In("block", in)>>)),
          Departing(P("empty member", 0, <<T(";")>>), "semicolon in a class")}
ClassesNamed(in, names) ==
    LET inner == Nested(in)
        heritages == {<<>>, <<T("extends"), E(17..21, in, "any")>>}
        bodies == {<<>>, <<"member">>, <<"constructor">>, <<"member", "member">>,
                   <<"member", "constructor">>, <<"constructor", "member">>}
        Elements(body, heritage) ==
            (IF heritage # <<>> /\ "constructor" \notin Range(body)
             THEN N("default constructor", <<>>) ELSE <<>>)
            \o <<T("{")>> \o [i \in DOMAIN body |-> In(body[i], inner)] \o <<T("}")>>
    IN  {P("class", 21, N("class", <<T("class")>> \o name \o heritage \o Elements(body, heritage))) :
            name \in names, heritage \in heritages, body \in bodies}

Primaries(in, left) ==
    {P(text, 21, Word(text)) : text \in {"a", "of", "1", "this"}}
    \cup {P("regex", 21, N("regex", <<T("/a/")>>)),
          P("paren", 21, <<T("("), Whole(Nested(in)), T(")")>>)}
    \cup {P("template", 21, N("template", parts)) : parts \in TemplateParts(in)}
    \cup Arrays("one", "one", Nested(in), TRUE)
    \cup IF left \in {"statement", "body"} THEN {} ELSE Objects("property", "one", Nested(in), TRUE)
    \cup IF left = "statement" THEN {}
         ELSE FunctionsNamed(in, {Word("a"), N("unnamed", <<>>)})
              \cup ClassesNamed(in, {Word("a"), N("unnamed", <<>>)})

Expressions(s) ==
    {p \in Operations(s.in, s.left) \cup Assignments(s.in, s.left) \cup Chains(s.in, s.left)
           \cup Arrows(s.in) \cup Primaries(s.in, s.left) : p.level \in s.levels}
References(s) ==
    {P(text, 21, Word(text)) : text \in {"a", "of"}}
    \cup {P("paren", 21, <<T("("), In("reference", Nested(s.in)), T(")")>>)}
    \cup {p \in Links(20, {19, 20, 21}, s.in, s.left) : p.name \in {".", "[]"}}

----------------------------------------------------------------------------
(* Statements.                                                              *)
Declarator(in, initialized) ==
    N("declarator", IF initialized THEN <<In("pattern", in), T("="), One(in)>> ELSE Word("a"))
Declared(op, in) ==
    LET inits == UNION {[1..n -> IF op = "const" THEN {TRUE} ELSE BOOLEAN] : n \in 1..2}
        Declarators(list) == FlattenSeq([i \in DOMAIN list |->
            (IF i = 1 THEN <<>> ELSE <<T(",")>>) \o Declarator(in, list[i])])
        Declaration(list) == P(op, 0, N(op, <<T(op)>> \o Declarators(list)))
    IN  {IF Len(list) = 2 /\ list[1]
         THEN Departing(Declaration(list), "declarator after an initializer")
         ELSE Declaration(list) : list \in inits}

Fors(s) ==
    LET inner == Nested(s.in)
        body == <<T(")"), Body(inner, s.open)>>
        Maybe(present) == IF present THEN <<Whole(inner)>> ELSE N("none", <<>>)
        Loop(init) == {P("for", 0, N("for", <<T("for"), T("(")>> \o init \o <<T(";")>>
                                 \o Maybe(c[1]) \o <<T(";")>> \o Maybe(c[2]) \o body)) :
                          c \in BOOLEAN \X BOOLEAN}
        lefts == {N(op, <<T(op)>> \o N("declarator", <<In("pattern", inner)>>)) :
                    op \in {"var", "const"}}
                 \cup {N("expression", <<In("target", "no")>>)}
        Items(op, heads, token, items) ==
            {P(op, 0, N(op, heads \o left \o <<T(token), items>> \o body)) : left \in lefts}
    IN  Loop(N("none", <<>>))
        \cup UNION {{[p EXCEPT !.departs = d.departs] : p \in Loop(d.derives)} :
                        d \in Declared("var", "no") \cup Declared("const", "no")}
        \cup {Departing(p, "expression in the head of a for loop") :
                p \in Loop(N("expression", <<E(0..21, "no", "any")>>))}
        \cup Items("for in", <<T("for"), T("(")>>, "in", Whole(inner))
        \cup Items("for of", <<T("for"), T("(")>>, "of", One(inner))
        \cup Items("for await", <<T("for"), T("await"), T("(")>>, "of", One(inner))

Tries(in) ==
    LET block == <<In("block", in)>>
        none == N("none", <<>>)
        handlers == {<<T("catch")>> \o N("catch", block),
                     <<T("catch"), T("(")>> \o N("catch", <<In("pattern", in), T(")")>> \o block)}
        finalizer == <<T("finally")>> \o block
    IN  {P("try", 0, N("try", <<T("try")>> \o block \o h \o f)) :
            h \in handlers, f \in {none, finalizer}}
        \cup {P("try", 0, N("try", <<T("try")>> \o block \o none \o finalizer))}

Switches(in) ==
    LET Case(kind) == IF kind = "case"
                      THEN N("case", <<T("case"), Whole(in), T(":"), In("consequent", in)>>)
                      ELSE N("default", <<T("default"), T(":"), In("consequent", in)>>)
        kinds == {<<>>, <<"case">>, <<"default">>, <<"case", "case">>, <<"case", "default">>,
                  <<"default", "case">>}
    IN  {P("switch", 0, N("switch", <<T("switch"), T("("), Whole(in), T(")"), T("{")>>
                \o FlattenSeq([i \in DOMAIN k |-> Case(k[i])]) \o <<T("}")>>)) : k \in kinds}

Statements(s) ==
    LET in == s.in
        end == <<Symbol("terminator")>>
        Closed(p) == [p EXCEPT !.derives = Front(@) \o end \o <<Last(@)>>]
        test == <<T("("), Whole(in), T(")")>>
        Jumps(op) == {P(op, 0, N(op, <<T(op)>> \o label \o end)) : label \in {<<>>, Word("a")}}
    IN  {P("expression", 0, N("expression", <<E(0..21, in, "statement")>> \o end)),
         P("block", 0, <<In("block", in)>>),
         P("if else", 0, N("if", <<T("if")>> \o test \o <<Body(in, FALSE), T("else"),
                                                          Body(in, s.open)>>)),
         P("do", 0, N("do", <<T("do"), Body(in, TRUE), T("while")>> \o test \o end)),
         P("throw", 0, N("throw", <<T("throw"), Whole(in)>> \o end)),
         P("return", 0, N("return", <<T("return")>> \o end)),
         P("return", 0, N("return", <<T("return"), Whole(in)>> \o end)),
         P("label", 0, N("label", Word("a") \o <<T(":"), Body(in, s.open)>>)),
         P("empty", 0, N("empty", <<T(";")>>))}
        \cup {P("if", 0, N("if", <<T("if")>> \o test \o <<Body(in, TRUE)>>)) : o \in {s.open} \cap {TRUE}}
        \cup {P(op, 0, N(op, <<T(op)>> \o test \o <<Body(in, s.open)>>)) : op \in {"while", "with"}}
        \cup {Closed(p) : p \in Declared("var", in)}
        \cup Jumps("break") \cup Jumps("continue")
        \cup Fors(s) \cup Tries(in) \cup Switches(in)
        \cup IF s.is = "statement" THEN {}
             ELSE {Closed(p) : p \in Declared("const", in)}
                  \cup FunctionsNamed(in, {Word("a")}) \cup ClassesNamed(in, {Word("a")})

(* A statement ends with a semicolon, before the end of its block, or at a  *)
(* newline before a token that cannot continue it.                          *)
Terminators(s, after) ==
    {P("end", 0, <<>>) : i \in IF after = <<>> \/ Head(after) = T("}") THEN {1} ELSE {}}
    \cup IF s.text = "last" THEN {}
         ELSE {P(";", 0, <<T(";")>>)} \cup {P("NL", 0, <<T("NL")>>) : i \in DOMAIN after}
Continuing == {"(", "[", "text", "text${", "-", "*", "/", "/a/", ";"}

Productions(s) ==
    LET in == s.in
        Plain(symbols) == P("plain", 0, symbols)
    IN  CASE s.is = "expression" -> Expressions(s)
          [] s.is = "one" -> {Plain(<<One(in)>>)}
          [] s.is = "reference" -> References(s)
          [] s.is = "target" ->
               {Plain(<<First("reference", in, s.left)>>)}
               \cup Arrays("element", "target", Nested(in), FALSE)
               \cup IF s.left \in {"statement", "body"} THEN {}
                    ELSE Objects("target property", "reference", Nested(in), FALSE)
          [] s.is = "element" ->
               {Plain(<<In("target", in)>>),
                P("initialized", 0, N("=", <<In("target", in), T("="), One(in)>>))}
          [] s.is = "pattern" ->
               {P(text, 0, Word(text)) : text \in {"a", "of"}}
               \cup Arrays("parameter", "pattern", Nested(in), FALSE)
               \cup Objects("parameter property", "name", Nested(in), FALSE)
          [] s.is = "parameter" ->
               {Plain(<<In("pattern", in)>>),
                P("initialized", 0, N("=", <<In("pattern", in), T("="), One(Nested(in))>>))}
          [] s.is = "name" -> {Plain(Word("a"))}
          [] s.is = "key" -> Keys(s)
          [] s.is = "property" -> Properties(in)
          [] s.is = "target property" ->
               {Plain(N("shorthand", Word("a"))),
                Departing(P("initialized", 0, N("shorthand", Word("a") \o <<T("="), One(in)>>)),
                          "default of a name in an object target"),
                P("property", 0, N("property", <<In("key", in), T(":"), In("element", in)>>))}
          [] s.is = "parameter property" ->
               {Plain(N("shorthand", Word("a"))),
                P("initialized", 0, N("shorthand", Word("a") \o <<T("="), One(in)>>)),
                P("property", 0, N("property", <<In("key", in), T(":"), In("parameter", in)>>))}
          [] s.is = "member" -> Members(in)
          [] s.is = "static member" ->
               Methods(in) \cup Fields(in, TRUE) \cup {Getter(in, "any")}
          [] s.is = "constructor" ->
               {P("method", 0, N("method", Word("constructor")
                    \o <<In("list", in), In("block", in)>>))}
          [] s.is = "argument" ->
               {Plain(<<One(in)>>), P("spread", 0, N("...", <<T("..."), One(in)>>))}
          [] s.is = "list" -> {Plain(N("list", <<T("(")>> \o list \o <<T(")")>>)) :
                                 list \in ParameterLists(in)}
          [] s.is = "body" ->
               {Plain(<<In("block", Nested(in))>>),
                Plain(N("block", N("return", <<E(1..21, in, "body")>>)))}
          [] s.is = "block" ->
               {Plain(N("block", <<T("{")>> \o Times(n, In("item", in)) \o <<T("}")>>)) : n \in 0..2}
          [] s.is = "consequent" -> {Plain(Times(n, In("item", in))) : n \in 0..1}
          [] s.is \in {"statement", "item"} -> Statements(s)

----------------------------------------------------------------------------
(* The productions of each family for every symbol that can occur.          *)
RECURSIVE Reachable(_, _)
Reachable(known, latest) ==
    LET derived == UNION {Range(p.derives) : p \in UNION {Productions(s) : s \in latest}}
        new == {s \in derived : s.is \notin Ready \cup {"terminator"}} \ known
    IN  IF new = {} THEN known ELSE Reachable(known \cup new, new)
Symbols == Reachable({Symbol("item")}, {Symbol("item")})

Enabled(f, productions) ==
    {p \in productions : p.name \in Families[f].productions \cup {"plain", "end"}}
Rules == [f \in DOMAIN Families |-> [s \in Symbols |-> Enabled(f, Productions(s))]]

----------------------------------------------------------------------------
(* Derivations.                                                             *)
Settled(symbols) ==
    LET ready == SelectInSeq(symbols, LAMBDA s : s.is \notin Ready)
    IN  IF ready = 0 THEN Len(symbols) ELSE ready - 1
Texts(symbols) ==
    LET own == SelectSeq(symbols, LAMBDA s : s.is = "token")
    IN  [i \in DOMAIN own |-> own[i].text]
Nodes(symbols) ==
    LET own == SelectSeq(symbols, LAMBDA s : s.is \in {"open", "close"})
    IN  [i \in DOMAIN own |-> IF own[i].is = "open" THEN own[i].text ELSE ")"]
Weight(symbols) ==
    Len(SelectSeq(symbols, LAMBDA s : s.is \notin {"open", "close", "terminator", "consequent"}))

Init ==
    /\ family \in DOMAIN Families
    /\ \E n \in 1..Families[family].statements :
           todo = Times(n, Symbol("item")) \o <<Symbol("close")>>
    /\ source = <<>>
    /\ shape = <<"block">>
    /\ departures = {}

(* Replace the leftmost nonterminal, and move on to the next one.           *)
Derive ==
    /\ todo # <<>>
    /\ LET after == SelectSeq(Tail(todo), LAMBDA s : s.is \notin {"open", "close"})
       IN  \E p \in IF Head(todo).is = "terminator"
                    THEN Enabled(family, Terminators(Head(todo), after))
                    ELSE Rules[family][Head(todo)] :
            LET symbols == p.derives \o Tail(todo)
                n == Settled(symbols)
                text == source \o Texts(SubSeq(symbols, 1, n))
            IN  /\ Len(source) + Weight(symbols) <= Families[family].tokens
                /\ \A i \in Len(source)..Len(text) - 1 :
                     i > 0 => ~(text[i] = "NL" /\ text[i + 1] \in Continuing)
                /\ todo' = SubSeq(symbols, n + 1, Len(symbols))
                /\ source' = text
                /\ shape' = shape \o Nodes(SubSeq(symbols, 1, n))
                /\ departures' = departures \cup p.departs
                /\ UNCHANGED family
=============================================================================
