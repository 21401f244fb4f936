------------------------------- MODULE Parser -------------------------------
(* The lexer and the recursive descent parser of the handwritten front end  *)
(* (src/lexer/mod.rs, src/parser/mod.rs), as functions from a position in   *)
(* the token stream to a syntax tree and the position after it.  The field  *)
(* allow_in is the last argument of each function, in: with_allow_in sets   *)
(* it for one call and puts it back afterwards.                             *)
(*                                                                          *)
(* A token stands for a class of tokens where the parser does not tell them *)
(* apart: one operator of each kind, few names, no literal but 1 and a      *)
(* regular expression, get for get and set.  Private names, using           *)
(* declarations, import and export are left out.                            *)
EXTENDS Naturals, SequencesExt

VARIABLE
    tokens      \* what the lexer makes of the source

----------------------------------------------------------------------------
(* The lexer.  White space and newlines ("NL") leave no trace in the token  *)
(* stream.  A slash opens a regular expression whenever another slash       *)
(* follows anywhere in the rest of the source, whatever stands before it;   *)
(* the letters after that slash are its flags.  Of the slashes in a source  *)
(* "/" and "/=" are operators, "/a/" is a regular expression.               *)
Slashes == {"/", "/=", "/a/"}
AfterSlash == [slash \in Slashes |->
                 CASE slash = "/" -> <<>> [] slash = "/=" -> <<"=">> [] OTHER -> <<"/">>]

RECURSIVE Lexed(_)
Lexed(source) ==
    LET rest == Tail(source)
        next == SelectInSeq(rest, LAMBDA token : token \in Slashes)
    IN  CASE source = <<>> -> <<>>
          [] Head(source) = "NL" -> Lexed(rest)
          [] Head(source) = "/a/" -> <<"regex">> \o Lexed(rest)
          [] Head(source) \in {"/", "/="} /\ next # 0 ->
               <<"regex">> \o Lexed(AfterSlash[rest[next]] \o SubSeq(rest, next + 1, Len(rest)))
          [] OTHER -> <<Head(source)>> \o Lexed(rest)

----------------------------------------------------------------------------
(* Syntax trees and results: a result at position 0 is a ParseError.        *)
Node(op, kids) == [op |-> op, kids |-> kids]
Leaf(text) == Node(text, <<>>)
Parsed(tree, at) == [tree |-> tree, at |-> at]
Refused == Parsed(Leaf("error"), 0)
Then(result, Continue(_, _)) ==
    IF result.at = 0 THEN Refused ELSE Continue(result.tree, result.at)

(* current_token, and consume_opt, which lets a missing token pass.         *)
Token(p) == IF p <= Len(tokens) THEN tokens[p] ELSE "EOF"
Skip(token, p) == IF Token(p) = token THEN p + 1 ELSE p

Identifiers == {"a", "of", "target", "get", "static", "constructor"}
Reserved == {"var", "const", "if", "else", "for", "while", "do", "in", "new",
             "this", "typeof", "delete", "await", "yield", "function", "async",
             "return", "throw", "break", "continue", "switch", "case",
             "default", "try", "catch", "finally", "with", "class", "extends"}
IdentifierName == Identifiers \cup Reserved
Literals == {"1", "this", "regex"}
Assigns == {"=", "+=", "/="}

(* What may be assigned to, updated, or given the items of a for loop.      *)
IsIdentifier(e) == e.kids = <<>> /\ e.op \in Identifiers \cup {"async"}
IsSimpleTarget(e) == IsIdentifier(e) \/ e.op \in {".", "[]", "?.", "?.[]"}
RECURSIVE IsTarget(_)
IsTarget(e) == CASE IsSimpleTarget(e) -> TRUE
                 [] e.op = "=" -> IsTarget(e.kids[1])
                 [] e.op \in {"array", "object", "..."} ->
                      \A i \in DOMAIN e.kids : IsTarget(e.kids[i])
                 [] e.op = "property" -> IsTarget(e.kids[2])
                 [] OTHER -> e = Leaf("hole") \/ e.op = "shorthand"
IsForTarget(e) ==
    CASE e.op \in {"var", "const"} -> Len(e.kids) = 1 /\ Len(e.kids[1].kids) = 1
      [] e.op = "expression" -> IsSimpleTarget(e.kids[1]) \/ e.kids[1].op \in {"array", "object"}

(* (operator, precedence) of current_binary_operator, one for each kind.    *)
Precedence(token, in) ==
    CASE token = "||" -> 1 [] token = "??" -> 2 [] token = "&&" -> 3
      [] token = "|" -> 4 [] token = "^" -> 5 [] token = "&" -> 6
      [] token = "==" -> 7
      [] token = "<" -> 8 [] token = "in" /\ in -> 8
      [] token = "<<" -> 9
      [] token \in {"+", "-"} -> 10
      [] token \in {"*", "/"} -> 11
      [] token = "**" -> 12
      [] OTHER -> 0
Unaries == [t \in {"-", "+", "!", "typeof", "delete", "await"} |->
              CASE t = "-" -> "minus" [] t = "+" -> "plus" [] OTHER -> t]

(* looks_like_parenthesized_arrow and its twin for async: the token after   *)
(* the parenthesis that closes the one at p is an arrow.                    *)
RECURSIVE Closing(_, _)
Closing(p, depth) ==
    CASE Token(p) = "EOF" -> p
      [] Token(p) = "(" -> Closing(p + 1, depth + 1)
      [] Token(p) = ")" -> IF depth = 1 THEN p ELSE Closing(p + 1, depth - 1)
      [] OTHER -> Closing(p + 1, depth)
LooksLikeArrow(p) == Token(p) = "(" /\ Token(Closing(p + 1, 1) + 1) = "=>"

----------------------------------------------------------------------------
(* The functions of the parser call one another through Parse, which is    *)
(* defined below all of them.                                               *)
RECURSIVE Parse(_, _, _), Sequence(_, _, _), Operators(_, _, _, _), Binary(_, _, _),
          Unary(_, _), Links(_, _, _), NewLinks(_, _, _), Arguments(_, _, _),
          Template(_, _, _), Elements(_, _, _), Properties(_, _, _),
          PatternElements(_, _, _), PatternProperties(_, _, _), Parameters(_, _, _),
          ClassElements(_, _, _), Declarators(_, _, _), Cases(_, _, _),
          Statements(_, _, _, _)
Assignment(p, in) == Parse("assignment", p, in)
LeftHandSide(p, in) == Parse("left-hand side", p, in)
Primary(p, in) == Parse("primary", p, in)
Pattern(p, in) == Parse("pattern", p, in)
Statement(p, in) == Parse("statement", p, in)

(* Expressions separated by commas.                                         *)
Sequence(p, in, list) ==
    Then(Assignment(p, in), LAMBDA e, q :
        IF Token(q) = "," THEN Sequence(q + 1, in, Append(list, e))
        ELSE Parsed(IF list = <<>> THEN e ELSE Node("sequence", Append(list, e)), q))
Expression(p, in) == Sequence(p, in, <<>>)

Statements(p, in, list, stops) ==
    IF Token(p) \in stops \cup {"EOF"} THEN Parsed(Node("block", list), p)
    ELSE Then(Statement(p, in), LAMBDA e, q : Statements(q, in, Append(list, e), stops))

Block(p, in) ==
    Then(Statements(p + 1, in, <<>>, {"}"}), LAMBDA block, q : Parsed(block, Skip("}", q)))
ArrowBody(p, in) ==
    IF Token(p) = "{" THEN Block(p, in)
    ELSE Then(Assignment(p, in), LAMBDA e, q :
            Parsed(Node("block", <<Node("return", <<e>>)>>), q))
Arrow(op, parameters, p, in) ==
    Then(ArrowBody(p, in), LAMBDA body, q :
        Parsed(Node(op, Append(parameters, body)), q))

----------------------------------------------------------------------------
(* Members, calls and templates.  A missing closing bracket or parenthesis  *)
(* is let pass, but a comma wants another argument.                         *)
Spread(p, in) ==
    IF Token(p) # "..." THEN Assignment(p, in)
    ELSE Then(Assignment(p + 1, in), LAMBDA e, q : Parsed(Node("...", <<e>>), q))

Arguments(p, in, list) ==
    Then(Spread(p, in), LAMBDA e, q :
        IF Token(q) = "," THEN Arguments(q + 1, in, Append(list, e))
        ELSE Parsed(Node("list", Append(list, e)), Skip(")", q)))
CallArguments(p, in) ==
    IF Token(p) = ")" THEN Parsed(Node("list", <<>>), p + 1) ELSE Arguments(p, in, <<>>)

Index(op, object, p, in, More(_, _)) ==
    Then(Expression(p, in), LAMBDA e, q : More(Node(op, <<object, e>>), Skip("]", q)))
Invoke(op, callee, p, in, More(_, _)) ==
    Then(CallArguments(p, in), LAMBDA list, q : More(Node(op, <<callee>> \o list.kids), q))
Named(op, object, p, More(_, _)) ==
    IF Token(p) \in IdentifierName THEN More(Node(op, <<object, Leaf(Token(p))>>), p + 1)
    ELSE Refused

Links(e, p, in) ==
    LET More(link, q) == Links(link, q, in)
    IN  CASE Token(p) = "." -> Named(".", e, p + 1, More)
          [] Token(p) = "?." /\ Token(p + 1) = "[" -> Index("?.[]", e, p + 2, in, More)
          [] Token(p) = "?." /\ Token(p + 1) = "(" -> Invoke("?.()", e, p + 2, in, More)
          [] Token(p) = "?." /\ Token(p + 1) \notin {"[", "("} -> Named("?.", e, p + 1, More)
          [] Token(p) = "[" -> Index("[]", e, p + 1, in, More)
          [] Token(p) = "(" -> Invoke("call", e, p + 1, in, More)
          [] Token(p) \in {"text", "text${"} ->
               Then(Template(p, in, <<>>), LAMBDA parts, q :
                   More(Node("tagged", <<e>> \o parts.kids), q))
          [] OTHER -> Parsed(e, p)

(* The callee of new: names and indices only.                               *)
NewLinks(e, p, in) ==
    LET More(link, q) == NewLinks(link, q, in)
    IN  CASE Token(p) = "." -> Named(".", e, p + 1, More)
          [] Token(p) = "[" -> Index("[]", e, p + 1, in, More)
          [] OTHER -> Parsed(e, p)
New(p, in) ==
    IF Token(p) = "."
    THEN IF Token(p + 1) = "target" THEN Parsed(Leaf("new.target"), p + 2) ELSE Refused
    ELSE Then(Primary(p, in), LAMBDA e, q :
         Then(NewLinks(e, q, in), LAMBDA callee, r :
            IF Token(r) = "(" THEN Invoke("new", callee, r + 1, in, Parsed)
            ELSE Parsed(Node("new", <<callee>>), r)))

(* A template is a sequence of chunks, the last one of which is a tail.     *)
Template(p, in, parts) ==
    CASE Token(p) = "text" -> Parsed(Node("template", parts), p + 1)
      [] Token(p) = "text${" ->
           Then(Expression(p + 1, in), LAMBDA e, q :
               IF Token(q) = "}" THEN Template(q + 1, in, Append(parts, e)) ELSE Refused)
      [] OTHER -> Refused

Elements(p, in, list) ==
    LET close == IF Token(p) = "]" THEN Parsed(Node("array", list), p + 1) ELSE Refused
    IN  CASE Token(p) \in {"]", "EOF"} -> close
          [] Token(p) = "," -> Elements(p + 1, in, Append(list, Leaf("hole")))
          [] OTHER ->
               Then(Spread(p, in), LAMBDA e, q :
                   CASE Token(q) = "," -> Elements(q + 1, in, Append(list, e))
                     [] Token(q) = "]" -> Parsed(Node("array", Append(list, e)), q + 1)
                     [] OTHER -> Refused)

----------------------------------------------------------------------------
(* Keys.  async, * and get are modifiers when a parenthesis stands one token  *)
(* after the token that follows them, names otherwise.                      *)
StartsKey(token) == token \in IdentifierName \cup {"1", "["}
BeforeMethod(p) == StartsKey(Token(p)) /\ Token(p + 1) = "("
Modified(p) ==
    CASE Token(p) = "async" /\ Token(p + 1) = "*" /\ BeforeMethod(p + 2) ->
           <<"async generator method", p + 2>>
      [] Token(p) = "async" /\ BeforeMethod(p + 1) -> <<"async method", p + 1>>
      [] Token(p) = "*" /\ BeforeMethod(p + 1) -> <<"generator method", p + 1>>
      [] OTHER -> <<"method", p>>

IsName(key) == key.op \in IdentifierName
Key(p, in, Inner(_, _)) ==
    CASE Token(p) = "[" ->
           Then(Inner(p + 1, in), LAMBDA e, q : Parsed(Node("computed", <<e>>), Skip("]", q)))
      [] Token(p) \in IdentifierName \cup {"1"} -> Parsed(Leaf(Token(p)), p + 1)
      [] OTHER -> Refused

----------------------------------------------------------------------------
(* Binding patterns, parameters and functions.                              *)
WithDefault(p, in) ==
    Then(Pattern(p, in), LAMBDA e, q :
        IF Token(q) # "=" THEN Parsed(e, q)
        ELSE Then(Assignment(q + 1, in), LAMBDA default, r :
                Parsed(Node("=", <<e, default>>), r)))

PatternElements(p, in, list) ==
    CASE Token(p) \in {"]", "EOF"} -> Parsed(Node("array", list), Skip("]", p))
      [] Token(p) = "," -> PatternElements(p + 1, in, Append(list, Leaf("hole")))
      [] Token(p) = "..." ->
           Then(Pattern(p + 1, in), LAMBDA e, q :
               IF Token(q) # "]" THEN Refused
               ELSE Parsed(Node("array", Append(list, Node("...", <<e>>))), q + 1))
      [] OTHER ->
           Then(WithDefault(p, in), LAMBDA e, q :
               IF Token(q) = "," THEN PatternElements(q + 1, in, Append(list, e))
               ELSE Parsed(Node("array", Append(list, e)), Skip("]", q)))
BindingPattern(p, in) ==
    CASE Token(p) \in Identifiers -> Parsed(Leaf(Token(p)), p + 1)
      [] Token(p) = "[" -> PatternElements(p + 1, in, <<>>)
      [] Token(p) = "{" -> PatternProperties(p + 1, in, <<>>)
      [] OTHER -> Refused

PatternProperty(p, in) ==
    Then(Key(p, in, Expression), LAMBDA key, q :
        CASE Token(q) = ":" ->
               Then(WithDefault(q + 1, in), LAMBDA e, r : Parsed(Node("property", <<key, e>>), r))
          [] Token(q) # ":" /\ ~IsName(key) -> Refused
          [] Token(q) = "=" /\ IsName(key) ->
               Then(Assignment(q + 1, in), LAMBDA e, r : Parsed(Node("shorthand", <<key, e>>), r))
          [] OTHER -> Parsed(Node("shorthand", <<key>>), q))
PatternProperties(p, in, list) ==
    CASE Token(p) \in {"}", "EOF"} -> Parsed(Node("object", list), Skip("}", p))
      [] Token(p) = "..." ->
           Then(Pattern(p + 1, in), LAMBDA e, q :
               IF Token(q) # "}" THEN Refused
               ELSE Parsed(Node("object", Append(list, Node("...", <<e>>))), q + 1))
      [] OTHER ->
           Then(PatternProperty(p, in), LAMBDA e, q :
               IF Token(q) = "," THEN PatternProperties(q + 1, in, Append(list, e))
               ELSE Parsed(Node("object", Append(list, e)), Skip("}", q)))

Parameter(p, in) ==
    IF Token(p) # "..." THEN WithDefault(p, in)
    ELSE Then(Pattern(p + 1, in), LAMBDA e, q : Parsed(Node("...", <<e>>), q))
Parameters(p, in, list) ==
    IF Token(p) \in {")", "EOF"} THEN Parsed(Node("list", list), Skip(")", p))
    ELSE Then(Parameter(p, in), LAMBDA e, q :
            IF e.op # "..." /\ Token(q) = "," THEN Parameters(q + 1, in, Append(list, e))
            ELSE Parsed(Node("list", Append(list, e)), Skip(")", q)))

Function(op, p, in) ==
    LET start == Skip("*", p + 1)
        named == Token(start) \in Identifiers
        name == Leaf(IF named THEN Token(start) ELSE "unnamed")
    IN  Then(Parameters(Skip("(", IF named THEN start + 1 ELSE start), in, <<>>),
             LAMBDA list, q :
        Then(Block(q, in), LAMBDA body, r :
            LET function == Node(op, <<name, list, body>>)
            IN  Parsed(IF start = p + 1 THEN function ELSE Node("generator", <<function>>), r)))

----------------------------------------------------------------------------
(* Object literals.                                                         *)
Method(kind, key, p, in) ==
    Then(Parameters(Skip("(", p), in, <<>>), LAMBDA list, q :
    Then(Block(q, in), LAMBDA body, r : Parsed(Node(kind, <<key, list, body>>), r)))

Property(p, in) ==
    LET kind == Modified(p)[1]
        start == Modified(p)[2]
        accessor == kind \in {"method", "async method"}
                    /\ Token(start) = "get" /\ BeforeMethod(start + 1)
    IN  Then(Key(IF accessor THEN start + 1 ELSE start, in, Assignment), LAMBDA key, q :
            CASE Token(q) = "(" -> Method(IF accessor THEN "get" ELSE kind, key, q, in)
              [] Token(q) = ":" ->
                   Then(Assignment(q + 1, in), LAMBDA e, r :
                       Parsed(Node("property", <<key, e>>), r))
              [] OTHER -> IF IsName(key) THEN Parsed(Node("shorthand", <<key>>), q) ELSE Refused)
Properties(p, in, list) ==
    CASE Token(p) = "}" -> Parsed(Node("object", list), p + 1)
      [] Token(p) = "EOF" -> Refused
      [] Token(p) = "..." ->
           Then(Assignment(p + 1, in), LAMBDA e, q :
               Properties(Skip(",", q), in, Append(list, Node("...", <<e>>))))
      [] OTHER ->
           Then(Property(p, in), LAMBDA e, q :
               CASE Token(q) = "," -> Properties(q + 1, in, Append(list, e))
                 [] Token(q) = "}" -> Parsed(Node("object", Append(list, e)), q + 1)
                 [] OTHER -> Refused)

----------------------------------------------------------------------------
(* Classes.  Whatever is not a method is a field, and get that is not the   *)
(* name of a method takes another key, which a field then forgets.          *)
Member(p, in) ==
    LET kind == Modified(p)[1]
        Field(key, q) ==
            IF Token(q) # "=" THEN Parsed(Node("field", <<key>>), Skip(";", q))
            ELSE Then(Assignment(q + 1, in), LAMBDA e, r :
                    Parsed(Node("field", <<key, e>>), Skip(";", r)))
    IN  Then(Key(Modified(p)[2], in, Expression), LAMBDA key, q :
            CASE Token(q) = "(" -> Method(kind, key, q, in)
              [] Token(q) # "(" /\ key = Leaf("get") ->
                   Then(Key(q, in, Expression), LAMBDA actual, r :
                       IF Token(r) = "(" THEN Method("get", actual, r, in) ELSE Field(key, r))
              [] OTHER -> Field(key, q))
ClassElement(p, in) ==
    IF Token(p) # "static" \/ Token(p + 1) \in {"(", "=", ";"} THEN Member(p, in)
    ELSE Then(IF Token(p + 1) = "{" THEN Block(p + 1, in) ELSE Member(p + 1, in), LAMBDA e, q :
            Parsed(Node("static", <<e>>), q))
ClassElements(p, in, list) ==
    IF Token(p) \in {"}", "EOF"} THEN Parsed(Node("list", list), Skip("}", p))
    ELSE Then(ClassElement(p, in), LAMBDA e, q : ClassElements(q, in, Append(list, e)))

IsConstructor(e) == e.op \in {"method", "async method", "generator method",
                              "async generator method"} /\ e.kids[1] = Leaf("constructor")
Class(p, in, named) ==
    LET name == Token(p + 1) \in Identifiers
        start == IF name THEN p + 2 ELSE p + 1
        id == Leaf(IF name THEN Token(p + 1) ELSE "unnamed")
        Rest(heritage, q) ==
            IF Token(q) # "{" THEN Refused
            ELSE Then(ClassElements(q + 1, in, <<>>), LAMBDA list, r :
                    LET default == heritage # <<>>
                                   /\ ~\E i \in DOMAIN list.kids : IsConstructor(list.kids[i])
                        constructor == IF default THEN <<Leaf("default constructor")>> ELSE <<>>
                    IN  Parsed(Node("class", <<id>> \o heritage \o constructor \o list.kids), r))
    IN  CASE named /\ ~name -> Refused
          [] Token(start) = "extends" ->
               Then(LeftHandSide(start + 1, in), LAMBDA e, q : Rest(<<e>>, q))
          [] OTHER -> Rest(<<>>, start)

----------------------------------------------------------------------------
(* Expressions, from the tightest to the loosest.                           *)
PrimaryExpression(p, in) ==
    CASE Token(p) \in Literals \cup Identifiers -> Parsed(Leaf(Token(p)), p + 1)
      [] Token(p) = "(" ->
           IF LooksLikeArrow(p)
           THEN Then(Parameters(p + 1, in, <<>>), LAMBDA list, q :
                    IF Token(q) # "=>" THEN Refused ELSE Arrow("arrow", list.kids, q + 1, in))
           ELSE Then(Expression(p + 1, in), LAMBDA e, q : Parsed(e, Skip(")", q)))
      [] Token(p) = "[" -> Elements(p + 1, in, <<>>)
      [] Token(p) \in {"text", "text${"} -> Template(p, in, <<>>)
      [] Token(p) = "{" -> Properties(p + 1, in, <<>>)
      [] Token(p) = "class" -> Class(p, in, FALSE)
      [] Token(p) = "new" -> New(p + 1, in)
      [] Token(p) = "function" -> Function("function", p, in)
      [] Token(p) = "async" ->
           IF Token(p + 1) = "function" THEN Function("async function", p + 1, in)
           ELSE IF Token(p + 1) \in Identifiers /\ Token(p + 2) = "=>"
           THEN Arrow("async arrow", <<Leaf(Token(p + 1))>>, p + 3, in)
           ELSE IF LooksLikeArrow(p + 1)
           THEN Then(Parameters(p + 2, in, <<>>), LAMBDA list, q :
                    IF Token(q) # "=>" THEN Refused
                    ELSE Arrow("async arrow", list.kids, q + 1, in))
           ELSE Parsed(Leaf("async"), p + 1)
      [] OTHER -> Refused

MemberOrCall(p, in) ==
    Then(Primary(p, in), LAMBDA e, q :
    Then(Links(e, q, in), LAMBDA chain, r :
        IF Token(r) # "++" THEN Parsed(chain, r)
        ELSE IF IsSimpleTarget(chain) THEN Parsed(Node("postfix", <<chain>>), r + 1)
        ELSE Refused))
Unary(p, in) ==
    CASE Token(p) = "++" ->
           Then(Unary(p + 1, in), LAMBDA e, q :
               IF IsSimpleTarget(e) THEN Parsed(Node("prefix", <<e>>), q) ELSE Refused)
      [] Token(p) \in DOMAIN Unaries ->
           Then(Unary(p + 1, in), LAMBDA e, q : Parsed(Node(Unaries[Token(p)], <<e>>), q))
      [] OTHER -> LeftHandSide(p, in)

(* Precedence climbing: operators that bind at least as tightly as least    *)
(* extend the left operand; ** groups to the right.                         *)
\* Mutant: every operator groups to the right.
NextLeastRightGrouping(token, precedence) == precedence
NextLeast(token, precedence) ==
    IF token = "**" THEN precedence ELSE precedence + 1

Operators(left, p, least, in) ==
    LET precedence == Precedence(Token(p), in)
    IN  IF precedence = 0 \/ precedence < least THEN Parsed(left, p)
        ELSE Then(Binary(p + 1, NextLeast(Token(p), precedence), in), LAMBDA right, q :
                Operators(Node(Token(p), <<left, right>>), q, least, in))
Binary(p, least, in) ==
    Then(Unary(p, in), LAMBDA left, q : Operators(left, q, least, in))

Conditional(p, in) ==
    Then(Binary(p, 0, in), LAMBDA test, q :
        IF Token(q) # "?" THEN Parsed(test, q)
        ELSE Then(Assignment(q + 1, in), LAMBDA consequent, r :
                IF Token(r) # ":" THEN Refused
                ELSE Then(Assignment(r + 1, in), LAMBDA alternate, s :
                        Parsed(Node("?", <<test, consequent, alternate>>), s))))

(* yield is an operator everywhere, and takes an argument unless one of a   *)
(* few tokens follows.                                                      *)
Yield(p, in) ==
    LET q == Skip("*", p + 1)
        op == IF q = p + 1 THEN "yield" ELSE "yield*"
    IN  IF Token(q) \in {";", ",", ")", "]", "}", "EOF"} THEN Parsed(Node(op, <<>>), q)
        ELSE Then(Assignment(q, in), LAMBDA e, r : Parsed(Node(op, <<e>>), r))

AssignmentExpression(p, in) ==
    IF Token(p) = "yield" THEN Yield(p, in)
    ELSE Then(Conditional(p, in), LAMBDA left, q :
        CASE Token(q) = "=>" /\ IsIdentifier(left) ->
               Arrow("arrow", <<left>>, q + 1, in)
          [] Token(q) \in Assigns ->
               IF ~(IF Token(q) = "=" THEN IsTarget(left) ELSE IsSimpleTarget(left))
               THEN Refused
               ELSE Then(Assignment(q + 1, in), LAMBDA right, r :
                       Parsed(Node(Token(q), <<left, right>>), r))
          [] OTHER -> Parsed(left, q))

----------------------------------------------------------------------------
(* Statements.  The initializer of a declarator is a whole expression,      *)
(* commas included.                                                         *)
Declarators(p, in, list) ==
    LET More(declarator, q) ==
            IF Token(q) = "," THEN Declarators(q + 1, in, Append(list, declarator))
            ELSE Parsed(Node("list", Append(list, declarator)), q)
    IN  IF Token(p) \notin Identifiers \cup {"[", "{"} THEN Parsed(Node("list", list), p)
        ELSE Then(Pattern(p, in), LAMBDA name, q :
            CASE Token(q) = "=" ->
                   Then(Expression(q + 1, in), LAMBDA e, r :
                       More(Node("declarator", <<name, e>>), r))
              [] Token(q) \in Assigns \ {"="} -> Refused
              [] OTHER -> More(Node("declarator", <<name>>), q))
Declaration(p, in) ==
    Then(Declarators(p + 1, in, <<>>), LAMBDA list, q :
        Parsed(Node(Token(p), list.kids), Skip(";", q)))
MissesInitializer(e) ==
    e.op = "const" /\ \E i \in DOMAIN e.kids : Len(e.kids[i].kids) = 1

(* An expression where the parentheses around it may be missing.            *)
Parenthesized(p, in) ==
    Then(Expression(Skip("(", p), in), LAMBDA e, q : Parsed(e, Skip(")", q)))
Guarded(op, p, in) ==
    Then(Parenthesized(p, in), LAMBDA e, q :
    Then(Statement(q, in), LAMBDA body, r : Parsed(Node(op, <<e, body>>), r)))

If(p, in) ==
    Then(Guarded("if", p, in), LAMBDA if, q :
        IF Token(q) # "else" THEN Parsed(if, q)
        ELSE Then(Statement(q + 1, in), LAMBDA alternate, r :
                Parsed(Node("if", Append(if.kids, alternate)), r)))

DoWhile(p, in) ==
    Then(Statement(p, in), LAMBDA body, q :
        IF Token(q) # "while" THEN Refused
        ELSE Then(Parenthesized(q + 1, in), LAMBDA test, r :
                Parsed(Node("do", <<body, test>>), Skip(";", r))))

(* The head of a for loop: an initializer that is an expression does not    *)
(* take the semicolon after it, a declaration does.                         *)
\* Mutant: allow_in is not taken back.
InitializerAllowingIn(p) ==
    IF Token(p) \in {"var", "const"} THEN Declaration(p, TRUE)
    ELSE Then(Expression(p, TRUE), LAMBDA e, q : Parsed(Node("expression", <<e>>), q))
Initializer(p) ==
    IF Token(p) \in {"var", "const"} THEN Declaration(p, FALSE)
    ELSE Then(Expression(p, FALSE), LAMBDA e, q : Parsed(Node("expression", <<e>>), q))
Part(end, p, in) ==
    IF Token(p) = end THEN Parsed(Leaf("none"), p + 1)
    ELSE Then(Expression(p, in), LAMBDA e, q : Parsed(e, Skip(end, q)))
Loop(init, p, in) ==
    Then(Part(";", p, in), LAMBDA test, q :
    Then(Part(")", q, in), LAMBDA update, r :
    Then(Statement(r, in), LAMBDA body, s :
        IF MissesInitializer(init) THEN Refused
        ELSE Parsed(Node("for", <<init, test, update, body>>), s))))
Iteration(op, left, p, in) ==
    IF ~IsForTarget(left) THEN Refused
    ELSE Then(Expression(p, in), LAMBDA e, q :
         Then(Statement(Skip(")", q), in), LAMBDA body, r :
            Parsed(Node(op, <<left, e, body>>), r)))
For(p, in) ==
    LET awaits == Token(p) = "await"
        head == Skip("(", Skip("await", p))
    IN  IF Token(head) = ";"
        THEN IF awaits THEN Refused ELSE Loop(Leaf("none"), head + 1, in)
        ELSE Then(Initializer(head), LAMBDA init, q :
            CASE Token(q) = "of" ->
                   Iteration(IF awaits THEN "for await" ELSE "for of", init, q + 1, in)
              [] Token(q) # "of" /\ awaits -> Refused
              [] Token(q) = "in" /\ ~awaits -> Iteration("for in", init, q + 1, in)
              [] OTHER -> Loop(init, q, in))

Cases(p, in, list) ==
    LET Case(op, kids, q) ==
            IF Token(q) # ":" THEN Refused
            ELSE Then(Statements(q + 1, in, <<>>, {"case", "default", "}"}),
                      LAMBDA block, r :
                    Cases(r, in, Append(list, Node(op, kids \o block.kids))))
    IN  CASE Token(p) \in {"}", "EOF"} -> Parsed(Node("list", list), Skip("}", p))
          [] Token(p) = "case" ->
               Then(Expression(p + 1, in), LAMBDA test, q : Case("case", <<test>>, q))
          [] Token(p) = "default" -> Case("default", <<>>, p + 1)
          [] OTHER -> Refused
Switch(p, in) ==
    Then(Parenthesized(p, in), LAMBDA e, q :
        IF Token(q) # "{" THEN Refused
        ELSE Then(Cases(q + 1, in, <<>>), LAMBDA list, r :
                Parsed(Node("switch", <<e>> \o list.kids), r)))

(* try with the parameter of its handler, and the blocks it may lack.      *)
Handler(p, in) ==
    LET Body(kids, q) == Then(Block(q, in), LAMBDA block, r :
                            Parsed(Node("catch", Append(kids, block)), r))
    IN  IF Token(p) # "(" THEN Body(<<>>, p)
        ELSE IF Token(p + 1) \notin Identifiers \cup {"[", "{"} THEN Body(<<>>, Skip(")", p + 1))
        ELSE Then(Pattern(p + 1, in), LAMBDA e, q : Body(<<e>>, Skip(")", q)))
Optional(token, p, Present(_)) ==
    IF Token(p) = token THEN Present(p + 1) ELSE Parsed(Leaf("none"), p)
Try(p, in) ==
    Then(Block(p, in), LAMBDA block, q :
    Then(Optional("catch", q, LAMBDA r : Handler(r, in)), LAMBDA handler, r :
    Then(Optional("finally", r, LAMBDA s : Block(s, in)), LAMBDA finalizer, s :
        Parsed(Node("try", <<block, handler, finalizer>>), s))))

Return(p, in) ==
    IF Token(p) \in {";", "}", "EOF"} THEN Parsed(Node("return", <<>>), Skip(";", p))
    ELSE Then(Expression(p, in), LAMBDA e, q : Parsed(Node("return", <<e>>), Skip(";", q)))
Jump(op, p) ==
    IF Token(p) \in Identifiers
    THEN Parsed(Node(op, <<Leaf(Token(p))>>), Skip(";", p + 1))
    ELSE Parsed(Node(op, <<>>), Skip(";", p))
Closed(op, p, in) ==
    Then(Expression(p, in), LAMBDA e, q : Parsed(Node(op, <<e>>), Skip(";", q)))

AnyStatement(p, in) ==
    CASE Token(p) \in {")", "]", "}", ",", ":", ";"} -> Parsed(Leaf("empty"), p + 1)
      [] Token(p) \in {"var", "const"} ->
           Then(Declaration(p, in), LAMBDA e, q :
               IF MissesInitializer(e) THEN Refused ELSE Parsed(e, q))
      [] Token(p) = "{" -> Block(p, in)
      [] Token(p) = "if" -> If(p + 1, in)
      [] Token(p) \in {"while", "with"} -> Guarded(Token(p), p + 1, in)
      [] Token(p) = "do" -> DoWhile(p + 1, in)
      [] Token(p) = "for" -> For(p + 1, in)
      [] Token(p) = "switch" -> Switch(p + 1, in)
      [] Token(p) = "try" -> Try(p + 1, in)
      [] Token(p) = "throw" -> Closed("throw", p + 1, in)
      [] Token(p) = "return" -> Return(p + 1, in)
      [] Token(p) = "class" -> Class(p, in, TRUE)
      [] Token(p) \in {"break", "continue"} -> Jump(Token(p), p + 1)
      [] Token(p) = "function" -> Function("function", p, in)
      [] Token(p) = "async" /\ Token(p + 1) = "function" ->
           Function("async function", p + 1, in)
      [] Token(p) \in Identifiers /\ Token(p + 1) = ":" ->
           Then(Statement(p + 2, in), LAMBDA body, q :
               Parsed(Node("label", <<Leaf(Token(p)), body>>), q))
      [] OTHER -> Closed("expression", p, in)

Parse(rule, p, in) ==
    CASE rule = "assignment" -> AssignmentExpression(p, in)
      [] rule = "left-hand side" -> MemberOrCall(p, in)
      [] rule = "primary" -> PrimaryExpression(p, in)
      [] rule = "pattern" -> BindingPattern(p, in)
      [] rule = "statement" -> AnyStatement(p, in)

Program == Statements(1, TRUE, <<>>, {})
=============================================================================
