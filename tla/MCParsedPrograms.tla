-------------------------- MODULE MCParsedPrograms --------------------------
(* The families of programs: which productions, how many tokens, how many   *)
(* statements.                                                              *)
EXTENDS ParsedPrograms

F(productions, length, items) ==
    [productions |-> productions, tokens |-> length, statements |-> items]
MCFamilies == [
    precedence |-> F({"expression", "a", "paren", "??", "||", "&&", "|", "^", "&", "==",
                      "<", "<<", "+", "*", "**", "-", "?"}, 7, 1),
    assignments |-> F({"expression", "a", "paren", ".", "array", "hole", "spread",
                       "initialized", "=", "+=", "++", ",", "?", "yield", "typeof",
                       "**"}, 7, 1),
    units |-> F({"expression", "a", "1", "this", "paren", "array", ".", "new", "++", "+=",
                 "!", "await", "-", "/=", "regex", "template"}, 5, 2),
    chains |-> F({"expression", "a", "paren", ".", "[]", "call", "call,", "spread", "new",
                  "new.target", "?.", "?.[]", "?.()", "template", "tagged"}, 7, 1),
    functions |-> F({"expression", "a", "call", "paren", "arrow", "async arrow",
                     "function", "async function", "generator", "initialized", "array",
                     "block", "return"}, 9, 1),
    branches |-> F({"expression", "a", "empty", "if", "if else", "while", "with", "do",
                    "label", "block", ";"}, 12, 1),
    loops |-> F({"a", "of", "+=", "for", "for in", "for of", "for await", "var", "const",
                 "empty", "label"}, 12, 1),
    relations |-> F({"a", "in", "paren", "array", "?", "call", "for in", "for", "var",
                     "empty", "arrow"}, 12, 1),
    switches |-> F({"expression", "a", "try", "switch", "break", "continue", "label",
                    "throw", ";"}, 13, 1),
    objects |-> F({"expression", "a", "if", "1", "paren", "object", "property",
                   "computed", "special names", "=", "initialized", "method", "get",
                   "async method", "generator method", "async generator method",
                   "arrow"}, 10, 1),
    classes |-> F({"a", "1", "class", "field", "special names", "method", "get",
                   "computed", "static", "empty member", ";", "NL", "async method",
                   "generator method", "async generator method"}, 12, 1),
    newlines |-> F({"expression", "a", "++", "return", "yield", "break", "label",
                    "block", ";", "NL", "if else"}, 7, 3),
    slashes |-> F({"expression", "a", "/", "/=", "regex", "template", "[]", "+", ";"},
                  8, 2)]
=============================================================================
