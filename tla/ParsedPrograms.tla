--------------------------- MODULE ParsedPrograms ---------------------------
(* Programs derived from the grammar of the language, read by the lexer and *)
(* the parser of the handwritten front end.                                 *)
EXTENDS Grammar

VARIABLE
    tokens      \* what the lexer makes of the whole source

Reader == INSTANCE Parser

allVars == <<vars, tokens>>

Begin == Init /\ tokens = <<>>
Read ==
    /\ Derive
    /\ tokens' = IF todo' = <<>> THEN Reader!Lexed(source') ELSE <<>>
Spec == Begin /\ [][Read]_allVars

----------------------------------------------------------------------------
(* What the parser misreads that shows in the tokens next to each other: a  *)
(* slash with another slash after it, yield before a colon, a newline that  *)
(* ends a statement before a token the parser would rather take into it,    *)
(* and a test that begins with the name "of" after a declaration.           *)
After(i) == IF i < Len(source) THEN source[i + 1] ELSE "EOF"
Before(i) == IF i > 1 THEN source[i - 1] ELSE "start"
Jumps == {"break", "continue"}
Arguable == {"return", "yield"}
EndedBefore(i, token) ==
    /\ After(i) = "NL" /\ After(i + 1) = token
    /\ CASE source[i] \in Arguable -> token \notin {"}", "EOF"}
         [] source[i] \in Jumps -> token \in {"a", "of"}
         [] OTHER -> token = "++" /\ source[i] \notin {"++", ";"} /\ Before(i) \notin Jumps
OfAfterDeclaration(i) ==
    /\ source[i] = ";" /\ After(i) = "of"
    /\ \E first \in 1..i : /\ source[first] \in {"var", "const"}
                          /\ Before(first) = "(" /\ Before(first - 1) = "for"
                          /\ \A j \in first..i - 1 : source[j] # ";"
Misread(i) ==
    \/ source[i] \in {"/", "/="} /\ \E j \in i + 1..Len(source) : source[j] \in Reader!Slashes
    \/ source[i] = "yield" /\ After(i) = ":"
    \/ EndedBefore(i, After(i + 1))
    \/ OfAfterDeclaration(i)
Departs == departures # {} \/ \E i \in DOMAIN source : Misread(i)

RECURSIVE Flat(_)
Flat(tree) ==
    <<tree.op>> \o FlattenSeq([i \in DOMAIN tree.kids |-> Flat(tree.kids[i])]) \o <<")">>

(* A program of the language becomes the tree the language gives it, and    *)
(* nothing else of the program is left over, exactly when it has none of    *)
(* the constructs named above (parse_program).                              *)
ReadsTheLanguage ==
    todo = <<>> =>
        LET result == Reader!Program
        IN  (result.at # 0 /\ Flat(result.tree) = shape) <=> ~Departs
=============================================================================
