--------------------------- MODULE MCExpressions ---------------------------
(* Programs: trees of two levels of forms, with yields for leaves.  On one  *)
(* level any operands may be yields; of two levels one operand is a form.   *)
EXTENDS Expressions

Tree(form, operands) ==
    LET places == {<<>>} \cup
                  UNION {{<<i>> \o p : p \in DOMAIN operands[i]} : i \in DOMAIN operands}
    IN  [p \in places |-> IF p = <<>> THEN form ELSE operands[Head(p)][Tail(p)]]

Leaf == Tree("leaf", <<>>)
YieldOf(e) == Tree("yield", <<e>>)
Operands(form) == 1..Arity[form]

OneLevel(kinds) ==
    {Tree(form, operands) : <<form, operands>> \in
        UNION {{form} \X kinds[Arity[form]] : form \in Forms \ {"leaf"}}}

\* Any operands are yields, or one of them at most.
AnyYields == [n \in 1..4 |-> [1..n -> {Leaf, YieldOf(Leaf)}]]
OneYield == [n \in 1..4 |-> {f \in AnyYields[n] : Cardinality({i \in 1..n : f[i] # Leaf}) <= 1}]
\* One of them is a tree.
OneTree == [n \in 1..4 |->
    {[j \in 1..n |-> IF j = i THEN e ELSE Leaf] : i \in 1..n, e \in OneLevel(OneYield)}]

MCPrograms == OneLevel(AnyYields) \cup OneLevel(OneTree)
=============================================================================
