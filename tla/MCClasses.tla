------------------------------ MODULE MCClasses ------------------------------
(***************************************************************************)
(* A class with a private field and accessor, one that extends it with a   *)
(* static block, a method, a field and a static private field, and one     *)
(* that uses a private name of the first, which is an early error.         *)
(***************************************************************************)
EXTENDS Classes

CONSTANTS base, derived, wrong, field, accessor

MCClass  == {base, derived, wrong}
MCName   == {field, accessor}
MCParent == [c \in MCClass |-> IF c = derived THEN base ELSE None]

E(kind, name, static, uses) ==
    [kind |-> kind, name |-> name, static |-> static, uses |-> uses]

MCElements ==
    [c \in MCClass |->
        CASE c = base -> <<E("field", field, FALSE, {}),
                           E("getter", accessor, FALSE, {field})>>
          [] c = derived -> <<E("block", None, TRUE, {}),
                              E("method", None, FALSE, {field}),
                              E("field", None, FALSE, {}),
                              E("field", field, TRUE, {})>>
          [] c = wrong -> <<E("method", None, FALSE, {field})>>]
=============================================================================
