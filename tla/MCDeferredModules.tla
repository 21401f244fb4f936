-------------------------- MODULE MCDeferredModules --------------------------
(***************************************************************************)
(* A module graph with every kind of edge: a and b are deferred by the     *)
(* entry; t awaits and defers a and itself; b imports t and the entry; a,  *)
(* t and the entry share the import d, which defers a.                     *)
(***************************************************************************)
EXTENDS DeferredModules

CONSTANTS main, a, b, d, t

MCModule   == {a, b, d, t}
MCAsync    == {t}
MCEager    == [m \in MCModule \cup {main} |->
                 CASE m \in {main, t, a} -> {d} [] m = b -> {t, main}
                   [] OTHER -> {}]
MCDeferred == [m \in MCModule \cup {main} |->
                 CASE m = main -> {a, b} [] m = t -> {t, a} [] m = d -> {a}
                   [] OTHER -> {}]
=============================================================================
