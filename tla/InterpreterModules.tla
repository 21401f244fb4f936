------------------------- MODULE InterpreterModules -------------------------
(***************************************************************************)
(* Modules of the handwritten interpreter: load_module_namespace           *)
(* (src/engine/interpreter/modules_ops.rs), the import and export          *)
(* statements (statements.rs) and the chains of live bindings they build   *)
(* (src/engine/env/mod.rs, src/engine/value/namespace.rs).                 *)
(*                                                                         *)
(* Statements run one after the other and an import evaluates its module   *)
(* there and then; the parser accepts import and export in any statement,  *)
(* also in a function, which may be called while any module is evaluated.  *)
(***************************************************************************)
EXTENDS Integers, Sequences, FiniteSets, SequencesExt

CONSTANTS Module,         \* canonical paths of module files
          Main,           \* the program, which is no module
          MaxStatements,  \* bound: statements executed
          MaxDepth        \* bound: frames on the Rust stack

ASSUME ModulesAssumption == /\ IsFiniteSet(Module) /\ Main \notin Module
                            /\ MaxStatements \in Nat /\ MaxDepth \in Nat

Name  == {"default", "x"}
Scope == Module \cup {Main}      \* module environments and the global one

\* What a variable or an entry of a namespace refers to.
Nothing       == [how |-> "none", of |-> Main, name |-> "x"]
Plain         == [how |-> "value", of |-> Main, name |-> "x"]
Import(m, n)  == [how |-> "import", of |-> m, name |-> n]
Binding(s, n) == [how |-> "binding", of |-> s, name |-> n]
From(m, n)    == [how |-> "from", of |-> m, name |-> n]

Variable == {Nothing, Plain} \cup {Import(m, n) : m \in Module, n \in Name}
Entry == {Nothing, Plain} \cup {Binding(s, n) : s \in Scope, n \in Name}
                          \cup {From(m, n) : m \in Module, n \in Name}

VARIABLES
    cache,          \* module_cache: the modules that have a namespace
    exports,        \* the namespaces
    variables,      \* module and global environments
    frames,         \* code on the Rust stack: module bodies and functions
    exports_stack,  \* module_exports_stack
    base_dirs,      \* module_base_dirs, as the modules whose directories they are
    statements,     \* executed so far
    evaluations,    \* history: evaluations of each module
    unfinished      \* history: modules that others refer to since before their end

vars == <<cache, exports, variables, frames, exports_stack, base_dirs,
          statements, evaluations, unfinished>>

\* What a statement does with the namespace it has asked for.
Idle == [what |-> "nothing", local |-> "x", name |-> "x"]
Wish == {Idle} \cup [what : {"import", "from"}, local : Name, name : Name]
               \cup [what : {"star"}, local : {"x"}, name : {"x"}]
Frame == [code : Scope, body : BOOLEAN, wish : Wish, target : Scope]

Init ==
    /\ cache = {}
    /\ exports = [m \in Module |-> [n \in Name |-> Nothing]]
    /\ variables = [s \in Scope |-> [n \in Name |-> Nothing]]
    /\ frames = <<>>
    /\ exports_stack = <<>>
    /\ base_dirs = <<>>
    /\ statements = 0
    /\ evaluations = [m \in Module |-> 0]
    /\ unfinished = {}

-----------------------------------------------------------------------------
Top == Last(frames)
Evaluating == Range(exports_stack)

Statement == /\ frames # <<>>
             /\ statements < MaxStatements
             /\ statements' = statements + 1

Code(s, body) == [code |-> s, body |-> body, wish |-> Idle, target |-> Main]

\* eval_program: programs may follow one another in one interpreter.
StartProgram ==
    /\ frames = <<>>
    /\ frames' = <<Code(Main, TRUE)>>
    /\ UNCHANGED <<cache, exports, variables, exports_stack, base_dirs,
                   statements, evaluations, unfinished>>

\* A function of code that has begun to run is called, by a statement or by
\* the microtasks that eval_program_in_env runs at the end of a body.
Call(s) ==
    /\ Statement
    /\ s # Main => evaluations[s] > 0
    /\ Len(frames) < MaxDepth
    /\ frames' = Append(frames, Code(s, FALSE))
    /\ UNCHANGED <<cache, exports, variables, exports_stack, base_dirs,
                   evaluations, unfinished>>

\* A declaration at the top level of a body; define overwrites any binding.
Declare(n) ==
    /\ Statement
    /\ Top.body
    /\ variables' = [variables EXCEPT ![Top.code][n] = Plain]
    /\ UNCHANGED <<cache, exports, frames, exports_stack, base_dirs,
                   evaluations, unfinished>>

\* An export goes to the innermost module under evaluation, if there is one.
WriteExports(stack, entries) ==
    exports' = IF stack = <<>> THEN exports
               ELSE [exports EXCEPT ![Last(stack)] =
                       [n \in Name |-> IF n \in DOMAIN entries THEN entries[n]
                                       ELSE @[n]]]

\* Mutant: an export names the namespace it stands in, not the variable.
ExportOwnName(n, local) ==
    /\ Statement
    /\ exports_stack # <<>>
    /\ WriteExports(exports_stack, [k \in {n} |-> From(Last(exports_stack), local)])
    /\ UNCHANGED <<cache, variables, frames, exports_stack, base_dirs,
                   evaluations, unfinished>>

\* export { local as n }, export of a declaration: write_module_export_binding.
\* A function of a module may be called, and export its variable, while a module
\* is evaluated that this one is waiting for.
ExportBinding(n, local) ==
    /\ Statement
    /\ WriteExports(exports_stack, [k \in {n} |-> Binding(Top.code, local)])
    /\ unfinished' = unfinished \cup ({Top.code} \cap Range(Front(exports_stack)))
    /\ UNCHANGED <<cache, variables, frames, exports_stack, base_dirs, evaluations>>

\* export default expression: write_module_export_value.
ExportDefault ==
    /\ Statement
    /\ WriteExports(exports_stack, [k \in {"default"} |-> Plain])
    /\ UNCHANGED <<cache, variables, frames, exports_stack, base_dirs,
                   evaluations, unfinished>>

-----------------------------------------------------------------------------
(* What the statement of frame f does with the namespace of m.  In a       *)
(* function an import binds a local name that nobody else sees.            *)
Grant(f, wish, m, stack) ==
    /\ IF wish.what = "import" /\ f.body
       THEN variables' = [variables EXCEPT ![f.code][wish.local] = Import(m, wish.name)]
       ELSE UNCHANGED variables
    /\ CASE wish.what = "from" -> WriteExports(stack, [k \in {wish.local} |-> From(m, wish.name)])
         [] wish.what = "star" ->
              LET shared == {n \in Name \ {"default"} : exports[m][n] # Nothing}
              IN  WriteExports(stack, [k \in shared |-> exports[m][k]])
         [] OTHER -> UNCHANGED exports

\* An import, export-from or export-all of a module that is in the cache.
LoadCached(m, wish) ==
    /\ Statement
    /\ m \in cache
    /\ Grant(Top, wish, m, exports_stack)
    /\ unfinished' = unfinished \cup ({m} \cap Evaluating)
    /\ UNCHANGED <<cache, frames, exports_stack, base_dirs, evaluations>>

\* The file cannot be read or parsed, after it was entered in the cache.
LoadFails(m) ==
    /\ Statement
    /\ m \notin cache
    /\ cache' = cache \cup {m}
    /\ UNCHANGED <<exports, variables, frames, exports_stack, base_dirs,
                   evaluations, unfinished>>

\* Mutant: a module enters the cache only once it is evaluated.
EnterLate(m) == UNCHANGED cache

Enter(m) == cache' = cache \cup {m}

LoadEvaluates(m, wish) ==
    /\ Statement
    /\ m \notin cache
    /\ Len(frames) < MaxDepth
    /\ Enter(m)
    /\ frames' = Append([frames EXCEPT ![Len(frames)].wish = wish,
                                       ![Len(frames)].target = m],
                        Code(m, TRUE))
    /\ exports_stack' = Append(exports_stack, m)
    /\ base_dirs' = Append(base_dirs, m)
    /\ evaluations' = [evaluations EXCEPT ![m] = @ + 1]
    /\ UNCHANGED <<exports, variables, unfinished>>

Load == \E m \in Module :
            \/ \E wish \in Wish \ {Idle} : LoadCached(m, wish) \/ LoadEvaluates(m, wish)
            \/ LoadFails(m)

\* Mutant: an error leaves before the two stacks are popped.
LeaveEarly(ok) ==
    IF Top.body /\ Top.code # Main /\ ok
    THEN exports_stack' = Front(exports_stack) /\ base_dirs' = Front(base_dirs)
    ELSE UNCHANGED <<exports_stack, base_dirs>>

\* A module body pops both stacks, however it ends.
Leave(ok) ==
    IF Top.body /\ Top.code # Main
    THEN exports_stack' = Front(exports_stack) /\ base_dirs' = Front(base_dirs)
    ELSE UNCHANGED <<exports_stack, base_dirs>>

Resumed(below) == IF below = <<>> THEN below
                  ELSE [below EXCEPT ![Len(below)].wish = Idle,
                                     ![Len(below)].target = Main]

\* A body or a function throws; whoever is below may catch it.
Throws ==
    /\ frames # <<>>
    /\ Leave(FALSE)
    /\ frames' = Resumed(Front(frames))
    /\ UNCHANGED <<cache, exports, variables, statements, evaluations, unfinished>>

\* A function, the program, or a body that nobody waits for ends.
Ends ==
    /\ frames # <<>>
    /\ ~Top.body \/ Top.code = Main
    /\ frames' = Front(frames)
    /\ UNCHANGED <<cache, exports, variables, exports_stack, base_dirs,
                   statements, evaluations, unfinished>>

\* A module body ends and the statement that asked for it gets its namespace.
BodyEnds ==
    /\ frames # <<>>
    /\ Top.body /\ Top.code # Main
    /\ Leave(TRUE)
    /\ frames' = Resumed(Front(frames))
    /\ UNCHANGED <<cache, statements, evaluations, unfinished>>
    /\ LET f == Last(Front(frames))
       IN  Grant(f, f.wish, f.target, exports_stack')

Next == \/ StartProgram \/ Load \/ ExportDefault
        \/ \E s \in Scope : Call(s)
        \/ \E n \in Name : Declare(n) \/ \E local \in Name : ExportBinding(n, local)
        \/ BodyEnds \/ Ends \/ Throws

Spec == Init /\ [][Next]_vars

-----------------------------------------------------------------------------
(* Reading a name walks from place to place: Environment::get follows an   *)
(* import into a namespace or asks the global environment, and             *)
(* resolve_namespace_export follows an entry.                              *)
InEnv(s, n)       == [at |-> "env", of |-> s, name |-> n]
InNamespace(m, n) == [at |-> "namespace", of |-> m, name |-> n]
Places == {InEnv(s, n) : s \in Scope, n \in Name}
          \cup {InNamespace(m, n) : m \in Module, n \in Name}
Found == [at |-> "found", of |-> Main, name |-> "x"]

Refers(p) == IF p.at = "env" THEN variables[p.of][p.name] ELSE exports[p.of][p.name]

\* Where a read of p goes on.
Link(p) ==
    LET r == Refers(p) IN
    CASE r.how = "import"  -> InNamespace(r.of, r.name)
      [] r.how = "from"    -> InNamespace(r.of, r.name)
      [] r.how = "binding" -> InEnv(r.of, r.name)
      [] r.how = "none" /\ p.at = "env" /\ p.of # Main -> InEnv(Main, p.name)
      [] OTHER -> Found

\* The two stacks hold the bodies under evaluation, in order: code of a body
\* exports to its own module and resolves against its own directory, after
\* any sequence of failed and caught imports.
Bodies == {i \in DOMAIN frames : frames[i].body /\ frames[i].code # Main}
Nth(i) == Cardinality({j \in Bodies : j <= i})   \* of the bodies, from below
StacksMatchFrames ==
    /\ Len(exports_stack) = Cardinality(Bodies)
    /\ \A i \in Bodies : exports_stack[Nth(i)] = frames[i].code
    /\ base_dirs = exports_stack

\* A module is evaluated once, also when modules import each other or fail
\* (interpreter_caches_module_evaluation_results).
EvaluatedOnce == \A m \in Module : evaluations[m] <= 1

\* A read of a name never ends when it comes to a place again, so in a set of
\* places that Link does not leave.  Each such set has a place of a module that
\* others referred to before its evaluation was over, or a variable of the program.
Settled == {p \in Places : p.of \notin unfinished /\ p # InEnv(Main, p.name)}
EndlessOnlyInCycle ==
    \A loop \in SUBSET {p \in Settled : Link(p) \in Settled} :
        loop # {} => \E p \in loop : Link(p) \notin loop
=============================================================================
