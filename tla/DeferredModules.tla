--------------------------- MODULE DeferredModules ---------------------------
(***************************************************************************)
(* `import defer` in the runtime over Boa: the initializer of a deferred   *)
(* namespace wrapper, the pre-evaluation of asynchronous dependencies      *)
(* (src/engine/runtime/module.rs) and the synchronous evaluation that a    *)
(* property access starts (src/engine/runtime/deferred_namespace.rs).      *)
(*                                                                         *)
(* Both evaluate modules inside catch_silent_panic, which holds a          *)
(* process-wide lock while the code of the module runs.  `frames` is the   *)
(* Rust stack.  Module records and their evaluation are Boa's.             *)
(***************************************************************************)
EXTENDS Integers, Sequences, FiniteSets, SequencesExt

CONSTANTS Module,    \* modules but the entry
          Entry,     \* the module the engine was asked to run
          Eager,     \* static imports of each
          Deferred,  \* its `import defer`s
          Async,     \* modules with a top-level await
          MaxDepth   \* bound: frames on the Rust stack

Node == Module \cup {Entry}

\* S and all that its members import statically.
Closed == {C \in SUBSET Node : \A m \in C : Eager[m] \subseteq C}
Reached == [m \in Node |-> {x \in Node : \A C \in Closed : m \in C => x \in C}]
ReachedFrom(S) == UNION {Reached[m] : m \in S}

\* Static imports make no cycle, and nothing that is evaluated with other
\* modules imports an asynchronous one statically.
ASSUME GraphAssumption ==
    /\ IsFiniteSet(Module) /\ Entry \notin Module /\ Async \subseteq Module
    /\ Eager \in [Node -> SUBSET Node] /\ Deferred \in [Node -> SUBSET Module]
    /\ \A m \in Node : m \notin ReachedFrom(Eager[m])
    /\ \A m \in Async \cup {Entry} : ReachedFrom(Eager[m]) \cap Async = {}

VARIABLES
    status,    \* Boa's ModuleStatus, once the graph is loaded and linked
    wrapped,   \* deferred namespaces that have been handed out
    frames,    \* the Rust stack, innermost last
    accessed,  \* history: modules whose namespace was read when they were ready
    early      \* history: modules that met an import under evaluation

vars == <<status, wrapped, frames, accessed, early>>

\* todo: what an evaluation or a pre-evaluation has still to evaluate, and
\* the namespaces it has still to make; holds: in catch_silent_panic.
Frame == [at : {"evaluate", "code", "preevaluation", "access", "job"}, of : Node,
          todo : SUBSET Node, make : SUBSET Module, holds : BOOLEAN]

NewFrame(at, m, todo, make) ==
    [at |-> at, of |-> m, todo |-> todo, make |-> make, holds |-> FALSE]

Init ==
    /\ status = [m \in Node |-> "linked"]
    /\ wrapped = {}
    /\ frames = <<>>
    /\ accessed = {}
    /\ early = {}

-----------------------------------------------------------------------------
Top == Last(frames)
IsAt(at) == frames # <<>> /\ Top.at = at
Push(stack, f) == Len(stack) < MaxDepth /\ frames' = Append(stack, f)
ReplaceTop(f) == [frames EXCEPT ![Len(frames)] = f]

\* PANIC_HOOK_LOCK, which swaps the panic hook of the process for a silent one.
LockHeld == \E i \in DOMAIN frames : frames[i].holds

(* External: Module::evaluate, a depth-first walk over static imports.     *)
Evaluate(m, stack) ==
    /\ Push(stack, NewFrame("evaluate", m, Eager[m], Deferred[m]))
    /\ status' = [status EXCEPT ![m] = "evaluating"]

\* What fails with a module: the evaluations it was imported for.
Importers == {i \in DOMAIN frames :
                 \A j \in i .. Len(frames) - 1 : frames[j].at = "evaluate"}
             \ {Len(frames)}

Fail == /\ status' = [m \in Node |->
               IF (m = Top.of /\ Top.at \in {"evaluate", "code"})
                  \/ \E i \in Importers : frames[i].of = m
               THEN "failed" ELSE status[m]]
        /\ frames' = SubSeq(frames, 1, Len(frames) - 1 - Cardinality(Importers))

EvaluateEntry ==
    /\ frames = <<>> /\ status[Entry] = "linked"
    /\ Evaluate(Entry, frames)
    /\ UNCHANGED <<wrapped, accessed, early>>

EvaluateImport(m) ==
    /\ IsAt("evaluate")
    /\ m \in Top.todo
    /\ LET rest == ReplaceTop([Top EXCEPT !.todo = @ \ {m}])
       IN  CASE status[m] = "linked" -> Evaluate(m, rest)
             [] status[m] = "failed" -> Fail
             [] OTHER -> frames' = rest /\ UNCHANGED status
    /\ early' = IF status[m] = "evaluating" THEN early \cup {Top.of} ELSE early
    /\ UNCHANGED <<wrapped, accessed>>

RunBody ==
    /\ IsAt("evaluate")
    /\ Top.todo = {} /\ Top.make = {}
    /\ frames' = ReplaceTop(NewFrame("code", Top.of, {}, {}))
    /\ UNCHANGED <<status, wrapped, accessed, early>>

\* A body ends or, with a top-level await, suspends.
BodyEnds ==
    /\ IsAt("code")
    /\ frames' = Front(frames)
    /\ \E s \in IF Top.of \notin Async THEN {"evaluated"}
                ELSE IF status[Top.of] = "evaluating" THEN {"async"}
                ELSE {"async", "evaluated"} :
          status' = [status EXCEPT ![Top.of] = s]
    /\ UNCHANGED <<wrapped, accessed, early>>

BodyThrows ==
    /\ IsAt("code")
    /\ IF status[Top.of] = "async"
       THEN /\ status' = [status EXCEPT ![Top.of] = "failed"]
            /\ frames' = Front(frames)
       ELSE Fail
    /\ UNCHANGED <<wrapped, accessed, early>>

-----------------------------------------------------------------------------
\* Where run_jobs is called: by the engine, before and between the steps of a
\* pre-evaluation, and after the evaluation of an accessed module.
RunsJobs == \/ frames = <<>> /\ status[Entry] # "linked"
            \/ IsAt("access")
            \/ IsAt("preevaluation") /\ ~Top.holds

RunJob ==
    /\ RunsJobs
    /\ Push(frames, NewFrame("job", Entry, {}, {}))
    /\ UNCHANGED <<status, wrapped, accessed, early>>

JobEnds ==
    /\ IsAt("job")
    /\ frames' = Front(frames)
    /\ UNCHANGED <<status, wrapped, accessed, early>>

\* A module that awaited goes on.
Continue(m) ==
    /\ RunsJobs
    /\ status[m] = "async"
    /\ \A i \in DOMAIN frames : frames[i].of = m => frames[i].at # "code"
    /\ Push(frames, NewFrame("code", m, {}, {}))
    /\ UNCHANGED <<status, wrapped, accessed, early>>

-----------------------------------------------------------------------------
\* The modules that may run when m is evaluated, as far as the walk goes.
Walked == {x \in Node : status[x] = "linked" /\ x \notin Async}
Pending(S) == LET closed == {C \in SUBSET Node :
                     S \subseteq C /\ \A m \in C \cap Walked : Eager[m] \subseteq C}
              IN  {x \in Node : \A C \in closed : x \in C}

\* gather_asynchronous_transitive_dependencies.
ToPreevaluate(m) == {x \in Pending({m}) : x \in Async /\ status[x] = "linked"}

\* Module::ready_for_sync_execution.
Ready(m) == \A x \in Pending({m}) :
               /\ status[x] \notin {"evaluating", "async"}
               /\ ~(status[x] = "linked" /\ x \in Async)

\* Mutant: a wrapper is initialized without the re-entry guard.
EnterAlways(m) == TRUE

\* DeferredPreevalScope::enter.
Enters(m) == \A i \in DOMAIN frames : frames[i].of = m => frames[i].at # "preevaluation"

\* Mutant: the deferred module itself is evaluated with its dependencies.
PreevaluationOfAll(m) ==
    NewFrame("preevaluation", m, ToPreevaluate(m) \cup {m}, {})

Preevaluation(m) == NewFrame("preevaluation", m, ToPreevaluate(m), {})

(* The initializer of a wrapper exports the namespace first; a wrapper     *)
(* that has been initialized is not initialized again.                     *)
MakeNamespace(m) ==
    /\ IsAt("evaluate")
    /\ m \in Top.make
    /\ wrapped' = wrapped \cup {m}
    /\ LET rest == ReplaceTop([Top EXCEPT !.make = @ \ {m}])
       IN  IF m \notin wrapped /\ Enters(m) THEN Push(rest, Preevaluation(m))
                                            ELSE frames' = rest
    /\ UNCHANGED <<status, accessed, early>>

RunsCode == frames # <<>> /\ Top.at \in {"code", "job"}

(* import.defer(m): the wrapper is loaded and evaluated, then its          *)
(* dependencies are pre-evaluated once more, for one that was cached.      *)
ImportDefer(m) ==
    /\ RunsCode
    /\ wrapped' = wrapped \cup {m}
    /\ IF Enters(m) THEN Push(frames, Preevaluation(m)) ELSE UNCHANGED frames
    /\ UNCHANGED <<status, accessed, early>>

\* catch_silent_panic(|| dependency.evaluate(context)): the lock is not
\* reentrant, a thread that holds it waits here for ever.
Preevaluate(t) ==
    /\ IsAt("preevaluation") /\ ~Top.holds
    /\ t \in Top.todo
    /\ ~LockHeld
    /\ IF status[t] = "linked"
       THEN Evaluate(t, ReplaceTop([Top EXCEPT !.todo = @ \ {t}, !.holds = TRUE]))
       ELSE /\ frames' = ReplaceTop([Top EXCEPT !.todo = @ \ {t}])
            /\ UNCHANGED status
    /\ UNCHANGED <<wrapped, accessed, early>>

Preevaluated ==
    /\ IsAt("preevaluation") /\ Top.holds
    /\ frames' = ReplaceTop([Top EXCEPT !.holds = FALSE])
    /\ UNCHANGED <<status, wrapped, accessed, early>>

PreevaluationEnds ==
    /\ IsAt("preevaluation") /\ ~Top.holds /\ Top.todo = {}
    /\ frames' = Front(frames)
    /\ UNCHANGED <<status, wrapped, accessed, early>>

\* The module cannot be loaded, or a dependency has been rejected: the
\* initializer fails its importers, import.defer() rejects.
PreevaluationFails ==
    /\ IsAt("preevaluation") /\ ~Top.holds
    /\ Fail
    /\ UNCHANGED <<wrapped, accessed, early>>

-----------------------------------------------------------------------------
\* A string key of a deferred namespace is read: evaluate_deferred_namespace_module.
Access(m) ==
    /\ RunsCode
    /\ m \in wrapped
    /\ Push(frames, NewFrame("access", m, {}, {}))
    /\ UNCHANGED <<status, wrapped, accessed, early>>

\* It cannot be loaded or is not ready: a TypeError for the code below.
AccessFails ==
    /\ IsAt("access") /\ ~Top.holds
    /\ frames' = Front(frames)
    /\ UNCHANGED <<status, wrapped, accessed, early>>

\* Mutant: the module is evaluated without asking whether it is ready.
AccessWithoutCheck ==
    /\ IsAt("access") /\ ~Top.holds
    /\ ~LockHeld
    /\ accessed' = accessed \cup {Top.of}
    /\ LET held == ReplaceTop([Top EXCEPT !.holds = TRUE])
       IN  IF status[Top.of] = "linked" THEN Evaluate(Top.of, held)
           ELSE frames' = held /\ UNCHANGED status
    /\ UNCHANGED <<wrapped, early>>

AccessEvaluates ==
    /\ IsAt("access") /\ ~Top.holds
    /\ Ready(Top.of)
    /\ ~LockHeld
    /\ accessed' = accessed \cup {Top.of}
    /\ LET held == ReplaceTop([Top EXCEPT !.holds = TRUE])
       IN  IF status[Top.of] = "linked" THEN Evaluate(Top.of, held)
           ELSE frames' = held /\ UNCHANGED status
    /\ UNCHANGED <<wrapped, early>>

\* The jobs have run, in a second catch_silent_panic.
AccessEnds ==
    /\ IsAt("access") /\ Top.holds
    /\ frames' = Front(frames)
    /\ UNCHANGED <<status, wrapped, accessed, early>>

Next == \/ EvaluateEntry \/ RunBody \/ BodyEnds \/ BodyThrows \/ RunJob \/ JobEnds
        \/ Preevaluated \/ PreevaluationEnds \/ PreevaluationFails
        \/ AccessFails \/ AccessEvaluates \/ AccessEnds
        \/ \E m \in Node : EvaluateImport(m)
        \/ \E m \in Module : \/ Continue(m) \/ MakeNamespace(m) \/ ImportDefer(m)
                             \/ Preevaluate(m) \/ Access(m)

Spec == Init /\ [][Next]_vars

-----------------------------------------------------------------------------
\* import defer evaluates asynchronous modules only: any other has begun for
\* the entry, an asynchronous module or a module whose namespace was read.
LazyUntilRead ==
    {m \in Module \ Async : status[m] # "linked"}
        \subseteq ReachedFrom(Eager[Entry] \cup Async \cup accessed)

\* Pre-evaluation runs in the middle of a body, and an asynchronous module that
\* imports the module of that body goes ahead of it, with all on the way.
Ahead == early \cap ReachedFrom(Async)

\* A deferred namespace read while its module, or one it imports, is being
\* evaluated is refused: once the evaluation of a read is over, the module and
\* all it imports have run to their end and none is suspended at an await,
\* but for what an asynchronous module that went ahead has imported.
ReadFindsAnEnd ==
    IsAt("access") /\ Top.holds =>
        /\ status[Top.of] \in {"evaluated", "failed"}
        /\ status[Top.of] = "evaluated" /\ ReachedFrom({Top.of}) \cap Ahead = {} =>
              \A x \in ReachedFrom({Top.of}) : status[x] = "evaluated"

\* The dependencies of one wrapper are pre-evaluated once at a time, also
\* when a module defers itself (PROGRESS.md: DeferredPreevalScope).
PreevaluatedOnce ==
    \A i, j \in DOMAIN frames :
        /\ frames[i].of = frames[j].of
        /\ frames[i].at = "preevaluation"
        /\ frames[j].at = "preevaluation"
        => i = j

\* Reading a deferred namespace that is ready evaluates it there and then
\* (PROGRESS.md): the thread never waits for a lock it holds itself.
NeverWaitsForItself ==
    ~ /\ frames # <<>> /\ LockHeld
      /\ ~Top.holds
      /\ \/ Top.at = "access" /\ Ready(Top.of)
         \/ Top.at = "preevaluation" /\ Top.todo # {}
=============================================================================
