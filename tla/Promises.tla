------------------------------ MODULE Promises ------------------------------
(***************************************************************************)
(* Promises and microtasks of the handwritten interpreter                  *)
(* (src/engine/interpreter/async_runtime.rs and callables.rs).             *)
(*                                                                         *)
(* `await` does not suspend: it drains the microtask queue on the Rust     *)
(* stack and goes on.  A handler that awaits therefore runs other handlers *)
(* inside itself; `stack` is that nesting of programs, handlers and drains.*)
(* Scripts are arbitrary: whatever frame of user code is on top may call   *)
(* any promise operation at any time.                                      *)
(***************************************************************************)
EXTENDS Integers, Sequences, FiniteSets, SequencesExt

CONSTANTS MaxPromises,   \* bound: promises created
          MaxReactions,  \* bound: reactions attached
          MaxDepth       \* bound: frames on the Rust stack

ASSUME BoundsAssumption == /\ MaxPromises \in Nat
                           /\ MaxReactions \in Nat
                           /\ MaxDepth \in Nat

Promise == 1 .. MaxPromises
Value   == {0} \cup Promise          \* 0: any value that is not a promise

Fulfilled(v) == [how |-> "fulfilled", value |-> v]
Rejected     == [how |-> "rejected", value |-> 0]
Pending      == [how |-> "pending", value |-> 0]
Unborn       == [how |-> "unborn", value |-> 0]
Settlement   == {Fulfilled(v) : v \in Value} \cup {Rejected}

\* PromiseReaction; handlers says which of on_fulfilled, on_rejected (or
\* on_finally) is a callable, original is what a finally passes through.
Reaction == [no : Nat, source : Promise, result : Promise,
             kind : {"then", "finally", "pass"},
             handlers : SUBSET {"fulfilled", "rejected"},
             original : Settlement \cup {Pending}]

VARIABLES
    created,    \* promises that exist are 1 .. created
    state,      \* PromiseValue::state
    reactions,  \* PromiseValue::reactions
    queue,      \* Interpreter::microtask_queue
    stack,      \* frames of user code and of draining loops, top last
    resolvable, \* promises whose PromiseResolver functions a script holds
    attached,   \* reactions attached so far, to number them
    adopted,    \* history: the promise a handler returned for its result
    finallyOf,  \* history: the promise that finally was called on
    lastRun     \* history: the latest reaction run per source promise

vars == <<created, state, reactions, queue, stack, resolvable, attached,
          adopted, finallyOf, lastRun>>

histories == <<adopted, finallyOf, lastRun>>

ProgramFrame    == [what |-> "program", result |-> 0, original |-> Pending]
DrainFrame(p)   == [what |-> "drain", result |-> p, original |-> Pending]
HandlerFrame(rx, s) == [what |-> rx.kind, result |-> rx.result, original |-> s]
Init ==
    /\ created = 0
    /\ state = [p \in Promise |-> Unborn]
    /\ reactions = [p \in Promise |-> <<>>]
    /\ queue = <<>>
    /\ stack = <<ProgramFrame>>
    /\ resolvable = {}
    /\ attached = 0
    /\ adopted = [p \in Promise |-> 0]
    /\ finallyOf = [p \in Promise |-> 0]
    /\ lastRun = [p \in Promise |-> 0]

-----------------------------------------------------------------------------
Top == stack[Len(stack)]
Below == SubSeq(stack, 1, Len(stack) - 1)
InUserCode == stack # <<>> /\ Top.what # "drain"
Draining == stack # <<>> /\ Top.what = "drain"

Task(rx, s) == [state |-> s, reaction |-> rx]

\* Mutant: the reaction waits whether or not the promise is settled.
AttachWaitsAlways(p, kind, handlers, original, result) ==
    /\ attached < MaxReactions
    /\ attached' = attached + 1
    /\ reactions' = [reactions EXCEPT ![p] = Append(@,
            [no |-> attached + 1, source |-> p, result |-> result,
             kind |-> kind, handlers |-> handlers, original |-> original])]
    /\ UNCHANGED queue

(* attach_promise_reaction: a reaction waits on a pending promise and is   *)
(* queued at once on a settled one.                                        *)
Attach(p, kind, handlers, original, result) ==
    LET rx == [no |-> attached + 1, source |-> p, result |-> result,
               kind |-> kind, handlers |-> handlers, original |-> original]
    IN  /\ attached < MaxReactions
        /\ attached' = attached + 1
        /\ IF state[p] = Pending
           THEN /\ reactions' = [reactions EXCEPT ![p] = Append(@, rx)]
                /\ UNCHANGED queue
           ELSE /\ queue' = Append(queue, Task(rx, state[p]))
                /\ UNCHANGED reactions

Triggered(p, s) == [i \in DOMAIN reactions[p] |-> Task(reactions[p][i], s)]

\* Mutant: a promise that is already settled may be settled again.
SettleAgain(tasks, p, s) ==
    /\ state' = [state EXCEPT ![p] = s]
    /\ queue' = tasks \o Triggered(p, s)
    /\ reactions' = [reactions EXCEPT ![p] = <<>>]

\* Mutant: the reactions are queued but stay registered.
SettleKeepsReactions(tasks, p, s) ==
    IF state[p] # Pending THEN queue' = tasks /\ UNCHANGED <<state, reactions>>
    ELSE /\ state' = [state EXCEPT ![p] = s]
         /\ queue' = tasks \o Triggered(p, s)
         /\ UNCHANGED reactions

\* Mutant: the reactions are popped off like a stack.
SettleReversed(tasks, p, s) ==
    IF state[p] # Pending THEN queue' = tasks /\ UNCHANGED <<state, reactions>>
    ELSE /\ state' = [state EXCEPT ![p] = s]
         /\ queue' = tasks \o Reverse(Triggered(p, s))
         /\ reactions' = [reactions EXCEPT ![p] = <<>>]

(* settle_promise: the first settlement wins; its reactions join the tasks *)
(* in the order they were attached.                                        *)
Settle(tasks, p, s) ==
    IF state[p] # Pending THEN queue' = tasks /\ UNCHANGED <<state, reactions>>
    ELSE /\ state' = [state EXCEPT ![p] = s]
         /\ queue' = tasks \o Triggered(p, s)
         /\ reactions' = [reactions EXCEPT ![p] = <<>>]

\* Mutant: a promise is treated like any other value.
ResolveFlat(p, v) == Settle(queue, p, Fulfilled(v)) /\ UNCHANGED attached

(* resolve_promise_value: a promise adopts a promise it is resolved with,  *)
(* by a then-reaction without handlers, and rejects itself for itself.     *)
ResolveWith(p, v) ==
    IF v = p THEN Settle(queue, p, Rejected) /\ UNCHANGED attached
    ELSE IF v \in Promise
         THEN Attach(v, "then", {}, Pending, p) /\ UNCHANGED state
         ELSE Settle(queue, p, Fulfilled(v)) /\ UNCHANGED attached

-----------------------------------------------------------------------------
(* Operations of user code.                                                *)
NewPromise(s) ==
    /\ InUserCode
    /\ created < MaxPromises
    /\ created' = created + 1
    /\ state' = [state EXCEPT ![created + 1] = s]

\* new Promise(executor): the script gets hold of both resolvers.
PromiseConstructor ==
    /\ NewPromise(Pending)
    /\ resolvable' = resolvable \cup {created + 1}
    /\ UNCHANGED <<reactions, queue, stack, attached, histories>>

\* Promise.resolve, Promise.reject, and the call of an async function, whose
\* body has run before the promise exists; it may return a promise, which
\* resolved_promise does not adopt.
SettledPromise ==
    /\ \E s \in {Fulfilled(v) : v \in 0 .. created} \cup {Rejected} : NewPromise(s)
    /\ UNCHANGED <<reactions, queue, stack, resolvable, attached, histories>>

\* PromiseThen (and PromiseCatch) on p.
PromiseThen(p) ==
    /\ NewPromise(Pending)
    /\ \E handlers \in SUBSET {"fulfilled", "rejected"} :
          Attach(p, "then", handlers, Pending, created + 1)
    /\ UNCHANGED <<stack, resolvable, histories>>

PromiseFinally(p) ==
    /\ NewPromise(Pending)
    /\ \E handlers \in {{}, {"fulfilled", "rejected"}} :
          Attach(p, "finally", handlers, Pending, created + 1)
    /\ finallyOf' = [finallyOf EXCEPT ![created + 1] = p]
    /\ UNCHANGED <<stack, resolvable, adopted, lastRun>>

\* PromiseResolver with is_resolve, and without.
Resolve(p) ==
    /\ InUserCode
    /\ p \in resolvable
    /\ \E v \in 0 .. created : ResolveWith(p, v)
    /\ UNCHANGED <<created, stack, resolvable, histories>>

Reject(p) ==
    /\ InUserCode
    /\ p \in resolvable
    /\ Settle(queue, p, Rejected)
    /\ UNCHANGED <<created, stack, resolvable, attached, histories>>

Push(f) == Len(stack) < MaxDepth /\ stack' = Append(stack, f)

(* await_value: drain the whole queue first, settled or not.               *)
Await(p) ==
    /\ InUserCode
    /\ Push(DrainFrame(p))
    /\ UNCHANGED <<created, state, reactions, queue, resolvable, attached,
                   histories>>

\* ... then look at the promise.  drain_microtasks_until_promise_settled
\* finds an empty queue; the value, the rejection or, for a promise that is
\* still pending, a TypeError goes to the user code below.
AwaitEnds ==
    /\ Draining /\ Top.result # 0
    /\ queue = <<>>
    /\ stack' = Below
    /\ UNCHANGED <<created, state, reactions, queue, resolvable, attached,
                   histories>>

(* eval_program_in_env: a program, or a module imported by running code,   *)
(* drains the queue when it ends normally and leaves it alone on an error. *)
StartProgram ==
    /\ stack = <<>> \/ InUserCode
    /\ Push(ProgramFrame)
    /\ UNCHANGED <<created, state, reactions, queue, resolvable, attached,
                   histories>>

ProgramEnds ==
    /\ InUserCode /\ Top.what = "program"
    /\ stack' = Append(Below, DrainFrame(0))
    /\ UNCHANGED <<created, state, reactions, queue, resolvable, attached,
                   histories>>

ProgramThrows ==
    /\ InUserCode /\ Top.what = "program"
    /\ stack' = Below
    /\ UNCHANGED <<created, state, reactions, queue, resolvable, attached,
                   histories>>

DrainEnds ==
    /\ Draining /\ Top.result = 0
    /\ queue = <<>>
    /\ stack' = Below
    /\ UNCHANGED <<created, state, reactions, queue, resolvable, attached,
                   histories>>

-----------------------------------------------------------------------------
(* run_microtask on the head of the queue.                                 *)
NextTask == Head(queue)

RunsHandler(task) == task.reaction.kind # "pass"
                     /\ task.state.how \in task.reaction.handlers

CallHandler ==
    /\ Draining /\ queue # <<>>
    /\ RunsHandler(NextTask)
    /\ Push(HandlerFrame(NextTask.reaction, NextTask.state))
    /\ queue' = Tail(queue)
    /\ lastRun' = [lastRun EXCEPT ![NextTask.reaction.source] = NextTask.reaction.no]
    /\ UNCHANGED <<created, state, reactions, resolvable, attached, adopted,
                   finallyOf>>

\* No callable: then passes the settlement on, finally too, and a
\* FinallyPassThrough replaces a fulfilment by the original settlement.
Passed(task) == IF task.reaction.kind = "pass" /\ task.state.how = "fulfilled"
                THEN task.reaction.original ELSE task.state

PassThrough ==
    /\ Draining /\ queue # <<>>
    /\ ~RunsHandler(NextTask)
    /\ Settle(Tail(queue), NextTask.reaction.result, Passed(NextTask))
    /\ lastRun' = [lastRun EXCEPT ![NextTask.reaction.source] = NextTask.reaction.no]
    /\ UNCHANGED <<created, stack, resolvable, attached, adopted,
                   finallyOf>>

(* process_then_reaction once the handler has returned or thrown.          *)
ThenReturns ==
    /\ InUserCode /\ Top.what = "then"
    /\ \E v \in 0 .. created :
          /\ ResolveWith(Top.result, v)
          /\ adopted' = [adopted EXCEPT ![Top.result] = v]
    /\ stack' = Below
    /\ UNCHANGED <<created, resolvable, finallyOf, lastRun>>

HandlerThrows ==
    /\ InUserCode /\ Top.what \in {"then", "finally"}
    /\ Settle(queue, Top.result, Rejected)
    /\ stack' = Below
    /\ UNCHANGED <<created, resolvable, attached, histories>>

(* process_finally_reaction: a promise returned by the handler is waited   *)
(* for, anything else lets the original settlement through.                *)
FinallyReturns ==
    /\ InUserCode /\ Top.what = "finally"
    /\ \E v \in 0 .. created :
          /\ adopted' = [adopted EXCEPT ![Top.result] = v]
          /\ IF v \in Promise
             THEN /\ Attach(v, "pass", {}, Top.original, Top.result)
                  /\ UNCHANGED state
             ELSE Settle(queue, Top.result, Top.original) /\ UNCHANGED attached
    /\ stack' = Below
    /\ UNCHANGED <<created, resolvable, finallyOf, lastRun>>

-----------------------------------------------------------------------------
UserCode == \/ PromiseConstructor \/ SettledPromise
            \/ \E p \in 1 .. created : \/ PromiseThen(p) \/ PromiseFinally(p)
                                       \/ Resolve(p) \/ Reject(p) \/ Await(p)
            \/ StartProgram \/ ProgramEnds \/ ProgramThrows
            \/ ThenReturns \/ HandlerThrows \/ FinallyReturns

Drain == CallHandler \/ PassThrough \/ AwaitEnds \/ DrainEnds

Next == UserCode \/ Drain

Spec == Init /\ [][Next]_vars

-----------------------------------------------------------------------------
\* Where the settlement of a promise p can still come from.
Registered(p) == {r \in Promise \X (1 .. MaxReactions) :
                     /\ r[2] \in DOMAIN reactions[r[1]]
                     /\ reactions[r[1]][r[2]].result = p}
Queued(p)  == {i \in DOMAIN queue : queue[i].reaction.result = p}
Running(p) == {i \in DOMAIN stack : /\ stack[i].what \in {"then", "finally"}
                                    /\ stack[i].result = p}
Obligations(p) == Cardinality(Registered(p)) + Cardinality(Queued(p))
                  + Cardinality(Running(p))

\* A promise made by then, catch or finally is settled by exactly one
\* reaction: while it is pending, that reaction is registered, queued or
\* running, and afterwards it is gone.  Nothing is lost or run twice, however
\* handlers, adoption, finally and nested awaits interleave.
DerivedHasOneObligation ==
    \A p \in 1 .. created : p \notin resolvable =>
        Obligations(p) = IF state[p] = Pending THEN 1 ELSE 0

\* A derived promise whose handler returned a promise settles the way that
\* promise did, and not before it.
Adopts ==
    \A p \in Promise :
        /\ adopted[p] \in Promise \ {p}
        /\ finallyOf[p] = 0
        /\ state[p] # Pending
        => state[p] = state[adopted[p]]

\* The promise made by finally settles the way the original did, or rejects;
\* it waits for a promise its handler returned, and rejects if that does.
Transparent ==
    \A p \in Promise : finallyOf[p] # 0 /\ state[p] # Pending =>
        /\ state[p] \in {state[finallyOf[p]], Rejected}
        /\ adopted[p] # 0 => /\ state[adopted[p]] # Pending
                             /\ state[adopted[p]] = Rejected => state[p] = Rejected

\* Both ways of waiting for another promise.
WaitsAndFollows == Adopts /\ Transparent

\* The promises that p waits for, directly or through others.
WaitsFor(p) == {q \in Promise : \E i \in DOMAIN reactions[q] :
                                   reactions[q][i].result = p}
Chain(S) == {p \in Promise : \A C \in SUBSET Promise :
                 S \subseteq C /\ (\A q \in C : WaitsFor(q) \subseteq C) => p \in C}

\* await throws TypeError on a promise that is pending when the queue is
\* empty. It gives up only where nothing but other code could settle it: the
\* chain of what it waits for leads to a promise whose resolvers a script
\* holds, to one whose handler is running further down the Rust stack (which
\* in ECMAScript would go on and settle it), or back to itself.
AwaitGivesUpForCause ==
    Draining /\ queue = <<>> /\ Top.result # 0 /\ state[Top.result] = Pending
    => \E p \in Chain({Top.result}) :
          \/ p \in resolvable
          \/ Running(p) # {}
          \/ p \in Chain(WaitsFor(p))

\* A promise settles once, with one settlement.
SettledForGood ==
    [][\A p \in Promise : state[p] \in Settlement => state'[p] = state[p]]_vars

\* The reactions of one promise run in the order they were attached, also
\* when some of them run inside others.
ReactionsInOrder ==
    [][\A p \in Promise : lastRun'[p] >= lastRun[p]]_vars
=============================================================================
