-------------------------- MODULE DisposableStacks --------------------------
(***************************************************************************)
(* DisposableStack and AsyncDisposableStack                                *)
(* (src/engine/runtime/host_disposable.rs).                                *)
(*                                                                         *)
(* use() runs a getter of the program between its check of the status and  *)
(* its push, dispose() runs the disposers, and disposeAsync() an async     *)
(* loop over them, so every operation may run inside every other one.      *)
(* `frames` is the nesting of user code on the Rust stack.                 *)
(***************************************************************************)
EXTENDS Integers, Sequences, FiniteSets, SequencesExt

CONSTANTS MaxStacks,     \* bound: stacks constructed
          MaxResources,  \* bound: resources accepted
          MaxDepth       \* bound: frames of user code

ASSUME BoundsAssumption == /\ MaxStacks \in Nat
                           /\ MaxResources \in Nat
                           /\ MaxDepth \in Nat

Stack    == 1 .. MaxStacks
Resource == 1 .. MaxResources       \* numbered as they are accepted
Status   == {"Pending", "Disposed"}

VARIABLES
    made,       \* the stacks that exist are 1 .. made
    kind,       \* DisposableStackData or AsyncDisposableStackData
    status,     \* the status of a stack
    items,      \* its resources, last accepted last
    accepted,   \* the resources that exist are 1 .. accepted
    flavour,    \* of a resource: awaited, plain, or without a method
    left,       \* resources a disposal has taken and not yet popped
    errors,     \* what dispose() has collected
    completion, \* the error of a disposal, outermost SuppressedError first
    loop,       \* where the disposal of a stack is
    frames,     \* user code on the Rust stack, innermost last
    taken,      \* history: the resources a disposal found
    called,     \* history: the resources it has popped, in that order
    failed      \* history: resources whose disposer threw or rejected

contents == <<made, kind, status, items, accepted, flavour>>
disposal == <<left, errors, completion, loop, called, failed>>
vars == <<contents, disposal, frames, taken>>

Frame == [what : {"use", "disposer"}, stack : Stack]

TypeOK ==
    /\ made \in 0 .. MaxStacks
    /\ kind \in [Stack -> {"sync", "async"}]
    /\ status \in [Stack -> Status]
    /\ items \in [Stack -> Seq(Resource)]
    /\ accepted \in 0 .. MaxResources
    /\ flavour \in [Resource -> {"await", "plain", "null"}]
    /\ left \in [Stack -> Seq(Resource)]
    /\ errors \in [Stack -> Seq(Resource)]
    /\ completion \in [Stack -> Seq(Resource)]
    /\ loop \in [Stack -> {"none", "running", "awaiting", "done"}]
    /\ frames \in Seq(Frame)
    /\ taken \in [Stack -> Seq(Resource)]
    /\ called \in [Stack -> Seq(Resource)]
    /\ failed \subseteq Resource
    /\ \A s \in Stack : loop[s] = "none" \/ status[s] = "Disposed"

Init ==
    /\ made = 0
    /\ kind = [s \in Stack |-> "sync"]
    /\ status = [s \in Stack |-> "Pending"]
    /\ items = [s \in Stack |-> <<>>]
    /\ accepted = 0
    /\ flavour = [r \in Resource |-> "plain"]
    /\ left = [s \in Stack |-> <<>>]
    /\ errors = [s \in Stack |-> <<>>]
    /\ completion = [s \in Stack |-> <<>>]
    /\ loop = [s \in Stack |-> "none"]
    /\ frames = <<>>
    /\ taken = [s \in Stack |-> <<>>]
    /\ called = [s \in Stack |-> <<>>]
    /\ failed = {}

-----------------------------------------------------------------------------
Made == 1 .. made
Top == frames[Len(frames)]
On(what, s) == frames # <<>> /\ Top = [what |-> what, stack |-> s]

\* new DisposableStack(), new AsyncDisposableStack().
New(k) ==
    /\ made < MaxStacks
    /\ made' = made + 1
    /\ kind' = [kind EXCEPT ![made + 1] = k]
    /\ UNCHANGED <<status, items, accepted, flavour, disposal, frames, taken>>

\* A resource is pushed on a stack.
Accept(s, f) ==
    /\ accepted < MaxResources
    /\ accepted' = accepted + 1
    /\ flavour' = [flavour EXCEPT ![accepted + 1] = f]
    /\ items' = [items EXCEPT ![s] = Append(@, accepted + 1)]
    /\ UNCHANGED <<made, kind, status, disposal, taken>>

(* use(): the status is checked, then the dispose method is looked up,     *)
(* which may run a getter, then the resource is pushed, whatever has       *)
(* become of the stack.                                                    *)
UseBegins(s) ==
    /\ status[s] = "Pending"
    /\ Len(frames) < MaxDepth
    /\ frames' = Append(frames, [what |-> "use", stack |-> s])
    /\ UNCHANGED <<contents, disposal, taken>>

\* An async stack falls back on Symbol.dispose, which is not awaited.
Methods(s) == IF kind[s] = "async" THEN {"await", "plain"} ELSE {"plain"}

UseAccepts(s) ==
    /\ On("use", s)
    /\ frames' = Front(frames)
    /\ \E f \in Methods(s) : Accept(s, f)

\* The getter threw, or there is no callable method.
UseThrows(s) ==
    /\ On("use", s)
    /\ frames' = Front(frames)
    /\ UNCHANGED <<contents, disposal, taken>>

\* use(null) on an async stack leaves a mark that awaits once.
UseNull(s) ==
    /\ status[s] = "Pending"
    /\ kind[s] = "async"
    /\ Accept(s, "null")
    /\ UNCHANGED frames

Adopted(s) == IF kind[s] = "async" THEN "await" ELSE "plain"

\* adopt() and defer() run no user code.
Adopt(s) ==
    /\ status[s] = "Pending"
    /\ Accept(s, Adopted(s))
    /\ UNCHANGED frames

\* Mutant: the old stack keeps what it has handed over.
MoveCopies(s) ==
    /\ status[s] = "Pending"
    /\ made < MaxStacks
    /\ made' = made + 1
    /\ kind' = [kind EXCEPT ![made + 1] = kind[s]]
    /\ items' = [items EXCEPT ![made + 1] = items[s]]
    /\ status' = [status EXCEPT ![s] = "Disposed"]
    /\ UNCHANGED <<accepted, flavour, disposal, frames, taken>>

\* move(): a new stack takes the resources, the old one ends.
Move(s) ==
    /\ status[s] = "Pending"
    /\ made < MaxStacks
    /\ made' = made + 1
    /\ kind' = [kind EXCEPT ![made + 1] = kind[s]]
    /\ items' = [items EXCEPT ![made + 1] = items[s], ![s] = <<>>]
    /\ status' = [status EXCEPT ![s] = "Disposed"]
    /\ UNCHANGED <<accepted, flavour, disposal, frames, taken>>

-----------------------------------------------------------------------------
\* new SuppressedError(error, completion), as the chain it begins.
Suppressed(error, chain) == <<error>> \o chain

\* Mutant: dispose() reports the errors the other way round.
FoldedBackwards(errs) == errs

\* What dispose() throws: the first error, wrapped by each later one, so the
\* chain begins with the last.
Folded(errs) == Reverse(errs)

\* Mutant: the loop takes the oldest resource.
PoppedOldest(rest) == 1

\* The index of the resource the loop takes from what is left.
Popped(rest) == Len(rest)

(* The disposal of s goes on with what is left: it calls the next disposer *)
(* on top of the frames below, awaits for a mark, or ends.                 *)
Proceed(s, rest, errs, chain, below) ==
    IF rest # <<>>
    THEN LET r == rest[Popped(rest)]
         IN  /\ left' = [left EXCEPT ![s] = RemoveAt(rest, Popped(rest))]
             /\ called' = [called EXCEPT ![s] = Append(@, r)]
             /\ errors' = [errors EXCEPT ![s] = errs]
             /\ completion' = [completion EXCEPT ![s] = chain]
             /\ IF flavour[r] = "null"
                THEN /\ loop' = [loop EXCEPT ![s] = "awaiting"]
                     /\ frames' = below
                ELSE /\ loop' = [loop EXCEPT ![s] = "running"]
                     /\ frames' = Append(below, [what |-> "disposer", stack |-> s])
    ELSE /\ left' = [left EXCEPT ![s] = rest]
         /\ errors' = [errors EXCEPT ![s] = errs]
         /\ completion' = [completion EXCEPT ![s] =
                              IF kind[s] = "sync" THEN Folded(errs) ELSE chain]
         /\ loop' = [loop EXCEPT ![s] = "done"]
         /\ frames' = below
         /\ UNCHANGED called

\* Mutant: the stack is marked only when its disposal ends.
DisposesStill(s) == UNCHANGED status

Disposes(s) == status' = [status EXCEPT ![s] = "Disposed"]

\* dispose() and disposeAsync() of a stack that is not disposed yet.
Dispose(s) ==
    /\ status[s] = "Pending"
    /\ Len(frames) < MaxDepth
    /\ Disposes(s)
    /\ items' = [items EXCEPT ![s] = <<>>]
    /\ taken' = [taken EXCEPT ![s] = items[s]]
    /\ Proceed(s, items[s], <<>>, <<>>, frames)
    /\ UNCHANGED <<made, kind, accepted, flavour, failed>>

Latest(s) == Last(called[s])

\* An awaited disposer has returned a promise: the loop suspends and what is
\* below on the stack goes on.  Any other has done its work.
DisposerReturns(s) ==
    /\ On("disposer", s)
    /\ IF kind[s] = "async" /\ flavour[Latest(s)] = "await"
       THEN /\ loop' = [loop EXCEPT ![s] = "awaiting"]
            /\ frames' = Front(frames)
            /\ UNCHANGED <<left, called, errors, completion>>
       ELSE Proceed(s, left[s], errors[s], completion[s], Front(frames))
    /\ UNCHANGED <<contents, taken, failed>>

\* dispose() collects the error, the loop wraps its completion at once.
Fails(s, below) ==
    /\ failed' = failed \cup {Latest(s)}
    /\ IF kind[s] = "sync"
       THEN Proceed(s, left[s], Append(errors[s], Latest(s)), completion[s], below)
       ELSE Proceed(s, left[s], errors[s], Suppressed(Latest(s), completion[s]), below)

DisposerThrows(s) ==
    /\ On("disposer", s)
    /\ Fails(s, Front(frames))
    /\ UNCHANGED <<contents, taken>>

\* A job resumes the loop once the awaited promise is settled; reading a
\* deferred namespace runs the jobs inside user code.
LoopResumes(s) ==
    /\ loop[s] = "awaiting"
    /\ Len(frames) < MaxDepth
    /\ \/ Proceed(s, left[s], errors[s], completion[s], frames) /\ UNCHANGED failed
       \/ flavour[Latest(s)] # "null" /\ Fails(s, frames)
    /\ UNCHANGED <<contents, taken>>

Next == \/ \E k \in {"sync", "async"} : New(k)
        \/ \E s \in Made :
              \/ UseBegins(s) \/ UseAccepts(s) \/ UseThrows(s) \/ UseNull(s)
              \/ Adopt(s) \/ Move(s) \/ Dispose(s)
              \/ DisposerReturns(s) \/ DisposerThrows(s) \/ LoopResumes(s)

Spec == Init /\ [][Next]_vars

-----------------------------------------------------------------------------
Places(r) == {<<"held", s>> : s \in {x \in Made : Contains(items[x], r)}}
        \cup {<<"taken", s>> : s \in {x \in Made : Contains(left[x], r)}}
        \cup {<<"called", s>> : s \in {x \in Made : Contains(called[x], r)}}

\* An accepted resource is in one place: held by one stack, taken by one
\* disposal, or disposed of.  Neither move() nor a dispose() inside use(),
\* move() or another disposal loses one or gives it to two owners.
OwnedOnce == \A r \in 1 .. accepted : Cardinality(Places(r)) = 1

\* A disposal calls the disposers in the reverse order of acceptance, and
\* what it has called and what is left make up what it found: it skips none.
DisposedInReverse ==
    \A s \in Made : /\ taken[s] = left[s] \o Reverse(called[s])
                    /\ loop[s] = "done" => left[s] = <<>>
                    /\ \A i, j \in DOMAIN called[s] :
                          i < j => called[s][i] > called[s][j]

Ascending(q) == \A i, j \in DOMAIN q : i < j => q[i] < q[j]

\* The error of a disposal names the disposers that failed, each once, and a
\* later one (its resource was accepted earlier, see DisposedInReverse)
\* suppresses the ones before it, for both kinds of stack.
ErrorsAllReported ==
    \A s \in Made : loop[s] = "done" =>
        /\ Ascending(completion[s])
        /\ \A r \in Resource :
              Contains(completion[s], r) <=> Contains(called[s], r) /\ r \in failed
=============================================================================
