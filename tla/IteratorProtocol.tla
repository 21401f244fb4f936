--------------------------- MODULE IteratorProtocol ---------------------------
(***************************************************************************)
(* What the iterator helpers of runtime/iterator.rs have in common.  The   *)
(* file installs JavaScript source: Iterator.prototype.map, filter, take,  *)
(* drop, flatMap, the methods that consume an iterator, Iterator.from,     *)
(* concat, zip and zipKeyed.  A helper keeps a few flags and calls next()  *)
(* and return() of underlying iterators and callbacks, all of which are    *)
(* code of the program: it may throw, and it may call the helper again.    *)
(*                                                                         *)
(* A step of a model runs from one such call to the next.  The underlying  *)
(* iterators are numbered slots, the first input, the last padding (zip    *)
(* only); those between are the items.                                     *)
(***************************************************************************)
EXTENDS Naturals, Sequences

CONSTANTS
    MaxItems,      \* underlying iterators of one helper
    MaxRemaining,  \* the largest limit given to take() and drop()
    MaxFrames      \* calls of the helper inside one another

ASSUME BoundsAssumption == /\ MaxItems \in Nat /\ MaxItems >= 2
                           /\ MaxRemaining \in Nat

VARIABLES
    kind,       \* the method of Iterator that is under test
    phase,      \* "new", "ready" (the helper exists), "over" (the call is)
    done,       \* state.done, closed of concat, allDone of zip
    executing,  \* the flag of that name
    iter,       \* the underlying iterators
    frames,     \* calls of the helper that wait for code of the program
    remaining,  \* of take and drop
    current,    \* innerState.iterator of flatMap, currentIterator of concat
    index,      \* currentIndex of concat; iters.length of zip
    mode,       \* of zip: "shortest", "longest", "strict"
    held,       \* of zip: the positions of openIters that are not null
    ended,      \* of zip: the iters with the flag done
    hasYielded, \* of zip
    misuse,     \* history: "advance", "close" of an iterator that was not open
    lost,       \* history: a call has returned although code in it had thrown
    departed    \* history: the named departures from ECMAScript that were met

common == <<kind, phase, done, executing, iter, frames, misuse, lost, departed>>
ofHelpers == <<remaining, current>>
ofZips == <<mode, held, ended, hasYielded>>
vars == <<common, ofHelpers, index, ofZips>>

Transformers == {"map", "filter", "take", "drop", "flatMap", "from"}
Consumers == {"forEach", "some", "every", "find", "reduce", "toArray"}
Zips == {"zip", "zipKeyed"}
Kinds == Transformers \cup Consumers \cup Zips \cup {"concat"}

Items == 1..MaxItems
Input == 0
Padding == MaxItems + 1
Slots == Input..Padding

\* A thrown value: the code tests "if (error)" and "error !== undefined".
Thrown == {"error", "falsy", "undefined"}

AdvanceSites == {"advance", "strict", "input", "padNext"}
CloseSites == {"close", "closeList", "closeInput", "padClose"}
OtherSites == {"callback", "reread", "open", "element", "padOpen"}

Frame(call, at, i) ==
    [call |-> call, at |-> at, i |-> i, then |-> "none", threw |-> FALSE,
     error |-> "none", skip |-> Input, closeError |-> FALSE, pos |-> 0]

Top == frames[Len(frames)]
AtSite(site) == Len(frames) > 0 /\ Top.at = site

\* What code of the program does at a call: it answers or throws.
Threw(f, outcome) == [f EXCEPT !.threw = @ \/ outcome = "throw"]

-----------------------------------------------------------------------------
\* The rest of a step: the helper calls code of the program, in frame f, with
\* underlying iterators it.  An iterator counts as closed from the call on.
Calls(stack, f, it) ==
    /\ frames' = Append(stack, f)
    /\ iter' = IF f.at \in CloseSites THEN [it EXCEPT ![f.i] = "closed"] ELSE it
    /\ misuse' = IF it[f.i] = "open" THEN misuse
                 ELSE misuse \cup (IF f.at \in AdvanceSites THEN {"advance"} ELSE {})
                             \cup (IF f.at \in CloseSites THEN {"close"} ELSE {})
    /\ lost' = lost

Below == SubSeq(frames, 1, Len(frames) - 1)

\* the call on top goes on to frame f
GoesOn(f, it) == Calls(Below, f, it)

\* a new call begins
Begins(f, it) == Len(frames) < MaxFrames /\ Calls(frames, f, it)

\* Mutant: only an error resets executing.
EndsExecutingMutant(f, answer, it) ==
    /\ frames' = Below
    /\ iter' = it
    /\ misuse' = misuse
    /\ lost' = (lost \/ (f.threw /\ answer # "error"))
    /\ executing' = (executing /\ answer = "error")

\* The call on top ends: the finally block resets executing.
Ends(f, answer, it) ==
    /\ frames' = Below
    /\ iter' = it
    /\ misuse' = misuse
    /\ lost' = (lost \/ (f.threw /\ answer # "error"))
    /\ executing' = FALSE

Departs(name) == departed' = departed \cup {name}
Stays == departed' = departed
===============================================================================
