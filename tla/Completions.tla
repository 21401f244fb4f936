---------------------------- MODULE Completions ----------------------------
(* Statement evaluation of the handwritten interpreter as a machine that    *)
(* passes completions up a stack of statements.  Two evaluators share the   *)
(* work: eval_statement (statements.rs) runs a statement to its end, and    *)
(* eval_generator_statement (generator_eval.rs, generator_loops.rs) runs    *)
(* the statements of a generator that contain a yield, in continuation-     *)
(* passing style.  A frame stands for a statement under evaluation, its     *)
(* field "gen" tells which evaluator runs it.                               *)
(*                                                                          *)
(* The program is not a constant: at each point where a statement is        *)
(* evaluated the next state chooses one, so that a behaviour is a run of    *)
(* some program.  Expressions are their outcomes: a value, a throw, a       *)
(* yield.  Jumps are those the grammar of ECMAScript allows at their place. *)
EXTENDS Naturals, SequencesExt

CONSTANTS
    Label,      \* the labels of a program
    None,       \* no label
    Kind,       \* the kinds of compound statements the program uses
    MaxDepth,   \* bound: statements inside one another
    MaxTicks,   \* instruction budget (2000 in check_timeout)
    MaxUsing    \* bound: using declarations of one block

Loops == {"while", "dowhile", "for", "forin", "forof"}

ASSUME CompletionsAssumption ==
    /\ Kind \subseteq Loops \cup {"block", "switch", "labelled", "with", "try"}
    /\ None \notin Label
    /\ MaxDepth \in Nat /\ MaxTicks \in Nat /\ MaxUsing \in Nat

VARIABLES
    stack,      \* the statements under evaluation, outermost first
    ctrl,       \* what is being done: a statement runs, or a completion travels
    ticks       \* Interpreter.instruction_count, up to the first refused one

vars == <<stack, ctrl, ticks>>

Depth == Len(stack)
Top == Last(stack)

(* Completions.  "run" evaluates the top frame; "yielded" and "delegated"   *)
(* leave the generator suspended at a yield or in a yield*; "target" is the *)
(* depth of the statement that a jump aims at in ECMAScript, which the code *)
(* does not compute: it only says where the jump should land.               *)
Completion(type) == [type |-> type, label |-> None, target |-> 0]
Run == Completion("run")
Normal == Completion("normal")
Throw == Completion("throw")
Return == Completion("return")
Timeout == Completion("timeout")
Jumps == {"break", "continue"}
Travels == ctrl.type \in {"normal", "throw", "return", "timeout"} \cup Jumps

Frame(kind, label, gen, phase) ==
    [kind |-> kind, label |-> label, gen |-> gen, phase |-> phase,
     handler |-> FALSE, finalizer |-> FALSE, yielded |-> FALSE,
     saved |-> Normal, using |-> 0]

Stay(frame, c) == /\ stack' = [stack EXCEPT ![Depth] = frame]
                  /\ ctrl' = c
Leave(c) == /\ stack' = Front(stack)
            /\ ctrl' = c
In(phase) == [Top EXCEPT !.phase = phase]

(* check_timeout counts a step and refuses every one beyond the budget.     *)
Ticked == IF ticks > MaxTicks THEN ticks ELSE ticks + 1
Expired == Ticked > MaxTicks

(* A statement without a yield runs in the direct evaluator, and so does    *)
(* all that is in it.                                                       *)
Evaluators(frame) == IF frame.gen THEN BOOLEAN ELSE {FALSE}

(* Whether the top frame is at a place where it evaluates a statement.      *)
AtStatement == /\ Depth > 0 /\ ctrl = Run
               /\ Top.phase = "body"

----------------------------------------------------------------------------
(* Blocks.  A direct block counts each statement, owns the resources its    *)
(* using declarations add, and disposes of them when it is left; a block of *)
(* a generator does none of this.                                           *)
BlockNext ==
    /\ Depth > 0 /\ ctrl = Run /\ Top.kind = "block" /\ Top.phase = "next"
    /\ ~Top.gen
    /\ ticks' = Ticked
    /\ IF Expired THEN Stay(In("body"), Timeout) ELSE Stay(In("body"), Run)

GeneratorBlockNext ==
    /\ Depth > 0 /\ ctrl = Run /\ Top.kind = "block" /\ Top.phase = "next"
    /\ Top.gen
    /\ Stay(In("body"), Run)
    /\ UNCHANGED ticks

BlockEnds ==
    /\ Depth > 0 /\ ctrl = Run /\ Top.kind = "block" /\ Top.phase = "next"
    /\ IF Top.using > 0 THEN Stay(In("dispose"), Normal) ELSE Leave(Normal)
    /\ UNCHANGED ticks

BlockReceives ==
    /\ Travels /\ Depth > 0 /\ Top.kind = "block" /\ Top.phase = "body"
    /\ IF ctrl = Normal THEN Stay(In("next"), Run)
       ELSE IF Top.using > 0 THEN Stay(In("dispose"), ctrl)
       ELSE Leave(ctrl)
    /\ UNCHANGED ticks

Using ==
    /\ AtStatement /\ Top.kind = "block"
    /\ IF Top.gen THEN Stay(Top, Normal)
       ELSE /\ Top.using < MaxUsing
            /\ Stay([Top EXCEPT !.using = @ + 1], Normal)
    /\ UNCHANGED ticks

(* dispose_env_resources goes through all the resources, whatever each call *)
(* does, and the last error replaces the completion of the block.           *)
Remaining(failed) == Top.using - 1

Dispose ==
    /\ Travels /\ Depth > 0 /\ Top.phase = "dispose"
    /\ \E failed \in BOOLEAN :
         LET c == IF failed THEN Throw ELSE ctrl
         IN  IF Remaining(failed) = 0 THEN Leave(c)
             ELSE Stay([Top EXCEPT !.using = Remaining(failed)], c)
    /\ UNCHANGED ticks

----------------------------------------------------------------------------
(* Simple statements: an expression or a declaration gives a value or       *)
(* throws, return and throw complete abruptly, and so do the jumps.         *)
Evaluate ==
    /\ AtStatement
    /\ \E c \in {Normal, Throw, Return} : Stay(Top, c)
    /\ UNCHANGED ticks

(* What a jump aims at: the innermost loop or switch of a break, the        *)
(* innermost loop of a continue, and with a label the labelled statement,   *)
(* or the loop that it labels.                                              *)
Innermost(S) == CHOOSE i \in S : \A j \in S : j <= i
Labelled(l) == {i \in 1..Depth : stack[i].label = l}
LoopOf(i) == IF stack[i].kind = "labelled" /\ i < Depth THEN i + 1 ELSE i
Targets(type, l) ==
    IF l = None
    THEN {i \in 1..Depth : stack[i].kind \in
             (IF type = "break" THEN Loops \cup {"switch"} ELSE Loops)}
    ELSE IF type = "break" THEN Labelled(l)
    ELSE {i \in {LoopOf(j) : j \in Labelled(l)} : stack[i].kind \in Loops}

Jump ==
    /\ AtStatement
    /\ \E type \in Jumps, l \in Label \cup {None} :
         /\ Targets(type, l) # {}
         /\ Stay(Top, [type |-> type, label |-> l,
                       target |-> Innermost(Targets(type, l))])
    /\ UNCHANGED ticks

----------------------------------------------------------------------------
(* Compound statements.  A label reaches the loop that it stands before;    *)
(* any other statement gets a frame for its label.                          *)
Inner(frame) == Append(stack, frame)
FreeLabel == {l \in Label : Labelled(l) = {}}

FirstPhase(kind) == CASE kind = "block" -> "next"
                      [] kind \in Loops \ {"dowhile"} -> "test"
                      [] OTHER -> "body"

EnterStatement ==
    /\ AtStatement /\ Depth < MaxDepth
    /\ \E kind \in Kind \ {"dowhile", "labelled", "try"},
          gen \in Evaluators(Top) :
         \E l \in {None} \cup (IF kind \in Loops THEN FreeLabel ELSE {}) :
           stack' = Inner(Frame(kind, l, gen, FirstPhase(kind)))
    /\ UNCHANGED <<ctrl, ticks>>

(* The body of do ... while runs before its first test, and counts a step.  *)
EnterDoWhile ==
    /\ AtStatement /\ Depth < MaxDepth /\ "dowhile" \in Kind
    /\ \E gen \in Evaluators(Top), l \in {None} \cup FreeLabel :
         stack' = Inner(Frame("dowhile", l, gen, "body"))
    /\ ticks' = Ticked
    /\ ctrl' = IF Expired THEN Timeout ELSE Run

EnterLabelled ==
    /\ AtStatement /\ Depth < MaxDepth /\ "labelled" \in Kind
    /\ \E gen \in Evaluators(Top), l \in FreeLabel :
         stack' = Inner(Frame("labelled", l, gen, "body"))
    /\ UNCHANGED <<ctrl, ticks>>

TryFrame(gen, handler, finalizer) ==
    [Frame("try", None, gen, "try") EXCEPT
        !.handler = handler, !.finalizer = finalizer]
Block(gen) == Frame("block", None, gen, "next")

EnterTry ==
    /\ AtStatement /\ Depth + 1 < MaxDepth /\ "try" \in Kind
    /\ \E gen \in Evaluators(Top), handler, finalizer \in BOOLEAN :
         LET try == TryFrame(gen, handler, finalizer)
         IN  /\ handler \/ finalizer
             /\ \E g \in Evaluators(try) : stack' = Inner(try) \o <<Block(g)>>
    /\ UNCHANGED <<ctrl, ticks>>

----------------------------------------------------------------------------
(* Loops.  A turn tests the condition, or takes the next key or item; the   *)
(* evaluators count it before or after that.                                *)
Bound(frame) == frame.kind \in {"forin", "forof"}
CountsFirst(frame) ==
    \/ frame.kind = "for"
    \/ frame.kind = "while" /\ ~frame.gen
    \/ frame.kind = "forof" /\ frame.gen

AtTest == Depth > 0 /\ ctrl = Run /\ Top.kind \in Loops /\ Top.phase = "test"

LoopEnds ==
    /\ AtTest
    /\ CountsFirst(Top) => ~Expired
    /\ Leave(Normal)
    /\ ticks' = IF CountsFirst(Top) THEN Ticked ELSE ticks

LoopTurnUncounted ==
    /\ AtTest
    /\ Stay(In(IF Bound(Top) THEN "bind" ELSE "body"),
            IF Expired /\ ~Top.gen THEN Timeout ELSE Run)
    /\ ticks' = Ticked
LoopTurn ==
    /\ AtTest
    /\ IF Expired THEN Stay(Top, Timeout)
       ELSE Stay(In(IF Bound(Top) THEN "bind" ELSE "body"), Run)
    /\ ticks' = Ticked

(* The test, next() of an iterator, the update or the binding pattern       *)
(* throws.                                                                  *)
HeadPhases == {"test", "bind", "update", "param"}
HeadThrows ==
    /\ Depth > 0 /\ ctrl = Run /\ Top.phase \in HeadPhases
    /\ Stay(Top, Throw)
    /\ UNCHANGED ticks

HeadDone ==
    /\ Depth > 0 /\ ctrl = Run /\ Top.phase \in {"bind", "update"}
    /\ Stay(In(IF Top.phase = "bind" THEN "body" ELSE "test"), Run)
    /\ UNCHANGED ticks

(* loop_control_matches: a jump without a label fits any loop, a jump with  *)
(* one the loop that the label stands before.                               *)
ControlMatchesAny(c, frame) == c.type \in Jumps
ControlMatches(c, frame) == /\ c.type \in Jumps
                            /\ c.label \in {None, frame.label}

(* What becomes of a loop when its body completes.  A loop over an iterator *)
(* closes it when the body is left for good.                                *)
NextTurn == In(IF Top.kind = "for" THEN "update" ELSE "test")
LeaveLoopOnBreak(c) == IF Top.kind = "forof" /\ c = Normal
                       THEN Stay(In("closing"), c) ELSE Leave(c)
LeaveLoop(c) == IF Top.kind = "forof" THEN Stay(In("closing"), c) ELSE Leave(c)

LoopReceives ==
    /\ Travels /\ Depth > 0 /\ Top.kind \in Loops /\ Top.phase = "body"
    /\ \/ /\ ctrl # Normal => ctrl.type = "continue" /\ ControlMatches(ctrl, Top)
          /\ Stay(NextTurn, Run)
       \/ /\ ctrl.type = "break" /\ ControlMatches(ctrl, Top)
          /\ LeaveLoop(Normal)
       \/ /\ ctrl # Normal /\ ~ControlMatches(ctrl, Top)
          /\ LeaveLoop(ctrl)
    /\ UNCHANGED ticks

(* close_iterator calls return() of the iterator and forgets its outcome.   *)
IteratorCloses ==
    /\ Travels /\ Depth > 0 /\ Top.phase = "closing"
    /\ Leave(ctrl)
    /\ UNCHANGED ticks

(* An abrupt completion in the head of a loop leaves it, and its iterator   *)
(* open.                                                                    *)
HeadReceives ==
    /\ Travels /\ Depth > 0 /\ Top.kind \in Loops /\ Top.phase \in HeadPhases
    /\ Leave(ctrl)
    /\ UNCHANGED ticks

----------------------------------------------------------------------------
(* switch, labelled statements and with.  The consequents of a switch fall  *)
(* through until the last one; a case test may throw, like a statement.     *)
SwitchEnds ==
    /\ AtStatement /\ Top.kind = "switch"
    /\ Leave(Normal)
    /\ UNCHANGED ticks

SwitchReceives ==
    /\ Travels /\ Depth > 0 /\ Top.kind = "switch"
    /\ CASE ctrl = Normal -> Stay(Top, Run)
         [] ctrl.type = "break" /\ ctrl.label = None -> Leave(Normal)
         [] OTHER -> Leave(ctrl)
    /\ UNCHANGED ticks

LabelledReceives ==
    /\ Travels /\ Depth > 0 /\ Top.kind = "labelled"
    /\ IF ctrl.type = "break" /\ ctrl.label = Top.label THEN Leave(Normal)
       ELSE Leave(ctrl)
    /\ UNCHANGED ticks

(* sync_with_scope_bindings writes the bindings back to the object, and its *)
(* error replaces the completion of the body.                               *)
WithReceives ==
    /\ Travels /\ Depth > 0 /\ Top.kind = "with"
    /\ \E c \in {ctrl, Throw} : Leave(c)
    /\ UNCHANGED ticks

----------------------------------------------------------------------------
(* try.  The direct evaluator gives the handler nothing but errors; that of *)
(* generators gives it every completion, as handle_try_error asks only      *)
(* whether there is a handler.                                              *)
CatchesTimeout(frame, c) ==
    frame.handler /\ (frame.gen \/ c.type \in {"throw", "timeout"})
Catches(frame, c) == frame.handler /\ (frame.gen \/ c.type = "throw")

Finally(frame, c) ==
    IF frame.finalizer
    THEN \E g \in Evaluators(frame) :
           /\ stack' = Front(stack) \o
                  <<[frame EXCEPT !.phase = "finally", !.saved = c], Block(g)>>
           /\ ctrl' = Run
    ELSE Leave(c)

CatchBody(frame) ==
    \E g \in Evaluators(frame) :
       /\ stack' = Front(stack) \o <<[frame EXCEPT !.phase = "catch"], Block(g)>>
       /\ ctrl' = Run

TryReceives ==
    /\ Travels /\ Depth > 0 /\ Top.phase = "try"
    /\ IF ctrl # Normal /\ Catches(Top, ctrl)
       THEN CatchBody(Top) \/ Stay(In("param"), Run)
       ELSE Finally(Top, ctrl)
    /\ UNCHANGED ticks

CatchBinds ==
    /\ Depth > 0 /\ ctrl = Run /\ Top.phase = "param"
    /\ CatchBody(Top)
    /\ UNCHANGED ticks

(* The ? after the binding of the catch parameter leaves the statement      *)
(* without its finally block, in both evaluators.                           *)
CatchBindingFails ==
    /\ Travels /\ Depth > 0 /\ Top.phase = "param"
    /\ Leave(ctrl)
    /\ UNCHANGED ticks

(* eval_generator_catch_body has the same ? after the evaluation of the     *)
(* catch block: an abrupt completion passes the finally block by, unless    *)
(* the catch block was suspended at a yield before.                         *)
SkipsFinallyOnReturn(frame, c) == c = Return
SkipsFinally(frame, c) == frame.gen /\ ~frame.yielded /\ c # Normal

CatchReceives ==
    /\ Travels /\ Depth > 0 /\ Top.phase = "catch"
    /\ IF SkipsFinally(Top, ctrl) THEN Leave(ctrl) ELSE Finally(Top, ctrl)
    /\ UNCHANGED ticks

(* An abrupt finally block overrides what the statement had completed with. *)
FinallyResult(frame, c) == IF c = Normal THEN frame.saved ELSE c

FinallyReceives ==
    /\ Travels /\ Depth > 0 /\ Top.phase = "finally"
    /\ Leave(FinallyResult(Top, ctrl))
    /\ UNCHANGED ticks

----------------------------------------------------------------------------
(* Generators.  A yield suspends the whole stack; a catch block of a        *)
(* generator that was suspended is one that map_generator_execution has     *)
(* wrapped, so that its finally block runs.                                 *)
CanYield == /\ Depth > 0 /\ ctrl = Run /\ Top.gen
            /\ Top.phase \in HeadPhases \cup {"body"}

Yield ==
    /\ CanYield
    /\ \E type \in {"yielded", "delegated"} : ctrl' = Completion(type)
    /\ stack' = [i \in 1..Depth |->
                   IF stack[i].gen /\ stack[i].phase = "catch"
                   THEN [stack[i] EXCEPT !.yielded = TRUE] ELSE stack[i]]
    /\ UNCHANGED ticks

(* next(), throw() and return() of the caller at a plain yield.             *)
Resume ==
    /\ ctrl.type = "yielded"
    /\ ctrl' \in {Run, Throw, Return}
    /\ UNCHANGED <<stack, ticks>>

(* In a yield* they go to the inner iterator: it may yield again, throw, or *)
(* be done, and then the generator goes on, after a return() too.           *)
ResumeDelegated ==
    /\ ctrl.type = "delegated"
    /\ ctrl' \in {Run, Throw}
    /\ UNCHANGED <<stack, ticks>>

(* A call of a function, or the first next() of a generator; the count of   *)
(* instructions goes on from call to call.                                  *)
Call ==
    /\ Depth = 0
    /\ \E g \in BOOLEAN : stack' = <<Block(g)>>
    /\ ctrl' = Run
    /\ UNCHANGED ticks

Init == /\ stack = <<>>
        /\ ctrl = Normal
        /\ ticks = 0

Next == \/ Call \/ BlockNext \/ GeneratorBlockNext \/ BlockEnds \/ BlockReceives
        \/ Using \/ Dispose \/ Evaluate \/ Jump
        \/ EnterStatement \/ EnterDoWhile \/ EnterLabelled \/ EnterTry
        \/ LoopEnds \/ LoopTurn \/ HeadThrows \/ HeadDone
        \/ LoopReceives \/ IteratorCloses \/ HeadReceives
        \/ SwitchEnds \/ SwitchReceives \/ LabelledReceives \/ WithReceives
        \/ TryReceives \/ CatchBinds \/ CatchBindingFails \/ CatchReceives
        \/ FinallyReceives \/ Yield \/ Resume \/ ResumeDelegated

Spec == Init /\ [][Next]_vars

----------------------------------------------------------------------------
Leaving(kind) == Depth > 0 /\ Len(stack') < Depth /\ Top.kind = kind

(* A completion lands where ECMAScript sends it.  A jump reaches the         *)
(* statement it aims at: no other one consumes it on its way, and the one   *)
(* it aims at lets it pass only when it is a continue to the outer of two   *)
(* labels of one loop.  Nothing but an error enters a handler, except in a  *)
(* generator, where handle_try_error gives the handler every completion.    *)
JumpLands ==
    ctrl.type \in Jumps /\ Depth > 0 /\ Top.phase = "body" =>
       IF ctrl' # ctrl /\ Top.kind # "with"
       THEN Depth = ctrl.target
       ELSE Depth = ctrl.target =>
              \/ Top.kind = "with"
              \/ ctrl.type = "continue" /\ ctrl.label # Top.label

CatchesErrors ==
    /\ Travels /\ Depth > 0 /\ Top.phase = "try"
    /\ Len(stack') >= Depth /\ stack'[Depth].phase \in {"param", "catch"}
    => ctrl = Throw \/ Top.gen

CompletionsLand == [][JumpLands /\ CatchesErrors]_vars

(* A try statement is left without its finally block only when the binding  *)
(* of the catch parameter fails, or, in a generator, when a catch block     *)
(* that was never suspended completes abruptly.  The finally block has the  *)
(* last word only when it is abrupt itself: after a normal end of it the    *)
(* return, jump or error that it kept waiting goes on.                      *)
FinallyRuns == [][
    Leaving("try") /\ Top.finalizer =>
       IF Top.phase = "finally"
       THEN ctrl' = IF ctrl = Normal THEN Top.saved ELSE ctrl
       ELSE /\ ctrl # Normal
            /\ \/ Top.phase = "param"
               \/ Top.phase = "catch" /\ Top.gen /\ ~Top.yielded ]_vars

(* What a statement holds is released before it is left: a for-of loop that *)
(* leaves its body for good has closed its iterator, whatever the body      *)
(* completed with (one whose iterator ended by itself has not), and a block *)
(* has called the disposer of each of its resources, those after a disposer *)
(* that failed included.                                                    *)
ReleasedBeforeLeaving == [][
    /\ Leaving("forof") => /\ Top.phase # "body"
                           /\ ctrl = Run => Top.phase = "test"
    /\ Leaving("block") => /\ Top.using <= 1
                           /\ Top.using = 1 => Top.phase = "dispose" ]_vars

(* Once the budget is spent no loop starts another turn and no block of the *)
(* direct evaluator another statement: a program that catches the error of  *)
(* an exhausted budget cannot run on in a loop.                             *)
NoTurnAfterTimeout == [][
    ticks > MaxTicks /\ Depth > 0 /\ Len(stack') >= Depth =>
       /\ Top.kind \in Loops /\ Top.phase = "test"
            => stack'[Depth].phase = "test"
       /\ Top.kind = "block" /\ ~Top.gen /\ Top.phase = "next" /\ ctrl' = Run
            => stack'[Depth].phase = "next" ]_vars
=============================================================================
