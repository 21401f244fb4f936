----------------------------- MODULE Generators -----------------------------
(***************************************************************************)
(* Generator objects of the handwritten interpreter: resume_generator and  *)
(* finish_generator_resume (src/engine/interpreter/statements.rs).  Every  *)
(* call of next, return or throw replaces the status by Executing first    *)
(* and decides what to do by the status it took out.  Bodies are arbitrary *)
(* code: they may resume other generators, or themselves, at any moment;   *)
(* `running` is the nesting of bodies on the Rust stack.                   *)
(***************************************************************************)
EXTENDS Integers, Sequences, FiniteSets

CONSTANTS Generator,  \* generator objects
          MaxYields   \* bound: yields of one body

ASSUME GeneratorsAssumption == IsFiniteSet(Generator) /\ MaxYields \in Nat

Action == {"next", "return", "throw"}    \* ResumeAction
Status == {"SuspendedStart", "SuspendedYield", "Executing", "Completed"}

VARIABLES
    status,    \* GeneratorState::status
    running,   \* bodies on the stack, innermost last
    answer,    \* what the latest resumption that ran no body answered
    yields,    \* history: suspensions of each body
    resumed,   \* history: suspensions that were resumed
    finished   \* history: generators whose body has ended

generatorVars == <<status, running, answer, yields, resumed, finished>>

Answers == {"none", "done", "throw", "already executing"}

TypeOK ==
    /\ status \in [Generator -> Status]
    /\ running \in Seq(Generator)
    /\ answer \in Answers
    /\ yields \in [Generator -> 0 .. MaxYields]
    /\ resumed \in [Generator -> 0 .. MaxYields]
    /\ finished \subseteq Generator

GeneratorsInit ==
    /\ status = [g \in Generator |-> "SuspendedStart"]
    /\ running = <<>>
    /\ answer = "none"
    /\ yields = [g \in Generator |-> 0]
    /\ resumed = [g \in Generator |-> 0]
    /\ finished = {}

-----------------------------------------------------------------------------
SetStatus(g, s) == status' = [status EXCEPT ![g] = s]

\* Mutant: the status is read, not replaced.
PeekStatus(g) == UNCHANGED status

\* std::mem::replace(&mut status, Executing).
TakeStatus(g) == SetStatus(g, "Executing")

Enter(g) == running' = Append(running, g) /\ answer' = "none"

(* resume_generator, by the status found.                                  *)
ResumeStart(g) ==
    /\ status[g] = "SuspendedStart"
    /\ TakeStatus(g)
    /\ Enter(g)
    /\ UNCHANGED <<yields, resumed, finished>>

\* return() and throw() before the first next() end it without a body.
EndAtStart(g, action) ==
    /\ status[g] = "SuspendedStart"
    /\ action # "next"
    /\ SetStatus(g, "Completed")
    /\ finished' = finished \cup {g}
    /\ answer' = IF action = "throw" THEN "throw" ELSE "done"
    /\ UNCHANGED <<running, yields, resumed>>

\* The continuation gets next's value, a return or an exception at its yield.
ResumeYield(g) ==
    /\ status[g] = "SuspendedYield"
    /\ TakeStatus(g)
    /\ Enter(g)
    /\ resumed' = [resumed EXCEPT ![g] = @ + 1]
    /\ UNCHANGED <<yields, finished>>

\* "generator is already executing": thrown, or a rejected promise.
ResumeExecuting(g) ==
    /\ status[g] = "Executing"
    /\ answer' = "already executing"
    /\ UNCHANGED <<status, running, yields, resumed, finished>>

\* The Completed arm answers and leaves Executing behind.
ResumeCompleted(g, action) ==
    /\ status[g] = "Completed"
    /\ TakeStatus(g)
    /\ answer' = IF action = "throw" THEN "throw" ELSE "done"
    /\ UNCHANGED <<running, yields, resumed, finished>>

ResumeGenerator(g, action) ==
    \/ action = "next" /\ ResumeStart(g)
    \/ EndAtStart(g, action)
    \/ ResumeYield(g)
    \/ ResumeExecuting(g)
    \/ ResumeCompleted(g, action)

-----------------------------------------------------------------------------
(* finish_generator_resume, when the innermost body yields or ends.        *)
Body == running[Len(running)]
LeaveBody == running' = SubSeq(running, 1, Len(running) - 1) /\ answer' = "none"

\* Mutant: the status is written back by the Completed arm only.
YieldForgetsStatus ==
    /\ running # <<>>
    /\ yields[Body] < MaxYields
    /\ UNCHANGED status
    /\ yields' = [yields EXCEPT ![Body] = @ + 1]
    /\ LeaveBody
    /\ UNCHANGED <<resumed, finished>>

BodyYields ==
    /\ running # <<>>
    /\ yields[Body] < MaxYields
    /\ SetStatus(Body, "SuspendedYield")
    /\ yields' = [yields EXCEPT ![Body] = @ + 1]
    /\ LeaveBody
    /\ UNCHANGED <<resumed, finished>>

\* Complete, Err(Return) and every other error.
BodyEnds ==
    /\ running # <<>>
    /\ SetStatus(Body, "Completed")
    /\ finished' = finished \cup {Body}
    /\ LeaveBody
    /\ UNCHANGED <<yields, resumed>>

GeneratorsNext ==
    \/ \E g \in Generator, action \in Action : ResumeGenerator(g, action)
    \/ BodyYields \/ BodyEnds

GeneratorsSpec == GeneratorsInit /\ [][GeneratorsNext]_generatorVars

-----------------------------------------------------------------------------
OnStack == {running[i] : i \in DOMAIN running}

\* A running body is never entered a second time, however generators resume
\* each other: it is on the stack once, its status says so, and a body that
\* has ended is never on it again.
RunningIsExecuting ==
    /\ finished \cap OnStack = {}
    /\ \A g \in OnStack : status[g] = "Executing"
    /\ \A i, j \in DOMAIN running : running[i] = running[j] => i = j

\* A suspension is resumed once: what a body has yielded and not been resumed
\* from is exactly its present suspension.
SuspensionResumedOnce ==
    \A g \in Generator :
        yields[g] - resumed[g] = IF status[g] = "SuspendedYield" THEN 1 ELSE 0

\* The converse of the second part of RunningIsExecuting: every path through
\* resume_generator and finish_generator_resume writes a status back, but for
\* one. A generator that says Executing is running, or it has ended and was
\* resumed once more, which the Completed arm does not undo.
ExecutingOrFinished ==
    \A g \in Generator : status[g] = "Executing" => g \in OnStack \cup finished
=============================================================================
