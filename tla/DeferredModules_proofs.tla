----------------------- MODULE DeferredModules_proofs -----------------------
(***************************************************************************)
(* Proofs about DeferredModules: what runs before a namespace is read,     *)
(* what a read that is allowed finds, and that a wrapper is pre-evaluated  *)
(* once at a time.                                                         *)
(***************************************************************************)
EXTENDS DeferredModules, SequenceTheorems, FiniteSetTheorems, WellFoundedInduction, TLAPS

Statuses == {"linked", "evaluating", "async", "evaluated", "failed"}
Ends == {"evaluated", "failed"}

\* Frames that evaluate a module: its walk over the imports, or its body.
Runs(f) == f.at \in {"evaluate", "code"}
Runner(i, m) == i \in DOMAIN frames /\ Runs(frames[i]) /\ frames[i].of = m

\* All imports of a module have been evaluated.
Done(m) == \A y \in Eager[m] : status[y] = "evaluated"

\* A walk that begins at y meets no asynchronous module that has not ended.
Clear(y) == \A z \in Pending({y}) : z \in Async => status[z] \in Ends

\* It meets no module under evaluation but those of frames above the i-th.
Unmet(i, y) == \A z \in Pending({y}) : status[z] = "evaluating" =>
                  \E j \in DOMAIN frames : j > i /\ Runner(j, z)

TypeInv ==
    /\ status \in [Node -> Statuses] /\ frames \in Seq(Frame)
    /\ accessed \subseteq Node /\ early \subseteq Node

\* What was taken from todo has been evaluated, is being evaluated by the next
\* frame, or made its importer one that went early.
ImportsSound(i, f) ==
    /\ f.of \notin early => \A y \in Eager[f.of] \ f.todo :
                               status[y] = "evaluated" \/ Runner(i + 1, y)
    /\ \A y \in Node : Runner(i + 1, y) => status[y] = "evaluating" /\ y \notin Async

WalkSound(i, f) ==
    /\ status[f.of] = "evaluating" /\ f.todo \subseteq Eager[f.of]
    /\ ImportsSound(i, f)
    /\ \A y \in f.todo : Clear(y)
    /\ f.of \notin ReachedFrom(Async) => \A y \in f.todo : Unmet(i, y)

BodySound(f) ==
    /\ status[f.of] \in {"evaluating", "async"}
    /\ f.of \notin early => Done(f.of)

\* The module of a read has ended or is being evaluated for it.
ReadSound(i, f) ==
    \/ status[f.of] \in Ends
    \/ Runner(i + 1, f.of) /\ status[f.of] = "evaluating" /\ f.of \notin Async

FrameSound(i, f) ==
    /\ f.at = "evaluate" => WalkSound(i, f)
    /\ f.at = "code" => BodySound(f)
    /\ f.at = "preevaluation" => f.todo \subseteq Async
    /\ f.at = "access" /\ f.holds => ReadSound(i, f)

FramesSound == \A i \in DOMAIN frames : FrameSound(i, frames[i])

\* A module has one frame that evaluates it.
Once == \A i, j \in DOMAIN frames :
           Runs(frames[i]) /\ Runs(frames[j]) /\ frames[i].of = frames[j].of => i = j

ModulesSound ==
    /\ \A m \in Node : status[m] = "async" => m \in Async
    /\ \A m \in Node \ early : status[m] \in {"async", "evaluated"} => Done(m)
    /\ status[Entry] = "linked" => frames = <<>> /\ \A m \in Node : status[m] = "linked"
    /\ early \subseteq ReachedFrom(Async)

IInv == TypeInv /\ FramesSound /\ Once /\ ModulesSound /\ LazyUntilRead /\ PreevaluatedOnce

-----------------------------------------------------------------------------
(* The graph.                                                              *)

\* Modules, and what they import.
LEMMA GraphIs ==
    /\ Entry \in Node /\ Entry \notin Module /\ Module \subseteq Node
    /\ Async \subseteq Module /\ Async \subseteq Node
    /\ Eager \in [Node -> SUBSET Node] /\ Deferred \in [Node -> SUBSET Module]
    /\ \A m \in Node : Eager[m] \subseteq Node /\ Deferred[m] \subseteq Module
    /\ \A m \in Node : m \notin ReachedFrom(Eager[m])
    /\ \A m \in Async \cup {Entry} : ReachedFrom(Eager[m]) \cap Async = {}
BY GraphAssumption DEF Node

\* What is reached from a set holds it and all its imports.
LEMMA ReachIs ==
    ASSUME NEW S \in SUBSET Node
    PROVE  /\ S \subseteq ReachedFrom(S) /\ ReachedFrom(S) \subseteq Node
           /\ \A m \in ReachedFrom(S) : Eager[m] \subseteq ReachedFrom(S)
<1>1. \A m \in Node : m \in Reached[m] /\ Reached[m] \subseteq Node
  BY DEF Reached
<1>2. ASSUME NEW m \in Node, NEW x \in Reached[m], NEW y \in Eager[x] PROVE y \in Reached[m]
  <2>1. x \in Node /\ y \in Node
    BY <1>1, <1>2, GraphIs
  <2>2. ASSUME NEW C \in Closed, m \in C PROVE y \in C
    <3>1. x \in C
      BY <1>2, <2>2 DEF Reached
    <3> QED
      BY <3>1, <1>2, <2>2 DEF Closed
  <2> QED
    BY <2>1, <2>2 DEF Reached
<1> QED
  BY <1>1, <1>2 DEF ReachedFrom

\* And it is the least such set.
LEMMA ReachLeast ==
    ASSUME NEW S \in SUBSET Node, NEW C \in SUBSET Node, S \subseteq C,
           \A m \in C : Eager[m] \subseteq C
    PROVE  ReachedFrom(S) \subseteq C
<1>1. C \in Closed
  BY DEF Closed
<1>2. \A m \in S : Reached[m] \subseteq C
  BY <1>1 DEF Reached
<1> QED
  BY <1>2 DEF ReachedFrom

\* A larger set reaches more.
LEMMA ReachGrows ==
    ASSUME NEW S \in SUBSET Node, NEW T \in SUBSET Node, S \subseteq ReachedFrom(T)
    PROVE  ReachedFrom(S) \subseteq ReachedFrom(T)
BY ReachIs, ReachLeast

\* A walk from a set covers it and the imports of what it walks through.
LEMMA PendingIs ==
    ASSUME NEW S \in SUBSET Node
    PROVE  /\ S \subseteq Pending(S) /\ Pending(S) \subseteq Node
           /\ \A m \in Pending(S) \cap Walked : Eager[m] \subseteq Pending(S)
<1> DEFINE closed == {C \in SUBSET Node :
                         S \subseteq C /\ \A m \in C \cap Walked : Eager[m] \subseteq C}
<1>1. Pending(S) = {x \in Node : \A C \in closed : x \in C}
  BY DEF Pending
<1>2. \A C \in closed : S \subseteq C /\ \A m \in C \cap Walked : Eager[m] \subseteq C
  OBVIOUS
<1> HIDE DEF closed
<1>3. \A m \in Node : Eager[m] \subseteq Node
  BY GraphIs
<1> QED
  BY <1>1, <1>2, <1>3

\* And it is the least such set.
LEMMA PendingLeast ==
    ASSUME NEW S \in SUBSET Node, NEW C \in SUBSET Node, S \subseteq C,
           \A m \in C \cap Walked : Eager[m] \subseteq C
    PROVE  Pending(S) \subseteq C
BY DEF Pending

\* A walk stays within what is reached.
LEMMA PendingReached ==
    ASSUME NEW S \in SUBSET Node
    PROVE  Pending(S) \subseteq ReachedFrom(S)
BY ReachIs, PendingLeast

\* The walk from a module covers those from its imports.
LEMMA PendingImport ==
    ASSUME NEW m \in Node, m \in Walked, NEW y \in Eager[m]
    PROVE  Pending({y}) \subseteq Pending({m})
<1>1. y \in Node /\ {y} \in SUBSET Node /\ {m} \in SUBSET Node
  BY GraphIs
<1>2. m \in Pending({m}) /\ Pending({m}) \in SUBSET Node
      /\ \A x \in Pending({m}) \cap Walked : Eager[x] \subseteq Pending({m})
  BY <1>1, PendingIs
<1>3. {y} \subseteq Pending({m})
  BY <1>2
<1> QED
  BY <1>1, <1>2, <1>3, PendingLeast

\* Statuses go on: an end is final, nothing becomes linked again.
Advances == /\ status' \in [Node -> Statuses]
            /\ \A m \in Node : /\ status[m] \in Ends => status'[m] = status[m]
                               /\ status'[m] = "linked" => status[m] = "linked"

\* So walks shrink.
LEMMA PendingShrinks ==
    ASSUME Advances, NEW S \in SUBSET Node
    PROVE  Pending(S)' \subseteq Pending(S)
<1>1. Walked' \subseteq Walked
  BY DEF Advances, Walked
<1>2. {C \in SUBSET Node : S \subseteq C /\ \A m \in C \cap Walked : Eager[m] \subseteq C}
      \subseteq {C \in SUBSET Node : S \subseteq C /\ \A m \in C \cap Walked' : Eager[m] \subseteq C}
  BY <1>1
<1> QED
  BY <1>2 DEF Pending

\* And stay clear.
LEMMA ClearStays ==
    ASSUME Advances, NEW y \in Node, Clear(y)
    PROVE  Clear(y)'
<1>1. {y} \in SUBSET Node
  OBVIOUS
<1>2. Pending({y})' \subseteq Pending({y}) /\ Pending({y}) \subseteq Node
  BY <1>1, PendingShrinks, PendingIs
<1> QED
  BY <1>2 DEF Clear, Advances

-----------------------------------------------------------------------------
(* Every step keeps some frames, pops the others and may push one.         *)

\* The first k frames stay, but for what the k-th has still to do.
FramesKept(k) ==
    /\ frames' \in Seq(Frame) /\ Len(frames') \in {k, k + 1}
    /\ \A i \in 1..k : /\ frames'[i].at = frames[i].at /\ frames'[i].of = frames[i].of
                       /\ frames'[i].todo \subseteq frames[i].todo
                       /\ i < k => frames'[i] = frames[i]

\* What they evaluate keeps its status; what is under evaluation is so for one
\* of them or for the new frame.
StatusKept(k) ==
    /\ \A i \in 1..k : Runs(frames[i]) => status'[frames[i].of] = status[frames[i].of]
    /\ \A z \in Node : status'[z] = "evaluating" =>
          \/ Runner(k + 1, z)'
          \/ status[z] = "evaluating" /\ \A j \in DOMAIN frames : Runner(j, z) => j \in 1..k

\* The k-th frame has a new neighbour.
TopKept(k) == k > 0 =>
    /\ frames'[k].at = "evaluate" => ImportsSound(k, frames[k])'
    /\ frames'[k].at = "access" /\ frames'[k].holds => ReadSound(k, frames[k])'

NewKept(k) == Len(frames') = k + 1 =>
    /\ FrameSound(k + 1, frames[k + 1])'
    /\ \A i \in 1..k : frames[i].of = frames'[k + 1].of =>
          /\ ~(Runs(frames[i]) /\ Runs(frames'[k + 1]))
          /\ ~(frames[i].at = "preevaluation" /\ frames'[k + 1].at = "preevaluation")

ModulesKept ==
    /\ \A m \in Node : status'[m] = "async" => m \in Async
    /\ \A m \in Node \ early' : status'[m] \in {"async", "evaluated"} =>
          status[m] \in {"async", "evaluated"} \/ Done(m)
    /\ status'[Entry] # "linked"
    /\ early \subseteq early' /\ early' \subseteq ReachedFrom(Async)
    /\ accessed \subseteq accessed' /\ accessed' \subseteq Node
    /\ \A m \in Module \ Async : status'[m] # "linked" =>
          \/ status[m] # "linked"
          \/ m \in ReachedFrom(Eager[Entry] \cup Async \cup accessed')

\* The fields of a frame.
LEMMA FrameIs ==
    ASSUME NEW f \in Frame
    PROVE  /\ f.at \in {"evaluate", "code", "preevaluation", "access", "job"}
           /\ f.of \in Node /\ f.todo \subseteq Node /\ f.make \subseteq Module
           /\ f.holds \in BOOLEAN
BY DEF Frame

\* The stack as a function.
LEMMA FramesAre ==
    ASSUME frames \in Seq(Frame)
    PROVE  /\ Len(frames) \in Nat /\ DOMAIN frames = 1..Len(frames)
           /\ \A i \in DOMAIN frames : frames[i] \in Frame /\ frames[i].of \in Node
                                       /\ frames[i].todo \subseteq Node
<1>1. Len(frames) \in Nat /\ DOMAIN frames = 1..Len(frames)
      /\ \A i \in DOMAIN frames : frames[i] \in Frame
  OBVIOUS
<1> QED
  BY <1>1, FrameIs

\* What is evaluated by a frame is not linked.
LEMMA RunsIs ==
    ASSUME FramesSound, NEW i \in DOMAIN frames, Runs(frames[i])
    PROVE  status[frames[i].of] \in {"evaluating", "async"}
<1>1. FrameSound(i, frames[i])
  BY DEF FramesSound
<1> QED
  BY <1>1 DEF FrameSound, WalkSound, BodySound, Runs

\* The invariant holds after a step that keeps its parts.
LEMMA StepKeeps ==
    ASSUME IInv, NEW k \in 0..Len(frames), Advances,
           FramesKept(k), StatusKept(k), TopKept(k), NewKept(k), ModulesKept
    PROVE  IInv'
<1>1. /\ Len(frames) \in Nat /\ DOMAIN frames = 1..Len(frames) /\ k \in Nat
      /\ \A i \in DOMAIN frames : frames[i] \in Frame /\ frames[i].of \in Node
                                  /\ frames[i].todo \subseteq Node
  BY FramesAre DEF IInv, TypeInv
<1>2. TypeInv'
  <2>1. early' \subseteq Node
    BY GraphIs, ReachIs DEF ModulesKept
  <2> QED
    BY <2>1 DEF TypeInv, Advances, FramesKept, ModulesKept
<1>3. /\ Len(frames') \in Nat /\ DOMAIN frames' = 1..Len(frames') /\ Len(frames') \in {k, k + 1}
      /\ 1..k \subseteq DOMAIN frames /\ 1..k \subseteq DOMAIN frames'
      /\ \A i \in DOMAIN frames' : i \in 1..k \/ (i = k + 1 /\ Len(frames') = k + 1)
      /\ \A i \in 1..k : i < k => i + 1 \in 1..k
      /\ \A i \in 1..k : i < k \/ i = k
  <2>1. Len(frames') \in Nat /\ DOMAIN frames' = 1..Len(frames') /\ Len(frames') \in {k, k + 1}
    BY <1>2 DEF FramesKept, TypeInv
  <2>2. k \in Nat /\ k <= Len(frames) /\ Len(frames) \in Nat /\ DOMAIN frames = 1..Len(frames)
    BY <1>1
  <2>3. 1..k \subseteq DOMAIN frames
    BY <2>2
  <2>0. PICK n, D : n = Len(frames') /\ D = DOMAIN frames'
    OBVIOUS
  <2>7. n \in Nat /\ (n = k \/ n = k + 1) /\ D = 1..n
    BY <2>0, <2>1
  <2>8. k <= n
    BY <2>2, <2>7
  <2>4. 1..k \subseteq DOMAIN frames'
    <3>1. 1..k \subseteq 1..n
      BY <2>2, <2>7, <2>8
    <3> QED
      BY <3>1, <2>0, <2>7
  <2>5. \A i \in DOMAIN frames' : i \in 1..k \/ (i = k + 1 /\ Len(frames') = k + 1)
    <3>1. \A i \in 1..n : i \in 1..k \/ (i = k + 1 /\ n = k + 1)
      BY <2>2, <2>7
    <3> QED
      BY <3>1, <2>0, <2>7
  <2>6. \A i \in 1..k : (i < k => i + 1 \in 1..k) /\ (i < k \/ i = k)
    BY <2>2
  <2> QED
    BY <2>1, <2>2, <2>3, <2>4, <2>5, <2>6
<1>4. \A i \in 1..k : /\ frames'[i].at = frames[i].at /\ frames'[i].of = frames[i].of
                      /\ Runs(frames'[i]) = Runs(frames[i])
                      /\ frames'[i].todo \subseteq frames[i].todo
                      /\ i < k => frames'[i] = frames[i]
  BY DEF FramesKept, Runs
<1>5. \A i \in 1..k, y \in Node : Runner(i, y)' <=> Runner(i, y)
  BY <1>3, <1>4 DEF Runner
<1>6. ASSUME NEW i \in 1..k, NEW y \in Node, Runner(i, y) PROVE status'[y] = status[y]
  BY <1>3, <1>6 DEF StatusKept, Runner
<1>7. ASSUME NEW i \in 1..k, NEW y \in Node, Unmet(i, y) PROVE Unmet(i, y)'
  <2>1. Pending({y})' \subseteq Pending({y}) /\ Pending({y}) \subseteq Node
    BY PendingShrinks, PendingIs
  <2>2. ASSUME NEW z \in Pending({y})', status'[z] = "evaluating"
        PROVE  \E j \in DOMAIN frames' : j > i /\ Runner(j, z)'
    <3>1. z \in Node /\ z \in Pending({y})
      BY <2>1
    <3>2. CASE Runner(k + 1, z)'
      <4>1. k + 1 \in DOMAIN frames' /\ k + 1 > i
        BY <3>2, <1>1 DEF Runner
      <4> QED
        BY <3>2, <4>1
    <3>3. CASE status[z] = "evaluating" /\ \A j \in DOMAIN frames : Runner(j, z) => j \in 1..k
      <4>1. PICK j \in DOMAIN frames : j > i /\ Runner(j, z)
        BY <3>1, <3>3, <1>7 DEF Unmet
      <4>2. j \in 1..k /\ Runner(j, z)'
        BY <4>1, <3>1, <3>3, <1>5
      <4> QED
        BY <4>1, <4>2, <1>3
    <3> QED
      BY <2>2, <3>1, <3>2, <3>3 DEF StatusKept
  <2> QED
    BY <2>2 DEF Unmet
<1>8. \A m \in Node : Done(m) => Done(m)'
  <2>1. \A m \in Node : Eager[m] \subseteq Node
    BY GraphIs
  <2> QED
    BY <2>1 DEF Done, Advances, Ends
<1>9. early \subseteq early' /\ k \in Nat
  BY <1>1 DEF ModulesKept
<1>10. ASSUME NEW i \in 1..k PROVE FrameSound(i, frames[i])'
  <2>1. FrameSound(i, frames[i]) /\ frames[i] \in Frame /\ frames[i].of \in Node
        /\ frames[i].todo \subseteq Node
    BY <1>1, <1>3 DEF IInv, FramesSound
  <2>2. Runs(frames[i]) => status'[frames[i].of] = status[frames[i].of]
    BY DEF StatusKept
  <2>3. CASE frames[i].at = "evaluate"
    <3>1. WalkSound(i, frames[i]) /\ Runs(frames[i])
      BY <2>1, <2>3 DEF FrameSound, Runs
    <3>2. (status[frames[i].of] = "evaluating")'
      BY <3>1, <2>2, <1>4 DEF WalkSound
    <3>3. (frames[i].todo \subseteq Eager[frames[i].of])'
      BY <3>1, <1>4 DEF WalkSound
    <3>4. ImportsSound(i, frames[i])'
      <4>1. CASE i = k
        BY <4>1, <2>3, <1>4, <1>9 DEF TopKept
      <4>2. CASE i < k
        <5>1. frames'[i] = frames[i] /\ i + 1 \in 1..k /\ ImportsSound(i, frames[i])
          BY <4>2, <1>3, <1>4, <3>1 DEF WalkSound
        <5>2. \A y \in Node : Runner(i + 1, y)' <=> Runner(i + 1, y)
          BY <5>1, <1>5
        <5>3. \A y \in Node : Runner(i + 1, y) => status'[y] = status[y]
          BY <5>1, <1>6
        <5>4. \A y \in Node : status[y] = "evaluated" => status'[y] = "evaluated"
          BY DEF Advances, Ends
        <5>5. Eager[frames[i].of] \subseteq Node
          BY <2>1, GraphIs
        <5> QED
          BY <5>1, <5>2, <5>3, <5>4, <5>5, <1>9 DEF ImportsSound
      <4> QED
        BY <4>1, <4>2, <1>3
    <3>5. (\A y \in frames[i].todo : Clear(y))'
      <4>1. \A y \in frames[i].todo : Clear(y)'
        BY <3>1, <2>1, ClearStays DEF WalkSound
      <4> QED
        BY <4>1, <1>4
    <3>6. (frames[i].of \notin ReachedFrom(Async) => \A y \in frames[i].todo : Unmet(i, y))'
      <4>1. frames[i].of \notin ReachedFrom(Async) => \A y \in frames[i].todo : Unmet(i, y)'
        BY <3>1, <2>1, <1>7 DEF WalkSound
      <4> QED
        BY <4>1, <1>4
    <3> QED
      BY <3>2, <3>3, <3>4, <3>5, <3>6, <2>3, <1>4 DEF FrameSound, WalkSound
  <2>4. CASE frames[i].at = "code"
    <3>1. BodySound(frames[i]) /\ Runs(frames[i])
      BY <2>1, <2>4 DEF FrameSound, Runs
    <3>2. BodySound(frames[i])'
      BY <3>1, <2>1, <2>2, <1>4, <1>8, <1>9 DEF BodySound
    <3> QED
      BY <3>2, <2>4, <1>4 DEF FrameSound
  <2>5. CASE frames[i].at = "preevaluation"
    BY <2>1, <2>5, <1>4 DEF FrameSound
  <2>6. CASE frames[i].at = "access"
    <3>1. ASSUME frames'[i].holds PROVE ReadSound(i, frames[i])'
      <4>1. CASE i = k
        BY <3>1, <4>1, <2>6, <1>4, <1>9 DEF TopKept
      <4>2. CASE i < k
        <5>1. frames'[i] = frames[i] /\ i + 1 \in 1..k
          BY <4>2, <1>3, <1>4
        <5>2. ReadSound(i, frames[i])
          BY <5>1, <3>1, <2>1, <2>6 DEF FrameSound
        <5>3. Runner(i + 1, frames[i].of)' <=> Runner(i + 1, frames[i].of)
          BY <5>1, <1>5, <2>1
        <5>4. Runner(i + 1, frames[i].of) => status'[frames[i].of] = status[frames[i].of]
          BY <5>1, <1>6, <2>1
        <5>5. status[frames[i].of] \in Ends => status'[frames[i].of] = status[frames[i].of]
          BY <2>1 DEF Advances
        <5> QED
          BY <5>1, <5>2, <5>3, <5>4, <5>5 DEF ReadSound
      <4> QED
        BY <4>1, <4>2, <1>3
    <3> QED
      BY <3>1, <2>6, <1>4 DEF FrameSound
  <2>7. CASE frames[i].at = "job"
    BY <2>7, <1>4 DEF FrameSound
  <2> QED
    BY <2>1, <2>3, <2>4, <2>5, <2>6, <2>7, FrameIs
<1>11. FramesSound'
  BY <1>3, <1>10 DEF FramesSound, NewKept
<1>12. Once'
  <2>1. ASSUME NEW i \in DOMAIN frames', NEW j \in DOMAIN frames',
               Runs(frames'[i]), Runs(frames'[j]), frames'[i].of = frames'[j].of
        PROVE  i = j
    <3>1. CASE i \in 1..k /\ j \in 1..k
      BY <2>1, <3>1, <1>3, <1>4 DEF IInv, Once
    <3>2. CASE i \in 1..k /\ j = k + 1 /\ Len(frames') = k + 1
      BY <2>1, <3>2, <1>4 DEF NewKept
    <3>3. CASE j \in 1..k /\ i = k + 1 /\ Len(frames') = k + 1
      BY <2>1, <3>3, <1>4 DEF NewKept
    <3> QED
      BY <3>1, <3>2, <3>3, <1>3
  <2> QED
    BY <2>1 DEF Once
<1>13. PreevaluatedOnce'
  <2>1. ASSUME NEW i \in DOMAIN frames', NEW j \in DOMAIN frames', frames'[i].of = frames'[j].of,
               frames'[i].at = "preevaluation", frames'[j].at = "preevaluation"
        PROVE  i = j
    <3>1. CASE i \in 1..k /\ j \in 1..k
      BY <2>1, <3>1, <1>3, <1>4 DEF IInv, PreevaluatedOnce
    <3>2. CASE i \in 1..k /\ j = k + 1 /\ Len(frames') = k + 1
      BY <2>1, <3>2, <1>4 DEF NewKept
    <3>3. CASE j \in 1..k /\ i = k + 1 /\ Len(frames') = k + 1
      BY <2>1, <3>3, <1>4 DEF NewKept
    <3> QED
      BY <3>1, <3>2, <3>3, <1>3
  <2> QED
    BY <2>1 DEF PreevaluatedOnce
<1>14. ModulesSound'
  <2>1. \A m \in Node \ early' : status'[m] \in {"async", "evaluated"} => Done(m)
    BY <1>9 DEF ModulesKept, IInv, ModulesSound
  <2>2. \A m \in Node \ early' : status'[m] \in {"async", "evaluated"} => Done(m)'
    BY <2>1, <1>8
  <2> QED
    BY <2>2 DEF ModulesKept, ModulesSound
<1>15. LazyUntilRead'
  <2> DEFINE R == Eager[Entry] \cup Async \cup accessed
             T == Eager[Entry] \cup Async \cup accessed'
  <2>1. R \in SUBSET Node /\ T \in SUBSET Node /\ R \subseteq T
    BY GraphIs DEF ModulesKept, IInv, TypeInv
  <2>2. ReachedFrom(R) \subseteq ReachedFrom(T)
    <3> HIDE DEF R, T
    <3>1. R \subseteq ReachedFrom(T)
      BY <2>1, ReachIs
    <3> QED
      BY <2>1, <3>1, ReachGrows
  <2>3. {m \in Module \ Async : status[m] # "linked"} \subseteq ReachedFrom(R)
    BY DEF IInv, LazyUntilRead
  <2>4. ASSUME NEW m \in Module \ Async, status'[m] # "linked" PROVE m \in ReachedFrom(T)
    BY <2>2, <2>3, <2>4 DEF ModulesKept
  <2> QED
    BY <2>4 DEF LazyUntilRead
<1> QED
  BY <1>2, <1>11, <1>12, <1>13, <1>14, <1>15 DEF IInv

-----------------------------------------------------------------------------
(* Changes of the stack.                                                   *)

\* The top of the stack and the frames below it.
LEMMA TopIs ==
    ASSUME frames \in Seq(Frame), frames # <<>>
    PROVE  /\ Len(frames) \in Nat \ {0} /\ DOMAIN frames = 1..Len(frames)
           /\ Len(frames) \in DOMAIN frames
           /\ Top = frames[Len(frames)] /\ Top \in Frame /\ Top.of \in Node
           /\ Top.todo \subseteq Node /\ Top.make \subseteq Module
<1>1. /\ Len(frames) \in Nat \ {0} /\ DOMAIN frames = 1..Len(frames)
      /\ \A i \in DOMAIN frames : frames[i] \in Frame
  OBVIOUS
<1>2. Len(frames) \in DOMAIN frames
  BY <1>1
<1> QED
  BY <1>1, <1>2, FrameIs DEF Top, Last

\* A new frame is a frame.
LEMMA NewFrameIs ==
    ASSUME NEW at \in {"evaluate", "code", "preevaluation", "access", "job"}, NEW m \in Node,
           NEW todo \in SUBSET Node, NEW make \in SUBSET Module
    PROVE  LET f == NewFrame(at, m, todo, make)
           IN  f \in Frame /\ f.at = at /\ f.of = m /\ f.todo = todo /\ ~f.holds
BY DEF NewFrame, Frame

\* The top is replaced by another frame.
LEMMA ReplacedIs ==
    ASSUME frames \in Seq(Frame), frames # <<>>, NEW f \in Frame, NEW rest, rest = ReplaceTop(f)
    PROVE  /\ rest \in Seq(Frame) /\ Len(rest) = Len(frames)
           /\ rest[Len(frames)] = f
           /\ \A i \in 1..Len(frames) : i < Len(frames) => rest[i] = frames[i]
BY DEF ReplaceTop

\* A frame is pushed on the stack, or on one whose top has been replaced.
LEMMA Pushed ==
    ASSUME NEW rest \in Seq(Frame), NEW g \in Frame, frames' = Append(rest, g)
    PROVE  /\ frames' \in Seq(Frame) /\ Len(frames') = Len(rest) + 1
           /\ frames'[Len(rest) + 1] = g
           /\ \A i \in 1..Len(rest) : frames'[i] = rest[i]
OBVIOUS

\* Frames are popped.
LEMMA Popped ==
    ASSUME frames \in Seq(Frame), NEW k \in 0..Len(frames), frames' = SubSeq(frames, 1, k)
    PROVE  /\ FramesKept(k) /\ Len(frames') = k
           /\ \A i \in 1..k : frames'[i] = frames[i]
<1>1. frames' \in Seq(Frame) /\ Len(frames') = k /\ \A i \in 1..k : frames'[i] = frames[i]
  OBVIOUS
<1> QED
  BY <1>1 DEF FramesKept

\* The top alone is popped.
LEMMA FrontIs ==
    ASSUME frames \in Seq(Frame), frames # <<>>
    PROVE  Front(frames) = SubSeq(frames, 1, Len(frames) - 1) /\ Len(frames) - 1 \in 0..Len(frames)
<1>1. Len(frames) \in Nat \ {0}
  BY TopIs
<1> QED
  BY <1>1 DEF Front

\* The stack as it is kept under a new frame, or without one.
LEMMA KeptIs ==
    ASSUME frames \in Seq(Frame), NEW rest \in Seq(Frame), Len(rest) = Len(frames),
           NEW n, n = Len(frames),
           \A i \in 1..n : i < n => rest[i] = frames[i],
           n > 0 => /\ rest[n].at = frames[n].at /\ rest[n].of = frames[n].of
                    /\ rest[n].todo \subseteq frames[n].todo,
           \/ frames' = rest
           \/ \E g \in Frame : frames' = Append(rest, g)
    PROVE  FramesKept(n) /\ \A i \in 1..n : frames'[i] = rest[i]
<1>1. n \in Nat
  OBVIOUS
<1>2. frames' \in Seq(Frame) /\ Len(frames') \in {n, n + 1} /\ \A i \in 1..n : frames'[i] = rest[i]
  BY Pushed
<1>3. ASSUME NEW i \in 1..n
      PROVE  /\ rest[i].at = frames[i].at /\ rest[i].of = frames[i].of
             /\ rest[i].todo \subseteq frames[i].todo
  <2>1. i < n \/ (i = n /\ n > 0)
    BY <1>1
  <2> QED
    BY <2>1
<1> QED
  BY <1>2, <1>3 DEF FramesKept

\* No module and no walk is disturbed: nothing that evaluates comes or goes.
LEMMA QuietKeeps ==
    ASSUME IInv, NEW k \in 0..Len(frames),
           status' = status, early' = early,
           accessed \subseteq accessed', accessed' \subseteq Node, status[Entry] # "linked",
           FramesKept(k), NewKept(k),
           \A j \in DOMAIN frames : Runs(frames[j]) => j \in 1..k,
           Len(frames') = k + 1 => ~Runs(frames'[k + 1]),
           k > 0 => /\ frames[k].at = "evaluate" => frames'[k].todo = frames[k].todo
                    /\ frames[k].at = "access" /\ frames'[k].holds =>
                          frames[k].holds \/ status[frames[k].of] \in Ends
    PROVE  IInv'
<1>1. /\ Len(frames) \in Nat /\ DOMAIN frames = 1..Len(frames) /\ k \in Nat
      /\ \A i \in DOMAIN frames : frames[i] \in Frame /\ frames[i].of \in Node
  BY FramesAre DEF IInv, TypeInv
<1>2. Advances
  BY DEF Advances, IInv, TypeInv
<1>3. StatusKept(k)
  BY DEF StatusKept, Runner
<1>4. ModulesKept
  BY DEF ModulesKept, IInv, ModulesSound
<1>5. \A y \in Node : ~Runner(k + 1, y)
  <2>1. k + 1 \notin 1..k
    BY <1>1
  <2> QED
    BY <2>1 DEF Runner
<1>6. \A y \in Node : ~Runner(k + 1, y)'
  <2>1. frames' \in Seq(Frame) /\ Len(frames') \in {k, k + 1}
    BY DEF FramesKept
  <2>2. k + 1 \in DOMAIN frames' => Len(frames') = k + 1
    BY <2>1, <1>1
  <2> QED
    BY <2>2 DEF Runner
<1>7. TopKept(k)
  <2>1. SUFFICES ASSUME k > 0 
                 PROVE  /\ frames'[k].at = "evaluate" => ImportsSound(k, frames[k])'
                        /\ frames'[k].at = "access" /\ frames'[k].holds => ReadSound(k, frames[k])'
    BY DEF TopKept
  <2>2. k \in DOMAIN frames /\ k \in 1..k
    BY <2>1, <1>1
  <2>3. /\ frames'[k].at = frames[k].at /\ frames'[k].of = frames[k].of
        /\ FrameSound(k, frames[k]) /\ frames[k].of \in Node
    BY <2>2, <1>1 DEF FramesKept, IInv, FramesSound
  <2>4. Eager[frames[k].of] \subseteq Node
    BY <2>3, GraphIs
  <2>5. ASSUME frames'[k].at = "evaluate" PROVE ImportsSound(k, frames[k])'
    <3>1. ImportsSound(k, frames[k]) /\ frames'[k].todo = frames[k].todo
      BY <2>1, <2>3, <2>5 DEF FrameSound, WalkSound
    <3> QED
      BY <3>1, <2>3, <2>4, <1>5, <1>6 DEF ImportsSound
  <2>6. ASSUME frames'[k].at = "access", frames'[k].holds PROVE ReadSound(k, frames[k])'
    <3>1. status[frames[k].of] \in Ends
      BY <2>1, <2>3, <2>6, <1>5 DEF FrameSound, ReadSound
    <3> QED
      BY <3>1, <2>3 DEF ReadSound
  <2> QED
    BY <2>5, <2>6
<1> QED
  BY <1>2, <1>3, <1>4, <1>7, StepKeeps

\* The top is popped that evaluates nothing.
LEMMA QuietPop ==
    ASSUME IInv, frames # <<>>, ~Runs(Top), frames' = Front(frames),
           status' = status, early' = early, accessed' = accessed
    PROVE  IInv'
<1>1. frames \in Seq(Frame) /\ accessed \subseteq Node
  BY DEF IInv, TypeInv
<1>2. PICK n : n = Len(frames)
  OBVIOUS
<1>3. n \in Nat \ {0} /\ DOMAIN frames = 1..n /\ Top = frames[n] /\ n - 1 \in 0..n
  BY <1>1, <1>2, TopIs
<1>4. FramesKept(n - 1) /\ Len(frames') = n - 1 /\ \A i \in 1..(n - 1) : frames'[i] = frames[i]
  BY <1>1, <1>2, <1>3, FrontIs, Popped
<1>5. NewKept(n - 1) /\ Len(frames') # n - 1 + 1
  BY <1>3, <1>4 DEF NewKept
<1>6. \A j \in DOMAIN frames : Runs(frames[j]) => j \in 1..(n - 1)
  BY <1>3
<1>7. status[Entry] # "linked"
  BY DEF IInv, ModulesSound
<1>8. n - 1 > 0 => frames'[n - 1] = frames[n - 1]
  BY <1>3, <1>4
<1> QED
  BY <1>1, <1>2, <1>3, <1>4, <1>5, <1>6, <1>7, <1>8, QuietKeeps

\* A frame that evaluates nothing is pushed.
LEMMA QuietPush ==
    ASSUME IInv, NEW rest \in Seq(Frame), Len(rest) = Len(frames),
           NEW n, n = Len(frames),
           \A i \in 1..n : i < n => rest[i] = frames[i],
           n > 0 => /\ rest[n].at = frames[n].at /\ rest[n].of = frames[n].of
                    /\ rest[n].todo = frames[n].todo /\ rest[n].holds = frames[n].holds,
           NEW g \in Frame, frames' = Append(rest, g),
           g.at \in {"preevaluation", "access", "job"}, ~g.holds,
           g.at = "preevaluation" => g.todo \subseteq Async
                                     /\ \A i \in 1..n : frames[i].of = g.of =>
                                           frames[i].at # "preevaluation",
           status' = status, early' = early, accessed' = accessed, status[Entry] # "linked"
    PROVE  IInv'
<1>1. frames \in Seq(Frame) /\ accessed \subseteq Node
  BY DEF IInv, TypeInv
<1>2. n \in Nat /\ DOMAIN frames = 1..n /\ n \in 0..Len(frames)
  BY <1>1
<1>3. FramesKept(n) /\ \A i \in 1..n : frames'[i] = rest[i]
  BY <1>1, KeptIs
<1>4. Len(frames') = n + 1 /\ frames'[n + 1] = g /\ ~Runs(g)
  BY Pushed DEF Runs
<1>5. FrameSound(n + 1, frames[n + 1])'
  BY <1>4 DEF FrameSound
<1>6. NewKept(n)
  BY <1>4, <1>5 DEF NewKept
<1>7. n > 0 => /\ frames'[n].todo = frames[n].todo /\ frames'[n].holds = frames[n].holds
  BY <1>2, <1>3
<1> QED
  BY <1>1, <1>2, <1>3, <1>4, <1>6, <1>7, QuietKeeps

\* The top changes what it has still to do, or takes or leaves the lock.
LEMMA QuietReplace ==
    ASSUME IInv, frames # <<>>, NEW f \in Frame, frames' = ReplaceTop(f),
           f.at = Top.at, f.of = Top.of, f.todo \subseteq Top.todo,
           Top.at = "evaluate" => f.todo = Top.todo,
           Top.at = "access" /\ f.holds => status[Top.of] \in Ends,
           status' = status, early' = early, accessed \subseteq accessed', accessed' \subseteq Node
    PROVE  IInv'
<1>1. frames \in Seq(Frame)
  BY DEF IInv, TypeInv
<1>2. PICK n, rest : n = Len(frames) /\ rest = ReplaceTop(f)
  OBVIOUS
<1>3. n \in Nat \ {0} /\ DOMAIN frames = 1..n /\ Top = frames[n] /\ n \in 0..n
  BY <1>1, <1>2, TopIs
<1>4. /\ rest \in Seq(Frame) /\ Len(rest) = n /\ rest[n] = f
      /\ \A i \in 1..n : i < n => rest[i] = frames[i]
  BY <1>1, <1>2, ReplacedIs
<1>5. FramesKept(n) /\ \A i \in 1..n : frames'[i] = rest[i]
  BY <1>1, <1>2, <1>3, <1>4, KeptIs
<1>6. Len(frames') = n /\ n # n + 1
  BY <1>2, <1>3, <1>4
<1>7. NewKept(n)
  BY <1>6 DEF NewKept
<1>8. status[Entry] # "linked"
  BY DEF IInv, ModulesSound
<1>9. frames'[n] = f
  BY <1>3, <1>4, <1>5
<1> QED
  BY <1>2, <1>3, <1>5, <1>6, <1>7, <1>8, <1>9, QuietKeeps

-----------------------------------------------------------------------------
(* The steps that evaluate nothing.                                        *)

\* The dependencies of a wrapper make a frame.
LEMMA PreevaluationIs ==
    ASSUME NEW m \in Module
    PROVE  LET f == Preevaluation(m)
           IN  f \in Frame /\ f.at = "preevaluation" /\ f.of = m /\ f.todo \subseteq Async /\ ~f.holds
<1>1. ToPreevaluate(m) \subseteq Async /\ ToPreevaluate(m) \subseteq Node /\ m \in Node
  BY GraphIs DEF ToPreevaluate
<1> QED
  BY <1>1 DEF Preevaluation, NewFrame, Frame

\* A frame evaluates or does not.
LEMMA TopRuns ==
    ASSUME IInv, frames # <<>>
    PROVE  /\ frames \in Seq(Frame) /\ Len(frames) \in DOMAIN frames /\ Top = frames[Len(frames)]
           /\ Len(frames) \in Nat \ {0} /\ DOMAIN frames = 1..Len(frames)
           /\ Top \in Frame /\ Top.of \in Node
           /\ FrameSound(Len(frames), Top)
           /\ status[Entry] # "linked"
BY TopIs DEF IInv, TypeInv, FramesSound, ModulesSound

\* A job begins.
LEMMA RunJobKeeps == ASSUME IInv, RunJob PROVE IInv'
<1>1. frames \in Seq(Frame) /\ status[Entry] # "linked"
  BY DEF IInv, TypeInv, ModulesSound, RunJob, RunsJobs, IsAt
<1>2. PICK g : g = NewFrame("job", Entry, {}, {})
  OBVIOUS
<1>3. g \in Frame /\ g.at = "job" /\ ~g.holds
  BY <1>2, GraphIs, NewFrameIs
<1>4. frames' = Append(frames, g) /\ status' = status /\ early' = early /\ accessed' = accessed
  BY <1>2 DEF RunJob, Push
<1> QED
  BY <1>1, <1>3, <1>4, QuietPush

\* A read begins.
LEMMA AccessKeeps == ASSUME IInv, NEW m \in Module, Access(m) PROVE IInv'
<1>1. frames \in Seq(Frame) /\ status[Entry] # "linked"
  BY DEF IInv, TypeInv, ModulesSound, Access, RunsCode
<1>2. PICK g : g = NewFrame("access", m, {}, {})
  OBVIOUS
<1>3. g \in Frame /\ g.at = "access" /\ ~g.holds
  BY <1>2, GraphIs, NewFrameIs
<1>4. frames' = Append(frames, g) /\ status' = status /\ early' = early /\ accessed' = accessed
  BY <1>2 DEF Access, Push
<1> QED
  BY <1>1, <1>3, <1>4, QuietPush

\* A job, a pre-evaluation or a read ends, or a read is refused.
LEMMA PopKeeps ==
    ASSUME IInv, JobEnds \/ PreevaluationEnds \/ AccessFails \/ AccessEnds
    PROVE  IInv'
<1>1. frames # <<>> /\ Top.at \in {"job", "preevaluation", "access"}
  BY DEF JobEnds, PreevaluationEnds, AccessFails, AccessEnds, IsAt
<1>2. ~Runs(Top)
  BY <1>1 DEF Runs
<1>3. frames' = Front(frames) /\ status' = status /\ early' = early /\ accessed' = accessed
  BY DEF JobEnds, PreevaluationEnds, AccessFails, AccessEnds
<1> QED
  BY <1>1, <1>2, <1>3, QuietPop

\* A wrapper is handed out.
LEMMA WrappedKeeps ==
    ASSUME IInv, frames' = frames, status' = status, early' = early, accessed' = accessed
    PROVE  IInv'
<1>1. Walked' = Walked
  BY DEF Walked
<1>2. \A S \in SUBSET Node : Pending(S)' = Pending(S)
  BY <1>1 DEF Pending
<1>3. frames \in Seq(Frame)
  BY DEF IInv, TypeInv
<1>4. Advances /\ FramesKept(Len(frames)) /\ NewKept(Len(frames)) /\ Len(frames') # Len(frames) + 1
  BY <1>3 DEF Advances, FramesKept, NewKept, IInv, TypeInv
<1>5. CASE frames = <<>>
  <2>1. DOMAIN frames = {} /\ DOMAIN frames' = {}
    BY <1>5
  <2>2. FramesSound' /\ Once' /\ PreevaluatedOnce'
    BY <2>1 DEF FramesSound, Once, PreevaluatedOnce
  <2>3. TypeInv' /\ ModulesSound' /\ LazyUntilRead'
    BY DEF IInv, TypeInv, ModulesSound, LazyUntilRead, Done
  <2> QED
    BY <2>2, <2>3 DEF IInv
<1>6. CASE frames # <<>>
  <2>1. status[Entry] # "linked" /\ Len(frames) \in Nat /\ DOMAIN frames = 1..Len(frames)
        /\ accessed \subseteq Node
    BY <1>6, TopRuns DEF IInv, TypeInv
  <2>2. Len(frames) \in 0..Len(frames)
    BY <2>1
  <2> QED
    BY <1>4, <2>1, <2>2, QuietKeeps
<1> QED
  BY <1>5, <1>6

\* Pre-evaluation of a wrapper that is not being pre-evaluated.
LEMMA PreevaluationKeeps ==
    ASSUME IInv, NEW m \in Module, NEW rest \in Seq(Frame), Len(rest) = Len(frames),
           NEW n, n = Len(frames), n > 0,
           \A i \in 1..n : i < n => rest[i] = frames[i],
           /\ rest[n].at = frames[n].at /\ rest[n].of = frames[n].of
           /\ rest[n].todo = frames[n].todo /\ rest[n].holds = frames[n].holds,
           Enters(m), frames' = Append(rest, Preevaluation(m)),
           status' = status, early' = early, accessed' = accessed
    PROVE  IInv'
<1>1. frames \in Seq(Frame) /\ frames # <<>>
  BY DEF IInv, TypeInv
<1>2. status[Entry] # "linked" /\ DOMAIN frames = 1..n
  BY <1>1, TopRuns
<1>3. PICK g : g = Preevaluation(m)
  OBVIOUS
<1>4. g \in Frame /\ g.at = "preevaluation" /\ g.of = m /\ g.todo \subseteq Async /\ ~g.holds
  BY <1>3, PreevaluationIs
<1>5. \A i \in 1..n : frames[i].of = g.of => frames[i].at # "preevaluation"
  BY <1>2, <1>4 DEF Enters
<1>6. g.at \in {"preevaluation", "access", "job"}
  BY <1>4
<1>7. frames' = Append(rest, g)
  BY <1>3
<1> QED
  BY ONLY IInv, rest \in Seq(Frame), Len(rest) = Len(frames), n = Len(frames),
          \A i \in 1..n : i < n => rest[i] = frames[i],
          /\ rest[n].at = frames[n].at /\ rest[n].of = frames[n].of
          /\ rest[n].todo = frames[n].todo /\ rest[n].holds = frames[n].holds,
          status' = status, early' = early, accessed' = accessed,
          <1>2, <1>4, <1>5, <1>6, <1>7, QuietPush

\* The evaluation of an importer makes the namespace of a module it defers.
LEMMA MakeNamespaceKeeps == ASSUME IInv, NEW m \in Module, MakeNamespace(m) PROVE IInv'
<1>1. frames # <<>> /\ Top.at = "evaluate"
  BY DEF MakeNamespace, IsAt
<1>2. /\ frames \in Seq(Frame) /\ Len(frames) \in Nat \ {0} /\ Top = frames[Len(frames)]
      /\ Top \in Frame
  BY <1>1, TopRuns
<1>3. PICK f, rest, n : /\ f = [Top EXCEPT !.make = @ \ {m}] /\ rest = ReplaceTop(f)
                        /\ n = Len(frames)
  OBVIOUS
<1>4. /\ f \in Frame /\ f.at = Top.at /\ f.of = Top.of /\ f.todo = Top.todo /\ f.holds = Top.holds
  BY <1>2, <1>3 DEF Frame
<1>5. /\ rest \in Seq(Frame) /\ Len(rest) = n /\ rest[n] = f
      /\ \A i \in 1..n : i < n => rest[i] = frames[i]
  <2>1. f \in Frame /\ frames \in Seq(Frame) /\ rest = ReplaceTop(f) /\ n = Len(frames)
    BY <1>2, <1>3, <1>4
  <2> QED
    BY ONLY <1>1, <2>1, ReplacedIs
<1>6. status' = status /\ early' = early /\ accessed' = accessed /\ accessed \subseteq Node
  BY DEF MakeNamespace, IInv, TypeInv
<1>7. CASE frames' = rest
  BY <1>1, <1>3, <1>4, <1>6, <1>7, QuietReplace
<1>8. CASE Enters(m) /\ frames' = Append(rest, Preevaluation(m))
  <2>1. /\ rest[n].at = frames[n].at /\ rest[n].of = frames[n].of
        /\ rest[n].todo = frames[n].todo /\ rest[n].holds = frames[n].holds
    BY <1>2, <1>3, <1>4, <1>5
  <2> QED
    <3>1. n = Len(frames) /\ n > 0
      BY <1>2, <1>3
    <3> QED
      BY ONLY IInv, m \in Module, <3>1, <1>5, <1>6, <1>8, <2>1, PreevaluationKeeps
<1> QED
  BY <1>3, <1>7, <1>8 DEF MakeNamespace, Push

\* Code calls import.defer().
LEMMA ImportDeferKeeps == ASSUME IInv, NEW m \in Module, ImportDefer(m) PROVE IInv'
<1>1. frames # <<>> /\ status' = status /\ early' = early /\ accessed' = accessed
  BY DEF ImportDefer, RunsCode
<1>2. frames \in Seq(Frame) /\ Len(frames) \in Nat \ {0}
  BY <1>1, TopRuns
<1>3. CASE Enters(m) /\ frames' = Append(frames, Preevaluation(m))
  <2>1. PICK n : n = Len(frames) /\ n > 0
    BY <1>2
  <2> QED
    BY <1>1, <1>2, <1>3, <2>1, PreevaluationKeeps
<1>4. CASE frames' = frames
  BY <1>1, <1>4, WrappedKeeps
<1> QED
  BY <1>3, <1>4 DEF ImportDefer, Push

\* The evaluation of a dependency is over, and the lock is given back.
LEMMA PreevaluatedKeeps == ASSUME IInv, Preevaluated PROVE IInv'
<1>1. frames # <<>> /\ Top.at = "preevaluation"
  BY DEF Preevaluated, IsAt
<1>2. Top \in Frame
  BY <1>1, TopRuns
<1>3. PICK f : f = [Top EXCEPT !.holds = FALSE]
  OBVIOUS
<1>4. f \in Frame /\ f.at = Top.at /\ f.of = Top.of /\ f.todo = Top.todo
  BY <1>2, <1>3 DEF Frame
<1>5. /\ frames' = ReplaceTop(f) /\ status' = status /\ early' = early /\ accessed' = accessed
      /\ accessed \subseteq Node
  BY <1>3 DEF Preevaluated, IInv, TypeInv
<1> QED
  BY <1>1, <1>4, <1>5, QuietReplace

-----------------------------------------------------------------------------
(* The steps that begin an evaluation.                                     *)

\* A module that is linked is evaluated: it is new to the stack, its imports
\* are clear, and none of them is under evaluation.
LEMMA EvaluateKeeps ==
    ASSUME IInv, NEW m \in Node, status[m] = "linked",
           NEW rest \in Seq(Frame), Len(rest) = Len(frames),
           NEW n, n = Len(frames),
           \A i \in 1..n : i < n => rest[i] = frames[i],
           n > 0 => /\ rest[n].at = frames[n].at /\ rest[n].of = frames[n].of
                    /\ rest[n].todo \subseteq frames[n].todo,
           n > 0 /\ rest[n].at = "evaluate" => m \notin Async /\ frames[n].todo \subseteq rest[n].todo \cup {m},
           n > 0 /\ rest[n].at = "access" => rest[n].of = m /\ m \notin Async,
           frames' = Append(rest, NewFrame("evaluate", m, Eager[m], Deferred[m])),
           status' = [status EXCEPT ![m] = "evaluating"],
           n > 0 \/ m = Entry,
           \A y \in Eager[m] : Clear(y),
           m \notin ReachedFrom(Async) =>
              \A y \in Eager[m] : \A z \in Pending({y}) : status[z] # "evaluating",
           early' = early, accessed \subseteq accessed', accessed' \subseteq Node,
           m \in Module \ Async => m \in ReachedFrom(Eager[Entry] \cup Async \cup accessed')
    PROVE  IInv'
<1>1. /\ frames \in Seq(Frame) /\ n \in Nat /\ DOMAIN frames = 1..n /\ n \in 0..Len(frames)
      /\ \A i \in DOMAIN frames : frames[i] \in Frame /\ frames[i].of \in Node
      /\ status \in [Node -> Statuses] /\ early \subseteq Node
  BY FramesAre DEF IInv, TypeInv
<1>2. PICK g : g = NewFrame("evaluate", m, Eager[m], Deferred[m])
  OBVIOUS
<1>3. g \in Frame /\ g.at = "evaluate" /\ g.of = m /\ g.todo = Eager[m] /\ Runs(g)
  BY <1>2, GraphIs, NewFrameIs DEF Runs
<1>4. FramesKept(n) /\ \A i \in 1..n : frames'[i] = rest[i]
  <2>1. \E h \in Frame : frames' = Append(rest, h)
    BY <1>2, <1>3
  <2> QED
    BY ONLY <1>1, <2>1, rest \in Seq(Frame), Len(rest) = Len(frames), n = Len(frames),
            \A i \in 1..n : i < n => rest[i] = frames[i],
            n > 0 => /\ rest[n].at = frames[n].at /\ rest[n].of = frames[n].of
                     /\ rest[n].todo \subseteq frames[n].todo,
            KeptIs
<1>5. /\ frames' \in Seq(Frame) /\ Len(frames') = n + 1 /\ frames'[n + 1] = g
      /\ n + 1 \in DOMAIN frames' /\ n + 2 \notin DOMAIN frames'
  <2>1. frames' \in Seq(Frame) /\ Len(frames') = n + 1 /\ frames'[n + 1] = g
    BY <1>2, <1>3, Pushed
  <2> QED
    BY <2>1, <1>1
<1>6. \A z \in Node : z # m => status'[z] = status[z]
  BY <1>1
<1>7. status'[m] = "evaluating"
  BY <1>1
<1>8. Advances
  BY <1>1, <1>6, <1>7 DEF Advances, Statuses, Ends
<1>9. \A y \in Node : Runner(n + 1, y)' <=> y = m
  BY <1>3, <1>5 DEF Runner
<1>10. \A i \in DOMAIN frames : Runs(frames[i]) => frames[i].of # m
  <2>1. \A i \in DOMAIN frames : Runs(frames[i]) => status[frames[i].of] \in {"evaluating", "async"}
    BY RunsIs DEF IInv
  <2> QED
    BY <2>1
<1>11. StatusKept(n)
  BY <1>1, <1>6, <1>7, <1>9, <1>10 DEF StatusKept
<1>12. ModulesKept
  <2>1. status'[Entry] # "linked"
    <3>1. n > 0 => status[Entry] # "linked"
      BY <1>1 DEF IInv, ModulesSound
    <3> QED
      BY <3>1, <1>6, <1>7, GraphIs
  <2>2. early' \subseteq ReachedFrom(Async)
    BY DEF IInv, ModulesSound
  <2>3. \A x \in Node : status'[x] = "async" => x \in Async
    BY <1>6, <1>7 DEF IInv, ModulesSound
  <2>4. \A x \in Node : status'[x] \in {"async", "evaluated"} => status[x] \in {"async", "evaluated"}
    BY <1>6, <1>7
  <2>5. \A x \in Module \ Async : status'[x] # "linked" =>
          \/ status[x] # "linked"
          \/ x \in ReachedFrom(Eager[Entry] \cup Async \cup accessed')
    BY <1>6, GraphIs
  <2> QED
    BY <2>1, <2>2, <2>3, <2>4, <2>5 DEF ModulesKept
<1>13. TopKept(n)
  <2>1. SUFFICES ASSUME n > 0
                 PROVE  /\ frames'[n].at = "evaluate" => ImportsSound(n, frames[n])'
                        /\ frames'[n].at = "access" /\ frames'[n].holds => ReadSound(n, frames[n])'
    BY DEF TopKept
  <2>2. n \in 1..n /\ n \in DOMAIN frames /\ n + 1 \notin DOMAIN frames
    BY <2>1, <1>1
  <2>3. /\ frames'[n] = rest[n] /\ rest[n].at = frames[n].at /\ rest[n].of = frames[n].of
        /\ FrameSound(n, frames[n]) /\ frames[n].of \in Node
    BY <2>1, <2>2, <1>1, <1>4 DEF IInv, FramesSound
  <2>4. ASSUME frames'[n].at = "evaluate" PROVE ImportsSound(n, frames[n])'
    <3>1. ImportsSound(n, frames[n])
      BY <2>3, <2>4 DEF FrameSound, WalkSound
    <3>2. m \notin Async /\ frames[n].todo \subseteq rest[n].todo \cup {m}
      BY <2>1, <2>3, <2>4
    <3>3. \A y \in Node : Runner(n + 1, y)' => status'[y] = "evaluating" /\ y \notin Async
      BY <3>2, <1>9, <1>7
    <3>4. \A y \in Node : ~Runner(n + 1, y)
      BY <2>2 DEF Runner
    <3>5. Eager[frames[n].of] \subseteq Node
      BY <2>3, GraphIs
    <3>6. ASSUME frames[n].of \notin early, NEW y \in Eager[frames[n].of] \ rest[n].todo
          PROVE  status'[y] = "evaluated" \/ Runner(n + 1, y)'
      <4>1. CASE y = m
        BY <4>1, <1>9
      <4>2. CASE y # m
        <5>1. y \in Eager[frames[n].of] \ frames[n].todo /\ y \in Node
          BY <3>2, <3>5, <3>6, <4>2
        <5> QED
          BY <5>1, <3>1, <3>4, <3>6, <4>2, <1>6 DEF ImportsSound
      <4> QED
        BY <4>1, <4>2
    <3> QED
      BY <2>3, <3>3, <3>6 DEF ImportsSound
  <2>5. ASSUME frames'[n].at = "access" PROVE ReadSound(n, frames[n])'
    <3>1. rest[n].of = m /\ m \notin Async
      BY <2>1, <2>3, <2>5
    <3> QED
      BY <3>1, <2>3, <1>7, <1>9 DEF ReadSound
  <2> QED
    BY <2>4, <2>5
<1>14. FrameSound(n + 1, frames[n + 1])'
  <2>1. m \notin ReachedFrom(Eager[m]) /\ Eager[m] \subseteq Node
    BY GraphIs
  <2>2. \A y \in Eager[m] : Clear(y)'
    BY <1>8, <2>1, ClearStays
  <2>3. ASSUME m \notin ReachedFrom(Async), NEW y \in Eager[m], NEW z \in Pending({y})'
        PROVE  status'[z] # "evaluating"
    <3>1. z \in Pending({y}) /\ z \in ReachedFrom({y}) /\ z \in Node
      BY <1>8, <2>1, <2>3, PendingShrinks, PendingReached, PendingIs
    <3>2. {y} \subseteq ReachedFrom(Eager[m])
      BY <2>1, ReachIs
    <3>3. z # m
      BY <2>1, <3>1, <3>2, ReachGrows
    <3> QED
      BY <2>3, <3>1, <3>3, <1>6
  <2>4. m \notin ReachedFrom(Async) => \A y \in Eager[m] : Unmet(n + 1, y)'
    BY <2>3 DEF Unmet
  <2>5. \A y \in Node : ~Runner(n + 1 + 1, y)'
    <3>1. n + 1 + 1 = n + 2
      BY <1>1
    <3> QED
      BY <3>1, <1>5 DEF Runner
  <2>6. ImportsSound(n + 1, frames[n + 1])'
    BY <2>5, <1>3, <1>5 DEF ImportsSound
  <2>7. WalkSound(n + 1, frames[n + 1])'
    BY <2>2, <2>4, <2>6, <1>3, <1>5, <1>7 DEF WalkSound
  <2> QED
    BY <2>7, <1>3, <1>5 DEF FrameSound
<1>15. NewKept(n)
  BY <1>1, <1>3, <1>5, <1>10, <1>14 DEF NewKept
<1> QED
  BY <1>1, <1>4, <1>8, <1>11, <1>12, <1>13, <1>15, StepKeeps

\* A module that is asked whether it is ready: what it says of the walk.
LEMMA ReadyIs ==
    ASSUME IInv, NEW m \in Node, Ready(m)
    PROVE  /\ m \in Pending({m}) /\ Clear(m)
           /\ status[m] # "linked" => status[m] \in Ends
           /\ status[m] = "linked" => m \notin Async
           /\ \A z \in Pending({m}) : status[z] # "evaluating"
<1>1. m \in Pending({m}) /\ Pending({m}) \subseteq Node
  BY PendingIs
<1>2. status \in [Node -> Statuses]
  BY DEF IInv, TypeInv
<1> QED
  BY <1>1, <1>2 DEF Ready, Clear, Statuses, Ends

\* The imports of a module that is walked through are as clear as it is.
LEMMA ImportsClear ==
    ASSUME NEW m \in Node, m \in Walked, Clear(m), NEW y \in Eager[m]
    PROVE  Clear(y) /\ Pending({y}) \subseteq Pending({m})
BY PendingImport DEF Clear

\* Those of the entry and of an asynchronous module are.
LEMMA AsyncClear ==
    ASSUME NEW m \in Async \cup {Entry}, NEW y \in Eager[m]
    PROVE  Clear(y)
<1>1. m \in Node /\ Eager[m] \subseteq Node /\ ReachedFrom(Eager[m]) \cap Async = {}
  BY GraphIs
<1>2. {y} \in SUBSET Node /\ {y} \subseteq ReachedFrom(Eager[m])
  BY <1>1, ReachIs
<1>3. Pending({y}) \subseteq ReachedFrom(Eager[m])
  <2>1. ReachedFrom({y}) \subseteq ReachedFrom(Eager[m])
    BY <1>1, <1>2, ReachGrows
  <2> QED
    BY <2>1, <1>2, PendingReached
<1> QED
  BY <1>1, <1>3 DEF Clear

\* The engine evaluates the entry.
LEMMA EvaluateEntryKeeps == ASSUME IInv, EvaluateEntry PROVE IInv'
<1>1. /\ frames = <<>> /\ status[Entry] = "linked" /\ \A m \in Node : status[m] = "linked"
      /\ frames' = Append(frames, NewFrame("evaluate", Entry, Eager[Entry], Deferred[Entry]))
      /\ status' = [status EXCEPT ![Entry] = "evaluating"]
      /\ early' = early /\ accessed' = accessed /\ accessed \subseteq Node
  BY DEF EvaluateEntry, Evaluate, Push, IInv, TypeInv, ModulesSound
<1>2. frames \in Seq(Frame) /\ Len(frames) = 0 /\ ~(0 > 0)
  BY <1>1
<1>3. \A y \in Eager[Entry] : Clear(y)
  BY AsyncClear
<1>4. \A y \in Eager[Entry] : \A z \in Pending({y}) : status[z] # "evaluating"
  <2>1. ASSUME NEW y \in Eager[Entry] PROVE Pending({y}) \subseteq Node
    BY GraphIs, PendingIs
  <2> QED
    BY <2>1, <1>1
<1>5. PICK n : n = Len(frames) /\ ~(n > 0) /\ n \in Nat
  BY <1>2
<1>6. Entry \in Node /\ Entry \notin Module
  BY GraphIs
<1>7. \A i \in 1..n : i < n => frames[i] = frames[i]
  OBVIOUS
<1> QED
  BY ONLY IInv, <1>1, <1>2, <1>3, <1>4, <1>5, <1>6, <1>7, EvaluateKeeps

\* The walk of an evaluation comes to an import.
LEMMA EvaluateImportKeeps ==
    ASSUME IInv, NEW m \in Node, EvaluateImport(m), status[m] # "failed"
    PROVE  IInv'
<1>1. frames # <<>> /\ Top.at = "evaluate" /\ m \in Top.todo
  BY DEF EvaluateImport, IsAt
<1>2. PICK f, rest, n : /\ f = [Top EXCEPT !.todo = @ \ {m}] /\ rest = ReplaceTop(f)
                        /\ n = Len(frames)
  OBVIOUS
<1>3. /\ frames \in Seq(Frame) /\ n \in Nat \ {0} /\ DOMAIN frames = 1..n /\ Top = frames[n]
      /\ Top \in Frame /\ Top.of \in Node /\ FrameSound(n, Top) /\ status[Entry] # "linked"
  BY <1>1, <1>2, TopRuns
<1>4. f \in Frame /\ f.at = "evaluate" /\ f.of = Top.of /\ f.todo = Top.todo \ {m}
  BY <1>1, <1>2, <1>3 DEF Frame
<1>5. /\ rest \in Seq(Frame) /\ Len(rest) = Len(frames) /\ rest[n] = f
      /\ \A i \in 1..n : i < n => rest[i] = frames[i]
  <2>1. f \in Frame /\ frames \in Seq(Frame) /\ rest = ReplaceTop(f) /\ n = Len(frames)
    BY <1>2, <1>3, <1>4
  <2> QED
    BY ONLY <1>1, <2>1, ReplacedIs
<1>6. WalkSound(n, Top)
  BY <1>1, <1>3 DEF FrameSound
<1>7. /\ Clear(m) /\ status[Top.of] = "evaluating" /\ m \in Eager[Top.of]
      /\ Top.of \notin ReachedFrom(Async) => Unmet(n, m)
  BY <1>1, <1>6 DEF WalkSound
<1>8. \A z \in Node : \A j \in DOMAIN frames : ~(j > n)
  BY <1>3
<1>9. ASSUME NEW z \in Pending({m}), status[z] = "evaluating" PROVE Top.of \in ReachedFrom(Async)
  BY <1>7, <1>8, <1>9, PendingIs DEF Unmet
<1>10. m \in Pending({m}) /\ Async \in SUBSET Node /\ Eager[Top.of] \subseteq Node
  BY <1>3, PendingIs, GraphIs
<1>11. accessed' = accessed /\ accessed \subseteq Node /\ status \in [Node -> Statuses]
  BY DEF EvaluateImport, IInv, TypeInv
<1>12. /\ rest[n].at = frames[n].at /\ rest[n].of = frames[n].of
       /\ rest[n].todo \subseteq frames[n].todo
       /\ frames[n].todo \subseteq rest[n].todo \cup {m}
       /\ rest[n].at = "evaluate"
  BY <1>1, <1>3, <1>4, <1>5
<1>13. CASE status[m] = "linked"
  <2>1. /\ frames' = Append(rest, NewFrame("evaluate", m, Eager[m], Deferred[m]))
        /\ status' = [status EXCEPT ![m] = "evaluating"] /\ early' = early
    BY <1>2, <1>13 DEF EvaluateImport, Evaluate, Push
  <2>2. m \notin Async
    BY <1>7, <1>10, <1>13 DEF Clear, Ends
  <2>3. m \in Walked
    BY <1>13, <2>2 DEF Walked
  <2>4. \A y \in Eager[m] : Clear(y) /\ Pending({y}) \subseteq Pending({m})
    BY <1>7, <2>3, ImportsClear
  <2>5. m \notin ReachedFrom(Async) => Top.of \notin ReachedFrom(Async)
    BY <1>7, <1>10, ReachIs
  <2>6. m \notin ReachedFrom(Async) =>
           \A y \in Eager[m] : \A z \in Pending({y}) : status[z] # "evaluating"
    BY <1>9, <2>4, <2>5
  <2>7. m \in Module \ Async => m \in ReachedFrom(Eager[Entry] \cup Async \cup accessed')
    <3>1. PICK R \in SUBSET Node : R = Eager[Entry] \cup Async \cup accessed
      BY <1>11, GraphIs
    <3>2. R \subseteq ReachedFrom(R) /\ \A x \in ReachedFrom(R) : Eager[x] \subseteq ReachedFrom(R)
      BY ReachIs
    <3>3. Top.of = Entry \/ Top.of \in ReachedFrom(R)
      <4>1. CASE Top.of \in Module \ Async
        BY <4>1, <1>7, <3>1 DEF IInv, LazyUntilRead
      <4> QED
        BY <4>1, <1>3, <3>1, <3>2 DEF Node
    <3> QED
      BY <1>7, <1>11, <3>1, <3>2, <3>3
  <2>8. n > 0 /\ n = Len(frames)
    BY <1>2, <1>3
  <2>9. accessed \subseteq accessed' /\ accessed' \subseteq Node
    BY <1>11
  <2>10. ~(rest[n].at = "access")
    BY <1>12
  <2>11. \A y \in Eager[m] : Clear(y)
    BY <2>4
  <2> QED
    BY ONLY IInv, m \in Node, <1>5, <1>12, <1>13, <2>1, <2>2, <2>6, <2>7, <2>8, <2>9, <2>10, <2>11,
            EvaluateKeeps
<1>14. CASE status[m] # "linked"
  <2>1. /\ frames' = rest /\ status' = status
        /\ early' = IF status[m] = "evaluating" THEN early \cup {Top.of} ELSE early
    BY <1>2, <1>14 DEF EvaluateImport
  <2>2. Len(frames') # n + 1 /\ n \in 0..Len(frames)
    <3>1. Len(frames') = n /\ n = Len(frames)
      BY <1>2, <1>5, <2>1
    <3>2. n # n + 1 /\ n \in 0..n
      BY <1>3
    <3> QED
      BY <3>1, <3>2
  <2>3. FramesKept(n) /\ \A i \in 1..n : frames'[i] = rest[i]
    BY ONLY <1>2, <1>3, <1>5, <1>12, <2>1, KeptIs
  <2>4. Advances
    BY <1>11, <2>1 DEF Advances
  <2>5. StatusKept(n)
    BY <1>3, <2>1 DEF StatusKept, Runner
  <2>6. NewKept(n)
    BY <2>2 DEF NewKept
  <2>7. ModulesKept
    <3>1. status[m] = "evaluating" => Top.of \in ReachedFrom(Async)
      BY <1>9, <1>10
    <3> QED
      BY <2>1, <3>1, <1>3, <1>11 DEF ModulesKept, IInv, ModulesSound
  <2>8. TopKept(n)
    <3>1. \A y \in Node : ~Runner(n + 1, y) /\ ~Runner(n + 1, y)'
      <4>1. n + 1 \notin DOMAIN frames
        BY <1>3
      <4>2. n + 1 \notin DOMAIN frames'
        BY <2>1, <1>2, <1>3, <1>5
      <4> QED
        BY <4>1, <4>2 DEF Runner
    <3>2. frames'[n] = f
      BY <1>3, <1>5, <2>1
    <3>3. ASSUME Top.of \notin early', NEW y \in Eager[Top.of] \ f.todo PROVE status'[y] = "evaluated"
      <4>1. Top.of \notin early /\ status[m] # "evaluating"
        BY <2>1, <3>3
      <4>2. CASE y = m
        <5>1. status[m] # "async"
          BY <1>7, <1>10 DEF Clear, Ends, IInv, ModulesSound
        <5> QED
          BY <4>1, <4>2, <5>1, <1>11, <1>14, <2>1 DEF Statuses
      <4>3. CASE y # m
        <5>1. y \in Eager[Top.of] \ Top.todo /\ y \in Node
          BY <4>3, <3>3, <1>4, <1>10
        <5> QED
          BY <5>1, <4>1, <1>6, <2>1, <3>1 DEF WalkSound, ImportsSound
      <4> QED
        BY <4>2, <4>3
    <3>4. ImportsSound(n, frames[n])'
      BY <3>1, <3>2, <3>3, <1>4 DEF ImportsSound
    <3> QED
      BY <3>2, <3>4, <1>4 DEF TopKept
  <2> QED
    BY <2>2, <2>3, <2>4, <2>5, <2>6, <2>7, <2>8, StepKeeps
<1> QED
  BY <1>13, <1>14

\* A dependency of a wrapper is evaluated, in catch_silent_panic.
LEMMA PreevaluateKeeps == ASSUME IInv, NEW t \in Module, Preevaluate(t) PROVE IInv'
<1>1. frames # <<>> /\ Top.at = "preevaluation" /\ t \in Top.todo
  BY DEF Preevaluate, IsAt
<1>2. /\ frames \in Seq(Frame) /\ Len(frames) \in Nat \ {0} /\ Top = frames[Len(frames)]
      /\ Top \in Frame /\ FrameSound(Len(frames), Top)
  BY <1>1, TopRuns
<1>3. t \in Async /\ t \in Node
  BY <1>1, <1>2, GraphIs DEF FrameSound
<1>4. early' = early /\ accessed' = accessed /\ accessed \subseteq Node
  BY DEF Preevaluate, IInv, TypeInv
<1>5. CASE status[t] = "linked"
  <2>1. PICK f, rest, n : /\ f = [Top EXCEPT !.todo = @ \ {t}, !.holds = TRUE]
                          /\ rest = ReplaceTop(f) /\ n = Len(frames)
    OBVIOUS
  <2>2. f \in Frame /\ f.at = "preevaluation" /\ f.of = Top.of /\ f.todo \subseteq Top.todo
    BY <1>1, <1>2, <2>1 DEF Frame
  <2>3. /\ rest \in Seq(Frame) /\ Len(rest) = Len(frames) /\ rest[n] = f
        /\ \A i \in 1..n : i < n => rest[i] = frames[i]
    BY ONLY <1>1, <1>2, <2>1, <2>2, ReplacedIs
  <2>4. /\ frames' = Append(rest, NewFrame("evaluate", t, Eager[t], Deferred[t]))
        /\ status' = [status EXCEPT ![t] = "evaluating"]
    BY <1>5, <2>1 DEF Preevaluate, Evaluate, Push
  <2>5. /\ rest[n].at = frames[n].at /\ rest[n].of = frames[n].of
        /\ rest[n].todo \subseteq frames[n].todo /\ n > 0 /\ n = Len(frames)
        /\ rest[n].at # "evaluate" /\ rest[n].at # "access"
    <3>1. n > 0 /\ n = Len(frames) /\ frames[n] = Top
      BY <1>2, <2>1
    <3>2. rest[n].at = "preevaluation" /\ rest[n].of = Top.of /\ rest[n].todo \subseteq Top.todo
      BY <2>2, <2>3
    <3> QED
      BY <1>1, <3>1, <3>2
  <2>6. \A y \in Eager[t] : Clear(y)
    BY <1>3, AsyncClear
  <2>7. ~(t \notin ReachedFrom(Async))
    BY <1>3, GraphIs, ReachIs
  <2> QED
    BY ONLY IInv, <1>3, <1>4, <1>5, <2>3, <2>4, <2>5, <2>6, <2>7, EvaluateKeeps
<1>6. CASE status[t] # "linked"
  <2>1. PICK f : f = [Top EXCEPT !.todo = @ \ {t}]
    OBVIOUS
  <2>2. f \in Frame /\ f.at = Top.at /\ f.of = Top.of /\ f.todo \subseteq Top.todo
    BY <1>1, <1>2, <2>1 DEF Frame
  <2>3. frames' = ReplaceTop(f) /\ status' = status
    BY <1>6, <2>1 DEF Preevaluate
  <2> QED
    BY <1>1, <1>4, <2>2, <2>3, QuietReplace
<1> QED
  BY <1>5, <1>6


\* The module of a namespace that is read is evaluated, if it is ready.
LEMMA AccessEvaluatesKeeps == ASSUME IInv, AccessEvaluates PROVE IInv'
<1>1. frames # <<>> /\ Top.at = "access" /\ Ready(Top.of)
  BY DEF AccessEvaluates, IsAt
<1>2. /\ frames \in Seq(Frame) /\ Len(frames) \in Nat \ {0} /\ Top = frames[Len(frames)]
      /\ Top \in Frame /\ Top.of \in Node
  BY <1>1, TopRuns
<1>3. PICK f, rest, n, m : /\ f = [Top EXCEPT !.holds = TRUE]
                           /\ rest = ReplaceTop(f) /\ n = Len(frames) /\ m = Top.of
  OBVIOUS
<1>4. f \in Frame /\ f.at = "access" /\ f.of = m /\ f.todo = Top.todo
  BY <1>1, <1>2, <1>3 DEF Frame
<1>5. /\ m \in Node /\ m \in Pending({m}) /\ Clear(m)
      /\ status[m] # "linked" => status[m] \in Ends
      /\ status[m] = "linked" => m \notin Async
      /\ \A z \in Pending({m}) : status[z] # "evaluating"
  BY <1>1, <1>2, <1>3, ReadyIs
<1>6. /\ early' = early /\ accessed' = accessed \cup {m}
      /\ accessed \subseteq accessed' /\ accessed' \subseteq Node
  BY <1>3, <1>5 DEF AccessEvaluates, IInv, TypeInv
<1>7. CASE status[m] = "linked"
  <2>1. /\ rest \in Seq(Frame) /\ Len(rest) = Len(frames) /\ rest[n] = f
        /\ \A i \in 1..n : i < n => rest[i] = frames[i]
    <3>1. f \in Frame /\ frames \in Seq(Frame) /\ frames # <<>> /\ rest = ReplaceTop(f) /\ n = Len(frames)
      BY <1>1, <1>2, <1>3, <1>4
    <3> QED
      BY ONLY <3>1, ReplacedIs
  <2>2. /\ frames' = Append(rest, NewFrame("evaluate", m, Eager[m], Deferred[m]))
        /\ status' = [status EXCEPT ![m] = "evaluating"]
    BY <1>3, <1>7 DEF AccessEvaluates, Evaluate, Push
  <2>3. /\ rest[n].at = frames[n].at /\ rest[n].of = frames[n].of
        /\ rest[n].todo \subseteq frames[n].todo /\ n > 0 /\ n = Len(frames)
        /\ rest[n].at # "evaluate" /\ rest[n].of = m /\ m \notin Async
    <3>1. n > 0 /\ n = Len(frames) /\ frames[n] = Top
      BY <1>2, <1>3
    <3>2. rest[n].at = "access" /\ rest[n].of = m /\ rest[n].todo = Top.todo
      BY <1>4, <2>1
    <3> QED
      BY <1>1, <1>3, <1>5, <1>7, <3>1, <3>2
  <2>4. m \in Walked
    BY <1>5, <1>7 DEF Walked
  <2>5. \A y \in Eager[m] : Clear(y) /\ Pending({y}) \subseteq Pending({m})
    BY <1>5, <2>4, ImportsClear
  <2>6. \A y \in Eager[m] : Clear(y)
    BY <2>5
  <2>7. \A y \in Eager[m] : \A z \in Pending({y}) : status[z] # "evaluating"
    BY <1>5, <2>5
  <2>8. m \in ReachedFrom(Eager[Entry] \cup Async \cup accessed')
    <3>1. PICK R \in SUBSET Node : R = Eager[Entry] \cup Async \cup accessed'
      BY <1>6, GraphIs
    <3> QED
      BY <1>6, <3>1, ReachIs
  <2> QED
    BY ONLY IInv, <1>5, <1>6, <1>7, <2>1, <2>2, <2>3, <2>6, <2>7, <2>8, EvaluateKeeps
<1>8. CASE status[m] # "linked"
  <2>1. frames' = ReplaceTop(f) /\ status' = status
    BY <1>3, <1>8 DEF AccessEvaluates
  <2>2. f.at = Top.at /\ f.of = Top.of /\ f.todo \subseteq Top.todo /\ Top.at # "evaluate"
        /\ status[Top.of] \in Ends
    BY <1>1, <1>3, <1>4, <1>5, <1>8
  <2> QED
    BY <1>1, <1>4, <1>6, <2>1, <2>2, QuietReplace
<1> QED
  BY <1>7, <1>8

-----------------------------------------------------------------------------
(* Bodies.                                                                 *)

\* A body takes the place of the walk over its imports.
LEMMA RunBodyKeeps == ASSUME IInv, RunBody PROVE IInv'
<1>1. frames # <<>> /\ Top.at = "evaluate" /\ Top.todo = {}
  BY DEF RunBody, IsAt
<1>2. PICK n, g : n = Len(frames) /\ g = NewFrame("code", Top.of, {}, {})
  OBVIOUS
<1>3. /\ frames \in Seq(Frame) /\ n \in Nat \ {0} /\ DOMAIN frames = 1..n /\ Top = frames[n]
      /\ Top \in Frame /\ Top.of \in Node /\ FrameSound(n, Top) /\ status[Entry] # "linked"
      /\ n - 1 \in 0..Len(frames) /\ n - 1 + 1 = n
  BY <1>1, <1>2, TopRuns
<1>4. g \in Frame /\ g.at = "code" /\ g.of = Top.of /\ Runs(g) /\ Runs(Top)
  BY <1>1, <1>2, <1>3, NewFrameIs DEF Runs
<1>5. /\ frames' = ReplaceTop(g) /\ status' = status /\ early' = early /\ accessed' = accessed
      /\ accessed \subseteq Node /\ status \in [Node -> Statuses]
  BY <1>2 DEF RunBody, IInv, TypeInv
<1>6. /\ frames' \in Seq(Frame) /\ Len(frames') = n /\ frames'[n] = g
      /\ \A i \in 1..n : i < n => frames'[i] = frames[i]
  <2>1. PICK rest : rest = ReplaceTop(g)
    OBVIOUS
  <2>2. /\ rest \in Seq(Frame) /\ Len(rest) = Len(frames) /\ rest[n] = g
        /\ \A i \in 1..n : i < n => rest[i] = frames[i]
    BY ONLY <1>1, <1>2, <1>3, <1>4, <2>1, ReplacedIs
  <2> QED
    BY <2>1, <2>2, <1>2, <1>5
<1>7. \A i \in 1..(n - 1) : i \in 1..n /\ i < n /\ frames'[i] = frames[i]
  BY <1>3, <1>6
<1>8. FramesKept(n - 1)
  <2>1. Len(frames') \in {n - 1, n - 1 + 1}
    BY <1>3, <1>6
  <2> QED
    BY <2>1, <1>6, <1>7 DEF FramesKept
<1>9. Advances
  BY <1>5 DEF Advances
<1>10. \A y \in Node : Runner(n, y)' <=> Runner(n, y)
  <2>1. n \in DOMAIN frames /\ n \in DOMAIN frames'
    BY <1>3, <1>6
  <2> QED
    BY <2>1, <1>3, <1>4, <1>6 DEF Runner
<1>11. StatusKept(n - 1)
  <2>1. ASSUME NEW z \in Node, status[z] = "evaluating", ~Runner(n, z), NEW j \in DOMAIN frames, Runner(j, z)
        PROVE  j \in 1..(n - 1)
    <3>1. j # n
      BY <2>1
    <3> QED
      BY <3>1, <1>3
  <2>2. \A z \in Node : Runner(n - 1 + 1, z)' <=> Runner(n, z)
    BY <1>3, <1>10
  <2> QED
    BY <2>1, <2>2, <1>5 DEF StatusKept
<1>12. ModulesKept
  BY <1>3, <1>5 DEF ModulesKept, IInv, ModulesSound
<1>13. TopKept(n - 1)
  <2>1. SUFFICES ASSUME n - 1 > 0
                 PROVE  /\ frames'[n - 1].at = "evaluate" => ImportsSound(n - 1, frames[n - 1])'
                        /\ frames'[n - 1].at = "access" /\ frames'[n - 1].holds => ReadSound(n - 1, frames[n - 1])'
    BY DEF TopKept
  <2>2. n - 1 \in 1..(n - 1) /\ n - 1 \in DOMAIN frames
    BY <2>1, <1>3
  <2>3. frames'[n - 1] = frames[n - 1] /\ FrameSound(n - 1, frames[n - 1]) /\ frames[n - 1].of \in Node
    BY <2>2, <1>3, <1>7, FrameIs DEF IInv, FramesSound
  <2>4. \A y \in Node : Runner(n - 1 + 1, y)' <=> Runner(n - 1 + 1, y)
    BY <1>3, <1>10
  <2>5. Eager[frames[n - 1].of] \subseteq Node
    BY <2>3, GraphIs
  <2>6. ASSUME frames'[n - 1].at = "evaluate" PROVE ImportsSound(n - 1, frames[n - 1])'
    <3>1. ImportsSound(n - 1, frames[n - 1])
      BY <2>3, <2>6 DEF FrameSound, WalkSound
    <3> QED
      BY <3>1, <2>3, <2>4, <2>5, <1>5 DEF ImportsSound
  <2>7. ASSUME frames'[n - 1].at = "access", frames'[n - 1].holds PROVE ReadSound(n - 1, frames[n - 1])'
    <3>1. ReadSound(n - 1, frames[n - 1])
      BY <2>3, <2>7 DEF FrameSound
    <3> QED
      BY <3>1, <2>3, <2>4, <1>5 DEF ReadSound
  <2> QED
    BY <2>6, <2>7
<1>14. NewKept(n - 1)
  <2>1. WalkSound(n, Top)
    BY <1>1, <1>3 DEF FrameSound
  <2>2. \A y \in Node : ~Runner(n + 1, y)
    <3>1. n + 1 \notin DOMAIN frames
      BY <1>3
    <3> QED
      BY <3>1 DEF Runner
  <2>3. Top.of \notin early => Done(Top.of)
    <3>1. Eager[Top.of] \subseteq Node
      BY <1>3, GraphIs
    <3> QED
      BY <3>1, <2>1, <2>2, <1>1 DEF WalkSound, ImportsSound, Done
  <2>4. BodySound(frames[n])'
    BY <2>1, <2>3, <1>4, <1>5, <1>6 DEF WalkSound, BodySound, Done
  <2>5. FrameSound(n - 1 + 1, frames[n - 1 + 1])'
    <3>1. FrameSound(n, frames[n])'
      BY <2>4, <1>4, <1>6 DEF FrameSound
    <3> QED
      BY <3>1, <1>3
  <2>6. ASSUME NEW i \in 1..(n - 1), frames[i].of = g.of PROVE ~Runs(frames[i])
    <3>1. i \in DOMAIN frames /\ n \in DOMAIN frames /\ i # n
      BY <1>3
    <3> QED
      BY <2>6, <3>1, <1>3, <1>4 DEF IInv, Once
  <2>7. frames'[n - 1 + 1] = g
    BY <1>3, <1>6
  <2> QED
    BY <2>5, <2>6, <2>7, <1>4 DEF NewKept
<1> QED
  BY <1>3, <1>8, <1>9, <1>11, <1>12, <1>13, <1>14, StepKeeps

\* A module that awaited goes on.
LEMMA ContinueKeeps == ASSUME IInv, NEW m \in Module, Continue(m) PROVE IInv'
<1>1. PICK n, g : n = Len(frames) /\ g = NewFrame("code", m, {}, {})
  OBVIOUS
<1>2. /\ frames \in Seq(Frame) /\ n \in Nat /\ DOMAIN frames = 1..n /\ n \in 0..Len(frames)
      /\ \A i \in DOMAIN frames : frames[i] \in Frame /\ frames[i].of \in Node
      /\ status \in [Node -> Statuses] /\ accessed \subseteq Node
  BY <1>1, FramesAre DEF IInv, TypeInv
<1>3. m \in Node /\ g \in Frame /\ g.at = "code" /\ g.of = m /\ Runs(g)
  BY <1>1, GraphIs, NewFrameIs DEF Runs
<1>4. /\ frames' = Append(frames, g) /\ status' = status /\ early' = early /\ accessed' = accessed
      /\ status[m] = "async"
  BY <1>1 DEF Continue, Push
<1>5. status[Entry] # "linked"
  BY DEF IInv, ModulesSound, Continue, RunsJobs, IsAt
<1>6. /\ frames' \in Seq(Frame) /\ Len(frames') = n + 1 /\ frames'[n + 1] = g
      /\ \A i \in 1..n : frames'[i] = frames[i]
  BY <1>1, <1>2, <1>3, <1>4, Pushed
<1>7. FramesKept(n) /\ Advances
  BY <1>2, <1>4, <1>6 DEF FramesKept, Advances
<1>8. StatusKept(n)
  BY <1>2, <1>4 DEF StatusKept, Runner
<1>9. ModulesKept
  BY <1>4, <1>5, <1>2 DEF ModulesKept, IInv, ModulesSound
<1>10. TopKept(n)
  <2>1. SUFFICES ASSUME n > 0
                 PROVE  /\ frames'[n].at = "evaluate" => ImportsSound(n, frames[n])'
                        /\ frames'[n].at = "access" /\ frames'[n].holds => ReadSound(n, frames[n])'
    BY DEF TopKept
  <2>2. n \in DOMAIN frames /\ n \in 1..n /\ n + 1 \notin DOMAIN frames
    BY <2>1, <1>2
  <2>3. frames'[n] = frames[n] /\ Top = frames[n] /\ frames # <<>> /\ FrameSound(n, frames[n])
    BY <2>2, <1>1, <1>2, <1>6, TopIs DEF IInv, FramesSound
  <2>4. frames[n].at # "evaluate"
    BY <2>3 DEF Continue, RunsJobs, IsAt
  <2>5. ASSUME frames'[n].at = "access", frames'[n].holds PROVE ReadSound(n, frames[n])'
    <3>1. ReadSound(n, frames[n]) /\ ~Runner(n + 1, frames[n].of)
      BY <2>2, <2>3, <2>5 DEF FrameSound, Runner
    <3> QED
      BY <3>1, <2>3, <1>4 DEF ReadSound
  <2> QED
    BY <2>3, <2>4, <2>5
<1>11. NewKept(n)
  <2>1. m \notin early => Done(m)
    BY <1>3, <1>4 DEF IInv, ModulesSound
  <2>2. BodySound(frames[n + 1])'
    BY <2>1, <1>3, <1>4, <1>6 DEF BodySound, Done
  <2>3. FrameSound(n + 1, frames[n + 1])'
    BY <2>2, <1>3, <1>6 DEF FrameSound
  <2>4. ASSUME NEW i \in 1..n, frames[i].of = m, Runs(frames[i]) PROVE FALSE
    <3>1. i \in DOMAIN frames /\ frames[i].at # "code"
      BY <2>4, <1>2 DEF Continue
    <3>2. frames[i].at = "evaluate" /\ FrameSound(i, frames[i])
      BY <2>4, <3>1 DEF Runs, IInv, FramesSound
    <3> QED
      BY <3>2, <2>4, <1>4 DEF FrameSound, WalkSound
  <2> QED
    BY <2>3, <2>4, <1>3, <1>6 DEF NewKept
<1> QED
  BY <1>2, <1>7, <1>8, <1>9, <1>10, <1>11, StepKeeps

\* The module of the body at the top ends, fails or suspends.
LEMMA BodyLeaves ==
    ASSUME IInv, frames # <<>>, Top.at = "code", frames' = Front(frames),
           NEW s \in {"async", "evaluated", "failed"},
           status' = [status EXCEPT ![Top.of] = s],
           Top.of \notin Async => s = "evaluated",
           early' = early, accessed' = accessed
    PROVE  IInv'
<1>1. PICK n, m : n = Len(frames) /\ m = Top.of
  OBVIOUS
<1>2. /\ frames \in Seq(Frame) /\ n \in Nat \ {0} /\ DOMAIN frames = 1..n /\ Top = frames[n]
      /\ m \in Node /\ FrameSound(n, Top) /\ status[Entry] # "linked"
      /\ n - 1 \in 0..n /\ n - 1 + 1 = n /\ n \in DOMAIN frames
  BY <1>1, TopRuns
<1>3. Runs(Top) /\ BodySound(Top)
  BY <1>2 DEF Runs, FrameSound
<1>4. /\ status[m] \in {"evaluating", "async"}
      /\ m \notin early => Done(m)
      /\ status[m] = "async" => m \in Async
      /\ status \in [Node -> Statuses] /\ accessed \subseteq Node
  BY <1>1, <1>2, <1>3 DEF BodySound, IInv, ModulesSound, TypeInv
<1>5. status'[m] = s /\ \A z \in Node : z # m => status'[z] = status[z]
  BY <1>1, <1>2, <1>4
<1>6. FramesKept(n - 1) /\ Len(frames') = n - 1 /\ \A i \in 1..(n - 1) : frames'[i] = frames[i]
  BY <1>1, <1>2, FrontIs, Popped
<1>7. Advances
  <2>1. s \in Statuses /\ status[m] \notin Ends /\ s # "linked"
    BY <1>4 DEF Statuses, Ends
  <2>2. status' \in [Node -> Statuses]
    BY <2>1, <1>1, <1>4
  <2> QED
    BY <2>1, <2>2, <1>5 DEF Advances
<1>8. ASSUME NEW i \in 1..(n - 1), Runs(frames[i]) PROVE frames[i].of # m /\ frames[i].of \in Node
  <2>1. i \in DOMAIN frames /\ i # n
    BY <1>2
  <2>2. frames[i].of # m
    BY <2>1, <1>1, <1>2, <1>3, <1>8 DEF IInv, Once
  <2> QED
    BY <2>1, <2>2, <1>2, FramesAre
<1>9. StatusKept(n - 1)
  <2>1. \A z \in Node : status'[z] = "evaluating" => z # m /\ status[z] = "evaluating"
    BY <1>5
  <2>2. ASSUME NEW z \in Node, z # m, NEW j \in DOMAIN frames, Runner(j, z) PROVE j \in 1..(n - 1)
    <3>1. j # n
      BY <2>2, <1>1, <1>2 DEF Runner
    <3> QED
      BY <3>1, <1>2
  <2> QED
    BY <2>1, <2>2, <1>5, <1>8 DEF StatusKept
<1>10. ModulesKept
  <2>1. status'[Entry] # "linked"
    BY <1>2, <1>5, GraphIs
  <2>2. s = "async" => m \in Async
    BY <1>1
  <2>3. \A x \in Node : status'[x] = "async" => x \in Async
    BY <2>2, <1>5 DEF IInv, ModulesSound
  <2>4. \A x \in Node \ early' : status'[x] \in {"async", "evaluated"} =>
          status[x] \in {"async", "evaluated"} \/ Done(x)
    BY <1>4, <1>5
  <2>5. \A x \in Node : status'[x] # "linked" => status[x] # "linked"
    BY <1>4, <1>5
  <2> QED
    BY <2>1, <2>3, <2>4, <2>5, <1>4, GraphIs DEF ModulesKept, IInv, ModulesSound
<1>11. NewKept(n - 1)
  BY <1>2, <1>6 DEF NewKept
<1>12. TopKept(n - 1)
  <2>1. SUFFICES ASSUME n - 1 > 0
                 PROVE  /\ frames'[n - 1].at = "evaluate" => ImportsSound(n - 1, frames[n - 1])'
                        /\ frames'[n - 1].at = "access" /\ frames'[n - 1].holds => ReadSound(n - 1, frames[n - 1])'
    BY DEF TopKept
  <2>2. n - 1 \in 1..(n - 1) /\ n - 1 \in DOMAIN frames
    BY <2>1, <1>2
  <2>3. frames'[n - 1] = frames[n - 1] /\ FrameSound(n - 1, frames[n - 1]) /\ frames[n - 1].of \in Node
    BY <2>2, <1>2, <1>6, FramesAre DEF IInv, FramesSound
  <2>4. \A y \in Node : Runner(n - 1 + 1, y) => y = m
    BY <1>1, <1>2 DEF Runner
  <2>5. \A y \in Node : ~Runner(n - 1 + 1, y)'
    <3>1. n - 1 + 1 \notin DOMAIN frames'
      <4>1. frames' \in Seq(Frame)
        BY <1>6 DEF FramesKept
      <4> QED
        BY <4>1, <1>2, <1>6
    <3> QED
      BY <3>1 DEF Runner
  <2>6. m \notin Async => status'[m] = "evaluated"
    BY <1>1, <1>5
  <2>7. \A y \in Node : status[y] \in Ends => status'[y] = status[y]
    BY <1>7 DEF Advances
  <2>8. Eager[frames[n - 1].of] \subseteq Node
    BY <2>3, GraphIs
  <2>9. ASSUME frames'[n - 1].at = "evaluate" PROVE ImportsSound(n - 1, frames[n - 1])'
    <3>1. ImportsSound(n - 1, frames[n - 1])
      BY <2>3, <2>9 DEF FrameSound, WalkSound
    <3>2. ASSUME frames[n - 1].of \notin early, NEW y \in Eager[frames[n - 1].of] \ frames[n - 1].todo
          PROVE  status'[y] = "evaluated"
      <4>1. CASE status[y] = "evaluated"
        BY <4>1, <3>2, <2>7, <2>8 DEF Ends
      <4>2. CASE Runner(n - 1 + 1, y)
        BY <4>2, <3>1, <3>2, <2>4, <2>6, <2>8 DEF ImportsSound
      <4> QED
        BY <4>1, <4>2, <3>1, <3>2 DEF ImportsSound
    <3> QED
      BY <3>2, <2>3, <2>5 DEF ImportsSound
  <2>10. ASSUME frames'[n - 1].at = "access", frames'[n - 1].holds PROVE ReadSound(n - 1, frames[n - 1])'
    <3>1. ReadSound(n - 1, frames[n - 1])
      BY <2>3, <2>10 DEF FrameSound
    <3>2. status'[frames[n - 1].of] \in Ends
      BY <3>1, <2>3, <2>4, <2>6, <2>7 DEF ReadSound, Ends
    <3> QED
      BY <3>2, <2>3 DEF ReadSound
  <2> QED
    BY <2>9, <2>10
<1> QED
  BY <1>1, <1>2, <1>6, <1>7, <1>9, <1>10, <1>11, <1>12, StepKeeps

\* A body ends or suspends.
LEMMA BodyEndsKeeps == ASSUME IInv, BodyEnds PROVE IInv'
<1>1. frames # <<>> /\ Top.at = "code" /\ frames' = Front(frames)
      /\ early' = early /\ accessed' = accessed
  BY DEF BodyEnds, IsAt
<1>2. PICK s \in (IF Top.of \notin Async THEN {"evaluated"}
                  ELSE IF status[Top.of] = "evaluating" THEN {"async"}
                  ELSE {"async", "evaluated"}) :
             status' = [status EXCEPT ![Top.of] = s]
  BY DEF BodyEnds
<1>3. s \in {"async", "evaluated", "failed"} /\ (Top.of \notin Async => s = "evaluated")
  BY <1>2
<1> QED
  BY <1>1, <1>2, <1>3, BodyLeaves

-----------------------------------------------------------------------------
(* Failures.                                                               *)

\* The last of some frames.
LEMMA LastIs ==
    ASSUME NEW n \in Nat, NEW S \in SUBSET (0 .. n), S # {}
    PROVE  \E j \in S : \A k \in S : k <= j
<1> DEFINE Above(j) == {k \in S : k > j}
<1> DEFINE R == {Above(j) : j \in S}
<1>1. R \subseteq FiniteSubsetsOf(0 .. n) /\ R # {}
  <2>1. IsFiniteSet(0 .. n)
    BY FS_Interval
  <2>2. FiniteSubsetsOf(0 .. n) = SUBSET (0 .. n)
    BY <2>1, FS_FiniteSubsetsOfFinite
  <2>3. ASSUME NEW j \in S PROVE Above(j) \in SUBSET (0 .. n)
    OBVIOUS
  <2>4. PICK j \in S : TRUE
    OBVIOUS
  <2> HIDE DEF Above
  <2>5. Above(j) \in R
    OBVIOUS
  <2>6. R \subseteq SUBSET (0 .. n)
    BY <2>3
  <2> QED BY <2>2, <2>5, <2>6
<1>2. PICK X \in R : \A Y \in R : ~ (<<Y, X>> \in StrictSubsetOrdering(0 .. n))
  BY <1>1, FS_StrictSubsetOrderingWellFounded, WFMin
<1>3. PICK j \in S : X = Above(j)
  OBVIOUS
<1>4. ASSUME NEW k \in S PROVE k <= j
  <2>1. SUFFICES ASSUME ~ (k <= j) PROVE FALSE
    OBVIOUS
  <2>2. k > j
    BY <2>1
  <2>3. Above(k) \subseteq Above(j) /\ k \in Above(j) /\ k \notin Above(k)
    <3>1. ASSUME NEW m \in S, m > k PROVE m > j
      <4>1. m \in Int /\ k \in Int /\ j \in Int
        OBVIOUS
      <4> QED BY ONLY <2>2, <3>1, <4>1
    <3>2. ~ (k > k)
      <4>1. k \in Int
        OBVIOUS
      <4> QED BY ONLY <4>1
    <3> QED BY <2>2, <3>1, <3>2
  <2>4. Above(k) \in SUBSET (0 .. n) /\ Above(j) \in SUBSET (0 .. n) /\ Above(k) \in R
    OBVIOUS
  <2>5. <<Above(k), X>> \in StrictSubsetOrdering(0 .. n)
    <3> HIDE DEF Above
    <3> QED BY <1>3, <2>3, <2>4 DEF StrictSubsetOrdering
  <2> QED BY <1>2, <2>4, <2>5
<1> QED BY <1>4

\* The importers of what fails are the evaluations below the top, down to the
\* first frame that is none.
LEMMA ImportersAre ==
    ASSUME IInv, frames # <<>>, NEW n, n = Len(frames)
    PROVE  \E k \in 0..(n - 1) :
              /\ Importers = (k + 1)..(n - 1) /\ n - 1 - Cardinality(Importers) = k
              /\ k > 0 => frames[k].at # "evaluate"
<1>1. n \in Nat \ {0} /\ DOMAIN frames = 1..n /\ n - 1 \in Nat
  BY TopRuns
<1> DEFINE S == {0} \cup {j \in 1..(n - 1) : frames[j].at # "evaluate"}
<1>2. PICK k \in S : \A j \in S : j <= k
  <2>1. S \in SUBSET (0..(n - 1)) /\ S # {}
    BY <1>1
  <2> HIDE DEF S
  <2> QED
    BY <2>1, <1>1, LastIs
<1>3. k \in 0..(n - 1) /\ k \in Nat /\ (k > 0 => frames[k].at # "evaluate")
  BY <1>1, <1>2
<1>4. Importers = (k + 1)..(n - 1)
  <2>1. ASSUME NEW i \in Importers PROVE i \in (k + 1)..(n - 1)
    <3>1. i \in 1..n /\ i # n /\ \A j \in i..(n - 1) : frames[j].at = "evaluate"
      BY <1>1 DEF Importers
    <3>2. k < i
      <4>1. SUFFICES ASSUME ~(k < i) PROVE FALSE
        OBVIOUS
      <4>2. k \in i..(n - 1) /\ k > 0
        BY <4>1, <3>1, <1>1, <1>3
      <4> QED
        BY <4>2, <3>1, <1>3
    <3> QED
      BY <3>1, <3>2, <1>1, <1>3
  <2>2. ASSUME NEW i \in (k + 1)..(n - 1) PROVE i \in Importers
    <3>1. i \in DOMAIN frames /\ i # n
      BY <1>1, <1>3
    <3>2. ASSUME NEW j \in i..(n - 1) PROVE frames[j].at = "evaluate"
      <4>1. j \in 1..(n - 1) /\ ~(j <= k)
        BY <1>1, <1>3
      <4> QED
        BY <4>1, <1>2
    <3> QED
      BY <3>1, <3>2 DEF Importers
  <2> QED
    BY <2>1, <2>2
<1>5. Cardinality((k + 1)..(n - 1)) = n - 1 - k
  <2>1. k + 1 \in Int /\ n - 1 \in Int
    BY <1>1, <1>3
  <2>2. Cardinality((k + 1)..(n - 1)) = IF k + 1 > n - 1 THEN 0 ELSE n - 1 - (k + 1) + 1
    BY <2>1, FS_Interval
  <2> QED
    BY <2>2, <1>1, <1>3
<1> QED
  BY <1>1, <1>3, <1>4, <1>5

\* The top fails, and with it the evaluations it was imported for.
LEMMA FailKeeps ==
    ASSUME IInv, frames # <<>>, Fail, Top.at = "code" => status[Top.of] = "evaluating",
           Top.at \in {"evaluate", "code", "preevaluation"},
           early' = early, accessed' = accessed
    PROVE  IInv'
<1>1. PICK n : n = Len(frames)
  OBVIOUS
<1>2. /\ frames \in Seq(Frame) /\ n \in Nat \ {0} /\ DOMAIN frames = 1..n /\ Top = frames[n]
      /\ Top.of \in Node /\ FrameSound(n, Top) /\ status[Entry] # "linked"
      /\ \A i \in DOMAIN frames : frames[i].of \in Node
      /\ accessed \subseteq Node /\ status \in [Node -> Statuses]
  BY <1>1, TopRuns, FramesAre DEF IInv, TypeInv
<1>3. PICK k \in 0..(n - 1) :
              /\ Importers = (k + 1)..(n - 1) /\ n - 1 - Cardinality(Importers) = k
              /\ k > 0 => frames[k].at # "evaluate"
  BY <1>1, ImportersAre
<1>4. frames' = SubSeq(frames, 1, k) /\ k \in Nat /\ k \in 0..n /\ k < n
  BY <1>1, <1>2, <1>3 DEF Fail
<1>5. FramesKept(k) /\ Len(frames') = k /\ \A i \in 1..k : frames'[i] = frames[i]
  BY <1>1, <1>2, <1>4, Popped
<1> DEFINE Hit == {frames[i].of : i \in {j \in (k + 1)..n : Runs(frames[j])}}
<1>6. \A i \in (k + 1)..(n - 1) : i \in DOMAIN frames /\ i \in (k + 1)..n /\ frames[i].at = "evaluate" /\ Runs(frames[i])
  <2>1. ASSUME NEW i \in (k + 1)..(n - 1) PROVE i \in DOMAIN frames /\ i \in (k + 1)..n /\ frames[i].at = "evaluate"
    <3>1. i \in Importers /\ i \in i..(n - 1)
      BY <1>2, <1>3
    <3> QED
      BY <3>1, <1>1, <1>2, <1>4 DEF Importers
  <2> QED
    BY <2>1 DEF Runs
<1>7. \A i \in (k + 1)..n : i \in (k + 1)..(n - 1) \/ i = n
  BY <1>2, <1>4
<1>8. n \in (k + 1)..n /\ n \in DOMAIN frames
  BY <1>2, <1>4
<1>9. \A z \in Node : status'[z] = IF z \in Hit THEN "failed" ELSE status[z]
  <2>1. ASSUME NEW z \in Node
        PROVE  z \in Hit <=> (z = Top.of /\ Top.at \in {"evaluate", "code"})
                             \/ \E i \in Importers : frames[i].of = z
    BY <1>2, <1>3, <1>6, <1>7, <1>8 DEF Runs
  <2> QED
    BY <2>1 DEF Fail
<1>10. \A z \in Hit : status[z] = "evaluating"
  <2>1. ASSUME NEW i \in (k + 1)..n, Runs(frames[i]) PROVE status[frames[i].of] = "evaluating"
    <3>1. CASE frames[i].at = "evaluate"
      <4>1. FrameSound(i, frames[i])
        BY <1>6, <1>7, <1>8 DEF IInv, FramesSound
      <4> QED
        BY <3>1, <4>1 DEF FrameSound, WalkSound
    <3>2. CASE i = n /\ frames[i].at = "code"
      BY <3>2, <1>2
    <3> QED
      BY <2>1, <3>1, <3>2, <1>6, <1>7 DEF Runs
  <2> QED
    BY <2>1
<1>11. ASSUME NEW i \in 1..k, Runs(frames[i]) PROVE frames[i].of \notin Hit
  <2>1. \A j \in (k + 1)..n : i # j /\ j \in DOMAIN frames /\ i \in DOMAIN frames
    BY <1>2, <1>4
  <2> QED
    BY <2>1, <1>11 DEF IInv, Once
<1>12. \A z \in Node, j \in DOMAIN frames : Runner(j, z) /\ z \notin Hit => j \in 1..k
  <2>1. \A j \in DOMAIN frames : j \in 1..k \/ j \in (k + 1)..n
    BY <1>2, <1>4
  <2> QED
    BY <2>1 DEF Runner
<1>13. \A i \in 1..k : i \in DOMAIN frames
  BY <1>2, <1>4
<1>14. k > 0 => (Runs(frames[k + 1]) => frames[k + 1].of \in Hit)
  <2>1. k + 1 \in (k + 1)..n
    BY <1>2, <1>4
  <2> QED
    BY <2>1
<1> HIDE DEF Hit
<1>15. Advances
  <2>1. status' \in [Node -> Statuses]
    <3>1. \A z \in Node : status'[z] \in Statuses
      BY <1>2, <1>9 DEF Statuses
    <3> QED
      BY <3>1 DEF Fail
  <2> QED
    BY <2>1, <1>9, <1>10 DEF Advances, Ends
<1>16. StatusKept(k)
  <2>1. \A i \in 1..k : Runs(frames[i]) => status'[frames[i].of] = status[frames[i].of]
    BY <1>2, <1>9, <1>11, <1>13
  <2>2. \A z \in Node : status'[z] = "evaluating" => z \notin Hit /\ status[z] = "evaluating"
    BY <1>9
  <2> QED
    BY <2>1, <2>2, <1>12 DEF StatusKept
<1>17. ModulesKept
  <2>1. status'[Entry] # "linked" /\ \A m \in Node : status'[m] \in {"async", "evaluated"} => status'[m] = status[m]
    BY <1>2, <1>9, GraphIs
  <2>2. \A m \in Node : status'[m] # "linked" => status[m] # "linked"
    BY <1>9, <1>10
  <2> QED
    BY <2>1, <2>2, <1>2, GraphIs DEF ModulesKept, IInv, ModulesSound
<1>18. NewKept(k)
  BY <1>4, <1>5 DEF NewKept
<1>19. TopKept(k)
  <2>1. SUFFICES ASSUME k > 0
                 PROVE  /\ frames'[k].at = "evaluate" => ImportsSound(k, frames[k])'
                        /\ frames'[k].at = "access" /\ frames'[k].holds => ReadSound(k, frames[k])'
    BY DEF TopKept
  <2>2. k \in 1..k /\ k \in DOMAIN frames
    BY <2>1, <1>2, <1>4
  <2>3. frames'[k] = frames[k] /\ frames[k].at # "evaluate" /\ FrameSound(k, frames[k])
        /\ frames[k].of \in Node
    BY <2>1, <2>2, <1>2, <1>3, <1>5 DEF IInv, FramesSound
  <2>4. ASSUME frames'[k].at = "access", frames'[k].holds PROVE ReadSound(k, frames[k])'
    <3>1. ReadSound(k, frames[k])
      BY <2>3, <2>4 DEF FrameSound
    <3>2. CASE status[frames[k].of] \in Ends
      BY <3>2, <2>3, <1>15 DEF ReadSound, Advances
    <3>3. CASE Runner(k + 1, frames[k].of)
      <4>1. frames[k].of \in Hit
        BY <3>3, <2>1, <1>14 DEF Runner
      <4>2. status'[frames[k].of] = "failed"
        BY <4>1, <2>3, <1>9
      <4> QED
        BY <4>2, <2>3 DEF ReadSound, Ends
    <3> QED
      BY <3>1, <3>2, <3>3 DEF ReadSound
  <2> QED
    BY <2>3, <2>4
<1> QED
  BY <1>1, <1>4, <1>5, <1>15, <1>16, <1>17, <1>18, <1>19, StepKeeps

\* A body throws, before or after it was suspended.
LEMMA BodyThrowsKeeps == ASSUME IInv, BodyThrows PROVE IInv'
<1>1. frames # <<>> /\ Top.at = "code" /\ early' = early /\ accessed' = accessed
  BY DEF BodyThrows, IsAt
<1>2. BodySound(Top) /\ Top.of \in Node
  BY <1>1, TopRuns DEF FrameSound
<1>3. CASE status[Top.of] = "async"
  <2>1. frames' = Front(frames) /\ status' = [status EXCEPT ![Top.of] = "failed"] /\ Top.of \in Async
    BY <1>2, <1>3 DEF BodyThrows, IInv, ModulesSound
  <2> QED
    BY <1>1, <2>1, BodyLeaves
<1>4. CASE status[Top.of] # "async"
  <2>1. Fail /\ status[Top.of] = "evaluating"
    BY <1>2, <1>4 DEF BodyThrows, BodySound
  <2> QED
    BY <1>1, <2>1, FailKeeps
<1> QED
  BY <1>3, <1>4

\* A wrapper cannot be initialized.
LEMMA PreevaluationFailsKeeps == ASSUME IInv, PreevaluationFails PROVE IInv'
<1>1. /\ frames # <<>> /\ Top.at = "preevaluation" /\ Fail
      /\ early' = early /\ accessed' = accessed
  BY DEF PreevaluationFails, IsAt
<1>2. Top.at # "code" /\ Top.at \in {"evaluate", "code", "preevaluation"}
  BY <1>1
<1> QED
  BY <1>1, <1>2, FailKeeps

\* A walk that comes to a module that failed fails.
LEMMA ImportFailsKeeps ==
    ASSUME IInv, NEW m \in Node, EvaluateImport(m), status[m] = "failed"
    PROVE  IInv'
<1>1. /\ frames # <<>> /\ Top.at = "evaluate" /\ Fail
      /\ early' = early /\ accessed' = accessed
  BY DEF EvaluateImport, IsAt
<1>2. Top.at # "code" /\ Top.at \in {"evaluate", "code", "preevaluation"}
  BY <1>1
<1> QED
  BY <1>1, <1>2, FailKeeps

-----------------------------------------------------------------------------
(* The theorems.                                                           *)

\* Nothing has begun.
LEMMA InitHolds == ASSUME Init PROVE IInv
<1>1. frames \in Seq(Frame) /\ DOMAIN frames = {}
  BY DEF Init
<1>2. TypeInv
  BY <1>1 DEF Init, TypeInv, Statuses
<1>3. FramesSound /\ Once /\ PreevaluatedOnce
  BY <1>1 DEF FramesSound, Once, PreevaluatedOnce
<1>4. ModulesSound
  BY DEF Init, ModulesSound
<1>5. LazyUntilRead
  BY DEF Init, LazyUntilRead, Node
<1> QED
  BY <1>2, <1>3, <1>4, <1>5 DEF IInv

\* Every step keeps the invariant.
LEMMA NextKeeps == ASSUME IInv, [Next]_vars PROVE IInv'
<1>1. CASE EvaluateEntry \/ RunBody \/ BodyEnds \/ BodyThrows \/ RunJob
  BY <1>1, EvaluateEntryKeeps, RunBodyKeeps, BodyEndsKeeps, BodyThrowsKeeps, RunJobKeeps
<1>2. CASE JobEnds \/ PreevaluationEnds \/ AccessFails \/ AccessEnds
  BY <1>2, PopKeeps
<1>3. CASE Preevaluated \/ PreevaluationFails \/ AccessEvaluates
  BY <1>3, PreevaluatedKeeps, PreevaluationFailsKeeps, AccessEvaluatesKeeps
<1>4. ASSUME NEW m \in Node, EvaluateImport(m) PROVE IInv'
  BY <1>4, EvaluateImportKeeps, ImportFailsKeeps
<1>5. ASSUME NEW m \in Module,
             Continue(m) \/ MakeNamespace(m) \/ ImportDefer(m) \/ Preevaluate(m) \/ Access(m)
      PROVE  IInv'
  BY <1>5, ContinueKeeps, MakeNamespaceKeeps, ImportDeferKeeps, PreevaluateKeeps, AccessKeeps
<1>6. CASE UNCHANGED vars
  BY <1>6, WrappedKeeps DEF vars
<1> QED
  BY <1>1, <1>2, <1>3, <1>4, <1>5, <1>6 DEF Next

\* What the evaluations on the stack have finished is what the statuses of the
\* modules say, through failures, suspensions and re-entry.
THEOREM Invariance == Spec => []IInv
<1> QED
  BY InitHolds, NextKeeps, PTL DEF Spec

\* A module that is only deferred begins when its namespace is read, not when
\* it is imported (preevaluate_async_deferred_dependencies).
THEOREM LazyUntilReadCorrect == Spec => []LazyUntilRead
<1>1. IInv => LazyUntilRead
  BY DEF IInv
<1> QED
  BY <1>1, Invariance, PTL

\* A read that is allowed (ready_for_sync_execution) finds its module and all
\* it imports at their end, but for what went ahead of an import.
THEOREM ReadFindsAnEndCorrect == Spec => []ReadFindsAnEnd
<1>1. IInv => ReadFindsAnEnd
  <2>1. SUFFICES ASSUME IInv, IsAt("access"), Top.holds
                 PROVE  /\ status[Top.of] \in {"evaluated", "failed"}
                        /\ status[Top.of] = "evaluated" /\ ReachedFrom({Top.of}) \cap Ahead = {} =>
                              \A x \in ReachedFrom({Top.of}) : status[x] = "evaluated"
    BY DEF ReadFindsAnEnd
  <2>2. frames # <<>> /\ Top.at = "access"
    BY <2>1 DEF IsAt
  <2>3. /\ Len(frames) \in Nat \ {0} /\ DOMAIN frames = 1..Len(frames) /\ Top.of \in Node
        /\ FrameSound(Len(frames), Top)
    BY <2>1, <2>2, TopRuns
  <2>4. ~Runner(Len(frames) + 1, Top.of)
    <3>1. Len(frames) + 1 \notin DOMAIN frames
      BY <2>3
    <3> QED
      BY <3>1 DEF Runner
  <2>5. status[Top.of] \in Ends
    BY <2>1, <2>2, <2>3, <2>4 DEF FrameSound, ReadSound
  <2>6. ASSUME status[Top.of] = "evaluated", ReachedFrom({Top.of}) \cap Ahead = {},
               NEW x \in ReachedFrom({Top.of})
        PROVE  status[x] = "evaluated"
    <3> DEFINE C == {y \in ReachedFrom({Top.of}) : status[y] = "evaluated"}
    <3>1. /\ {Top.of} \in SUBSET Node /\ ReachedFrom({Top.of}) \subseteq Node
          /\ {Top.of} \subseteq ReachedFrom({Top.of})
          /\ \A y \in ReachedFrom({Top.of}) : Eager[y] \subseteq ReachedFrom({Top.of})
      BY <2>3, ReachIs
    <3>2. \A y \in ReachedFrom({Top.of}) : y \notin early
      BY <2>1, <2>6 DEF Ahead, IInv, ModulesSound
    <3>3. \A y \in C : Eager[y] \subseteq C
      BY <2>1, <3>1, <3>2 DEF IInv, ModulesSound, Done
    <3>4. C \in SUBSET Node /\ {Top.of} \subseteq C
      BY <2>6, <3>1
    <3>5. ReachedFrom({Top.of}) \subseteq C
      <4> HIDE DEF C
      <4> QED
        BY <3>1, <3>3, <3>4, ReachLeast
    <3> QED
      BY <3>5, <2>6
  <2> QED
    BY <2>5, <2>6 DEF Ends
<1> QED
  BY <1>1, Invariance, PTL

\* A wrapper is never pre-evaluated inside its own pre-evaluation
\* (DeferredPreevalScope::enter).
THEOREM PreevaluatedOnceCorrect == Spec => []PreevaluatedOnce
<1>1. IInv => PreevaluatedOnce
  BY DEF IInv
<1> QED
  BY <1>1, Invariance, PTL
=============================================================================
