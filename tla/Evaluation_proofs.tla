-------------------------- MODULE Evaluation_proofs --------------------------
(***************************************************************************)
(* Proofs about Completions: where jumps and errors land, when a finally   *)
(* block runs and what it leaves of the completion it kept, what is        *)
(* released before a statement is left, and that nothing goes on after the *)
(* budget is spent.                                                        *)
(*                                                                         *)
(* For a jump that travels, or that a try statement has kept for the end   *)
(* of its finally block, the innermost statement below that would end it   *)
(* in the code is the one ECMAScript sends it to; or none would, which     *)
(* happens to a continue to the outer of two labels of one loop.           *)
(*                                                                         *)
(* And about Generators, the objects whose bodies the generator evaluator  *)
(* runs: who may be resumed, and how often.                                *)
(*                                                                         *)
(* And about Expressions: every operation of an expression happens in the  *)
(* order that its tree gives, whichever evaluator each part lands in, and  *)
(* a yield reaches the evaluator that can suspend it.                      *)
(***************************************************************************)
EXTENDS Completions, Generators, Expressions, SequenceTheorems, FiniteSetTheorems,
        WellFoundedInduction, TLAPS

Kinds == Loops \cup {"block", "switch", "labelled", "with", "try"}
Phases == {"next", "test", "bind", "update", "param", "body", "dispose", "closing",
           "try", "catch", "finally"}

Plain == {"run", "normal", "throw", "return", "timeout", "yielded", "delegated"}
CompletionType == {Completion(type) : type \in Plain}
                  \cup [type : Jumps, label : Label \cup {None}, target : Nat]

FrameType == [kind : Kinds, label : Label \cup {None}, gen : BOOLEAN, phase : Phases,
              handler : BOOLEAN, finalizer : BOOLEAN, yielded : BOOLEAN,
              saved : CompletionType, using : Nat]

\* The places of each kind of statement, and who can have a label.
PhaseFits(f) ==
    /\ f.kind = "block" => f.phase \in {"next", "body", "dispose"}
    /\ f.kind \in Loops => f.phase \in {"test", "bind", "update", "body", "closing"}
    /\ f.kind \in {"switch", "labelled", "with"} => f.phase = "body"
    /\ f.kind = "try" => f.phase \in {"try", "param", "catch", "finally"}
    /\ f.kind = "labelled" => f.label # None
    /\ f.kind \in {"block", "switch", "with", "try"} => f.label = None
    /\ f.phase = "dispose" => f.using > 0

\* Where a statement waits for another one.
Waiting == {"body", "try", "catch", "finally"}

\* The jumps that end at a statement in the code.
Takes(c, f) ==
    /\ c.label = None => f.kind \in (IF c.type = "break" THEN Loops \cup {"switch"} ELSE Loops)
    /\ c.label # None => f.label = c.label /\ (c.type = "continue" => f.kind \in Loops)

\* A jump that leaves the statements above the d-th one: the innermost one that
\* takes it is its target, or nobody takes it.
JumpSound(c, s, d) ==
    c.type \in Jumps =>
       \/ /\ c.target \in 1..d /\ Takes(c, s[c.target])
          /\ \A i \in 1..d : Takes(c, s[i]) => i <= c.target
       \/ /\ c.type = "continue"
          /\ \A i \in 1..d : ~Takes(c, s[i])
          /\ c.target \in 1..d => c.label # s[c.target].label

\* What can travel where.
TopFits(f, c) ==
    /\ f.phase \in HeadPhases => c.type \notin Jumps \cup {"normal"}
    /\ f.phase = "closing" /\ c.type \in Jumps => ~Takes(c, f)

Fits(s) ==
    /\ \A i \in DOMAIN s : PhaseFits(s[i]) /\ JumpSound(s[i].saved, s, i - 1)
    /\ \A i \in DOMAIN s : i < Len(s) => s[i].phase \in Waiting
    /\ \A i, j \in DOMAIN s : s[i].label = s[j].label /\ s[i].label # None => i = j

Sound(s, c) ==
    /\ s \in Seq(FrameType) /\ c \in CompletionType
    /\ Fits(s)
    /\ JumpSound(c, s, Len(s))
    /\ s # <<>> => TopFits(Last(s), c)

IInv == Sound(stack, ctrl) /\ ticks \in Nat

-----------------------------------------------------------------------------
(* Data.                                                                   *)

\* Kinds, phases and types have different names.
LEMMA Names ==
    /\ "block" \notin Loops /\ "switch" \notin Loops /\ "labelled" \notin Loops
    /\ "with" \notin Loops /\ "try" \notin Loops
    /\ "break" \in Jumps /\ "continue" \in Jumps /\ Plain \cap Jumps = {}
    /\ None \notin Label
BY CompletionsAssumption DEF Loops, Jumps, Plain

\* A completion that is no jump is determined by its type.
LEMMA CompletionIs ==
    ASSUME NEW c \in CompletionType
    PROVE  /\ c.type \in Plain \cup Jumps /\ c.label \in Label \cup {None} /\ c.target \in Nat
           /\ c.type \in Plain => c = Completion(c.type)
<1>1. CASE c \in {Completion(type) : type \in Plain}
  <2>1. PICK t \in Plain : c = Completion(t)
    BY <1>1
  <2>2. c.type = t /\ c.label = None /\ c.target = 0
    BY <2>1 DEF Completion
  <2> QED BY <2>1, <2>2
<1>2. CASE c \in [type : Jumps, label : Label \cup {None}, target : Nat]
  <2>1. c.type \in Jumps /\ c.label \in Label \cup {None} /\ c.target \in Nat
    BY <1>2
  <2> QED BY <2>1, Names
<1> QED BY <1>1, <1>2 DEF CompletionType

\* The completions that have names.
LEMMA Named ==
    /\ {Run, Normal, Throw, Return, Timeout} \subseteq CompletionType
    /\ Run.type = "run" /\ Normal.type = "normal" /\ Throw.type = "throw"
    /\ Return.type = "return" /\ Timeout.type = "timeout"
    /\ \A c \in {Run, Normal, Throw, Return, Timeout} : c.type \notin Jumps
BY DEF CompletionType, Completion, Run, Normal, Throw, Return, Timeout, Plain, Jumps

\* The parts of a frame.
LEMMA FrameIs ==
    ASSUME NEW f \in FrameType
    PROVE  /\ f.kind \in Kinds /\ f.label \in Label \cup {None} /\ f.gen \in BOOLEAN
           /\ f.phase \in Phases /\ f.handler \in BOOLEAN /\ f.finalizer \in BOOLEAN
           /\ f.yielded \in BOOLEAN /\ f.saved \in CompletionType /\ f.using \in Nat
BY DEF FrameType

\* The innermost of some statements.
LEMMA InnermostIs ==
    ASSUME NEW n \in Nat, NEW S \in SUBSET (1 .. n), S # {}
    PROVE  Innermost(S) \in S /\ \A k \in S : k <= Innermost(S)
<1> DEFINE Beyond(j) == {k \in S : k > j}
<1> DEFINE R == {Beyond(j) : j \in S}
<1>1. R \subseteq FiniteSubsetsOf(1 .. n) /\ R # {}
  <2>1. IsFiniteSet(1 .. n)
    BY FS_Interval
  <2>2. FiniteSubsetsOf(1 .. n) = SUBSET (1 .. n)
    BY <2>1, FS_FiniteSubsetsOfFinite
  <2>3. ASSUME NEW j \in S PROVE Beyond(j) \in SUBSET (1 .. n)
    OBVIOUS
  <2>4. PICK j \in S : TRUE
    OBVIOUS
  <2> HIDE DEF Beyond
  <2>5. Beyond(j) \in R
    OBVIOUS
  <2>6. R \subseteq SUBSET (1 .. n)
    BY <2>3
  <2> QED BY <2>2, <2>5, <2>6
<1>2. PICK X \in R : \A Y \in R : ~ (<<Y, X>> \in StrictSubsetOrdering(1 .. n))
  BY <1>1, FS_StrictSubsetOrderingWellFounded, WFMin
<1>3. PICK j \in S : X = Beyond(j)
  OBVIOUS
<1>4. ASSUME NEW k \in S PROVE k <= j
  <2>1. SUFFICES ASSUME ~ (k <= j) PROVE FALSE
    OBVIOUS
  <2>2. k > j
    BY <2>1
  <2>3. Beyond(k) \subseteq Beyond(j) /\ k \in Beyond(j) /\ k \notin Beyond(k)
    <3>1. ASSUME NEW m \in S, m > k PROVE m > j
      <4>1. m \in Int /\ k \in Int /\ j \in Int
        OBVIOUS
      <4> QED BY ONLY <2>2, <3>1, <4>1
    <3>2. ~ (k > k)
      <4>1. k \in Int
        OBVIOUS
      <4> QED BY ONLY <4>1
    <3> QED BY <2>2, <3>1, <3>2
  <2>4. Beyond(k) \in SUBSET (1 .. n) /\ Beyond(j) \in SUBSET (1 .. n) /\ Beyond(k) \in R
    OBVIOUS
  <2>5. <<Beyond(k), X>> \in StrictSubsetOrdering(1 .. n)
    <3> HIDE DEF Beyond
    <3> QED BY <1>3, <2>3, <2>4 DEF StrictSubsetOrdering
  <2> QED BY <1>2, <2>4, <2>5
<1> QED BY <1>4 DEF Innermost

-----------------------------------------------------------------------------
(* Jumps that travel.                                                      *)

\* Two stacks with the same statements, as far as jumps can tell.
Alike(s, u, d) == \A i \in 1..d : u[i].kind = s[i].kind /\ u[i].label = s[i].label

\* A jump sees kinds and labels only.
LEMMA JumpAlike ==
    ASSUME NEW s, NEW u, NEW d \in Nat, NEW c, JumpSound(c, s, d), Alike(s, u, d)
    PROVE  JumpSound(c, u, d)
<1>1. \A i \in 1..d : Takes(c, s[i]) <=> Takes(c, u[i])
  BY DEF Alike, Takes
<1> QED BY <1>1 DEF JumpSound, Alike

\* It passes a statement that does not take it.
LEMMA JumpPasses ==
    ASSUME NEW s, NEW d \in Nat \ {0}, NEW c, JumpSound(c, s, d),
           c.type \in Jumps => ~Takes(c, s[d])
    PROVE  JumpSound(c, s, d - 1)
<1>1. SUFFICES ASSUME c.type \in Jumps PROVE JumpSound(c, s, d - 1)
  BY DEF JumpSound
<1>2. \A i \in 1..d - 1 : i \in 1..d
  OBVIOUS
<1>3. ~Takes(c, s[d])
  BY <1>1
<1>4. CASE /\ c.target \in 1..d /\ Takes(c, s[c.target])
           /\ \A i \in 1..d : Takes(c, s[i]) => i <= c.target
  <2>1. c.target # d
    BY <1>3, <1>4
  <2>2. c.target \in 1..d - 1
    BY <1>4, <2>1
  <2> QED BY <1>1, <1>2, <1>4, <2>2 DEF JumpSound
<1>5. CASE /\ c.type = "continue"
           /\ \A i \in 1..d : ~Takes(c, s[i])
           /\ c.target \in 1..d => c.label # s[c.target].label
  BY <1>1, <1>2, <1>5 DEF JumpSound
<1> QED BY <1>1, <1>4, <1>5 DEF JumpSound

\* What is no jump goes anywhere.
LEMMA NoJump == ASSUME NEW s, NEW d, NEW c, c.type \notin Jumps PROVE JumpSound(c, s, d)
BY DEF JumpSound

-----------------------------------------------------------------------------
(* Frames that stay, go and come.                                          *)

\* The top one.
LEMMA TopIs ==
    ASSUME NEW s \in Seq(FrameType), s # <<>>, Fits(s)
    PROVE  /\ Len(s) \in Nat \ {0} /\ Last(s) = s[Len(s)] /\ Last(s) \in FrameType
           /\ PhaseFits(Last(s)) /\ JumpSound(Last(s).saved, s, Len(s) - 1)
<1>1. Len(s) \in Nat \ {0}
  BY EmptySeq
<1>2. Len(s) \in 1..Len(s) /\ DOMAIN s = 1..Len(s)
  BY <1>1, LenProperties
<1>3. Last(s) = s[Len(s)] /\ Last(s) \in FrameType
  BY <1>2, ElementOfSeq DEF Last
<1> QED BY <1>1, <1>2, <1>3 DEF Fits

\* It changes.
LEMMA Stayed ==
    ASSUME NEW s \in Seq(FrameType), s # <<>>, Fits(s), NEW f \in FrameType,
           f.kind = Last(s).kind, f.label = Last(s).label,
           f.saved = Last(s).saved \/ JumpSound(f.saved, s, Len(s) - 1), PhaseFits(f),
           NEW u, u = [s EXCEPT ![Len(s)] = f]
    PROVE  /\ u \in Seq(FrameType) /\ Len(u) = Len(s) /\ u[Len(s)] = f /\ Last(u) = f
           /\ u # <<>> /\ Fits(u) /\ Alike(s, u, Len(s))
<1>1. PICK n \in Nat \ {0} : n = Len(s)
  BY EmptySeq
<1>2. Last(s) = s[n] /\ Last(s) \in FrameType
  BY <1>1, TopIs
<1>3. /\ u \in Seq(FrameType) /\ Len(u) = n
      /\ \A j \in 1..n : u[j] = IF j = n THEN f ELSE s[j]
  <2>1. n \in 1..Len(s)
    BY <1>1
  <2> QED BY <1>1, <2>1, ExceptSeq
<1>4. DOMAIN s = 1..n /\ DOMAIN u = 1..n /\ n \in 1..n
  BY <1>1, <1>3, LenProperties
<1>5. Alike(s, u, n)
  BY <1>2, <1>3 DEF Alike
<1>6. ASSUME NEW i \in 1..n PROVE PhaseFits(u[i]) /\ JumpSound(u[i].saved, u, i - 1)
  <2>1. PhaseFits(s[i]) /\ JumpSound(s[i].saved, s, i - 1)
    BY <1>4 DEF Fits
  <2>2. PICK c : c = u[i].saved
    OBVIOUS
  <2>3. PhaseFits(u[i]) /\ JumpSound(c, s, i - 1)
    BY <1>1, <1>2, <1>3, <2>1, <2>2
  <2>4. i - 1 \in Nat /\ Alike(s, u, i - 1)
    BY <1>5 DEF Alike
  <2> QED BY <2>2, <2>3, <2>4, JumpAlike
<1>7. ASSUME NEW i \in 1..n, i < n PROVE u[i].phase \in Waiting
  BY <1>1, <1>3, <1>4, <1>7 DEF Fits
<1>8. ASSUME NEW i \in 1..n, NEW j \in 1..n, u[i].label = u[j].label, u[i].label # None
      PROVE  i = j
  <2>1. s[i].label = u[i].label /\ s[j].label = u[j].label
    BY <1>5 DEF Alike
  <2> QED BY <1>4, <1>8, <2>1 DEF Fits
<1>9. u[n] = f /\ Last(u) = f /\ u # <<>>
  BY <1>3, <1>4, EmptySeq DEF Last
<1> QED BY <1>1, <1>3, <1>4, <1>5, <1>6, <1>7, <1>8, <1>9 DEF Fits

\* It goes.
LEMMA Gone ==
    ASSUME NEW s \in Seq(FrameType), s # <<>>, Fits(s)
    PROVE  /\ Front(s) \in Seq(FrameType) /\ Len(Front(s)) = Len(s) - 1 /\ Fits(Front(s))
           /\ Alike(s, Front(s), Len(s) - 1)
           /\ Front(s) # <<>> => Last(Front(s)).phase \in Waiting
<1>1. PICK n \in Nat : Len(s) = n + 1
  <2>1. Len(s) \in Nat \ {0}
    BY EmptySeq
  <2> QED BY <2>1
<1>2. PICK u : u = Front(s)
  OBVIOUS
<1>3. /\ u \in Seq(FrameType) /\ Len(u) = n /\ \A i \in 1..n : u[i] = s[i]
  <2>1. u = SubSeq(s, 1, n)
    BY <1>1, <1>2 DEF Front
  <2>2. \A i \in 1..n : s[i] \in FrameType
    BY <1>1, ElementOfSeq
  <2>3. /\ SubSeq(s, 1, n) \in Seq(FrameType)
        /\ Len(SubSeq(s, 1, n)) = IF 1 <= n THEN n - 1 + 1 ELSE 0
        /\ \A i \in 1..n - 1 + 1 : SubSeq(s, 1, n)[i] = s[1 + i - 1]
    BY <2>2, SubSeqProperties
  <2>4. Len(u) = n
    BY <2>1, <2>3
  <2>5. \A i \in 1..n : i \in 1..n - 1 + 1 /\ 1 + i - 1 = i
    OBVIOUS
  <2> QED BY <2>1, <2>3, <2>4, <2>5
<1>4. DOMAIN s = 1..n + 1 /\ DOMAIN u = 1..n /\ (n + 1) - 1 = n /\ \A i \in 1..n : i \in 1..n + 1 /\ i < n + 1
  BY <1>1, <1>3, LenProperties
<1>5. Alike(s, u, n)
  BY <1>3 DEF Alike
<1>6. ASSUME NEW i \in 1..n PROVE PhaseFits(u[i]) /\ JumpSound(u[i].saved, u, i - 1)
  <2>1. PhaseFits(s[i]) /\ JumpSound(s[i].saved, s, i - 1)
    BY <1>4 DEF Fits
  <2>2. i - 1 \in Nat /\ Alike(s, u, i - 1)
    BY <1>5 DEF Alike
  <2>3. PICK c : c = s[i].saved
    OBVIOUS
  <2>4. JumpSound(c, u, i - 1)
    BY <2>1, <2>2, <2>3, JumpAlike
  <2> QED BY <1>3, <2>1, <2>3, <2>4
<1>7. \A i \in 1..n : u[i].phase \in Waiting
  BY <1>1, <1>3, <1>4 DEF Fits
<1>8. \A i, j \in 1..n : u[i].label = u[j].label /\ u[i].label # None => i = j
  BY <1>3, <1>4 DEF Fits
<1>9. ASSUME u # <<>> PROVE Last(u).phase \in Waiting
  <2>1. n \in 1..n
    BY <1>3, <1>9, EmptySeq
  <2> QED BY <1>3, <1>7, <2>1 DEF Last
<1> QED BY <1>1, <1>2, <1>3, <1>4, <1>5, <1>6, <1>7, <1>8, <1>9 DEF Fits

\* One comes.
LEMMA Come ==
    ASSUME NEW s \in Seq(FrameType), Fits(s), s # <<>> => Last(s).phase \in Waiting,
           NEW f \in FrameType, PhaseFits(f), f.saved = Normal,
           f.label # None => \A i \in DOMAIN s : s[i].label # f.label,
           NEW u, u = Append(s, f)
    PROVE  /\ u \in Seq(FrameType) /\ Len(u) = Len(s) + 1 /\ Fits(u) /\ u # <<>> /\ Last(u) = f
           /\ \A i \in DOMAIN s : u[i] = s[i]
<1>1. PICK n \in Nat : Len(s) = n
  BY LenProperties
<1>2. /\ u \in Seq(FrameType) /\ u # <<>> /\ Len(u) = n + 1 /\ u[n + 1] = f
      /\ \A i \in 1..n : u[i] = s[i]
  BY <1>1, AppendProperties
<1>3. DOMAIN s = 1..n /\ DOMAIN u = 1..n + 1 /\ \A i \in 1..n + 1 : i \in 1..n \/ i = n + 1
  BY <1>1, <1>2, LenProperties
<1>4. ASSUME NEW i \in 1..n + 1 PROVE PhaseFits(u[i]) /\ JumpSound(u[i].saved, u, i - 1)
  <2>1. CASE i \in 1..n
    <3>1. PhaseFits(s[i]) /\ JumpSound(s[i].saved, s, i - 1)
      BY <1>3, <2>1 DEF Fits
    <3>2. i - 1 \in Nat /\ \A j \in 1..i - 1 : j \in 1..n
      BY <2>1
    <3>3. Alike(s, u, i - 1)
      BY <1>2, <3>2 DEF Alike
    <3>4. PICK c : c = s[i].saved
      OBVIOUS
    <3>5. JumpSound(c, u, i - 1)
      BY <3>1, <3>2, <3>3, <3>4, JumpAlike
    <3> QED BY <1>2, <2>1, <3>1, <3>4, <3>5
  <2>2. CASE i = n + 1
    <3>1. u[i] = f /\ f.saved.type \notin Jumps
      BY <1>2, <2>2, Named
    <3> QED BY <3>1, NoJump
  <2> QED BY <1>3, <2>1, <2>2
<1>5. ASSUME NEW i \in 1..n + 1, i < n + 1 PROVE u[i].phase \in Waiting
  <2>1. i \in 1..n
    BY <1>5
  <2>2. u[i] = s[i]
    BY <1>2, <2>1
  <2>3. CASE i < n
    BY <1>1, <1>3, <2>1, <2>2, <2>3 DEF Fits
  <2>4. CASE i = n
    <3>1. s # <<>> /\ Last(s) = s[n]
      BY <1>1, <2>1, <2>4, EmptySeq DEF Last
    <3> QED BY <2>2, <2>4, <3>1
  <2>5. i < n \/ i = n
    BY <2>1
  <2> QED BY <2>3, <2>4, <2>5
<1>6. ASSUME NEW i \in 1..n + 1, NEW j \in 1..n + 1, u[i].label = u[j].label, u[i].label # None
      PROVE  i = j
  <2>1. CASE i \in 1..n /\ j \in 1..n
    BY <1>2, <1>3, <1>6, <2>1 DEF Fits
  <2>2. CASE i = n + 1 \/ j = n + 1
    BY <1>2, <1>3, <1>6, <2>2
  <2> QED BY <1>3, <2>1, <2>2
<1>7. Last(u) = f
  BY <1>2 DEF Last
<1> QED BY <1>1, <1>2, <1>3, <1>4, <1>5, <1>6, <1>7 DEF Fits

-----------------------------------------------------------------------------
(* The moves of the model.                                                 *)

\* What a step of the system promises: the bodies of the four action properties.
FinallyRan ==
    Leaving("try") /\ Top.finalizer =>
       IF Top.phase = "finally"
       THEN ctrl' = IF ctrl = Normal THEN Top.saved ELSE ctrl
       ELSE /\ ctrl # Normal
            /\ \/ Top.phase = "param"
               \/ Top.phase = "catch" /\ Top.gen /\ ~Top.yielded
Released ==
    /\ Leaving("forof") => /\ Top.phase # "body"
                           /\ ctrl = Run => Top.phase = "test"
    /\ Leaving("block") => /\ Top.using <= 1
                           /\ Top.using = 1 => Top.phase = "dispose"
NoTurn ==
    ticks > MaxTicks /\ Depth > 0 /\ Len(stack') >= Depth =>
       /\ Top.kind \in Loops /\ Top.phase = "test"
            => stack'[Depth].phase = "test"
       /\ Top.kind = "block" /\ ~Top.gen /\ Top.phase = "next" /\ ctrl' = Run
            => stack'[Depth].phase = "next"

Promised == JumpLands /\ CatchesErrors /\ FinallyRan /\ Released /\ NoTurn

\* The stack of a reachable state.
LEMMA StackIs ==
    ASSUME IInv
    PROVE  /\ stack \in Seq(FrameType) /\ ctrl \in CompletionType /\ Depth \in Nat
           /\ Depth > 0 <=> stack # <<>>
           /\ Depth > 0 => /\ Depth \in Nat \ {0} /\ Depth \in DOMAIN stack
                           /\ Top = stack[Depth] /\ Top \in FrameType
                           /\ PhaseFits(Top) /\ TopFits(Top, ctrl)
                           /\ JumpSound(Top.saved, stack, Depth - 1)
           /\ JumpSound(ctrl, stack, Depth) /\ Fits(stack)
<1>1. /\ stack \in Seq(FrameType) /\ ctrl \in CompletionType /\ Fits(stack)
      /\ JumpSound(ctrl, stack, Depth) /\ (stack # <<>> => TopFits(Top, ctrl))
  BY DEF IInv, Sound, Depth, Top
<1>2. Depth \in Nat /\ (Depth > 0 <=> stack # <<>>) /\ DOMAIN stack = 1..Depth
  BY <1>1, EmptySeq, LenProperties DEF Depth
<1>3. ASSUME Depth > 0
      PROVE  /\ Depth \in Nat \ {0} /\ Depth \in DOMAIN stack
             /\ Top = stack[Depth] /\ Top \in FrameType
             /\ PhaseFits(Top) /\ JumpSound(Top.saved, stack, Depth - 1)
  <2>1. stack # <<>> /\ Depth \in 1..Depth
    BY <1>2, <1>3
  <2> QED BY <1>1, <1>2, <2>1, TopIs DEF Depth, Top
<1> QED BY <1>1, <1>2, <1>3

\* The top frame stays.
LEMMA StayKeeps ==
    ASSUME IInv, Depth > 0, NEW f \in FrameType, NEW c \in CompletionType, Stay(f, c),
           f.kind = Top.kind, f.label = Top.label, f.saved = Top.saved, PhaseFits(f),
           TopFits(f, c), JumpSound(c, stack, Depth), ticks' \in Nat
    PROVE  IInv' /\ Len(stack') = Depth /\ stack'[Depth] = f /\ ctrl' = c
<1>1. stack \in Seq(FrameType) /\ Fits(stack) /\ stack # <<>>
  BY StackIs
<1>2. PICK u : u = [stack EXCEPT ![Len(stack)] = f]
  OBVIOUS
<1>3. /\ u \in Seq(FrameType) /\ Len(u) = Depth /\ u[Depth] = f /\ Last(u) = f
      /\ Fits(u) /\ Alike(stack, u, Depth)
  BY <1>1, <1>2, Stayed DEF Depth, Top
<1>4. JumpSound(c, u, Len(u))
  <2>1. Depth \in Nat
    BY StackIs
  <2> QED BY <1>3, <2>1, JumpAlike
<1>5. Sound(u, c)
  BY <1>3, <1>4 DEF Sound
<1>6. stack' = u /\ ctrl' = c
  BY <1>2 DEF Stay, Depth
<1> QED BY <1>3, <1>5, <1>6 DEF IInv

\* It is left.
LEMMA LeaveKeeps ==
    ASSUME IInv, Depth > 0, NEW c \in CompletionType, Leave(c),
           JumpSound(c, stack, Depth - 1), ticks' \in Nat
    PROVE  IInv' /\ Len(stack') = Depth - 1 /\ ctrl' = c
<1>1. stack \in Seq(FrameType) /\ Fits(stack) /\ stack # <<>> /\ Depth - 1 \in Nat
  BY StackIs
<1>2. PICK u : u = Front(stack)
  OBVIOUS
<1>3. /\ u \in Seq(FrameType) /\ Len(u) = Depth - 1 /\ Fits(u) /\ Alike(stack, u, Depth - 1)
      /\ u # <<>> => Last(u).phase \in Waiting
  BY <1>1, <1>2, Gone DEF Depth
<1>4. JumpSound(c, u, Len(u))
  BY <1>1, <1>3, JumpAlike
<1>5. u # <<>> => TopFits(Last(u), c)
  BY <1>3 DEF TopFits, Waiting, HeadPhases
<1>6. Sound(u, c)
  BY <1>3, <1>4, <1>5 DEF Sound
<1>7. stack' = u /\ ctrl' = c
  BY <1>2 DEF Leave
<1> QED BY <1>3, <1>6, <1>7 DEF IInv

\* A statement in it is entered.
LEMMA EnterKeeps ==
    ASSUME IInv, NEW f \in FrameType, NEW c \in CompletionType, c.type \notin Jumps,
           stack' = Append(stack, f), ctrl' = c, Depth > 0 => Top.phase \in Waiting,
           PhaseFits(f), f.saved = Normal, TopFits(f, c),
           f.label # None => \A i \in DOMAIN stack : stack[i].label # f.label, ticks' \in Nat
    PROVE  IInv' /\ Len(stack') = Depth + 1 /\ (Depth > 0 => stack'[Depth] = Top)
<1>1. /\ stack \in Seq(FrameType) /\ Fits(stack) /\ (Depth > 0 <=> stack # <<>>)
      /\ Depth > 0 => Depth \in DOMAIN stack /\ Top = stack[Depth]
  BY StackIs
<1>2. PICK u : u = Append(stack, f)
  OBVIOUS
<1>3. /\ u \in Seq(FrameType) /\ Len(u) = Depth + 1 /\ Fits(u) /\ Last(u) = f
      /\ \A i \in DOMAIN stack : u[i] = stack[i]
  <2>1. stack # <<>> => Last(stack).phase \in Waiting
    BY <1>1 DEF Top
  <2>2. f.label # None => \A i \in DOMAIN stack : stack[i].label # f.label
    OBVIOUS
  <2>3. stack \in Seq(FrameType) /\ Fits(stack) /\ PhaseFits(f) /\ f.saved = Normal
    BY <1>1
  <2>4. /\ u \in Seq(FrameType) /\ Len(u) = Len(stack) + 1 /\ Fits(u) /\ Last(u) = f
        /\ \A i \in DOMAIN stack : u[i] = stack[i]
    BY ONLY <1>2, <2>1, <2>2, <2>3, f \in FrameType, Come
  <2> QED BY <2>4 DEF Depth
<1>4. Sound(u, c)
  BY <1>3, NoJump DEF Sound
<1> QED BY <1>1, <1>2, <1>3, <1>4 DEF IInv

\* Another place in the same frame.
LEMMA InIs ==
    ASSUME NEW f \in FrameType, NEW phase \in Phases, NEW g, g = [f EXCEPT !.phase = phase]
    PROVE  /\ g \in FrameType /\ g.kind = f.kind /\ g.label = f.label /\ g.gen = f.gen
           /\ g.phase = phase /\ g.saved = f.saved /\ g.using = f.using
BY DEF FrameType

\* While a statement runs no jump travels.
LEMMA RunPromises ==
    ASSUME ctrl = Run, FinallyRan, Released, NoTurn PROVE Promised
<1>1. ctrl.type = "run" /\ ctrl.type \notin Jumps
  BY Named
<1>2. ~Travels
  BY <1>1, Names DEF Travels, Jumps
<1> QED BY <1>1, <1>2 DEF Promised, JumpLands, CatchesErrors

\* Steps that only count.
LEMMA TickedIs == ASSUME ticks \in Nat PROVE Ticked \in Nat /\ (ticks > MaxTicks => Expired)
BY CompletionsAssumption DEF Ticked, Expired

-----------------------------------------------------------------------------
(* While a statement runs.                                                 *)

\* A block goes on.
LEMMA BlockNextKeeps == ASSUME IInv, BlockNext \/ GeneratorBlockNext PROVE IInv' /\ Promised
<1>1. /\ Depth > 0 /\ ctrl = Run /\ Top.kind = "block" /\ Top.phase = "next"
      /\ Top \in FrameType /\ PhaseFits(Top) /\ ticks \in Nat
  BY StackIs DEF BlockNext, GeneratorBlockNext, IInv
<1>2. PICK f : f = In("body")
  OBVIOUS
<1>3. /\ f \in FrameType /\ f.kind = Top.kind /\ f.label = Top.label /\ f.saved = Top.saved
      /\ f.phase = "body"
  BY <1>1, <1>2, InIs DEF In, Phases
<1>4. PICK c : c \in {Run, Timeout} /\ Stay(f, c) /\ (c = Run => ~(ticks > MaxTicks) \/ Top.gen)
  <2>1. CASE BlockNext
    <3>1. CASE Expired
      BY <1>2, <2>1, <3>1, Named DEF BlockNext
    <3>2. CASE ~Expired
      BY <1>1, <1>2, <2>1, <3>2, TickedIs DEF BlockNext
    <3> QED BY <3>1, <3>2
  <2>2. CASE GeneratorBlockNext
    BY <1>2, <2>2 DEF GeneratorBlockNext
  <2> QED BY <2>1, <2>2
<1>5. c \in CompletionType /\ c.type \notin Jumps
  BY <1>4, Named
<1>6. PhaseFits(f) /\ TopFits(f, c)
  BY <1>1, <1>3, <1>5, Names DEF PhaseFits, TopFits, HeadPhases
<1>7. ticks' \in Nat
  BY <1>1, TickedIs DEF BlockNext, GeneratorBlockNext
<1>8. IInv' /\ Len(stack') = Depth /\ stack'[Depth] = f /\ ctrl' = c
  BY <1>1, <1>3, <1>4, <1>5, <1>6, <1>7, NoJump, StayKeeps
<1>9. FinallyRan /\ Released
  BY <1>8, StackIs DEF FinallyRan, Released, Leaving
<1>10. NoTurn
  BY <1>1, <1>4, <1>8, Names DEF NoTurn
<1> QED BY <1>1, <1>8, <1>9, <1>10, RunPromises

\* A block ends.
LEMMA BlockEndsKeeps == ASSUME IInv, BlockEnds PROVE IInv' /\ Promised
<1>1. /\ Depth > 0 /\ ctrl = Run /\ Top.kind = "block" /\ Top.phase = "next"
      /\ Top \in FrameType /\ PhaseFits(Top) /\ ticks' \in Nat
  BY StackIs DEF BlockEnds, IInv
<1>2. Normal \in CompletionType /\ Normal.type = "normal" /\ Normal.type \notin Jumps /\ Normal # Run
  BY Named
<1>3. CASE Top.using > 0
  <2>1. PICK f : f = In("dispose")
    OBVIOUS
  <2>2. /\ f \in FrameType /\ f.kind = Top.kind /\ f.label = Top.label /\ f.saved = Top.saved
        /\ f.phase = "dispose" /\ f.using = Top.using
    BY <1>1, <2>1, InIs DEF In, Phases
  <2>3. Stay(f, Normal)
    BY <1>3, <2>1 DEF BlockEnds
  <2>4. PhaseFits(f) /\ TopFits(f, Normal)
    BY <1>1, <1>2, <1>3, <2>2, Names DEF PhaseFits, TopFits, HeadPhases
  <2>5. IInv' /\ Len(stack') = Depth /\ stack'[Depth] = f /\ ctrl' = Normal
    BY <1>1, <1>2, <2>2, <2>3, <2>4, NoJump, StayKeeps
  <2>6. FinallyRan /\ Released /\ NoTurn
    BY <1>1, <1>2, <2>5, StackIs, Names DEF FinallyRan, Released, NoTurn, Leaving
  <2> QED BY <1>1, <2>5, <2>6, RunPromises
<1>4. CASE ~(Top.using > 0)
  <2>1. Leave(Normal)
    BY <1>4 DEF BlockEnds
  <2>2. IInv' /\ Len(stack') = Depth - 1
    BY <1>1, <1>2, <2>1, NoJump, LeaveKeeps
  <2>3. Top.using = 0 /\ ~(Depth - 1 >= Depth)
    BY <1>1, <1>4, StackIs, FrameIs
  <2>4. FinallyRan /\ Released /\ NoTurn
    BY <1>1, <2>2, <2>3, Names DEF FinallyRan, Released, NoTurn, Leaving, Loops
  <2> QED BY <1>1, <2>2, <2>4, RunPromises
<1> QED BY <1>3, <1>4

\* A statement in the top frame has completed, which its frame only notes.
LEMMA CompletedKeeps ==
    ASSUME IInv, AtStatement, NEW f \in FrameType, NEW c \in CompletionType, Stay(f, c),
           f.kind = Top.kind, f.label = Top.label, f.saved = Top.saved, f.phase = "body",
           JumpSound(c, stack, Depth), UNCHANGED ticks
    PROVE  IInv' /\ Promised
<1>1. /\ Depth > 0 /\ ctrl = Run /\ Top.phase = "body" /\ Top \in FrameType /\ PhaseFits(Top)
      /\ ticks' \in Nat
  BY StackIs DEF AtStatement, IInv
<1>2. PhaseFits(f) /\ TopFits(f, c)
  BY <1>1 DEF PhaseFits, TopFits, HeadPhases
<1>3. IInv' /\ Len(stack') = Depth /\ stack'[Depth] = f /\ ctrl' = c
  BY <1>1, <1>2, StayKeeps
<1>4. FinallyRan /\ Released /\ NoTurn
  BY <1>1, <1>3, StackIs DEF FinallyRan, Released, NoTurn, Leaving
<1> QED BY <1>1, <1>3, <1>4, RunPromises

\* A using declaration.
LEMMA UsingKeeps == ASSUME IInv, Using PROVE IInv' /\ Promised
<1>1. AtStatement /\ Depth > 0 /\ Top.phase = "body" /\ Top \in FrameType /\ UNCHANGED ticks
  BY StackIs DEF AtStatement, Using
<1>2. Normal \in CompletionType /\ Normal.type \notin Jumps
  BY Named
<1>3. PICK f \in FrameType : /\ Stay(f, Normal) /\ f.kind = Top.kind /\ f.label = Top.label
                             /\ f.saved = Top.saved /\ f.phase = "body"
  <2>1. CASE Top.gen
    BY <1>1, <2>1 DEF Using
  <2>2. CASE ~Top.gen
    <3>1. PICK f : f = [Top EXCEPT !.using = @ + 1]
      OBVIOUS
    <3>2. /\ f \in FrameType /\ f.kind = Top.kind /\ f.label = Top.label
          /\ f.saved = Top.saved /\ f.phase = "body"
      BY <1>1, <3>1 DEF FrameType
    <3>3. Stay(f, Normal)
      BY <2>2, <3>1 DEF Using
    <3> QED BY <3>2, <3>3
  <2> QED BY <2>1, <2>2
<1> QED BY <1>1, <1>2, <1>3, NoJump, CompletedKeeps

\* A simple statement.
LEMMA EvaluateKeeps == ASSUME IInv, Evaluate PROVE IInv' /\ Promised
<1>1. AtStatement /\ Top.phase = "body" /\ Top \in FrameType /\ UNCHANGED ticks
  BY StackIs DEF AtStatement, Evaluate
<1>2. PICK c \in {Normal, Throw, Return} : Stay(Top, c)
  BY DEF Evaluate
<1>3. c \in CompletionType /\ c.type \notin Jumps
  BY <1>2, Named
<1> QED BY <1>1, <1>2, <1>3, NoJump, CompletedKeeps

\* A jump starts out for its target.
LEMMA AimedIsSound ==
    ASSUME IInv, Depth > 0, NEW type \in Jumps, NEW l \in Label \cup {None},
           Targets(type, l) # {}, NEW c,
           c = [type |-> type, label |-> l, target |-> Innermost(Targets(type, l))]
    PROVE  c \in CompletionType /\ JumpSound(c, stack, Depth)
<1>1. /\ Depth \in Nat /\ DOMAIN stack = 1..Depth /\ Fits(stack)
      /\ \A i \in 1..Depth : stack[i] \in FrameType /\ PhaseFits(stack[i])
  <2>1. stack \in Seq(FrameType) /\ Fits(stack) /\ Depth \in Nat
    BY StackIs
  <2>2. DOMAIN stack = 1..Depth
    BY <2>1, LenProperties DEF Depth
  <2> QED BY <2>1, <2>2, ElementOfSeq DEF Fits, Depth
<1>2. Targets(type, l) \subseteq 1..Depth
  <2>1. ASSUME NEW j \in 1..Depth PROVE LoopOf(j) \in 1..Depth
    BY <1>1 DEF LoopOf
  <2>2. Labelled(l) \subseteq 1..Depth
    BY DEF Labelled
  <2> QED BY <2>1, <2>2 DEF Targets
<1>3. PICK t : t = Innermost(Targets(type, l))
  OBVIOUS
<1>4. t \in Targets(type, l) /\ (\A k \in Targets(type, l) : k <= t) /\ t \in 1..Depth
  BY <1>1, <1>2, <1>3, InnermostIs
<1>5. c.type = type /\ c.label = l /\ c.target = t
  BY <1>3
<1>6. c \in CompletionType
  BY <1>1, <1>3, <1>4 DEF CompletionType
<1>7. CASE type = "break" \/ l = None
  <2>1. \A i \in 1..Depth : Takes(c, stack[i]) <=> i \in Targets(type, l)
    <3>1. CASE l = None
      BY <1>5, <3>1 DEF Takes, Targets
    <3>2. CASE l # None
      BY <1>5, <1>7, <3>2 DEF Takes, Targets, Labelled
    <3> QED BY <3>1, <3>2
  <2> QED BY <1>4, <1>5, <1>6, <2>1 DEF JumpSound
<1>8. CASE type = "continue" /\ l # None
  <2>1. PICK j \in Labelled(l) : t = LoopOf(j) /\ stack[t].kind \in Loops
    BY <1>4, <1>8 DEF Targets
  <2>2. j \in 1..Depth /\ stack[j].label = l
    BY <2>1 DEF Labelled
  <2>3. \A i \in 1..Depth : stack[i].label = l => i = j
    BY <1>1, <1>8, <2>2 DEF Fits
  <2>4. CASE t = j
    <3>1. Takes(c, stack[t]) /\ \A i \in 1..Depth : Takes(c, stack[i]) => i = t
      BY <1>5, <1>8, <2>1, <2>2, <2>3, <2>4 DEF Takes
    <3>2. t <= t
      BY <1>4
    <3> QED BY <1>4, <1>5, <1>6, <3>1, <3>2 DEF JumpSound
  <2>5. CASE t # j
    <3>1. stack[j].kind = "labelled"
      BY <2>1, <2>5 DEF LoopOf
    <3>2. \A i \in 1..Depth : ~Takes(c, stack[i])
      BY <1>5, <1>8, <2>3, <3>1, Names DEF Takes
    <3>3. c.label # stack[t].label
      BY <1>4, <1>5, <2>3, <2>5
    <3> QED BY <1>5, <1>6, <1>8, <3>2, <3>3 DEF JumpSound
  <2> QED BY <2>4, <2>5
<1> QED BY <1>7, <1>8 DEF Jumps

\* A jump.
LEMMA JumpKeeps == ASSUME IInv, Jump PROVE IInv' /\ Promised
<1>1. AtStatement /\ Depth > 0 /\ Top.phase = "body" /\ Top \in FrameType /\ UNCHANGED ticks
  BY StackIs DEF AtStatement, Jump
<1>2. PICK type \in Jumps, l \in Label \cup {None} :
         /\ Targets(type, l) # {}
         /\ Stay(Top, [type |-> type, label |-> l, target |-> Innermost(Targets(type, l))])
  BY DEF Jump
<1>3. PICK c : c = [type |-> type, label |-> l, target |-> Innermost(Targets(type, l))]
  OBVIOUS
<1>4. c \in CompletionType /\ JumpSound(c, stack, Depth)
  BY <1>1, <1>2, <1>3, AimedIsSound
<1> QED BY <1>1, <1>2, <1>3, <1>4, CompletedKeeps

\* A new frame.
LEMMA NewFrameIs ==
    ASSUME NEW kind \in Kinds, NEW l \in Label \cup {None}, NEW gen \in BOOLEAN,
           NEW phase \in Phases, NEW f, f = Frame(kind, l, gen, phase)
    PROVE  /\ f \in FrameType /\ f.kind = kind /\ f.label = l /\ f.gen = gen /\ f.phase = phase
           /\ f.saved = Normal /\ f.using = 0
<1>1. Normal \in CompletionType
  BY Named
<1> QED BY <1>1 DEF Frame, FrameType

\* The promises when frames come.
LEMMA EnterPromises ==
    ASSUME ctrl = Run, Depth \in Nat, Depth > 0 => Top.phase = "body", NEW n \in Nat,
           Len(stack') = Depth + n
    PROVE  Promised
<1>1. ~(Depth + n < Depth)
  OBVIOUS
<1>2. FinallyRan /\ Released /\ NoTurn
  BY <1>1 DEF FinallyRan, Released, NoTurn, Leaving
<1> QED BY <1>2, RunPromises

\* A statement is entered.
LEMMA StatementKeeps ==
    ASSUME IInv, AtStatement, NEW f \in FrameType, stack' = Append(stack, f), f.saved = Normal,
           NEW c \in {Run, Timeout}, ctrl' = c, ticks' \in Nat, PhaseFits(f),
           f.label # None => f.label \in FreeLabel
    PROVE  IInv' /\ Promised
<1>1. /\ Depth > 0 /\ ctrl = Run /\ Top.phase = "body" /\ Depth \in Nat
      /\ DOMAIN stack = 1..Depth
  <2>1. stack \in Seq(FrameType) /\ Depth \in Nat
    BY StackIs
  <2> QED BY <2>1, LenProperties DEF AtStatement, Depth
<1>2. c \in CompletionType /\ c.type \notin Jumps /\ c.type # "normal"
  BY Named
<1>3. TopFits(f, c)
  BY <1>2 DEF TopFits
<1>4. f.label # None => \A i \in DOMAIN stack : stack[i].label # f.label
  BY <1>1 DEF FreeLabel, Labelled
<1>5. Top.phase \in Waiting
  BY <1>1 DEF Waiting
<1>6. IInv' /\ Len(stack') = Depth + 1
  BY <1>2, <1>3, <1>4, <1>5, EnterKeeps
<1> QED BY <1>1, <1>6, EnterPromises

\* A compound statement.
LEMMA EnterStatementKeeps == ASSUME IInv, EnterStatement PROVE IInv' /\ Promised
<1>1. AtStatement /\ ctrl' = ctrl /\ ctrl = Run /\ ticks' \in Nat /\ Top.gen \in BOOLEAN
  BY StackIs, FrameIs DEF EnterStatement, AtStatement, IInv
<1>2. PICK kind \in Kind \ {"dowhile", "labelled", "try"}, gen \in Evaluators(Top) :
         \E l \in {None} \cup (IF kind \in Loops THEN FreeLabel ELSE {}) :
           stack' = Inner(Frame(kind, l, gen, FirstPhase(kind)))
  BY DEF EnterStatement
<1>3. PICK l \in {None} \cup (IF kind \in Loops THEN FreeLabel ELSE {}) :
         stack' = Inner(Frame(kind, l, gen, FirstPhase(kind)))
  BY <1>2
<1>4. /\ kind \in Kinds \ {"dowhile", "labelled", "try"} /\ gen \in BOOLEAN
      /\ l \in Label \cup {None} /\ FirstPhase(kind) \in Phases
  BY <1>1, CompletionsAssumption DEF Kinds, Evaluators, FreeLabel, FirstPhase, Phases
<1>5. PICK f : f = Frame(kind, l, gen, FirstPhase(kind))
  OBVIOUS
<1>6. /\ f \in FrameType /\ f.kind = kind /\ f.label = l
      /\ f.phase = FirstPhase(kind) /\ f.saved = Normal /\ f.using = 0
  BY <1>4, <1>5, NewFrameIs
<1>7. PhaseFits(f)
  <2>1. CASE kind = "block"
    BY <1>3, <1>6, <2>1, Names DEF PhaseFits, FirstPhase
  <2>2. CASE kind \in Loops
    BY <1>4, <1>6, <2>2, Names DEF PhaseFits, FirstPhase, Kinds
  <2>3. CASE kind \in {"switch", "with"}
    BY <1>3, <1>6, <2>3, Names DEF PhaseFits, FirstPhase
  <2> QED BY <1>4, <2>1, <2>2, <2>3 DEF Kinds
<1>8. stack' = Append(stack, f)
  BY <1>3, <1>5 DEF Inner
<1>9. f.label # None => f.label \in FreeLabel
  BY <1>3, <1>6
<1> QED BY <1>1, <1>6, <1>7, <1>8, <1>9, StatementKeeps

\* do ... while, or a labelled statement.
LEMMA EnterOthersKeeps == ASSUME IInv, EnterDoWhile \/ EnterLabelled PROVE IInv' /\ Promised
<1>1. AtStatement /\ ctrl = Run /\ ticks' \in Nat /\ ctrl' \in {Run, Timeout} /\ Top.gen \in BOOLEAN
  BY StackIs, FrameIs, TickedIs DEF EnterDoWhile, EnterLabelled, AtStatement, IInv
<1>2. PICK kind \in {"dowhile", "labelled"}, l \in Label \cup {None}, gen \in BOOLEAN :
         /\ stack' = Inner(Frame(kind, l, gen, "body"))
         /\ l # None => l \in FreeLabel
         /\ kind = "labelled" => l # None
  <2>1. CASE EnterDoWhile
    <3>1. PICK gen \in Evaluators(Top), l \in {None} \cup FreeLabel :
             stack' = Inner(Frame("dowhile", l, gen, "body"))
      BY <2>1 DEF EnterDoWhile
    <3>2. gen \in BOOLEAN /\ l \in Label \cup {None} /\ (l # None => l \in FreeLabel)
      BY <1>1, <3>1 DEF Evaluators, FreeLabel
    <3> QED BY <3>1, <3>2
  <2>2. CASE EnterLabelled
    <3>1. PICK gen \in Evaluators(Top), l \in FreeLabel :
             stack' = Inner(Frame("labelled", l, gen, "body"))
      BY <2>2 DEF EnterLabelled
    <3>2. gen \in BOOLEAN /\ l \in Label /\ l # None
      BY <1>1, <3>1, Names DEF Evaluators, FreeLabel
    <3> QED BY <3>1, <3>2
  <2> QED BY <2>1, <2>2
<1>3. PICK f : f = Frame(kind, l, gen, "body")
  OBVIOUS
<1>4. /\ f \in FrameType /\ f.kind = kind /\ f.label = l
      /\ f.phase = "body" /\ f.saved = Normal /\ f.using = 0
  BY <1>3, NewFrameIs DEF Kinds, Phases, Loops
<1>5. PhaseFits(f)
  BY <1>2, <1>4 DEF PhaseFits
<1>6. stack' = Append(stack, f)
  BY <1>2, <1>3 DEF Inner
<1> QED BY <1>1, <1>2, <1>4, <1>5, <1>6, StatementKeeps

\* A call.
LEMMA CallKeeps == ASSUME IInv, Call PROVE IInv' /\ Promised
<1>1. Depth = 0 /\ ctrl' = Run /\ ticks' \in Nat /\ stack = <<>>
  BY StackIs DEF Call, IInv
<1>2. PICK g \in BOOLEAN : stack' = <<Block(g)>>
  BY DEF Call
<1>3. PICK f : f = Block(g)
  OBVIOUS
<1>4. /\ f \in FrameType /\ f.kind = "block" /\ f.label = None
      /\ f.phase = "next" /\ f.saved = Normal /\ f.using = 0
  BY <1>3, NewFrameIs DEF Block, Kinds, Phases
<1>5. PhaseFits(f) /\ TopFits(f, Run)
  BY <1>4, Names DEF PhaseFits, TopFits, HeadPhases
<1>6. stack' = Append(stack, f)
  BY <1>1, <1>2, <1>3
<1>7. IInv'
  BY <1>1, <1>4, <1>5, <1>6, Named, EnterKeeps
<1>8. Promised
  BY <1>1 DEF Promised, JumpLands, CatchesErrors, FinallyRan, Released, NoTurn, Leaving
<1> QED BY <1>7, <1>8

-----------------------------------------------------------------------------
(* Heads of loops.                                                         *)

\* A loop ends.
LEMMA LoopEndsKeeps == ASSUME IInv, LoopEnds PROVE IInv' /\ Promised
<1>1. /\ Depth > 0 /\ ctrl = Run /\ Top.kind \in Loops /\ Top.phase = "test" /\ Depth \in Nat
      /\ Leave(Normal) /\ ticks' \in Nat
  BY StackIs, TickedIs DEF LoopEnds, AtTest, IInv
<1>2. IInv' /\ Len(stack') = Depth - 1
  BY <1>1, Named, NoJump, LeaveKeeps
<1>3. FinallyRan /\ Released /\ NoTurn
  BY <1>1, <1>2, Names DEF FinallyRan, Released, NoTurn, Leaving
<1> QED BY <1>1, <1>2, <1>3, RunPromises

\* The head of a loop, or the parameter of a handler, goes on or fails.
LEMMA HeadKeeps ==
    ASSUME IInv, Depth > 0, ctrl = Run, Top.phase \in HeadPhases,
           NEW f \in FrameType, NEW c \in {Run, Throw, Timeout}, Stay(f, c), PhaseFits(f),
           f.kind = Top.kind, f.label = Top.label, f.saved = Top.saved, ticks' \in Nat,
           ticks > MaxTicks => Top.phase # "test" \/ f.phase = "test"
    PROVE  IInv' /\ Promised
<1>1. c \in CompletionType /\ c.type \notin Jumps /\ c.type # "normal"
  BY Named
<1>2. TopFits(f, c)
  BY <1>1 DEF TopFits
<1>3. IInv' /\ Len(stack') = Depth /\ stack'[Depth] = f /\ ctrl' = c
  BY <1>1, <1>2, NoJump, StayKeeps
<1>4. FinallyRan /\ Released /\ NoTurn
  BY <1>3, StackIs DEF FinallyRan, Released, NoTurn, Leaving, HeadPhases
<1> QED BY <1>3, <1>4, RunPromises

\* A loop takes another turn.
LEMMA LoopTurnKeeps == ASSUME IInv, LoopTurn PROVE IInv' /\ Promised
<1>1. /\ Depth > 0 /\ ctrl = Run /\ Top.kind \in Loops /\ Top.phase = "test"
      /\ Top \in FrameType /\ PhaseFits(Top) /\ ticks' \in Nat
  BY StackIs, TickedIs DEF LoopTurn, AtTest, IInv
<1>2. Top.phase \in HeadPhases
  BY <1>1 DEF HeadPhases
<1>3. CASE Expired
  <2>1. Stay(Top, Timeout)
    BY <1>3 DEF LoopTurn
  <2> QED BY <1>1, <1>2, <2>1, HeadKeeps
<1>4. CASE ~Expired
  <2>1. PICK phase \in {"bind", "body"} : phase = IF Bound(Top) THEN "bind" ELSE "body"
    OBVIOUS
  <2>2. PICK f : f = In(phase)
    OBVIOUS
  <2>3. /\ f \in FrameType /\ f.kind = Top.kind /\ f.label = Top.label /\ f.saved = Top.saved
        /\ f.phase = phase
    BY <1>1, <2>2, InIs DEF In, Phases
  <2>4. Stay(f, Run)
    BY <1>4, <2>1, <2>2 DEF LoopTurn
  <2>5. PhaseFits(f)
    BY <1>1, <2>3, Names DEF PhaseFits
  <2>6. ~(ticks > MaxTicks)
    BY <1>4, TickedIs DEF IInv
  <2> QED BY <1>1, <1>2, <2>3, <2>4, <2>5, <2>6, HeadKeeps
<1> QED BY <1>3, <1>4

\* Code in a head is done or throws.
LEMMA HeadsKeep == ASSUME IInv, HeadThrows \/ HeadDone PROVE IInv' /\ Promised
<1>1. /\ Depth > 0 /\ ctrl = Run /\ Top.phase \in HeadPhases
      /\ Top \in FrameType /\ PhaseFits(Top) /\ ticks' \in Nat
  BY StackIs DEF HeadThrows, HeadDone, HeadPhases, IInv
<1>2. CASE HeadThrows
  <2>1. Stay(Top, Throw)
    BY <1>2 DEF HeadThrows
  <2> QED BY <1>1, <2>1, HeadKeeps
<1>3. CASE HeadDone
  <2>1. Top.phase \in {"bind", "update"} /\ Top.kind \in Loops
    BY <1>1, <1>3, FrameIs, Names DEF HeadDone, PhaseFits, Kinds
  <2>2. PICK phase \in {"body", "test"} : phase = IF Top.phase = "bind" THEN "body" ELSE "test"
    OBVIOUS
  <2>3. PICK f : f = In(phase)
    OBVIOUS
  <2>4. /\ f \in FrameType /\ f.kind = Top.kind /\ f.label = Top.label /\ f.saved = Top.saved
        /\ f.phase = phase
    BY <1>1, <2>3, InIs DEF In, Phases
  <2>5. Stay(f, Run)
    BY <1>3, <2>2, <2>3 DEF HeadDone
  <2>6. PhaseFits(f)
    BY <1>1, <2>1, <2>4, Names DEF PhaseFits
  <2> QED BY <1>1, <2>1, <2>4, <2>5, <2>6, HeadKeeps
<1> QED BY <1>2, <1>3

\* The cases of a switch are over.
LEMMA SwitchEndsKeeps == ASSUME IInv, SwitchEnds PROVE IInv' /\ Promised
<1>1. /\ Depth > 0 /\ ctrl = Run /\ Top.kind = "switch" /\ Depth \in Nat
      /\ Leave(Normal) /\ ticks' \in Nat
  BY StackIs DEF SwitchEnds, AtStatement, IInv
<1>2. IInv' /\ Len(stack') = Depth - 1
  BY <1>1, Named, NoJump, LeaveKeeps
<1>3. FinallyRan /\ Released /\ NoTurn
  BY <1>1, <1>2, Names DEF FinallyRan, Released, NoTurn, Leaving
<1> QED BY <1>1, <1>2, <1>3, RunPromises

-----------------------------------------------------------------------------
(* try statements.                                                         *)

\* The top frame changes and a block follows.
LEMMA PairIs ==
    ASSUME NEW s \in Seq(FrameType), s # <<>>, NEW f \in FrameType, NEW g \in FrameType
    PROVE  Front(s) \o <<f, g>> = Append([s EXCEPT ![Len(s)] = f], g)
<1>1. PICK n \in Nat : Len(s) = n + 1
  <2>1. Len(s) \in Nat \ {0}
    BY EmptySeq
  <2> QED BY <2>1
<1>2. PICK r : r = Front(s)
  OBVIOUS
<1>3. r \in Seq(FrameType) /\ Len(r) = n /\ \A i \in 1..n : r[i] = s[i]
  <2>1. r = SubSeq(s, 1, n)
    BY <1>1, <1>2 DEF Front
  <2>2. \A i \in 1..n : s[i] \in FrameType
    BY <1>1, ElementOfSeq
  <2>3. /\ SubSeq(s, 1, n) \in Seq(FrameType)
        /\ Len(SubSeq(s, 1, n)) = IF 1 <= n THEN n - 1 + 1 ELSE 0
        /\ \A i \in 1..n - 1 + 1 : SubSeq(s, 1, n)[i] = s[1 + i - 1]
    BY <2>2, SubSeqProperties
  <2>4. Len(r) = n
    BY <2>1, <2>3
  <2>5. \A i \in 1..n : i \in 1..n - 1 + 1 /\ 1 + i - 1 = i
    OBVIOUS
  <2> QED BY <2>1, <2>3, <2>4, <2>5
<1>4. PICK u : u = [s EXCEPT ![n + 1] = f]
  OBVIOUS
<1>5. /\ u \in Seq(FrameType) /\ Len(u) = n + 1
      /\ \A i \in 1..n + 1 : u[i] = IF i = n + 1 THEN f ELSE s[i]
  <2>1. n + 1 \in 1..Len(s)
    BY <1>1
  <2> QED BY <1>1, <1>4, <2>1, ExceptSeq
<1>6. PICK v : v = Append(u, g)
  OBVIOUS
<1>7. /\ v \in Seq(FrameType) /\ Len(v) = n + 2 /\ v[n + 2] = g /\ v[n + 1] = f
      /\ \A i \in 1..n : v[i] = s[i]
  <2>1. /\ v \in Seq(FrameType) /\ Len(v) = n + 1 + 1 /\ v[n + 1 + 1] = g
        /\ \A i \in 1..n + 1 : v[i] = u[i]
    BY <1>5, <1>6, AppendProperties
  <2>2. n + 1 + 1 = n + 2 /\ n + 1 \in 1..n + 1 /\ \A i \in 1..n : i \in 1..n + 1 /\ i # n + 1
    OBVIOUS
  <2> QED BY <1>5, <2>1, <2>2
<1>8. PICK q : q = <<f, g>>
  OBVIOUS
<1>9. q \in Seq(FrameType) /\ Len(q) = 2 /\ q[1] = f /\ q[2] = g
  BY <1>8
<1>10. PICK w : w = r \o q
  OBVIOUS
<1>11. /\ w \in Seq(FrameType) /\ Len(w) = n + 2 /\ w[n + 2] = g /\ w[n + 1] = f
       /\ \A i \in 1..n : w[i] = s[i]
  <2>1. /\ w \in Seq(FrameType) /\ Len(w) = n + 2
        /\ \A i \in 1..n + 2 : w[i] = IF i <= n THEN r[i] ELSE q[i - n]
    <3>1. /\ w \in Seq(FrameType) /\ Len(w) = Len(r) + Len(q)
          /\ \A i \in 1..Len(r) + Len(q) : w[i] = IF i <= Len(r) THEN r[i] ELSE q[i - Len(r)]
      BY <1>3, <1>9, <1>10, ConcatProperties
    <3> QED BY <1>3, <1>9, <3>1
  <2>2. /\ n + 2 \in 1..n + 2 /\ n + 1 \in 1..n + 2 /\ ~(n + 2 <= n) /\ ~(n + 1 <= n)
        /\ (n + 2) - n = 2 /\ (n + 1) - n = 1 /\ \A i \in 1..n : i \in 1..n + 2 /\ i <= n
    OBVIOUS
  <2> QED BY <1>3, <1>9, <2>1, <2>2
<1>12. \A i \in 1..n + 2 : v[i] = w[i]
  <2>1. \A i \in 1..n + 2 : i \in 1..n \/ i = n + 1 \/ i = n + 2
    OBVIOUS
  <2> QED BY <1>7, <1>11, <2>1
<1>13. v = w
  BY <1>7, <1>11, <1>12, SeqEqual
<1> QED BY <1>1, <1>2, <1>4, <1>6, <1>8, <1>10, <1>13

\* A block with its frame.
LEMMA BlockIs ==
    ASSUME NEW g \in BOOLEAN, NEW f, f = Block(g)
    PROVE  /\ f \in FrameType /\ PhaseFits(f) /\ f.saved = Normal /\ f.label = None
           /\ TopFits(f, Run)
<1>1. /\ f \in FrameType /\ f.kind = "block" /\ f.label = None
      /\ f.phase = "next" /\ f.saved = Normal /\ f.using = 0
  <2>1. "block" \in Kinds /\ "next" \in Phases /\ None \in Label \cup {None}
    BY DEF Kinds, Phases
  <2>2. f = Frame("block", None, g, "next")
    BY DEF Block
  <2> QED BY <2>1, <2>2, NewFrameIs
<1>2. Run.type \notin Jumps
  BY Named
<1> QED BY <1>1, <1>2, Names DEF PhaseFits, TopFits, HeadPhases

\* A try statement goes on with another block.
LEMMA BlockFollowsKeeps ==
    ASSUME IInv, Depth > 0, NEW f \in FrameType, f.kind = Top.kind, f.label = Top.label,
           f.saved = Top.saved \/ JumpSound(f.saved, stack, Depth - 1),
           PhaseFits(f), f.phase \in Waiting, NEW g \in BOOLEAN,
           stack' = Front(stack) \o <<f, Block(g)>>, ctrl' = Run, ticks' \in Nat
    PROVE  IInv' /\ Len(stack') = Depth + 1 /\ stack'[Depth] = f
<1>1. stack \in Seq(FrameType) /\ stack # <<>> /\ Fits(stack) /\ Depth \in Nat \ {0}
  BY StackIs
<1>2. PICK u : u = [stack EXCEPT ![Len(stack)] = f]
  OBVIOUS
<1>3. /\ u \in Seq(FrameType) /\ Len(u) = Depth /\ u[Depth] = f /\ Last(u) = f /\ Fits(u)
      /\ DOMAIN u = 1..Depth
  <2>1. f.kind = Last(stack).kind /\ f.label = Last(stack).label
    BY DEF Top
  <2>2. f.saved = Last(stack).saved \/ JumpSound(f.saved, stack, Len(stack) - 1)
    BY DEF Top, Depth
  <2>3. /\ u \in Seq(FrameType) /\ Len(u) = Len(stack) /\ u[Len(stack)] = f /\ Last(u) = f
        /\ Fits(u)
    BY <1>1, <1>2, <2>1, <2>2, Stayed
  <2> QED BY <2>3, LenProperties DEF Depth
<1>4. PICK b : b = Block(g)
  OBVIOUS
<1>5. /\ b \in FrameType /\ PhaseFits(b) /\ b.saved = Normal /\ b.label = None
      /\ TopFits(b, Run)
  BY <1>4, BlockIs
<1>6. PICK v : v = Append(u, b)
  OBVIOUS
<1>7. /\ v \in Seq(FrameType) /\ Len(v) = Depth + 1 /\ Fits(v) /\ Last(v) = b
      /\ \A i \in 1..Depth : v[i] = u[i]
  <2>1. v \in Seq(FrameType) /\ Len(v) = Len(u) + 1 /\ Fits(v) /\ Last(v) = b
    BY <1>3, <1>5, <1>6, Come
  <2>2. \A i \in DOMAIN u : v[i] = u[i]
    BY <1>3, <1>5, <1>6, AppendProperties
  <2> QED BY <1>3, <2>1, <2>2
<1>8. stack' = v
  BY <1>1, <1>2, <1>4, <1>5, <1>6, PairIs
<1>9. Sound(v, Run)
  BY <1>5, <1>7, Named, NoJump DEF Sound
<1>10. v[Depth] = f
  BY <1>1, <1>3, <1>7
<1> QED BY <1>7, <1>8, <1>9, <1>10 DEF IInv

\* A try statement is entered.
LEMMA EnterTryKeeps == ASSUME IInv, EnterTry PROVE IInv' /\ Promised
<1>1. /\ AtStatement /\ ctrl' = ctrl /\ ctrl = Run /\ ticks' \in Nat /\ Top.gen \in BOOLEAN
      /\ Depth > 0 /\ Top.phase = "body" /\ Depth \in Nat /\ stack \in Seq(FrameType)
      /\ Fits(stack) /\ Top = Last(stack)
  BY StackIs, FrameIs DEF EnterTry, AtStatement, IInv, Top
<1>2. PICK gen \in Evaluators(Top), handler \in BOOLEAN, finalizer \in BOOLEAN :
         \E g \in Evaluators(TryFrame(gen, handler, finalizer)) :
            stack' = Inner(TryFrame(gen, handler, finalizer)) \o <<Block(g)>>
  BY DEF EnterTry
<1>3. PICK f : f = TryFrame(gen, handler, finalizer)
  OBVIOUS
<1>4. PICK g \in Evaluators(f) : stack' = Append(stack, f) \o <<Block(g)>>
  BY <1>2, <1>3 DEF Inner
<1>5. /\ f \in FrameType /\ f.kind = "try" /\ f.label = None
      /\ f.phase = "try" /\ f.saved = Normal /\ f.gen \in BOOLEAN
  <2>1. PICK h : h = Frame("try", None, gen, "try")
    OBVIOUS
  <2>2. gen \in BOOLEAN
    BY <1>1 DEF Evaluators
  <2>3. h \in FrameType /\ h.kind = "try" /\ h.label = None /\ h.phase = "try" /\ h.saved = Normal
    <3>1. "try" \in Kinds /\ "try" \in Phases /\ None \in Label \cup {None}
      BY DEF Kinds, Phases
    <3> QED BY <2>1, <2>2, <3>1, NewFrameIs
  <2>4. f = [[h EXCEPT !.handler = handler] EXCEPT !.finalizer = finalizer]
    BY <1>3, <2>1 DEF TryFrame
  <2> QED BY <2>3, <2>4 DEF FrameType
<1>6. PhaseFits(f)
  BY <1>5, Names DEF PhaseFits
<1>7. PICK u : u = Append(stack, f)
  OBVIOUS
<1>8. u \in Seq(FrameType) /\ Len(u) = Depth + 1 /\ Fits(u) /\ Last(u) = f
  BY <1>1, <1>5, <1>6, <1>7, Come DEF Waiting, Depth
<1>9. PICK b : b = Block(g)
  OBVIOUS
<1>10. /\ b \in FrameType /\ PhaseFits(b) /\ b.saved = Normal /\ b.label = None
       /\ TopFits(b, Run)
  BY <1>4, <1>5, <1>9, BlockIs DEF Evaluators
<1>11. PICK v : v = Append(u, b)
  OBVIOUS
<1>12. v \in Seq(FrameType) /\ Len(v) = Depth + 2 /\ Fits(v) /\ Last(v) = b
  <2>1. v \in Seq(FrameType) /\ Len(v) = Len(u) + 1 /\ Fits(v) /\ Last(v) = b
    BY <1>5, <1>8, <1>10, <1>11, Come DEF Waiting
  <2> QED BY <1>1, <1>8, <2>1
<1>13. stack' = v
  BY <1>4, <1>7, <1>8, <1>9, <1>10, <1>11, AppendIsConcat
<1>14. IInv'
  <2>1. Sound(v, Run)
    BY <1>10, <1>12, Named, NoJump DEF Sound
  <2> QED BY <1>1, <1>13, <2>1 DEF IInv
<1>15. Promised
  BY <1>1, <1>12, <1>13, EnterPromises
<1> QED BY <1>14, <1>15

-----------------------------------------------------------------------------
(* Completions that travel.                                                *)

\* A statement that does not take a jump lets it pass.
LEMMA PassesBy ==
    ASSUME IInv, Depth > 0, ctrl.type \in Jumps => ~Takes(ctrl, Top)
    PROVE  /\ JumpSound(ctrl, stack, Depth - 1)
           /\ ctrl.type \in Jumps /\ Depth = ctrl.target =>
                 ctrl.type = "continue" /\ ctrl.label # Top.label
<1>1. /\ Depth \in Nat \ {0} /\ Top = stack[Depth] /\ JumpSound(ctrl, stack, Depth)
  BY StackIs
<1>2. JumpSound(ctrl, stack, Depth - 1)
  BY <1>1, JumpPasses
<1>3. ASSUME ctrl.type \in Jumps, Depth = ctrl.target
      PROVE  ctrl.type = "continue" /\ ctrl.label # Top.label
  <2>1. Depth \in 1..Depth
    BY <1>1
  <2> QED BY <1>1, <1>3, <2>1 DEF JumpSound
<1> QED BY <1>2, <1>3

\* One that takes it is its target.
LEMMA TakesIt ==
    ASSUME IInv, Depth > 0, ctrl.type \in Jumps, Takes(ctrl, Top)
    PROVE  Depth = ctrl.target
<1>1. /\ Depth \in Nat \ {0} /\ Top = stack[Depth] /\ JumpSound(ctrl, stack, Depth)
  BY StackIs
<1>2. Depth \in 1..Depth
  BY <1>1
<1>3. ctrl.target \in 1..Depth /\ Depth <= ctrl.target
  BY <1>1, <1>2 DEF JumpSound
<1> QED BY <1>1, <1>3

\* Hence it lands.
LEMMA Lands ==
    ASSUME IInv, Depth > 0,
           ctrl.type \in Jumps /\ Top.phase = "body" /\ Top.kind # "with" =>
              IF ctrl' = ctrl THEN ~Takes(ctrl, Top) ELSE Takes(ctrl, Top)
    PROVE  JumpLands
BY PassesBy, TakesIt DEF JumpLands

\* Blocks, with and try statements take none.
LEMMA TakesNone ==
    ASSUME NEW f \in FrameType, PhaseFits(f), f.kind \in {"block", "with", "try"}, NEW c, c.type \in Jumps
    PROVE  ~Takes(c, f)
BY Names DEF Takes, PhaseFits

\* The kinds of the phases.
LEMMA KindIs ==
    ASSUME NEW f \in FrameType, PhaseFits(f)
    PROVE  /\ f.phase \in {"dispose", "next"} => f.kind = "block"
           /\ f.phase \in {"closing", "test", "bind", "update"} => f.kind \in Loops
           /\ f.phase \in {"try", "param", "catch", "finally"} => f.kind = "try"
           /\ f.kind \in {"switch", "labelled", "with"} => f.phase = "body"
           /\ f.kind = "block" /\ f.phase \notin {"next", "dispose"} => f.phase = "body"
BY FrameIs, Names DEF PhaseFits, Kinds

\* The completions on their way.
LEMMA TravelIs ==
    ASSUME IInv, Travels
    PROVE  /\ ctrl # Run /\ ctrl \in CompletionType
           /\ ctrl.type = "normal" <=> ctrl = Normal
           /\ ctrl.type = "throw" <=> ctrl = Throw
           /\ ctrl.type \notin Jumps \/ ctrl # Normal
<1>1. ctrl \in CompletionType
  BY StackIs
<1>2. Run.type = "run" /\ Normal.type = "normal" /\ Throw.type = "throw"
  BY Named
<1>3. "normal" \in Plain /\ "throw" \in Plain /\ "normal" \notin Jumps /\ "run" \notin Jumps
  BY DEF Plain, Jumps
<1>4. ctrl # Run
  BY <1>2, <1>3 DEF Travels
<1>5. ctrl.type = "normal" => ctrl = Normal
  BY <1>1, <1>3, CompletionIs DEF Normal
<1>6. ctrl.type = "throw" => ctrl = Throw
  BY <1>1, <1>3, CompletionIs DEF Throw
<1> QED BY <1>1, <1>2, <1>3, <1>4, <1>5, <1>6

\* A statement in a block has completed.
LEMMA BlockReceivesKeeps == ASSUME IInv, BlockReceives PROVE IInv' /\ Promised
<1>1. /\ Depth > 0 /\ Depth \in Nat /\ Travels /\ Top.kind = "block" /\ Top.phase = "body"
      /\ Top \in FrameType /\ PhaseFits(Top) /\ ticks' \in Nat /\ ctrl \in CompletionType
      /\ JumpSound(ctrl, stack, Depth)
  BY StackIs DEF BlockReceives, IInv
<1>2. ctrl.type \in Jumps => ~Takes(ctrl, Top)
  BY <1>1, TakesNone
<1>3. CatchesErrors /\ NoTurn /\ FinallyRan
  BY <1>1, Names DEF CatchesErrors, NoTurn, FinallyRan, Leaving
<1>4. CASE ctrl = Normal
  <2>1. PICK f : f = In("next")
    OBVIOUS
  <2>2. /\ f \in FrameType /\ f.kind = Top.kind /\ f.label = Top.label /\ f.saved = Top.saved
        /\ f.phase = "next"
    BY <1>1, <2>1, InIs DEF In, Phases
  <2>3. Stay(f, Run)
    BY <1>4, <2>1 DEF BlockReceives
  <2>4. PhaseFits(f) /\ TopFits(f, Run) /\ Run \in CompletionType /\ Run.type \notin Jumps
    BY <1>1, <2>2, Named, Names DEF PhaseFits, TopFits, HeadPhases
  <2>5. IInv' /\ Len(stack') = Depth
    BY <1>1, <2>2, <2>3, <2>4, NoJump, StayKeeps
  <2>6. JumpLands /\ Released
    BY <1>1, <1>4, <2>5, Named DEF JumpLands, Released, Leaving
  <2> QED BY <1>3, <2>5, <2>6 DEF Promised
<1>5. CASE ctrl # Normal /\ Top.using > 0
  <2>1. PICK f : f = In("dispose")
    OBVIOUS
  <2>2. /\ f \in FrameType /\ f.kind = Top.kind /\ f.label = Top.label /\ f.saved = Top.saved
        /\ f.phase = "dispose" /\ f.using = Top.using
    BY <1>1, <2>1, InIs DEF In, Phases
  <2>3. Stay(f, ctrl)
    BY <1>5, <2>1 DEF BlockReceives
  <2>4. PhaseFits(f) /\ TopFits(f, ctrl)
    BY <1>1, <1>5, <2>2, Names DEF PhaseFits, TopFits, HeadPhases
  <2>5. IInv' /\ Len(stack') = Depth /\ ctrl' = ctrl
    BY <1>1, <2>2, <2>3, <2>4, StayKeeps
  <2>6. JumpLands
    BY <1>1, <1>2, <2>5, Lands
  <2>7. Released
    BY <1>1, <2>5 DEF Released, Leaving
  <2> QED BY <1>3, <2>5, <2>6, <2>7 DEF Promised
<1>6. CASE ctrl # Normal /\ ~(Top.using > 0)
  <2>1. Leave(ctrl)
    BY <1>6 DEF BlockReceives
  <2>2. IInv' /\ ctrl' = ctrl
    BY <1>1, <1>2, <2>1, PassesBy, LeaveKeeps
  <2>3. JumpLands
    BY <1>1, <1>2, <2>2, Lands
  <2>4. Top.using = 0
    BY <1>1, <1>6, FrameIs
  <2>5. Released
    BY <1>1, <2>4 DEF Released, Leaving
  <2> QED BY <1>3, <2>2, <2>3, <2>5 DEF Promised
<1> QED BY <1>4, <1>5, <1>6

\* A disposer has been called.
LEMMA DisposeKeeps == ASSUME IInv, Dispose PROVE IInv' /\ Promised
<1>1. /\ Depth > 0 /\ Depth \in Nat /\ Travels /\ Top.kind = "block" /\ Top.phase = "dispose"
      /\ Top \in FrameType /\ PhaseFits(Top) /\ ticks' \in Nat /\ ctrl \in CompletionType
      /\ JumpSound(ctrl, stack, Depth) /\ Top.using \in Nat \ {0}
  BY StackIs, KindIs, FrameIs DEF Dispose, IInv, PhaseFits
<1>2. ctrl.type \in Jumps => ~Takes(ctrl, Top)
  BY <1>1, TakesNone
<1>3. JumpLands /\ CatchesErrors /\ NoTurn /\ FinallyRan
  BY <1>1, Names DEF JumpLands, CatchesErrors, NoTurn, FinallyRan, Leaving
<1>4. PICK failed \in BOOLEAN, c \in {Throw, ctrl} :
         IF Remaining(failed) = 0 THEN Leave(c)
         ELSE Stay([Top EXCEPT !.using = Remaining(failed)], c)
  BY DEF Dispose
<1>5. /\ c \in CompletionType /\ JumpSound(c, stack, Depth) /\ JumpSound(c, stack, Depth - 1)
  BY <1>1, <1>2, <1>4, Named, NoJump, PassesBy
<1>6. CASE Remaining(failed) = 0
  <2>1. IInv' /\ Top.using = 1
    BY <1>1, <1>4, <1>5, <1>6, LeaveKeeps DEF Remaining
  <2>2. Released
    BY <1>1, <2>1, Names DEF Released, Leaving, Loops
  <2> QED BY <1>3, <2>1, <2>2 DEF Promised
<1>7. CASE Remaining(failed) # 0
  <2>1. PICK f : f = [Top EXCEPT !.using = Remaining(failed)]
    OBVIOUS
  <2>2. Remaining(failed) \in Nat /\ Remaining(failed) > 0
    BY <1>1, <1>7 DEF Remaining
  <2>3. /\ f \in FrameType /\ f.kind = Top.kind /\ f.label = Top.label /\ f.saved = Top.saved
        /\ f.phase = Top.phase /\ f.using > 0
    BY <1>1, <2>1, <2>2 DEF FrameType
  <2>4. PhaseFits(f) /\ TopFits(f, c)
    BY <1>1, <2>3, Names DEF PhaseFits, TopFits, HeadPhases
  <2>5. IInv' /\ Len(stack') = Depth
    BY <1>1, <1>4, <1>5, <1>7, <2>1, <2>3, <2>4, StayKeeps
  <2>6. Released
    BY <1>1, <2>5 DEF Released, Leaving
  <2> QED BY <1>3, <2>5, <2>6 DEF Promised
<1> QED BY <1>6, <1>7

\* The body of a loop has completed.
LEMMA LoopReceivesKeeps == ASSUME IInv, LoopReceives PROVE IInv' /\ Promised
<1>1. /\ Depth > 0 /\ Depth \in Nat /\ Travels /\ Top.kind \in Loops /\ Top.phase = "body"
      /\ Top \in FrameType /\ PhaseFits(Top) /\ ticks' \in Nat /\ ctrl \in CompletionType
      /\ JumpSound(ctrl, stack, Depth) /\ Top.label \in Label \cup {None}
  BY StackIs, FrameIs DEF LoopReceives, IInv
<1>2. ctrl.type \in Jumps => (Takes(ctrl, Top) <=> ControlMatches(ctrl, Top))
  BY <1>1 DEF Takes, ControlMatches
<1>3. CatchesErrors /\ NoTurn /\ FinallyRan
  BY <1>1, Names DEF CatchesErrors, NoTurn, FinallyRan, Leaving
<1>4. /\ Run \in CompletionType /\ Normal \in CompletionType
      /\ Run.type = "run" /\ Normal.type = "normal" /\ Run.type \notin Jumps /\ Normal.type \notin Jumps
  BY Named
<1>5. ASSUME ctrl # Normal => ctrl.type = "continue" /\ ControlMatches(ctrl, Top),
             Stay(NextTurn, Run)
      PROVE  IInv' /\ Promised
  <2>1. PICK phase \in {"update", "test"} : phase = IF Top.kind = "for" THEN "update" ELSE "test"
    OBVIOUS
  <2>2. PICK f : f = In(phase)
    OBVIOUS
  <2>3. /\ f \in FrameType /\ f.kind = Top.kind /\ f.label = Top.label /\ f.saved = Top.saved
        /\ f.phase = phase
    BY <1>1, <2>2, InIs DEF In, Phases
  <2>4. Stay(f, Run)
    BY <1>5, <2>1, <2>2 DEF NextTurn
  <2>5. PhaseFits(f) /\ TopFits(f, Run)
    BY <1>1, <1>4, <2>3, Names DEF PhaseFits, TopFits
  <2>6. IInv' /\ Len(stack') = Depth /\ ctrl' = Run
    BY <1>1, <1>4, <2>3, <2>4, <2>5, NoJump, StayKeeps
  <2>7. ctrl.type \in Jumps => Takes(ctrl, Top) /\ ctrl # Normal /\ ctrl # Run
    BY <1>2, <1>4, <1>5
  <2>8. JumpLands
    BY <1>1, <2>6, <2>7, Lands
  <2>9. Released
    BY <1>1, <2>6 DEF Released, Leaving
  <2> QED BY <1>3, <2>6, <2>8, <2>9 DEF Promised
<1>6. ASSUME NEW c \in {Normal, ctrl}, LeaveLoop(c),
             ctrl.type \in Jumps => IF c = ctrl THEN ~Takes(ctrl, Top) ELSE Takes(ctrl, Top)
      PROVE  IInv' /\ Promised
  <2>1. /\ c \in CompletionType /\ JumpSound(c, stack, Depth) /\ JumpSound(c, stack, Depth - 1)
        /\ c.type \in Jumps => ~Takes(c, Top)
    <3>1. CASE c = Normal
      BY <1>4, <3>1, NoJump
    <3>2. CASE c = ctrl
      <4>1. ctrl.type \in Jumps => ~Takes(ctrl, Top)
        BY <1>6, <3>2
      <4> QED BY <1>1, <3>2, <4>1, PassesBy
    <3> QED BY <3>1, <3>2
  <2>2. CASE Top.kind = "forof"
    <3>1. PICK f : f = In("closing")
      OBVIOUS
    <3>2. /\ f \in FrameType /\ f.kind = Top.kind /\ f.label = Top.label /\ f.saved = Top.saved
          /\ f.phase = "closing"
      BY <1>1, <3>1, InIs DEF In, Phases
    <3>3. Stay(f, c)
      BY <1>6, <2>2, <3>1 DEF LeaveLoop
    <3>4. Takes(c, f) <=> Takes(c, Top)
      BY <3>2 DEF Takes
    <3>5. PhaseFits(f) /\ TopFits(f, c)
      BY <1>1, <2>1, <3>2, <3>4, Names DEF PhaseFits, TopFits, HeadPhases
    <3>6. IInv' /\ Len(stack') = Depth /\ ctrl' = c
      BY <1>1, <2>1, <3>2, <3>3, <3>5, StayKeeps
    <3>7. JumpLands
      BY <1>1, <1>6, <3>6, Lands
    <3>8. Released
      BY <1>1, <3>6 DEF Released, Leaving
    <3> QED BY <1>3, <3>6, <3>7, <3>8 DEF Promised
  <2>3. CASE Top.kind # "forof"
    <3>1. Leave(c)
      BY <1>6, <2>3 DEF LeaveLoop
    <3>2. IInv' /\ ctrl' = c
      BY <1>1, <2>1, <3>1, LeaveKeeps
    <3>3. JumpLands
      BY <1>1, <1>6, <3>2, Lands
    <3>4. Released
      BY <1>1, <2>3, Names DEF Released, Leaving
    <3> QED BY <1>3, <3>2, <3>3, <3>4 DEF Promised
  <2> QED BY <2>2, <2>3
<1>7. CASE ctrl.type = "break" /\ ControlMatches(ctrl, Top) /\ LeaveLoop(Normal)
  <2>1. ctrl.type \in Jumps /\ Takes(ctrl, Top) /\ Normal # ctrl
    BY <1>2, <1>4, <1>7 DEF Jumps
  <2> QED BY <1>6, <1>7, <2>1
<1>8. CASE ctrl # Normal /\ ~ControlMatches(ctrl, Top) /\ LeaveLoop(ctrl)
  BY <1>2, <1>6, <1>8
<1> QED BY <1>5, <1>7, <1>8 DEF LoopReceives

\* An iterator has been closed, or the head of a loop has failed.
LEMMA LoopLeftKeeps == ASSUME IInv, IteratorCloses \/ HeadReceives PROVE IInv' /\ Promised
<1>1. /\ Depth > 0 /\ Depth \in Nat /\ Travels /\ Top.phase \in HeadPhases \cup {"closing"}
      /\ Top \in FrameType /\ PhaseFits(Top) /\ TopFits(Top, ctrl) /\ ticks' \in Nat
      /\ ctrl \in CompletionType /\ Leave(ctrl) /\ ctrl # Run
  BY StackIs, TravelIs DEF IteratorCloses, HeadReceives, IInv
<1>2. Top.kind \in Loops
  BY <1>1, KindIs DEF IteratorCloses, HeadReceives
<1>3. ctrl.type \in Jumps => ~Takes(ctrl, Top)
  BY <1>1 DEF TopFits
<1>4. IInv'
  BY <1>1, <1>3, PassesBy, LeaveKeeps
<1>5. Top.phase # "body" /\ Top.phase # "try"
  BY <1>1 DEF HeadPhases
<1>6. Len(stack') = Depth - 1
  BY <1>1, <1>3, PassesBy, LeaveKeeps
<1>7. JumpLands /\ CatchesErrors /\ NoTurn /\ FinallyRan /\ Released
  BY <1>1, <1>2, <1>5, <1>6, Names
     DEF JumpLands, CatchesErrors, NoTurn, FinallyRan, Released, Leaving
<1> QED BY <1>4, <1>7 DEF Promised

\* A statement of a switch has completed, or a labelled one.
LEMMA SwitchReceivesKeeps == ASSUME IInv, SwitchReceives \/ LabelledReceives PROVE IInv' /\ Promised
<1>1. /\ Depth > 0 /\ Depth \in Nat /\ Travels /\ Top.kind \in {"switch", "labelled"}
      /\ Top.phase = "body" /\ Top \in FrameType /\ PhaseFits(Top) /\ ticks' \in Nat
      /\ ctrl \in CompletionType /\ JumpSound(ctrl, stack, Depth)
      /\ ctrl # Run /\ (ctrl.type \notin Jumps \/ ctrl # Normal)
  BY StackIs, KindIs, TravelIs DEF SwitchReceives, LabelledReceives, IInv
<1>2. /\ Run \in CompletionType /\ Normal \in CompletionType
      /\ Run.type \notin Jumps /\ Normal.type \notin Jumps /\ Normal.type = "normal"
  BY Named
<1>3. /\ CatchesErrors /\ FinallyRan /\ Released /\ NoTurn
  BY <1>1, Names DEF CatchesErrors, FinallyRan, Released, NoTurn, Leaving, Loops
<1>4. ASSUME ctrl = Normal, Stay(Top, Run) PROVE IInv' /\ Promised
  <2>1. TopFits(Top, Run)
    BY <1>1 DEF TopFits, HeadPhases
  <2>2. IInv'
    BY <1>1, <1>2, <1>4, <2>1, NoJump, StayKeeps
  <2>3. JumpLands
    BY <1>2, <1>4 DEF JumpLands
  <2> QED BY <1>3, <2>2, <2>3 DEF Promised
<1>5. ASSUME ctrl.type \in Jumps, Takes(ctrl, Top), Leave(Normal) PROVE IInv' /\ Promised
  <2>1. IInv' /\ ctrl' = Normal
    BY <1>1, <1>2, <1>5, NoJump, LeaveKeeps
  <2>2. JumpLands
    BY <1>1, <1>2, <1>5, <2>1, Lands
  <2> QED BY <1>3, <2>1, <2>2 DEF Promised
<1>6. ASSUME ctrl.type \in Jumps => ~Takes(ctrl, Top), Leave(ctrl) PROVE IInv' /\ Promised
  <2>1. IInv' /\ ctrl' = ctrl
    BY <1>1, <1>6, PassesBy, LeaveKeeps
  <2>2. JumpLands
    BY <1>1, <1>6, <2>1, Lands
  <2> QED BY <1>3, <2>1, <2>2 DEF Promised
<1>7. CASE SwitchReceives
  <2>1. Top.kind = "switch" /\ Top.label = None
    BY <1>1, <1>7 DEF SwitchReceives, PhaseFits
  <2>2. ctrl.type \in Jumps => (Takes(ctrl, Top) <=> ctrl.type = "break" /\ ctrl.label = None)
    BY <2>1, Names DEF Takes
  <2>3. CASE ctrl = Normal
    <3>1. ctrl.type # "break"
      BY <1>2, <2>3
    <3>2. Stay(Top, Run)
      BY <1>7, <2>3, <3>1 DEF SwitchReceives
    <3> QED BY <1>4, <2>3, <3>2
  <2>4. CASE ctrl # Normal /\ ctrl.type = "break" /\ ctrl.label = None
    <3>1. Leave(Normal)
      BY <1>7, <2>4 DEF SwitchReceives
    <3> QED BY <1>5, <2>2, <2>4, <3>1 DEF Jumps
  <2>5. CASE ctrl # Normal /\ ~(ctrl.type = "break" /\ ctrl.label = None)
    <3>1. Leave(ctrl)
      BY <1>7, <2>5 DEF SwitchReceives
    <3> QED BY <1>6, <2>2, <2>5, <3>1
  <2> QED BY <2>3, <2>4, <2>5
<1>8. CASE LabelledReceives
  <2>1. Top.kind = "labelled" /\ Top.label # None
    BY <1>1, <1>8 DEF LabelledReceives, PhaseFits
  <2>2. ctrl.type \in Jumps => (Takes(ctrl, Top) <=> ctrl.type = "break" /\ ctrl.label = Top.label)
    BY <2>1, Names DEF Takes, Jumps
  <2>3. CASE ctrl.type = "break" /\ ctrl.label = Top.label
    <3>1. Leave(Normal)
      BY <1>8, <2>3 DEF LabelledReceives
    <3> QED BY <1>5, <2>2, <2>3, <3>1 DEF Jumps
  <2>4. CASE ~(ctrl.type = "break" /\ ctrl.label = Top.label)
    <3>1. Leave(ctrl)
      BY <1>8, <2>4 DEF LabelledReceives
    <3> QED BY <1>6, <2>2, <2>4, <3>1
  <2> QED BY <2>3, <2>4
<1> QED BY <1>7, <1>8

\* The body of a with statement has completed.
LEMMA WithReceivesKeeps == ASSUME IInv, WithReceives PROVE IInv' /\ Promised
<1>1. /\ Depth > 0 /\ Depth \in Nat /\ Travels /\ Top.kind = "with"
      /\ Top.phase = "body" /\ Top \in FrameType /\ PhaseFits(Top) /\ ticks' \in Nat
      /\ ctrl \in CompletionType
  BY StackIs, KindIs DEF WithReceives, IInv
<1>2. PICK c \in {ctrl, Throw} : Leave(c)
  BY DEF WithReceives
<1>3. ctrl.type \in Jumps => ~Takes(ctrl, Top)
  BY <1>1, TakesNone
<1>4. c \in CompletionType /\ JumpSound(c, stack, Depth - 1)
  BY <1>1, <1>3, Named, NoJump, PassesBy
<1>5. IInv' /\ Len(stack') = Depth - 1
  BY <1>1, <1>2, <1>4, LeaveKeeps
<1>6. JumpLands /\ CatchesErrors /\ FinallyRan /\ Released /\ NoTurn
  BY <1>1, <1>5, Names DEF JumpLands, CatchesErrors, FinallyRan, Released, NoTurn, Leaving, Loops
<1> QED BY <1>5, <1>6 DEF Promised

\* What is left to show of a step of a try statement.
LEMMA TryPromises ==
    ASSUME Top.kind = "try", Top.phase # "body", CatchesErrors, FinallyRan
    PROVE  Promised
<1>1. JumpLands /\ Released /\ NoTurn
  BY Names DEF JumpLands, Released, NoTurn, Leaving, Loops
<1> QED BY <1>1 DEF Promised

\* The block or the handler of a try statement is done with.
LEMMA FinallyKeeps ==
    ASSUME IInv, Depth > 0, Top.phase \in {"try", "catch"}, Finally(Top, ctrl), ticks' \in Nat
    PROVE  IInv' /\ Promised
<1>1. /\ Depth \in Nat \ {0} /\ Top \in FrameType /\ PhaseFits(Top) /\ ctrl \in CompletionType
      /\ Top.kind = "try" /\ Top.phase # "body" /\ Top.phase # "finally"
  BY StackIs, KindIs
<1>2. JumpSound(ctrl, stack, Depth - 1)
  <2>1. ctrl.type \in Jumps => ~Takes(ctrl, Top)
    BY <1>1, TakesNone
  <2> QED BY <2>1, PassesBy
<1>3. CASE Top.finalizer
  <2>1. PICK f : f = [Top EXCEPT !.phase = "finally", !.saved = ctrl]
    OBVIOUS
  <2>2. /\ f \in FrameType /\ f.kind = Top.kind /\ f.label = Top.label
        /\ f.saved = ctrl /\ f.phase = "finally"
    <3>1. "finally" \in Phases
      BY DEF Phases
    <3> QED BY <1>1, <2>1, <3>1 DEF FrameType
  <2>3. PICK g \in Evaluators(Top) : /\ stack' = Front(stack) \o <<f, Block(g)>>
                                     /\ ctrl' = Run
    BY <1>3, <2>1 DEF Finally
  <2>4. g \in BOOLEAN
    BY <2>3 DEF Evaluators
  <2>5. PhaseFits(f) /\ f.phase \in Waiting
    BY <1>1, <2>2, Names DEF PhaseFits, Waiting
  <2>6. IInv' /\ Len(stack') = Depth + 1 /\ stack'[Depth] = f
    <3>1. f.saved = Top.saved \/ JumpSound(f.saved, stack, Depth - 1)
      BY <1>2, <2>2
    <3> QED BY <2>2, <2>3, <2>4, <2>5, <3>1, BlockFollowsKeeps
  <2>7. CatchesErrors
    BY <2>2, <2>6 DEF CatchesErrors
  <2>8. FinallyRan
    BY <1>1, <2>6 DEF FinallyRan, Leaving
  <2> QED BY <1>1, <2>6, <2>7, <2>8, TryPromises
<1>4. CASE ~Top.finalizer
  <2>1. Leave(ctrl)
    BY <1>4 DEF Finally
  <2>2. IInv' /\ Len(stack') = Depth - 1
    BY <1>1, <1>2, <2>1, LeaveKeeps
  <2>3. CatchesErrors
    BY <1>1, <2>2 DEF CatchesErrors
  <2>4. FinallyRan
    BY <1>4 DEF FinallyRan
  <2> QED BY <1>1, <2>2, <2>3, <2>4, TryPromises
<1> QED BY <1>3, <1>4

\* The handler's block begins.
LEMMA CatchBodyKeeps ==
    ASSUME IInv, Depth > 0, Top.phase \in {"try", "param"}, CatchBody(Top), ticks' \in Nat,
           Travels /\ Top.phase = "try" => ctrl = Throw \/ Top.gen
    PROVE  IInv' /\ Promised
<1>1. /\ Depth \in Nat \ {0} /\ Top \in FrameType /\ PhaseFits(Top)
      /\ Top.kind = "try" /\ Top.phase # "body"
  BY StackIs, KindIs
<1>2. PICK f : f = In("catch")
  OBVIOUS
<1>3. /\ f \in FrameType /\ f.kind = Top.kind /\ f.label = Top.label
      /\ f.saved = Top.saved /\ f.phase = "catch"
  BY <1>1, <1>2, InIs DEF In, Phases
<1>4. PICK g \in Evaluators(Top) : /\ stack' = Front(stack) \o <<f, Block(g)>>
                                   /\ ctrl' = Run
  BY <1>2 DEF CatchBody, In
<1>5. g \in BOOLEAN
  BY <1>4 DEF Evaluators
<1>6. PhaseFits(f) /\ f.phase \in Waiting
  BY <1>1, <1>3, Names DEF PhaseFits, Waiting
<1>7. IInv' /\ Len(stack') = Depth + 1
  BY <1>3, <1>4, <1>5, <1>6, BlockFollowsKeeps
<1>8. CatchesErrors
  BY DEF CatchesErrors
<1>9. FinallyRan
  BY <1>1, <1>7 DEF FinallyRan, Leaving
<1> QED BY <1>1, <1>7, <1>8, <1>9, TryPromises

\* The block of a try statement has completed.
LEMMA TryReceivesKeeps == ASSUME IInv, TryReceives PROVE IInv' /\ Promised
<1>1. /\ Depth > 0 /\ Depth \in Nat \ {0} /\ Travels /\ Top.phase = "try"
      /\ Top \in FrameType /\ PhaseFits(Top) /\ Top.kind = "try" /\ ticks' \in Nat
  BY StackIs, KindIs DEF TryReceives, IInv
<1>2. CASE ctrl # Normal /\ Catches(Top, ctrl)
  <2>1. ctrl = Throw \/ Top.gen
    BY <1>1, <1>2, TravelIs DEF Catches
  <2>2. CASE CatchBody(Top)
    BY <1>1, <2>1, <2>2, CatchBodyKeeps
  <2>3. CASE Stay(In("param"), Run)
    <3>1. PICK f : f = In("param")
      OBVIOUS
    <3>2. /\ f \in FrameType /\ f.kind = Top.kind /\ f.label = Top.label
          /\ f.saved = Top.saved /\ f.phase = "param"
      BY <1>1, <3>1, InIs DEF In, Phases
    <3>3. Run \in CompletionType /\ Run.type = "run" /\ Run.type \notin Jumps
      BY Named
    <3>4. PhaseFits(f) /\ TopFits(f, Run)
      BY <1>1, <3>2, <3>3, Names DEF PhaseFits, TopFits
    <3>5. IInv' /\ Len(stack') = Depth
      BY <1>1, <2>3, <3>1, <3>2, <3>3, <3>4, NoJump, StayKeeps
    <3>6. CatchesErrors
      BY <2>1 DEF CatchesErrors
    <3>7. FinallyRan
      BY <1>1, <3>5 DEF FinallyRan, Leaving
    <3> QED BY <1>1, <3>5, <3>6, <3>7, TryPromises
  <2> QED BY <1>2, <2>2, <2>3 DEF TryReceives
<1>3. CASE ~(ctrl # Normal /\ Catches(Top, ctrl))
  <2>1. Finally(Top, ctrl)
    BY <1>3 DEF TryReceives
  <2> QED BY <1>1, <2>1, FinallyKeeps
<1> QED BY <1>2, <1>3

\* A statement that is left, whatever becomes of its finally block.
LEMMA TryLeft ==
    ASSUME IInv, Depth > 0, Top.phase \in {"param", "catch", "finally"},
           NEW c \in CompletionType, JumpSound(c, stack, Depth - 1), Leave(c), ticks' \in Nat,
           FinallyRan
    PROVE  IInv' /\ Promised
<1>1. /\ Top \in FrameType /\ PhaseFits(Top) /\ Top.kind = "try"
      /\ Top.phase # "body" /\ Top.phase # "try"
  BY StackIs, KindIs
<1>2. IInv'
  BY LeaveKeeps
<1>3. CatchesErrors
  BY <1>1 DEF CatchesErrors
<1> QED BY <1>1, <1>2, <1>3, TryPromises

\* The parameter of a handler is bound, or its binding fails.
LEMMA CatchBindsKeeps == ASSUME IInv, CatchBinds \/ CatchBindingFails PROVE IInv' /\ Promised
<1>1. CASE CatchBinds
  <2>1. Depth > 0 /\ Top.phase = "param" /\ CatchBody(Top) /\ ticks' \in Nat
    BY <1>1 DEF CatchBinds, IInv
  <2> QED BY <2>1, CatchBodyKeeps
<1>2. CASE CatchBindingFails
  <2>1. /\ Depth > 0 /\ Top.phase = "param" /\ Leave(ctrl) /\ ticks' \in Nat
        /\ ctrl \in CompletionType /\ TopFits(Top, ctrl) /\ Depth \in Nat
    BY <1>2, StackIs DEF CatchBindingFails, IInv
  <2>2. ctrl.type \notin Jumps /\ ctrl # Normal
    BY <2>1, Named DEF TopFits, HeadPhases
  <2>3. FinallyRan
    BY <2>1, <2>2 DEF FinallyRan
  <2>4. JumpSound(ctrl, stack, Depth - 1)
    BY <2>2, NoJump
  <2> QED BY <2>1, <2>3, <2>4, TryLeft
<1> QED BY <1>1, <1>2

\* The handler has completed.
LEMMA CatchReceivesKeeps == ASSUME IInv, CatchReceives PROVE IInv' /\ Promised
<1>1. /\ Depth > 0 /\ Top.phase = "catch" /\ ticks' \in Nat /\ ctrl \in CompletionType
      /\ Top \in FrameType /\ PhaseFits(Top) /\ Top.kind = "try"
  BY StackIs, KindIs DEF CatchReceives, IInv
<1>2. CASE SkipsFinally(Top, ctrl)
  <2>1. Leave(ctrl)
    BY <1>2 DEF CatchReceives
  <2>2. FinallyRan
    BY <1>1, <1>2 DEF FinallyRan, SkipsFinally
  <2>3. JumpSound(ctrl, stack, Depth - 1)
    BY <1>1, TakesNone, PassesBy
  <2> QED BY <1>1, <2>1, <2>2, <2>3, TryLeft
<1>3. CASE ~SkipsFinally(Top, ctrl)
  <2>1. Finally(Top, ctrl)
    BY <1>3 DEF CatchReceives
  <2> QED BY <1>1, <2>1, FinallyKeeps
<1> QED BY <1>2, <1>3

\* A finally block has completed.
LEMMA FinallyReceivesKeeps == ASSUME IInv, FinallyReceives PROVE IInv' /\ Promised
<1>1. /\ Depth > 0 /\ Top.phase = "finally" /\ ticks' \in Nat /\ ctrl \in CompletionType
      /\ Top \in FrameType /\ PhaseFits(Top) /\ Top.kind = "try"
      /\ JumpSound(Top.saved, stack, Depth - 1)
  BY StackIs, KindIs DEF FinallyReceives, IInv
<1>2. PICK c : c = FinallyResult(Top, ctrl)
  OBVIOUS
<1>3. Leave(c) /\ c = IF ctrl = Normal THEN Top.saved ELSE ctrl
  BY <1>2 DEF FinallyReceives, FinallyResult
<1>4. c \in CompletionType
  BY <1>1, <1>3, FrameIs
<1>5. JumpSound(ctrl, stack, Depth - 1)
  BY <1>1, TakesNone, PassesBy
<1>6. JumpSound(c, stack, Depth - 1)
  BY <1>1, <1>3, <1>5
<1>7. FinallyRan
  BY <1>1, <1>3 DEF FinallyRan, Leave
<1> QED BY <1>1, <1>3, <1>4, <1>6, <1>7, TryLeft

-----------------------------------------------------------------------------
(* Generators.                                                             *)

\* A generator is suspended.
LEMMA YieldKeeps == ASSUME IInv, Yield PROVE IInv' /\ Promised
<1>1. /\ Depth \in Nat \ {0} /\ stack \in Seq(FrameType) /\ Fits(stack) /\ ctrl = Run
      /\ Depth > 0 /\ Top = stack[Depth] /\ DOMAIN stack = 1..Depth /\ ticks' \in Nat
      /\ Top.phase \in HeadPhases \cup {"body"}
  BY StackIs, LenProperties DEF Yield, CanYield, IInv, Depth
<1>2. PICK n \in Nat \ {0} : n = Depth
  BY <1>1
<1>3. PICK s \in Seq(FrameType) : s = stack
  BY <1>1
<1>4. PICK u : u = [i \in 1..n |-> IF s[i].gen /\ s[i].phase = "catch"
                                   THEN [s[i] EXCEPT !.yielded = TRUE] ELSE s[i]]
  OBVIOUS
<1>5. stack' = u
  BY <1>2, <1>3, <1>4 DEF Yield
<1>6. Len(s) = n /\ DOMAIN s = 1..n /\ DOMAIN u = 1..n /\ \A i \in 1..n : s[i] \in FrameType
  BY <1>1, <1>2, <1>3, <1>4, ElementOfSeq DEF Depth
<1>7. ASSUME NEW i \in 1..n
      PROVE  /\ u[i] \in FrameType /\ u[i].kind = s[i].kind /\ u[i].label = s[i].label
             /\ u[i].phase = s[i].phase /\ u[i].saved = s[i].saved /\ u[i].using = s[i].using
  <2>1. s[i] \in FrameType
    BY <1>6
  <2>2. u[i] = IF s[i].gen /\ s[i].phase = "catch" THEN [s[i] EXCEPT !.yielded = TRUE] ELSE s[i]
    BY <1>4
  <2> QED BY <2>1, <2>2 DEF FrameType
<1>8. u \in Seq(FrameType) /\ Len(u) = n
  <2>1. u \in [1..n -> FrameType]
    BY <1>4, <1>6, <1>7
  <2> QED BY <2>1, IsASeq, LenProperties
<1>9. Alike(s, u, n)
  BY <1>7 DEF Alike
<1>10. ASSUME NEW i \in 1..n PROVE PhaseFits(u[i]) /\ JumpSound(u[i].saved, u, i - 1)
  <2>1. PhaseFits(s[i]) /\ JumpSound(s[i].saved, s, i - 1)
    BY <1>1, <1>3, <1>6 DEF Fits
  <2>2. i - 1 \in Nat /\ Alike(s, u, i - 1)
    BY <1>9 DEF Alike
  <2>3. PICK c : c = s[i].saved
    OBVIOUS
  <2>4. JumpSound(c, u, i - 1)
    BY <2>1, <2>2, <2>3, JumpAlike
  <2> QED BY <1>7, <2>1, <2>3, <2>4 DEF PhaseFits
<1>11. Fits(u)
  <2>1. \A i \in 1..n : i < n => u[i].phase \in Waiting
    BY <1>1, <1>3, <1>6, <1>7 DEF Fits
  <2>2. \A i, j \in 1..n : u[i].label = u[j].label /\ u[i].label # None => i = j
    BY <1>1, <1>3, <1>6, <1>7 DEF Fits
  <2> QED BY <1>6, <1>8, <1>10, <2>1, <2>2 DEF Fits
<1>12. PICK type \in {"yielded", "delegated"} : ctrl' = Completion(type)
  BY DEF Yield
<1>13. PICK c : c = Completion(type)
  OBVIOUS
<1>14. c \in CompletionType /\ c.type = type /\ c.type \notin Jumps /\ c.type # "normal"
  BY <1>12, <1>13 DEF CompletionType, Completion, Plain, Jumps
<1>15. Sound(u, c)
  BY <1>8, <1>11, <1>14, NoJump DEF Sound, TopFits
<1>16. IInv'
  BY <1>1, <1>5, <1>12, <1>13, <1>15 DEF IInv
<1>17. Len(stack') = Depth /\ stack'[Depth].phase = Top.phase
  BY <1>1, <1>2, <1>3, <1>5, <1>7, <1>8
<1>18. FinallyRan /\ Released /\ NoTurn
  BY <1>1, <1>17 DEF FinallyRan, Released, NoTurn, Leaving, HeadPhases
<1> QED BY <1>1, <1>16, <1>18, RunPromises

\* It is resumed.
LEMMA ResumeKeeps == ASSUME IInv, Resume \/ ResumeDelegated PROVE IInv' /\ Promised
<1>1. /\ Sound(stack, ctrl) /\ stack' = stack /\ ctrl' \in {Run, Throw, Return} /\ ticks' \in Nat
      /\ ctrl.type \in {"yielded", "delegated"} /\ Depth \in Nat
  BY StackIs DEF Resume, ResumeDelegated, IInv
<1>2. PICK c \in {Run, Throw, Return} : c = ctrl'
  BY <1>1
<1>3. c \in CompletionType /\ c.type \notin Jumps /\ c.type # "normal"
  BY Named
<1>4. Sound(stack, c)
  BY <1>1, <1>3, NoJump DEF Sound, TopFits
<1>5. IInv'
  BY <1>1, <1>2, <1>4 DEF IInv
<1>6. ctrl.type \notin Jumps /\ ~Travels
  BY <1>1 DEF Travels, Jumps
<1>7. Len(stack') = Depth
  BY <1>1 DEF Depth
<1>8. NoTurn
  <2>1. Depth > 0 => Top = stack[Depth]
    BY StackIs
  <2> QED BY <1>1, <2>1 DEF NoTurn
<1> QED BY <1>1, <1>5, <1>6, <1>7, <1>8
        DEF Promised, JumpLands, CatchesErrors, FinallyRan, Released, Leaving

-----------------------------------------------------------------------------
(* The results.                                                            *)

\* It holds at the start.
LEMMA InitHolds == ASSUME Init PROVE IInv
<1>1. stack = <<>> /\ ctrl = Normal /\ ticks = 0 /\ stack \in Seq(FrameType) /\ DOMAIN stack = {}
  BY DEF Init
<1>2. Normal \in CompletionType /\ Normal.type \notin Jumps
  BY Named
<1>3. Fits(stack)
  BY <1>1 DEF Fits
<1> QED BY <1>1, <1>2, <1>3, NoJump DEF IInv, Sound

\* Every step keeps it, and does what it promises.
LEMMA NextKeeps == ASSUME IInv, Next PROVE IInv' /\ Promised
BY BlockNextKeeps, BlockEndsKeeps, BlockReceivesKeeps, UsingKeeps, DisposeKeeps, EvaluateKeeps,
   JumpKeeps, EnterStatementKeeps, EnterOthersKeeps, EnterTryKeeps, LoopEndsKeeps, LoopTurnKeeps,
   HeadsKeep, LoopReceivesKeeps, LoopLeftKeeps, SwitchEndsKeeps, SwitchReceivesKeeps,
   WithReceivesKeeps, TryReceivesKeeps, CatchBindsKeeps, CatchReceivesKeeps,
   FinallyReceivesKeeps, YieldKeeps, ResumeKeeps, CallKeeps
   DEF Next

\* A step that changes nothing keeps it.
LEMMA StutterKeeps == ASSUME IInv, UNCHANGED vars PROVE IInv'
BY DEF IInv, vars

\* In every reachable state the statements under evaluation fit together, and
\* a jump that travels or is kept by a finally block ends, in the code, at the
\* statement that ECMAScript sends it to, or at none.
THEOREM Invariance == Spec => []IInv
<1>1. IInv /\ [Next]_vars => IInv'
  BY NextKeeps, StutterKeeps
<1> QED BY <1>1, InitHolds, PTL DEF Spec

\* A jump is consumed by the statement that it aims at and by no other one, and
\* a handler outside of a generator gets errors only.
THEOREM CompletionsLandCorrect == Spec => CompletionsLand
<1>1. IInv /\ [Next]_vars => [JumpLands /\ CatchesErrors]_vars
  BY NextKeeps DEF Promised
<1> QED BY <1>1, Invariance, PTL DEF Spec, CompletionsLand

\* A try statement is left without its finally block only where the code
\* forgets it, and after a normal end of the block what it had kept goes on.
THEOREM FinallyRunsCorrect == Spec => FinallyRuns
<1>1. IInv /\ [Next]_vars => [FinallyRan]_vars
  BY NextKeeps DEF Promised
<1> QED BY <1>1, Invariance, PTL DEF Spec, FinallyRuns, FinallyRan

\* A for-of loop that leaves its body has closed its iterator, and a block has
\* disposed of all its resources.
THEOREM ReleasedBeforeLeavingCorrect == Spec => ReleasedBeforeLeaving
<1>1. IInv /\ [Next]_vars => [Released]_vars
  BY NextKeeps DEF Promised
<1> QED BY <1>1, Invariance, PTL DEF Spec, ReleasedBeforeLeaving, Released

\* Nothing starts another turn or statement when the budget is spent.
THEOREM NoTurnAfterTimeoutCorrect == Spec => NoTurnAfterTimeout
<1>1. IInv /\ [Next]_vars => [NoTurn]_vars
  BY NextKeeps DEF Promised
<1> QED BY <1>1, Invariance, PTL DEF Spec, NoTurnAfterTimeout, NoTurn

-----------------------------------------------------------------------------
(* Generator objects.                                                      *)

\* A body that has ended is not suspended: Executing is what a later
\* resumption leaves behind.
FinishedForGood == \A g \in finished : status[g] \in {"Completed", "Executing"}

\* The third part of RunningIsExecuting.
Once == \A i, j \in DOMAIN running : running[i] = running[j] => i = j

GeneratorsInv == TypeOK /\ RunningIsExecuting /\ SuspensionResumedOnce /\ FinishedForGood

-----------------------------------------------------------------------------
\* Entering a body that is not on the stack, and leaving the innermost one.
LEMMA Entered ==
    ASSUME NEW g \in Generator, running \in Seq(Generator), g \notin OnStack,
           Once,
           running' = Append(running, g)
    PROVE  /\ running' \in Seq(Generator)
           /\ OnStack' = OnStack \cup {g}
           /\ Once'
<1>1. /\ running' \in Seq(Generator)
      /\ DOMAIN running' = 1 .. Len(running) + 1
      /\ DOMAIN running = 1 .. Len(running)
      /\ running'[Len(running) + 1] = g
      /\ \A i \in DOMAIN running : running'[i] = running[i]
  OBVIOUS
<1>2. Len(running) \in Nat
  OBVIOUS
<1>3. OnStack' = OnStack \cup {g}
  BY <1>1, <1>2 DEF OnStack
<1>4. ASSUME NEW i \in DOMAIN running', NEW j \in DOMAIN running',
             running'[i] = running'[j]
      PROVE  i = j
  <2>1. CASE i \in DOMAIN running /\ j \in DOMAIN running
    BY <1>1, <1>4, <2>1 DEF Once
  <2>2. \A k \in DOMAIN running : running[k] # g
    BY DEF OnStack
  <2>3. CASE i \notin DOMAIN running \/ j \notin DOMAIN running
    BY <1>1, <1>2, <1>4, <2>2, <2>3
  <2> QED
    BY <2>1, <2>3
<1> QED
  BY <1>1, <1>3, <1>4 DEF Once

\* A body that gives way leaves the stack: the others stay, each once.
LEMMA Left ==
    ASSUME running \in Seq(Generator), running # <<>>,
           Once,
           running' = SubSeq(running, 1, Len(running) - 1)
    PROVE  /\ Body \in Generator /\ Body \in OnStack
           /\ running' \in Seq(Generator)
           /\ OnStack' = OnStack \ {Body}
           /\ Once'
<1>1. Len(running) \in Nat \ {0} /\ DOMAIN running = 1 .. Len(running)
  OBVIOUS
<1>2. Body \in Generator /\ Body \in OnStack
  BY <1>1 DEF Body, OnStack
<1>3. /\ running' \in Seq(Generator)
      /\ DOMAIN running' = 1 .. Len(running) - 1
      /\ \A i \in DOMAIN running' : running'[i] = running[i]
  BY <1>1
<1>4. OnStack' = OnStack \ {Body}
  <2>1. \A i \in DOMAIN running : running[i] = Body <=> i = Len(running)
    BY <1>1 DEF Body, Once
  <2>2. OnStack' = {running[i] : i \in DOMAIN running'}
    BY <1>3 DEF OnStack
  <2>3. DOMAIN running' = DOMAIN running \ {Len(running)}
    BY <1>1, <1>3
  <2> QED
    BY <2>1, <2>2, <2>3 DEF OnStack
<1> QED
  BY <1>1, <1>2, <1>3, <1>4 DEF Once

-----------------------------------------------------------------------------
\* Nothing runs, nothing has been suspended.
LEMMA InvInit == GeneratorsInit => GeneratorsInv
BY GeneratorsAssumption
   DEF GeneratorsInit, GeneratorsInv, TypeOK, RunningIsExecuting, SuspensionResumedOnce,
       FinishedForGood, OnStack, Status, Answers

\* One generator gets a status; the others keep theirs and their counts.
LEMMA Counted ==
    ASSUME TypeOK, SuspensionResumedOnce, NEW g \in Generator, NEW s \in Status,
           SetStatus(g, s), TypeOK',
           \A h \in Generator \ {g} : yields'[h] = yields[h] /\ resumed'[h] = resumed[h],
           yields'[g] - resumed'[g] = IF s = "SuspendedYield" THEN 1 ELSE 0
    PROVE  SuspensionResumedOnce'
BY DEF TypeOK, SuspensionResumedOnce, SetStatus

\* Each case of resume_generator and each way a body leaves the stack.
LEMMA InvNext == GeneratorsInv /\ [GeneratorsNext]_generatorVars => GeneratorsInv'
<1> SUFFICES ASSUME GeneratorsInv, [GeneratorsNext]_generatorVars PROVE GeneratorsInv'
  OBVIOUS
<1>0. /\ TypeOK /\ SuspensionResumedOnce /\ FinishedForGood
      /\ finished \cap OnStack = {} /\ \A g \in OnStack : status[g] = "Executing"
      /\ Once
  BY DEF GeneratorsInv, RunningIsExecuting, Once
<1> DEFINE Parts == /\ TypeOK' /\ SuspensionResumedOnce' /\ FinishedForGood'
                    /\ (finished \cap OnStack = {})'
                    /\ (\A g \in OnStack : status[g] = "Executing")'
                    /\ Once'
<1>00. Parts => GeneratorsInv'
  BY DEF GeneratorsInv, RunningIsExecuting, Once
<1> HIDE DEF Parts
<1>1. ASSUME NEW g \in Generator, ResumeStart(g)
      PROVE  GeneratorsInv'
  <2>1. g \notin OnStack /\ g \notin finished
    BY <1>0, <1>1 DEF ResumeStart, FinishedForGood
  <2>2. running' \in Seq(Generator) /\ OnStack' = OnStack \cup {g} /\ Once'
    BY <1>0, <1>1, <2>1, Entered DEF ResumeStart, Enter, TypeOK
  <2>3. yields[g] - resumed[g] = 0
    BY <1>0, <1>1, GeneratorsAssumption DEF ResumeStart, TypeOK, SuspensionResumedOnce
  <2>4. TypeOK'
    BY <1>0, <1>1, <2>2, <2>3 DEF ResumeStart, Enter, TakeStatus, SetStatus, TypeOK, Status, Answers
  <2>5. SuspensionResumedOnce'
    BY <1>0, <1>1, <2>3, <2>4, Counted DEF ResumeStart, TakeStatus, Status, TypeOK
  <2>6. FinishedForGood'
    BY <1>0, <1>1 DEF ResumeStart, TakeStatus, SetStatus, TypeOK, FinishedForGood
  <2>7. (finished \cap OnStack = {})'
    BY <1>0, <1>1, <2>1, <2>2 DEF ResumeStart
  <2>8. (\A h \in OnStack : status[h] = "Executing")'
    BY <1>0, <1>1, <2>2 DEF ResumeStart, TakeStatus, SetStatus, TypeOK
  <2> QED
    BY <1>00, <2>2, <2>4, <2>5, <2>6, <2>7, <2>8 DEF Parts
<1>2. ASSUME NEW g \in Generator, NEW action \in Action, EndAtStart(g, action)
      PROVE  GeneratorsInv'
  <2>1. g \notin OnStack
    BY <1>0, <1>2 DEF EndAtStart
  <2>2. OnStack' = OnStack /\ Once'
    BY <1>0, <1>2 DEF EndAtStart, OnStack, Once
  <2>3. yields[g] - resumed[g] = 0
    BY <1>0, <1>2 DEF EndAtStart, SuspensionResumedOnce
  <2>4. TypeOK'
    BY <1>0, <1>2 DEF EndAtStart, TakeStatus, SetStatus, TypeOK, Status, Answers
  <2>5. SuspensionResumedOnce'
    BY <1>0, <1>2, <2>3, <2>4, Counted DEF EndAtStart, TakeStatus, Status
  <2>6. FinishedForGood'
    BY <1>0, <1>2 DEF EndAtStart, TakeStatus, SetStatus, TypeOK, FinishedForGood
  <2>7. (finished \cap OnStack = {})'
    BY <1>0, <1>2, <2>1, <2>2 DEF EndAtStart
  <2>8. (\A h \in OnStack : status[h] = "Executing")'
    BY <1>0, <1>2, <2>1, <2>2 DEF EndAtStart, TakeStatus, SetStatus, TypeOK
  <2> QED
    BY <1>00, <2>2, <2>4, <2>5, <2>6, <2>7, <2>8 DEF Parts
<1>3. ASSUME NEW g \in Generator, ResumeYield(g)
      PROVE  GeneratorsInv'
  <2>1. g \notin OnStack /\ g \notin finished
    BY <1>0, <1>3 DEF ResumeYield, FinishedForGood
  <2>2. running' \in Seq(Generator) /\ OnStack' = OnStack \cup {g} /\ Once'
    BY <1>0, <1>3, <2>1, Entered DEF ResumeYield, Enter, TypeOK
  <2>3. /\ yields[g] - resumed[g] = 1
        /\ resumed[g] + 1 \in 0 .. MaxYields
    BY <1>0, <1>3, GeneratorsAssumption DEF ResumeYield, TypeOK, SuspensionResumedOnce
  <2>4. TypeOK'
    BY <1>0, <1>3, <2>2, <2>3 DEF ResumeYield, Enter, TakeStatus, SetStatus, TypeOK, Status, Answers
  <2>5. SuspensionResumedOnce'
    <3>1. /\ resumed'[g] = resumed[g] + 1 /\ resumed[g] \in Nat
          /\ yields' = yields /\ yields[g] \in Nat
          /\ \A h \in Generator \ {g} : resumed'[h] = resumed[h]
      BY <1>0, <1>3, GeneratorsAssumption DEF ResumeYield, TypeOK
    <3>2. yields'[g] - resumed'[g] = 0
      BY <2>3, <3>1
    <3> QED
      BY <1>0, <1>3, <2>4, <3>1, <3>2, Counted DEF ResumeYield, TakeStatus, Status
  <2>6. FinishedForGood'
    BY <1>0, <1>3 DEF ResumeYield, TakeStatus, SetStatus, TypeOK, FinishedForGood
  <2>7. (finished \cap OnStack = {})'
    BY <1>0, <1>3, <2>1, <2>2 DEF ResumeYield
  <2>8. (\A h \in OnStack : status[h] = "Executing")'
    BY <1>0, <1>3, <2>2 DEF ResumeYield, TakeStatus, SetStatus, TypeOK
  <2> QED
    BY <1>00, <2>2, <2>4, <2>5, <2>6, <2>7, <2>8 DEF Parts
<1>4. ASSUME NEW g \in Generator, ResumeExecuting(g)
      PROVE  GeneratorsInv'
  BY <1>0, <1>00, <1>4
     DEF ResumeExecuting, Parts, TypeOK, SuspensionResumedOnce, FinishedForGood,
         OnStack, Once, Answers
<1>5. ASSUME NEW g \in Generator, NEW action \in Action, ResumeCompleted(g, action)
      PROVE  GeneratorsInv'
  <2>1. g \notin OnStack
    BY <1>0, <1>5 DEF ResumeCompleted
  <2>2. OnStack' = OnStack /\ Once'
    BY <1>0, <1>5 DEF ResumeCompleted, OnStack, Once
  <2>3. yields[g] - resumed[g] = 0
    BY <1>0, <1>5 DEF ResumeCompleted, SuspensionResumedOnce
  <2>4. TypeOK'
    BY <1>0, <1>5 DEF ResumeCompleted, TakeStatus, SetStatus, TypeOK, Status, Answers
  <2>5. SuspensionResumedOnce'
    BY <1>0, <1>5, <2>3, <2>4, Counted DEF ResumeCompleted, TakeStatus, Status
  <2>6. FinishedForGood'
    BY <1>0, <1>5 DEF ResumeCompleted, TakeStatus, SetStatus, TypeOK, FinishedForGood
  <2>7. (finished \cap OnStack = {})'
    BY <1>0, <1>5, <2>1, <2>2 DEF ResumeCompleted
  <2>8. (\A h \in OnStack : status[h] = "Executing")'
    BY <1>0, <1>5, <2>1, <2>2 DEF ResumeCompleted, TakeStatus, SetStatus, TypeOK
  <2> QED
    BY <1>00, <2>2, <2>4, <2>5, <2>6, <2>7, <2>8 DEF Parts
<1>6. CASE BodyYields
  <2> DEFINE b == Body
  <2>1. /\ b \in Generator /\ b \in OnStack
        /\ running' \in Seq(Generator) /\ OnStack' = OnStack \ {b} /\ Once'
    BY <1>0, <1>6, Left DEF BodyYields, LeaveBody, TypeOK
  <2> HIDE DEF b
  <2>2. status[b] = "Executing" /\ b \notin finished
    BY <1>0, <2>1
  <2>3. /\ yields[b] - resumed[b] = 0
        /\ yields[b] + 1 \in 0 .. MaxYields
    BY <1>0, <1>6, <2>1, <2>2, GeneratorsAssumption DEF BodyYields, b, TypeOK, SuspensionResumedOnce
  <2>4. TypeOK'
    BY <1>0, <1>6, <2>1, <2>3 DEF BodyYields, LeaveBody, b, SetStatus, TypeOK, Status, Answers
  <2>5. SuspensionResumedOnce'
    <3>1. /\ yields'[b] = yields[b] + 1 /\ yields[b] \in Nat
          /\ resumed' = resumed /\ resumed[b] \in Nat
          /\ \A h \in Generator \ {b} : yields'[h] = yields[h]
      BY <1>0, <1>6, <2>1, GeneratorsAssumption DEF BodyYields, b, TypeOK
    <3>2. yields'[b] - resumed'[b] = 1
      BY <2>3, <3>1
    <3>3. SetStatus(b, "SuspendedYield")
      BY <1>6 DEF BodyYields, b
    <3> QED
      BY <1>0, <2>1, <2>4, <3>1, <3>2, <3>3, Counted DEF Status
  <2>6. FinishedForGood'
    BY <1>0, <1>6, <2>1, <2>2 DEF BodyYields, b, SetStatus, TypeOK, FinishedForGood
  <2>7. (finished \cap OnStack = {})'
    BY <1>0, <1>6, <2>1, <2>2 DEF BodyYields, b
  <2>8. (\A h \in OnStack : status[h] = "Executing")'
    BY <1>0, <1>6, <2>1 DEF BodyYields, b, SetStatus, TypeOK
  <2> QED
    BY <1>00, <2>1, <2>4, <2>5, <2>6, <2>7, <2>8 DEF Parts
<1>7. CASE BodyEnds
  <2> DEFINE b == Body
  <2>1. /\ b \in Generator /\ b \in OnStack
        /\ running' \in Seq(Generator) /\ OnStack' = OnStack \ {b} /\ Once'
    BY <1>0, <1>7, Left DEF BodyEnds, LeaveBody, TypeOK
  <2> HIDE DEF b
  <2>2. status[b] = "Executing" /\ b \notin finished
    BY <1>0, <2>1
  <2>3. yields[b] - resumed[b] = 0
    BY <1>0, <1>7, <2>1, <2>2, GeneratorsAssumption DEF BodyEnds, b, TypeOK, SuspensionResumedOnce
  <2>4. TypeOK'
    BY <1>0, <1>7, <2>1, <2>3 DEF BodyEnds, LeaveBody, b, SetStatus, TypeOK, Status, Answers
  <2>5. SuspensionResumedOnce'
    BY <1>0, <1>7, <2>1, <2>3, <2>4, Counted DEF BodyEnds, b, Status, TypeOK
  <2>6. FinishedForGood'
    BY <1>0, <1>7, <2>1, <2>2 DEF BodyEnds, b, SetStatus, TypeOK, FinishedForGood
  <2>7. (finished \cap OnStack = {})'
    BY <1>0, <1>7, <2>1, <2>2 DEF BodyEnds, b
  <2>8. (\A h \in OnStack : status[h] = "Executing")'
    BY <1>0, <1>7, <2>1 DEF BodyEnds, b, SetStatus, TypeOK
  <2> QED
    BY <1>00, <2>1, <2>4, <2>5, <2>6, <2>7, <2>8 DEF Parts
<1>8. CASE UNCHANGED generatorVars
  BY <1>0, <1>00, <1>8
     DEF generatorVars, Parts, TypeOK, SuspensionResumedOnce, FinishedForGood, OnStack, Once
<1> QED
  BY <1>1, <1>2, <1>3, <1>4, <1>5, <1>6, <1>7, <1>8 DEF GeneratorsNext, ResumeGenerator

\* The invariant of resume_generator and finish_generator_resume, whatever
\* bodies resume what.
THEOREM GeneratorsInvariance == GeneratorsSpec => []GeneratorsInv
BY InvInit, InvNext, PTL DEF GeneratorsSpec

\* No body runs inside itself, is entered while it runs, or runs after its
\* end (resume_generator takes the status out before it decides).
THEOREM RunningIsExecutingCorrect == GeneratorsSpec => []RunningIsExecuting
<1>1. GeneratorsInv => RunningIsExecuting
  BY DEF GeneratorsInv
<1> QED
  BY <1>1, GeneratorsInvariance, PTL

\* Each suspension of a body is resumed at most once, and none is skipped.
THEOREM SuspensionResumedOnceCorrect == GeneratorsSpec => []SuspensionResumedOnce
<1>1. GeneratorsInv => SuspensionResumedOnce
  BY DEF GeneratorsInv
<1> QED
  BY <1>1, GeneratorsInvariance, PTL
-----------------------------------------------------------------------------
\* Completed is written together with the end of the body, so that the one arm
\* that turns it into Executing finds a finished generator.
Accounted == /\ ExecutingOrFinished
             /\ \A g \in Generator : status[g] = "Completed" => g \in finished

\* Every step keeps the account of finished bodies.
LEMMA AccountedNext == GeneratorsInv /\ Accounted /\ [GeneratorsNext]_generatorVars => Accounted'
<1> SUFFICES ASSUME GeneratorsInv, Accounted, [GeneratorsNext]_generatorVars
             PROVE  Accounted'
  OBVIOUS
<1>0. /\ status \in [Generator -> Status] /\ running \in Seq(Generator)
      /\ Once /\ \A g \in OnStack : status[g] = "Executing"
  BY DEF GeneratorsInv, TypeOK, RunningIsExecuting, Once
<1>1. ASSUME NEW g \in Generator, ResumeStart(g) \/ ResumeYield(g)
      PROVE  Accounted'
  <2>1. g \notin OnStack
    BY <1>0, <1>1 DEF ResumeStart, ResumeYield
  <2>2. OnStack' = OnStack \cup {g}
    BY <1>0, <1>1, <2>1, Entered DEF ResumeStart, ResumeYield, Enter
  <2>3. /\ status' = [status EXCEPT ![g] = "Executing"] /\ finished' = finished
    BY <1>1 DEF ResumeStart, ResumeYield, TakeStatus, SetStatus
  <2> QED
    BY <1>0, <2>2, <2>3 DEF Accounted, ExecutingOrFinished
<1>2. ASSUME NEW g \in Generator, NEW action \in Action, EndAtStart(g, action)
      PROVE  Accounted'
  <2>1. OnStack' = OnStack
    BY <1>2 DEF EndAtStart, OnStack
  <2> QED
    BY <1>0, <1>2, <2>1 DEF EndAtStart, SetStatus, Accounted, ExecutingOrFinished
<1>3. ASSUME NEW g \in Generator, NEW action \in Action,
             ResumeExecuting(g) \/ ResumeCompleted(g, action)
      PROVE  Accounted'
  <2>1. OnStack' = OnStack /\ finished' = finished
    BY <1>3 DEF ResumeExecuting, ResumeCompleted, OnStack
  <2>2. CASE ResumeExecuting(g)
    BY <2>1, <2>2 DEF ResumeExecuting, Accounted, ExecutingOrFinished
  <2>3. CASE ResumeCompleted(g, action)
    BY <1>0, <2>1, <2>3
       DEF ResumeCompleted, TakeStatus, SetStatus, Accounted, ExecutingOrFinished
  <2> QED
    BY <1>3, <2>2, <2>3
<1>4. ASSUME BodyYields \/ BodyEnds
      PROVE  Accounted'
  <2>1. Body \in Generator /\ OnStack' = OnStack \ {Body}
    BY <1>0, <1>4, Left DEF BodyYields, BodyEnds, LeaveBody
  <2>2. CASE BodyYields
    BY <1>0, <2>1, <2>2 DEF BodyYields, SetStatus, Accounted, ExecutingOrFinished
  <2>3. CASE BodyEnds
    BY <1>0, <2>1, <2>3 DEF BodyEnds, SetStatus, Accounted, ExecutingOrFinished
  <2> QED
    BY <1>4, <2>2, <2>3
<1>5. CASE UNCHANGED generatorVars
  BY <1>5 DEF generatorVars, OnStack, Accounted, ExecutingOrFinished
<1> QED
  BY <1>1, <1>2, <1>3, <1>4, <1>5 DEF GeneratorsNext, ResumeGenerator

\* A generator that claims to be executing is running, or has ended and was
\* resumed once more (the Completed arm of resume_generator).
THEOREM ExecutingOrFinishedCorrect == GeneratorsSpec => []ExecutingOrFinished
<1>1. GeneratorsInit => Accounted
  BY DEF GeneratorsInit, Accounted, ExecutingOrFinished
<1>2. Accounted => ExecutingOrFinished
  BY DEF Accounted
<1> QED
  BY <1>1, <1>2, GeneratorsInvariance, AccountedNext, PTL DEF GeneratorsSpec

-----------------------------------------------------------------------------
(* Expressions: the order of evaluation, and which yields suspend.  What an *)
(* expression, or what is left of one, may do is a language: a set of       *)
(* traces that is not empty.  Languages are put one after another with **.  *)

Events == (Operations \cup {"yield"}) \X Seq(Nat)
Traces == Seq(Events)
Langs == (SUBSET Traces) \ {{}}
Does(op, place) == {<<<<op, place>>>>}

\* What an operation does is a language.
LEMMA DoesIs ==
    ASSUME NEW op \in Operations \cup {"yield"}, NEW place \in Seq(Nat)
    PROVE  Does(op, place) \in Langs
<1>1. <<<<op, place>>>> \in Traces
  <2>1. <<op, place>> \in Events
    BY DEF Events
  <2> QED BY <2>1 DEF Traces
<1> QED BY <1>1 DEF Does, Langs

\* One trace after another.
LEMMA CatHas ==
    ASSUME NEW A, NEW B, NEW a \in A, NEW b \in B
    PROVE  a \o b \in A ** B
BY DEF **

LEMMA CatIn ==
    ASSUME NEW A, NEW B, NEW x, x \in A ** B
    PROVE  \E a \in A, b \in B : x = a \o b
<1>1. x \in {a \o b : a \in A, b \in B}
  BY DEF **
<1> QED BY <1>1

\* Two languages one after another are a language.
LEMMA CatIs ==
    ASSUME NEW A \in Langs, NEW B \in Langs
    PROVE  A ** B \in Langs
<1>1. \A a \in A, b \in B : a \o b \in Traces
  BY ConcatProperties DEF Langs, Traces
<1>2. PICK a \in A, b \in B : TRUE
  BY DEF Langs
<1>3. a \o b \in A ** B
  BY <1>2 DEF **
<1>4. \A x \in A ** B : x \in Traces
  <2>1. TAKE x \in A ** B
  <2>2. PICK c \in A, d \in B : x = c \o d
    BY CatIn
  <2> QED BY <1>1, <2>2
<1> QED BY <1>3, <1>4 DEF Langs

\* Traces one after another.
LEMMA TracesAssociate ==
    ASSUME NEW a \in Traces, NEW b \in Traces, NEW c \in Traces
    PROVE  (a \o b) \o c = a \o (b \o c)
<1>1. a \in Seq(Events) /\ b \in Seq(Events) /\ c \in Seq(Events)
  BY DEF Traces
<1> QED BY ONLY <1>1, ConcatAssociative

\* It does not matter which two are put together first.
LEMMA CatAssociates ==
    ASSUME NEW A \in Langs, NEW B \in Langs, NEW C \in Langs
    PROVE  (A ** B) ** C = A ** (B ** C)
<1>1. \A a \in A, b \in B, c \in C : (a \o b) \o c = a \o (b \o c)
  <2>1. TAKE a \in A, b \in B, c \in C
  <2>2. a \in Traces /\ b \in Traces /\ c \in Traces
    BY DEF Langs
  <2> QED BY <2>2, TracesAssociate
<1>2. ASSUME NEW x \in (A ** B) ** C PROVE x \in A ** (B ** C)
  <2>1. PICK y \in A ** B, c \in C : x = y \o c
    BY <1>2, CatIn
  <2>2. PICK a \in A, b \in B : y = a \o b
    BY CatIn
  <2>3. b \o c \in B ** C
    BY <2>1, <2>2, CatHas
  <2>4. a \o (b \o c) \in A ** (B ** C)
    BY <2>2, <2>3, CatHas
  <2> QED BY <1>1, <2>1, <2>2, <2>4
<1>3. ASSUME NEW x \in A ** (B ** C) PROVE x \in (A ** B) ** C
  <2>1. PICK a \in A, y \in B ** C : x = a \o y
    BY <1>3, CatIn
  <2>2. PICK b \in B, c \in C : y = b \o c
    BY CatIn
  <2>3. a \o b \in A ** B
    BY <2>1, <2>2, CatHas
  <2>4. (a \o b) \o c \in (A ** B) ** C
    BY <2>2, <2>3, CatHas
  <2> QED BY <1>1, <2>1, <2>2, <2>4
<1> QED BY <1>2, <1>3

\* Doing nothing before or after changes nothing.
LEMMA CatNothing ==
    ASSUME NEW A \in Langs
    PROVE  A ** Nothing = A /\ Nothing ** A = A /\ Nothing \in Langs
<1>1. \A a \in A : a \o <<>> = a /\ <<>> \o a = a
  BY ConcatEmptySeq DEF Langs, Traces
<1>2. A ** Nothing = A
  BY <1>1 DEF **, Nothing
<1>3. Nothing ** A = A
  BY <1>1 DEF **, Nothing
<1> QED BY <1>2, <1>3 DEF Nothing, Langs, Traces

\* What may hold of the places of a tree: of one whenever of its operands.
LEMMA TreeInduction ==
    ASSUME NEW e, IsTree(e), NEW S,
           \A place \in DOMAIN e :
              (\A i \in 1..Arity[e[place]] : Append(place, i) \in S) => place \in S
    PROVE  DOMAIN e \subseteq S
<1> DEFINE Below(p) == {q \in DOMAIN e : Len(p) <= Len(q) /\ SubSeq(q, 1, Len(p)) = p}
<1> DEFINE Bad == (DOMAIN e) \ S
<1> DEFINE R == {Below(p) : p \in Bad}
<1>1. SUFFICES ASSUME Bad # {} PROVE FALSE
  OBVIOUS
<1>2. R \subseteq FiniteSubsetsOf(DOMAIN e) /\ R # {}
  <2>1. FiniteSubsetsOf(DOMAIN e) = SUBSET (DOMAIN e)
    BY FS_FiniteSubsetsOfFinite DEF IsTree
  <2>2. \A p \in Bad : Below(p) \in SUBSET (DOMAIN e)
    OBVIOUS
  <2> HIDE DEF Below, Bad
  <2> QED BY <1>1, <2>1, <2>2
<1>3. PICK X \in R : \A Y \in R : ~ (<<Y, X>> \in StrictSubsetOrdering(DOMAIN e))
  <2> HIDE DEF R
  <2> QED BY <1>2, FS_StrictSubsetOrderingWellFounded, WFMin
<1>4. PICK p \in Bad : X = Below(p)
  OBVIOUS
<1>5. PICK i \in 1..Arity[e[p]] : Append(p, i) \notin S
  BY <1>4
<1> DEFINE q == Append(p, i)
<1>6. p \in Seq(Nat) /\ i \in Nat /\ q \in DOMAIN e
  <2>1. p \in DOMAIN e
    BY <1>4
  <2>2. p \in Seq(Nat) /\ q \in DOMAIN e
    BY <2>1, <1>5 DEF IsTree
  <2>3. Len(q) = Len(p) + 1 /\ q[Len(p) + 1] = i /\ q \in Seq(Nat)
    BY <2>2 DEF IsTree
  <2>4. i \in Nat
    <3>1. q[Len(p) + 1] \in Nat
      BY <2>2, <2>3
    <3> QED BY <2>3, <3>1
  <2> QED BY <2>2, <2>4
<1>7. q \in Bad /\ q \in Seq(Nat) /\ Len(q) = Len(p) + 1 /\ Len(p) \in Nat
  BY <1>5, <1>6
<1>8. SubSeq(p, 1, Len(p)) = p
  BY <1>6, SubSeqFull
<1>9. p \in Below(p)
  BY <1>4, <1>8, <1>7
<1>10. p \notin Below(q)
  BY <1>7
<1>11. ASSUME NEW r \in Below(q) PROVE r \in Below(p)
  <2>1. r \in Seq(Nat) /\ r \in DOMAIN e
    BY DEF IsTree
  <2>2. Len(q) <= Len(r) /\ SubSeq(r, 1, Len(q)) = q
    OBVIOUS
  <2> HIDE DEF q
  <2>3. \A j \in 1..Len(p) : r[j] = q[j]
    <3>1. TAKE j \in 1..Len(p)
    <3>2. j \in 1..Len(q) /\ Len(q) \in Nat /\ Len(q) <= Len(r) /\ r \in Seq(Nat)
      BY <2>1, <2>2, <1>7
    <3>3. SubSeq(r, 1, Len(q))[j] = r[j]
      BY ONLY <3>2
    <3> QED BY <2>2, <3>3
  <2>4. \A j \in 1..Len(p) : q[j] = p[j]
    BY <1>6 DEF q
  <2>5. Len(SubSeq(r, 1, Len(p))) = Len(p) /\ \A j \in 1..Len(p) : SubSeq(r, 1, Len(p))[j] = p[j]
    BY <2>1, <2>2, <2>3, <2>4, <1>7
  <2>6. SubSeq(r, 1, Len(p)) \in Seq(Nat)
    <3>1. \A j \in 1..Len(p) : j \in 1..Len(r)
      BY <2>1, <2>2, <1>7
    <3>2. \A j \in 1..Len(p) : r[j] \in Nat
      BY <2>1, <3>1
    <3> QED BY <3>2, <1>7, SubSeqProperties
  <2>7. SubSeq(r, 1, Len(p)) = p
    BY <2>5, <2>6, <1>6, SeqEqual
  <2> QED BY <2>1, <2>2, <2>7, <1>7
<1>12. Below(q) \in R
  BY <1>7
<1>13. <<Below(q), Below(p)>> \in StrictSubsetOrdering(DOMAIN e)
  <2>1. Below(q) \subseteq Below(p) /\ Below(q) # Below(p)
    <3> HIDE DEF Below
    <3> QED BY <1>9, <1>10, <1>11
  <2>2. Below(q) \in SUBSET (DOMAIN e) /\ Below(p) \in SUBSET (DOMAIN e)
    OBVIOUS
  <2> HIDE DEF Below
  <2> QED BY <2>1, <2>2 DEF StrictSubsetOrdering
<1> QED
  <2> HIDE DEF Below, R
  <2> QED BY <1>3, <1>4, <1>12, <1>13

\* The steps of one kind are of no other.
LEMMA StepKinds ==
    /\ \A x \in DOMAIN Position :
         /\ x \notin Operations \cup {"yield"} /\ x \notin {"short", "nullish"}
         /\ x # "branch" /\ x # "default" /\ x # "delegate"
    /\ \A x \in Operations \cup {"yield"} :
         /\ x \notin {"short", "nullish"}
         /\ x # "branch" /\ x # "default" /\ x # "delegate"
<1>1. DOMAIN Position = {"a", "b", "c", "d"}
  BY DEF Position
<1>2. Operations = {"get", "peek", "read", "put", "remove", "call", "await", "iterate",
                    "value", "apply"}
  BY DEF Operations, Reads, Writes, Invokes, Iterates, Computes
<1>3. \A x \in {"a", "b", "c", "d"} :
         /\ x \notin Operations \cup {"yield"} /\ x \notin {"short", "nullish"}
         /\ x # "branch" /\ x # "default" /\ x # "delegate"
  BY <1>2
<1>4. \A x \in Operations \cup {"yield"} :
         /\ x \notin {"short", "nullish"}
         /\ x # "branch" /\ x # "default" /\ x # "delegate"
  BY <1>2
<1> QED BY <1>1, <1>3, <1>4

\* What may be left out before something.
LEMMA CatOptional ==
    ASSUME NEW A \in Langs, NEW B \in Langs
    PROVE  Perhaps(B) ** A = Either(B ** A, A)
<1>1. \A x \in Perhaps(B) ** A : x \in A \/ x \in B ** A
  <2>1. TAKE x \in Perhaps(B) ** A
  <2>2. PICK b \in Perhaps(B), a \in A : x = b \o a
    BY CatIn
  <2>5. b \in B \/ b \in Nothing
    BY <2>2 DEF Perhaps
  <2>3. CASE b \in B
    BY <2>2, <2>3, CatHas
  <2>4. CASE b \in Nothing
    <3>1. x \in Nothing ** A
      BY <2>2, <2>4, CatHas
    <3> QED BY <3>1, CatNothing
  <2> QED BY <2>3, <2>4, <2>5
<1>2. \A x \in A : x \in Perhaps(B) ** A
  <2>1. TAKE x \in A
  <2>2. <<>> \in Perhaps(B)
    BY DEF Nothing, Perhaps
  <2>3. <<>> \o x = x
    BY ConcatEmptySeq DEF Langs, Traces
  <2>4. <<>> \o x \in Perhaps(B) ** A
    BY <2>2, CatHas
  <2> QED BY <2>3, <2>4
<1>3. \A x \in B ** A : x \in Perhaps(B) ** A
  <2>1. TAKE x \in B ** A
  <2>2. PICK b \in B, a \in A : x = b \o a
    BY CatIn
  <2>3. b \in Perhaps(B)
    BY DEF Perhaps
  <2>4. b \o a \in Perhaps(B) ** A
    BY <2>3, CatHas
  <2> QED BY <2>2, <2>4
<1> QED BY <1>1, <1>2, <1>3 DEF Either

\* What an evaluator may do before a step, given what it may do after it.
Before(x, K, place, A) ==
    CASE x \in DOMAIN Position -> K[Position[x]] ** A
      [] x \in Operations \cup {"yield"} -> Does(x, place) ** A
      [] x \in {"short", "nullish"} -> Perhaps(A)
      [] x = "branch" -> Either(K[2], K[3]) ** A
      [] OTHER -> A

\* The operands of the steps s are among those of K, and a default stands before another step.
StepsFit(s, K) ==
    /\ Len(s) \in Nat
    /\ \A j \in 1 .. Len(s) :
         /\ s[j] \in DOMAIN Position => Position[s[j]] \in DOMAIN K
         /\ s[j] = "branch" => {2, 3} \subseteq DOMAIN K
         /\ s[j] = "default" => j < Len(s)

\* R[k] is what may follow from the k-th of the steps s on.
RestsFrom(R, s, k, K, place) ==
    /\ R \in [k .. Len(s) + 1 -> Langs]
    /\ R[Len(s) + 1] = Nothing
    /\ \A j \in k .. Len(s) :
         R[j] = IF s[j] = "default" THEN Either(R[j + 1], R[j + 2])
                ELSE Before(s[j], K, place, R[j + 1])

\* A step that evaluates an operand, one that does an operation, and the others.
LEMMA OperandBefore ==
    ASSUME NEW K, NEW place, NEW A, NEW x \in DOMAIN Position
    PROVE  Before(x, K, place, A) = K[Position[x]] ** A
<1>1. x \notin Operations \cup {"yield"} /\ x \notin {"short", "nullish"} /\ x # "branch"
  BY StepKinds
<1> QED BY <1>1 DEF Before

LEMMA OperationBefore ==
    ASSUME NEW K, NEW place, NEW A, NEW x \in Operations \cup {"yield"}
    PROVE  Before(x, K, place, A) = Does(x, place) ** A
<1>1. x \notin DOMAIN Position /\ x \notin {"short", "nullish"} /\ x # "branch"
  BY StepKinds
<1> QED BY <1>1 DEF Before

LEMMA OtherBefore ==
    ASSUME NEW K, NEW place, NEW A
    PROVE  /\ Before("short", K, place, A) = Perhaps(A)
           /\ Before("nullish", K, place, A) = Perhaps(A)
           /\ Before("branch", K, place, A) = Either(K[2], K[3]) ** A
           /\ Before("delegate", K, place, A) = A
<1>1. \A x \in {"short", "nullish", "branch", "delegate"} :
         x \notin DOMAIN Position /\ x \notin Operations \cup {"yield"}
  BY StepKinds
<1>2. Before("short", K, place, A) = Perhaps(A)
  BY <1>1 DEF Before
<1>3. Before("nullish", K, place, A) = Perhaps(A)
  BY <1>1 DEF Before
<1>4. Before("branch", K, place, A) = Either(K[2], K[3]) ** A
  BY <1>1 DEF Before
<1>5. Before("delegate", K, place, A) = A
  BY <1>1 DEF Before
<1> QED BY <1>2, <1>3, <1>4, <1>5

\* The same, step by step.
LEMMA BeforeIs ==
    ASSUME NEW K, NEW place, NEW A
    PROVE  /\ Before("a", K, place, A) = K[1] ** A
           /\ Before("b", K, place, A) = K[2] ** A
           /\ Before("c", K, place, A) = K[3] ** A
           /\ Before("d", K, place, A) = K[4] ** A
           /\ Before("get", K, place, A) = Does("get", place) ** A
           /\ Before("peek", K, place, A) = Does("peek", place) ** A
           /\ Before("read", K, place, A) = Does("read", place) ** A
           /\ Before("put", K, place, A) = Does("put", place) ** A
           /\ Before("remove", K, place, A) = Does("remove", place) ** A
           /\ Before("call", K, place, A) = Does("call", place) ** A
           /\ Before("await", K, place, A) = Does("await", place) ** A
           /\ Before("iterate", K, place, A) = Does("iterate", place) ** A
           /\ Before("value", K, place, A) = Does("value", place) ** A
           /\ Before("apply", K, place, A) = Does("apply", place) ** A
           /\ Before("yield", K, place, A) = Does("yield", place) ** A
<1>1. /\ "a" \in DOMAIN Position
      /\ "b" \in DOMAIN Position
      /\ "c" \in DOMAIN Position
      /\ "d" \in DOMAIN Position
  BY DEF Position
<1>2. Position["a"] = 1 /\ Position["b"] = 2 /\ Position["c"] = 3 /\ Position["d"] = 4
  BY DEF Position
<1>3. Before("a", K, place, A) = K[1] ** A
  BY <1>1, <1>2, OperandBefore
<1>4. Before("b", K, place, A) = K[2] ** A
  BY <1>1, <1>2, OperandBefore
<1>5. Before("c", K, place, A) = K[3] ** A
  BY <1>1, <1>2, OperandBefore
<1>6. Before("d", K, place, A) = K[4] ** A
  BY <1>1, <1>2, OperandBefore
<1>7. Before("get", K, place, A) = Does("get", place) ** A
  <2>1. "get" \in Operations \cup {"yield"}
    BY DEF Operations, Reads, Writes, Invokes, Iterates, Computes
  <2> QED BY <2>1, OperationBefore
<1>8. Before("peek", K, place, A) = Does("peek", place) ** A
  <2>1. "peek" \in Operations \cup {"yield"}
    BY DEF Operations, Reads, Writes, Invokes, Iterates, Computes
  <2> QED BY <2>1, OperationBefore
<1>9. Before("read", K, place, A) = Does("read", place) ** A
  <2>1. "read" \in Operations \cup {"yield"}
    BY DEF Operations, Reads, Writes, Invokes, Iterates, Computes
  <2> QED BY <2>1, OperationBefore
<1>10. Before("put", K, place, A) = Does("put", place) ** A
  <2>1. "put" \in Operations \cup {"yield"}
    BY DEF Operations, Reads, Writes, Invokes, Iterates, Computes
  <2> QED BY <2>1, OperationBefore
<1>11. Before("remove", K, place, A) = Does("remove", place) ** A
  <2>1. "remove" \in Operations \cup {"yield"}
    BY DEF Operations, Reads, Writes, Invokes, Iterates, Computes
  <2> QED BY <2>1, OperationBefore
<1>12. Before("call", K, place, A) = Does("call", place) ** A
  <2>1. "call" \in Operations \cup {"yield"}
    BY DEF Operations, Reads, Writes, Invokes, Iterates, Computes
  <2> QED BY <2>1, OperationBefore
<1>13. Before("await", K, place, A) = Does("await", place) ** A
  <2>1. "await" \in Operations \cup {"yield"}
    BY DEF Operations, Reads, Writes, Invokes, Iterates, Computes
  <2> QED BY <2>1, OperationBefore
<1>14. Before("iterate", K, place, A) = Does("iterate", place) ** A
  <2>1. "iterate" \in Operations \cup {"yield"}
    BY DEF Operations, Reads, Writes, Invokes, Iterates, Computes
  <2> QED BY <2>1, OperationBefore
<1>15. Before("value", K, place, A) = Does("value", place) ** A
  <2>1. "value" \in Operations \cup {"yield"}
    BY DEF Operations, Reads, Writes, Invokes, Iterates, Computes
  <2> QED BY <2>1, OperationBefore
<1>16. Before("apply", K, place, A) = Does("apply", place) ** A
  <2>1. "apply" \in Operations \cup {"yield"}
    BY DEF Operations, Reads, Writes, Invokes, Iterates, Computes
  <2> QED BY <2>1, OperationBefore
<1>17. Before("yield", K, place, A) = Does("yield", place) ** A
  <2>1. "yield" \in Operations \cup {"yield"}
    BY DEF Operations, Reads, Writes, Invokes, Iterates, Computes
  <2> QED BY <2>1, OperationBefore
<1> QED BY <1>3, <1>4, <1>5, <1>6, <1>7, <1>8, <1>9, <1>10, <1>11, <1>12, <1>13, <1>14, <1>15,
           <1>16, <1>17

\* What may be done from a step on is a language when what may follow is one.
LEMMA BeforeLang ==
    ASSUME NEW K, NEW place \in Seq(Nat), NEW A \in Langs, NEW x,
           \A i \in DOMAIN K : K[i] \in Langs,
           x \in DOMAIN Position => Position[x] \in DOMAIN K,
           x = "branch" => {2, 3} \subseteq DOMAIN K
    PROVE  Before(x, K, place, A) \in Langs
<1>1. CASE x \in DOMAIN Position
  <2>1. Before(x, K, place, A) = K[Position[x]] ** A
    BY <1>1, OperandBefore
  <2> QED BY <1>1, <2>1, CatIs
<1>2. CASE x \in Operations \cup {"yield"}
  <2>1. Before(x, K, place, A) = Does(x, place) ** A
    BY <1>2, OperationBefore
  <2>2. Does(x, place) \in Langs
    BY <1>2, DoesIs
  <2> QED BY <2>1, <2>2, CatIs
<1>3. CASE x \in {"short", "nullish"}
  <2>1. Perhaps(A) \in Langs
    BY CatNothing DEF Langs, Perhaps
  <2>2. /\ Before("short", K, place, A) = Perhaps(A)
        /\ Before("nullish", K, place, A) = Perhaps(A)
    BY OtherBefore
  <2> QED BY <1>3, <2>1, <2>2
<1>4. CASE x = "branch"
  <2>1. Either(K[2], K[3]) \in Langs
    BY <1>4 DEF Langs, Either
  <2>2. Either(K[2], K[3]) ** A \in Langs
    BY <2>1, CatIs
  <2>3. Before("branch", K, place, A) = Either(K[2], K[3]) ** A
    BY OtherBefore
  <2> QED BY <1>4, <2>2, <2>3
<1>5. CASE /\ x \notin DOMAIN Position /\ x \notin Operations \cup {"yield"}
           /\ x \notin {"short", "nullish"} /\ x # "branch"
  BY <1>5 DEF Before
<1> QED BY <1>1, <1>2, <1>3, <1>4, <1>5

\* The first of some numbers.
LEMMA LeastIs ==
    ASSUME NEW n \in Nat, NEW S \in SUBSET (1 .. n), S # {}
    PROVE  \E j \in S : \A k \in S : j <= k
<1> DEFINE Under(j) == {k \in S : k < j}
<1> DEFINE R == {Under(j) : j \in S}
<1>1. R \subseteq FiniteSubsetsOf(1 .. n) /\ R # {}
  <2>0. IsFiniteSet(1 .. n)
    BY FS_Interval
  <2>1. FiniteSubsetsOf(1 .. n) = SUBSET (1 .. n)
    BY <2>0, FS_FiniteSubsetsOfFinite
  <2>2. ASSUME NEW j \in S PROVE Under(j) \in SUBSET (1 .. n)
    OBVIOUS
  <2>3. PICK j \in S : TRUE
    OBVIOUS
  <2> HIDE DEF Under
  <2> QED BY <2>1, <2>2, <2>3
<1>2. PICK X \in R : \A Y \in R : ~ (<<Y, X>> \in StrictSubsetOrdering(1 .. n))
  BY <1>1, FS_StrictSubsetOrderingWellFounded, WFMin
<1>3. PICK j \in S : X = Under(j)
  OBVIOUS
<1>4. ASSUME NEW k \in S, k < j PROVE FALSE
  <2>1. k \in Int /\ j \in Int
    OBVIOUS
  <2>2. \A m \in S : m \in Int
    OBVIOUS
  <2>3. Under(k) \subseteq Under(j) /\ k \in Under(j) /\ k \notin Under(k)
    <3>1. ASSUME NEW m \in S, m < k PROVE m < j
      <4>1. m \in Int
        BY <2>2
      <4> QED BY ONLY <1>4, <2>1, <3>1, <4>1
    <3>2. ~ (k < k)
      BY ONLY <2>1
    <3> QED BY <1>4, <3>1, <3>2
  <2>4. Under(k) \in SUBSET (1 .. n) /\ Under(j) \in SUBSET (1 .. n)
    OBVIOUS
  <2> HIDE DEF Under
  <2>5. <<Under(k), X>> \in StrictSubsetOrdering(1 .. n)
    BY <1>3, <2>3, <2>4 DEF StrictSubsetOrdering
  <2> QED BY <1>2, <2>5
<1>5. \A k \in S : j <= k
  BY <1>4
<1> QED BY <1>5

\* Any steps have rests: from the last one back.
LEMMA RestsExist ==
    ASSUME NEW s, NEW K, NEW place \in Seq(Nat), StepsFit(s, K), \A i \in DOMAIN K :
           K[i] \in Langs
    PROVE  \E R : RestsFrom(R, s, 1, K, place)
<1> DEFINE S == {k \in 1 .. Len(s) + 1 : \E R : RestsFrom(R, s, k, K, place)}
<1>1. Len(s) \in Nat
  BY DEF StepsFit
<1>2. Len(s) + 1 \in S
  <2> DEFINE R == [j \in Len(s) + 1 .. Len(s) + 1 |-> Nothing]
  <2>1. R \in [Len(s) + 1 .. Len(s) + 1 -> Langs]
    BY CatNothing, DoesIs DEF Langs, Nothing, Traces
  <2>2. R[Len(s) + 1] = Nothing /\ Len(s) + 1 .. Len(s) = {} /\ Len(s) + 1 \in 1 .. Len(s) + 1
    BY <1>1
  <2> HIDE DEF R
  <2> QED BY <2>1, <2>2 DEF RestsFrom
<1>3. PICK k \in S : \A m \in S : k <= m
  <2>1. S \in SUBSET (1 .. Len(s) + 1) /\ Len(s) + 1 \in Nat
    BY <1>1
  <2> HIDE DEF S
  <2> QED BY <1>2, <2>1, LeastIs
<1>4. SUFFICES ASSUME k # 1 PROVE FALSE
  BY <1>3
<1>5. PICK R : RestsFrom(R, s, k, K, place)
  BY <1>3
<1> DEFINE m == k - 1
<1> DEFINE A == IF s[m] = "default" THEN Either(R[m + 1], R[m + 2]) ELSE Before(s[m], K, place,
                  R[m + 1])
<1>6. m \in 1 .. Len(s) /\ m + 1 = k /\ k \in Nat
  BY <1>1, <1>3, <1>4
<1>7. R[m + 1] \in Langs /\ (s[m] = "default" => R[m + 2] \in Langs)
  <2>1. R \in [k .. Len(s) + 1 -> Langs]
    BY <1>5 DEF RestsFrom
  <2>2. m + 1 \in k .. Len(s) + 1
    BY <1>1, <1>6
  <2>3. s[m] = "default" => m < Len(s)
    BY <1>6 DEF StepsFit
  <2>4. m < Len(s) => m + 2 \in k .. Len(s) + 1
    BY <1>1, <1>6
  <2> HIDE DEF m
  <2> QED BY <2>1, <2>2, <2>3, <2>4
<1>8. A \in Langs
  <2>1. CASE s[m] = "default"
    BY <2>1, <1>7 DEF Langs, Either
  <2>2. CASE s[m] # "default"
    <3>1. /\ s[m] \in DOMAIN Position => Position[s[m]] \in DOMAIN K
          /\ s[m] = "branch" => {2, 3} \subseteq DOMAIN K
      BY <1>6 DEF StepsFit
    <3> HIDE DEF m
    <3> QED BY <2>2, <3>1, <1>7, BeforeLang
  <2> QED BY <2>1, <2>2
<1> DEFINE Q == [j \in m .. Len(s) + 1 |-> IF j = m THEN A ELSE R[j]]
<1> HIDE DEF A
<1>9. Q \in [m .. Len(s) + 1 -> Langs]
  BY <1>1, <1>5, <1>6, <1>8 DEF RestsFrom
<1>10. Q[m] = A /\ \A j \in m + 1 .. Len(s) + 1 : Q[j] = R[j]
  BY <1>1, <1>6
<1> HIDE DEF Q, m
<1>11. ASSUME NEW j \in m .. Len(s)
       PROVE  Q[j] = IF s[j] = "default" THEN Either(Q[j + 1], Q[j + 2])
                     ELSE Before(s[j], K, place, Q[j + 1])
  <2>1. Q[j + 1] = R[j + 1] /\ (s[j] = "default" => Q[j + 2] = R[j + 2])
    BY <1>1, <1>6, <1>10 DEF StepsFit
  <2>2. CASE j = m
    BY <2>1, <2>2, <1>10 DEF A
  <2>3. CASE j \in k .. Len(s)
    <3>1. Q[j] = R[j]
      BY <2>3, <1>6, <1>10
    <3> QED BY <2>1, <2>3, <3>1, <1>5 DEF RestsFrom
  <2> QED BY <1>6, <2>2, <2>3
<1>12. Q[Len(s) + 1] = Nothing
  <2>1. R[Len(s) + 1] = Nothing
    BY <1>5 DEF RestsFrom
  <2>2. Len(s) + 1 \in m + 1 .. Len(s) + 1
    BY <1>1, <1>6
  <2> QED BY <2>1, <2>2, <1>10
<1>13. m \in S
  <2>1. RestsFrom(Q, s, m, K, place)
    BY <1>9, <1>11, <1>12 DEF RestsFrom
  <2>2. m \in 1 .. Len(s) + 1
    BY <1>1, <1>6
  <2> QED BY <2>1, <2>2
<1> QED BY <1>3, <1>6, <1>13

\* One after another, whichever two are put together first.
LEMMA Cat3 ==
    ASSUME NEW A \in Langs, NEW B \in Langs, NEW C \in Langs
    PROVE  A ** (B ** C) = A ** B ** C
BY CatAssociates

LEMMA Cat4 ==
    ASSUME NEW A \in Langs, NEW B \in Langs, NEW C \in Langs, NEW E \in Langs
    PROVE  A ** (B ** (C ** E)) = A ** B ** C ** E
<1>1. A ** B \in Langs
  BY CatIs
<1>2. B ** (C ** E) = B ** C ** E /\ B ** C \in Langs
  BY CatAssociates, CatIs
<1>3. A ** ((B ** C) ** E) = (A ** (B ** C)) ** E
  BY <1>2, CatAssociates
<1>4. A ** (B ** C) = A ** B ** C
  BY CatAssociates
<1> QED BY <1>2, <1>3, <1>4

LEMMA Cat5 ==
    ASSUME NEW A \in Langs, NEW B \in Langs, NEW C \in Langs, NEW E \in Langs, NEW F \in Langs
    PROVE  A ** (B ** (C ** (E ** F))) = A ** B ** C ** E ** F
<1>1. E ** F \in Langs /\ A ** B \in Langs /\ A ** B ** C \in Langs
  <2>1. A ** B \in Langs
    BY CatIs
  <2> QED BY <2>1, CatIs
<1>2. A ** (B ** (C ** (E ** F))) = A ** B ** C ** (E ** F)
  BY <1>1, Cat4
<1> QED BY <1>1, <1>2, CatAssociates

LEMMA Cat6 ==
    ASSUME NEW A \in Langs, NEW B \in Langs, NEW C \in Langs, NEW E \in Langs, NEW F \in Langs,
           NEW H \in Langs
    PROVE  A ** (B ** (C ** (E ** (F ** H)))) = A ** B ** C ** E ** F ** H
<1>1. F ** H \in Langs /\ A ** B ** C ** E \in Langs
  <2>1. A ** B \in Langs
    BY CatIs
  <2>2. A ** B ** C \in Langs
    BY <2>1, CatIs
  <2> QED BY <2>2, CatIs
<1>2. A ** (B ** (C ** (E ** (F ** H)))) = A ** B ** C ** E ** (F ** H)
  BY <1>1, Cat5
<1> QED BY <1>1, <1>2, CatAssociates

\* Each of the operations.
LEMMA OperationsAre ==
    ASSUME NEW place \in Seq(Nat)
    PROVE  /\ Does("get", place) \in Langs /\ Does("peek", place) \in Langs
           /\ Does("read", place) \in Langs /\ Does("put", place) \in Langs
           /\ Does("remove", place) \in Langs /\ Does("call", place) \in Langs
           /\ Does("await", place) \in Langs /\ Does("iterate", place) \in Langs
           /\ Does("value", place) \in Langs /\ Does("apply", place) \in Langs
           /\ Does("yield", place) \in Langs
<1>1. Operations = {"get", "peek", "read", "put", "remove", "call", "await", "iterate",
                    "value", "apply"}
  BY DEF Operations, Reads, Writes, Invokes, Iterates, Computes
<1> QED BY <1>1, DoesIs

\* What may be left out, and what is one of two, are languages.
LEMMA PerhapsIs ==
    ASSUME NEW A \in Langs
    PROVE  Perhaps(A) \in Langs
BY CatNothing DEF Langs, Perhaps

LEMMA EitherIs ==
    ASSUME NEW A \in Langs, NEW B \in Langs
    PROVE  Either(A, B) \in Langs
BY DEF Langs, Either

-----------------------------------------------------------------------------
(* The steps of each form in the two evaluators, and that what they may do  *)
(* is what OrderOf says: from the rest after the last step, which is        *)
(* nothing, back to the rest before the first.                              *)

\* The steps of each form in the direct evaluator.
LEMMA DirectStepsAre ==
    /\ DirectSteps["leaf"] = <<"value">>
    /\ DirectSteps["class"] = <<"a">>
    /\ DirectSteps["assign"] = <<"a", "b", "get", "c", "put">>
    /\ DirectSteps["compound"] = <<"a", "b", "get", "c", "apply", "put">>
    /\ DirectSteps["logAssign"] = <<"a", "b", "get", "short", "c", "put">>
    /\ DirectSteps["assignOne"] = <<"a", "get", "b", "put">>
    /\ DirectSteps["nameAssign"] = <<"read", "a", "apply">>
    /\ DirectSteps["nameLog"] = <<"read", "short", "a">>
    /\ DirectSteps["binary"] = <<"a", "b", "apply">>
    /\ DirectSteps["logical"] = <<"a", "short", "b">>
    /\ DirectSteps["unary"] = <<"a", "apply">>
    /\ DirectSteps["delete"] = <<"a", "b", "remove">>
    /\ DirectSteps["array"] = <<"a", "iterate", "b">>
    /\ DirectSteps["object"] = <<"a", "b">>
    /\ DirectSteps["member"] = <<"a", "b", "get">>
    /\ DirectSteps["optMember"] = <<"a", "nullish", "b", "get">>
    /\ DirectSteps["call"] = <<"a", "b", "call">>
    /\ DirectSteps["method"] = <<"a", "b", "peek", "c", "call">>
    /\ DirectSteps["optCall"] = <<"a", "nullish", "a", "b", "call">>
    /\ DirectSteps["optMethod"] = <<"a", "b", "peek", "c", "call">>
    /\ DirectSteps["methodOpt"] = <<"a", "b", "get", "nullish", "a", "b", "peek", "c", "call">>
    /\ DirectSteps["update"] = <<"a", "b", "peek", "put">>
    /\ DirectSteps["updateOne"] = <<"a", "get", "put">>
    /\ DirectSteps["sequence"] = <<"a", "b">>
    /\ DirectSteps["conditional"] = <<"a", "branch">>
    /\ DirectSteps["new"] = <<"a", "b", "iterate", "call">>
    /\ DirectSteps["template"] = <<"a", "b">>
    /\ DirectSteps["tagged"] = <<"a", "b", "call">>
    /\ DirectSteps["taggedMember"] = <<"a", "b", "get", "c", "call">>
    /\ DirectSteps["yield"] = <<"a">>
    /\ DirectSteps["delegate"] = <<"a", "iterate">>
    /\ DirectSteps["await"] = <<"a", "await">>
    /\ DirectSteps["arrayPattern"] = <<"a", "iterate", "default", "d", "b", "c", "put">>
    /\ DirectSteps["objectPattern"] = <<"a", "b", "get", "default", "d", "c", "put">>
<1>1. {"leaf", "class", "assign", "compound", "logAssign", "assignOne", "nameAssign",
       "nameLog", "binary", "logical", "unary", "delete", "array", "object", "member",
       "optMember", "call", "method", "optCall", "optMethod", "methodOpt", "update",
       "updateOne", "sequence", "conditional", "new", "template", "tagged", "taggedMember",
       "yield", "delegate", "await", "arrayPattern", "objectPattern"}
      \subseteq Forms
  BY DEF Forms, Arity
<1> USE <1>1 DEF DirectSteps, DirectLeaves, DirectClasses, DirectAssignments, DirectBinary,
      DirectUnary,
              DirectLiterals, DirectMembers, DirectCalls, DirectUpdates, DirectControl,
              DirectTemplates, DirectYields, DirectPatterns, DirectTagTarget
<1>2. DirectSteps["leaf"] = <<"value">>
  OBVIOUS
<1>3. DirectSteps["class"] = <<"a">>
  OBVIOUS
<1>4. /\ DirectSteps["assign"] = <<"a", "b", "get", "c", "put">>
      /\ DirectSteps["compound"] = <<"a", "b", "get", "c", "apply", "put">>
      /\ DirectSteps["logAssign"] = <<"a", "b", "get", "short", "c", "put">>
      /\ DirectSteps["assignOne"] = <<"a", "get", "b", "put">>
      /\ DirectSteps["nameAssign"] = <<"read", "a", "apply">>
      /\ DirectSteps["nameLog"] = <<"read", "short", "a">>
  OBVIOUS
<1>5. /\ DirectSteps["binary"] = <<"a", "b", "apply">>
      /\ DirectSteps["logical"] = <<"a", "short", "b">>
  OBVIOUS
<1>6. /\ DirectSteps["unary"] = <<"a", "apply">>
      /\ DirectSteps["delete"] = <<"a", "b", "remove">>
  OBVIOUS
<1>7. /\ DirectSteps["array"] = <<"a", "iterate", "b">>
      /\ DirectSteps["object"] = <<"a", "b">>
  OBVIOUS
<1>8. /\ DirectSteps["member"] = <<"a", "b", "get">>
      /\ DirectSteps["optMember"] = <<"a", "nullish", "b", "get">>
  OBVIOUS
<1>9. /\ DirectSteps["call"] = <<"a", "b", "call">>
      /\ DirectSteps["method"] = <<"a", "b", "peek", "c", "call">>
      /\ DirectSteps["optCall"] = <<"a", "nullish", "a", "b", "call">>
      /\ DirectSteps["optMethod"] = <<"a", "b", "peek", "c", "call">>
      /\ DirectSteps["methodOpt"] = <<"a", "b", "get", "nullish", "a", "b", "peek", "c", "call">>
  OBVIOUS
<1>10. /\ DirectSteps["update"] = <<"a", "b", "peek", "put">>
       /\ DirectSteps["updateOne"] = <<"a", "get", "put">>
  OBVIOUS
<1>11. /\ DirectSteps["sequence"] = <<"a", "b">>
       /\ DirectSteps["conditional"] = <<"a", "branch">>
       /\ DirectSteps["new"] = <<"a", "b", "iterate", "call">>
  OBVIOUS
<1>12. /\ DirectSteps["template"] = <<"a", "b">>
       /\ DirectSteps["tagged"] = <<"a", "b", "call">>
       /\ DirectSteps["taggedMember"] = <<"a", "b", "get", "c", "call">>
  OBVIOUS
<1>13. /\ DirectSteps["yield"] = <<"a">>
       /\ DirectSteps["delegate"] = <<"a", "iterate">>
       /\ DirectSteps["await"] = <<"a", "await">>
  OBVIOUS
<1>14. /\ DirectSteps["arrayPattern"] = <<"a", "iterate", "default", "d", "b", "c", "put">>
       /\ DirectSteps["objectPattern"] = <<"a", "b", "get", "default", "d", "c", "put">>
  OBVIOUS
<1> HIDE <1>1 DEF DirectSteps, DirectLeaves, DirectClasses, DirectAssignments, DirectBinary,
      DirectUnary,
               DirectLiterals, DirectMembers, DirectCalls, DirectUpdates, DirectControl,
               DirectTemplates, DirectYields, DirectPatterns, DirectTagTarget
<1> QED BY <1>2, <1>3, <1>4, <1>5, <1>6, <1>7, <1>8, <1>9, <1>10, <1>11, <1>12, <1>13, <1>14

\* The steps of each form in the generator evaluator, which evaluates no name, literal or class.
LEMMA GeneratorStepsAre ==
    /\ GeneratorSteps["assign"] = <<"a", "b", "get", "c", "put">>
    /\ GeneratorSteps["compound"] = <<"a", "b", "get", "c", "apply", "put">>
    /\ GeneratorSteps["logAssign"] = <<"a", "b", "get", "short", "c", "put">>
    /\ GeneratorSteps["assignOne"] = <<"a", "get", "b", "put">>
    /\ GeneratorSteps["nameAssign"] = <<"read", "a", "apply">>
    /\ GeneratorSteps["nameLog"] = <<"read", "short", "a">>
    /\ GeneratorSteps["binary"] = <<"a", "b", "apply">>
    /\ GeneratorSteps["logical"] = <<"a", "short", "b">>
    /\ GeneratorSteps["unary"] = <<"a", "apply">>
    /\ GeneratorSteps["delete"] = <<"a", "b", "remove">>
    /\ GeneratorSteps["array"] = <<"a", "iterate", "b">>
    /\ GeneratorSteps["object"] = <<"a", "b">>
    /\ GeneratorSteps["member"] = <<"a", "b", "get">>
    /\ GeneratorSteps["optMember"] = <<"a", "nullish", "b", "get">>
    /\ GeneratorSteps["call"] = <<"a", "b", "call">>
    /\ GeneratorSteps["method"] = <<"a", "b", "get", "c", "call">>
    /\ GeneratorSteps["optCall"] = <<"a", "nullish", "b", "call">>
    /\ GeneratorSteps["optMethod"] = <<"a", "nullish", "b", "get", "nullish", "c", "call">>
    /\ GeneratorSteps["methodOpt"] = <<"a", "b", "get", "nullish", "c", "call">>
    /\ GeneratorSteps["update"] = <<"a", "b", "get", "put">>
    /\ GeneratorSteps["updateOne"] = <<"a", "get", "put">>
    /\ GeneratorSteps["sequence"] = <<"a", "b">>
    /\ GeneratorSteps["conditional"] = <<"a", "branch">>
    /\ GeneratorSteps["new"] = <<"a", "b", "iterate", "call">>
    /\ GeneratorSteps["template"] = <<"a", "b">>
    /\ GeneratorSteps["tagged"] = <<"a", "b", "call">>
    /\ GeneratorSteps["taggedMember"] = <<"a", "b", "get", "c", "call">>
    /\ GeneratorSteps["yield"] = <<"a", "yield">>
    /\ GeneratorSteps["delegate"] = <<"a", "iterate", "delegate">>
    /\ GeneratorSteps["await"] = <<"a", "await">>
    /\ GeneratorSteps["arrayPattern"] = <<"a", "iterate", "default", "d", "b", "c", "put">>
    /\ GeneratorSteps["objectPattern"] = <<"a", "b", "get", "default", "d", "c", "put">>
<1>1. {"assign", "compound", "logAssign", "assignOne", "nameAssign", "nameLog", "binary",
       "logical", "unary", "delete", "array", "object", "member", "optMember", "call",
       "method", "optCall", "optMethod", "methodOpt", "update", "updateOne", "sequence",
       "conditional", "new", "template", "tagged", "taggedMember", "yield", "delegate",
       "await", "arrayPattern", "objectPattern"}
      \subseteq Forms
  BY DEF Forms, Arity
<1> USE <1>1 DEF GeneratorSteps, GeneratorArrays, GeneratorObjects, GeneratorTemplates,
      GeneratorMembers,
              GeneratorCalls, GeneratorNews, GeneratorTagged, GeneratorControl,
              GeneratorUpdateOne, GeneratorUpdate, GeneratorYields, GeneratorAwait,
              GeneratorUnary, GeneratorBinary, GeneratorNameAssignments, GeneratorAssignOne,
              GeneratorAssignments, GeneratorArrayPattern, GeneratorObjectPattern,
              GeneratorTarget, GeneratorOptTarget, GeneratorArguments, GeneratorDefault,
              GeneratorPatternTarget
<1>2. GeneratorSteps["array"] = <<"a", "iterate", "b">>
  OBVIOUS
<1>3. GeneratorSteps["object"] = <<"a", "b">>
  OBVIOUS
<1>4. GeneratorSteps["template"] = <<"a", "b">>
  OBVIOUS
<1>5. /\ GeneratorSteps["member"] = <<"a", "b", "get">>
      /\ GeneratorSteps["optMember"] = <<"a", "nullish", "b", "get">>
  OBVIOUS
<1>6. /\ GeneratorSteps["call"] = <<"a", "b", "call">>
      /\ GeneratorSteps["optCall"] = <<"a", "nullish", "b", "call">>
      /\ GeneratorSteps["method"] = <<"a", "b", "get", "c", "call">>
      /\ GeneratorSteps["methodOpt"] = <<"a", "b", "get", "nullish", "c", "call">>
      /\ GeneratorSteps["optMethod"] = <<"a", "nullish", "b", "get", "nullish", "c", "call">>
  OBVIOUS
<1>7. GeneratorSteps["new"] = <<"a", "b", "iterate", "call">>
  OBVIOUS
<1>8. /\ GeneratorSteps["tagged"] = <<"a", "b", "call">>
      /\ GeneratorSteps["taggedMember"] = <<"a", "b", "get", "c", "call">>
  OBVIOUS
<1>9. /\ GeneratorSteps["sequence"] = <<"a", "b">>
      /\ GeneratorSteps["conditional"] = <<"a", "branch">>
  OBVIOUS
<1>10. GeneratorSteps["updateOne"] = <<"a", "get", "put">>
  OBVIOUS
<1>11. GeneratorSteps["update"] = <<"a", "b", "get", "put">>
  OBVIOUS
<1>12. /\ GeneratorSteps["yield"] = <<"a", "yield">>
       /\ GeneratorSteps["delegate"] = <<"a", "iterate", "delegate">>
  OBVIOUS
<1>13. GeneratorSteps["await"] = <<"a", "await">>
  OBVIOUS
<1>14. /\ GeneratorSteps["unary"] = <<"a", "apply">>
       /\ GeneratorSteps["delete"] = <<"a", "b", "remove">>
  OBVIOUS
<1>15. /\ GeneratorSteps["binary"] = <<"a", "b", "apply">>
       /\ GeneratorSteps["logical"] = <<"a", "short", "b">>
  OBVIOUS
<1>16. /\ GeneratorSteps["nameAssign"] = <<"read", "a", "apply">>
       /\ GeneratorSteps["nameLog"] = <<"read", "short", "a">>
  OBVIOUS
<1>17. GeneratorSteps["assignOne"] = <<"a", "get", "b", "put">>
  OBVIOUS
<1>18. /\ GeneratorSteps["assign"] = <<"a", "b", "get", "c", "put">>
       /\ GeneratorSteps["compound"] = <<"a", "b", "get", "c", "apply", "put">>
       /\ GeneratorSteps["logAssign"] = <<"a", "b", "get", "short", "c", "put">>
  OBVIOUS
<1>19. GeneratorSteps["arrayPattern"] = <<"a", "iterate", "default", "d", "b", "c", "put">>
  OBVIOUS
<1>20. GeneratorSteps["objectPattern"] = <<"a", "b", "get", "default", "d", "c", "put">>
  OBVIOUS
<1> HIDE <1>1 DEF GeneratorSteps, GeneratorArrays, GeneratorObjects, GeneratorTemplates,
      GeneratorMembers,
               GeneratorCalls, GeneratorNews, GeneratorTagged, GeneratorControl,
               GeneratorUpdateOne, GeneratorUpdate, GeneratorYields, GeneratorAwait,
               GeneratorUnary, GeneratorBinary, GeneratorNameAssignments, GeneratorAssignOne,
               GeneratorAssignments, GeneratorArrayPattern, GeneratorObjectPattern,
               GeneratorTarget, GeneratorOptTarget, GeneratorArguments, GeneratorDefault,
               GeneratorPatternTarget
<1> QED BY <1>2, <1>3, <1>4, <1>5, <1>6, <1>7, <1>8, <1>9, <1>10, <1>11, <1>12, <1>13, <1>14,
           <1>15, <1>16, <1>17, <1>18, <1>19, <1>20

\* A step that is within the operands of K.
Fit(x, K) ==
    /\ x # "default"
    /\ x \in DOMAIN Position => Position[x] \in DOMAIN K
    /\ x = "branch" => {2, 3} \subseteq DOMAIN K

LEMMA FitsAre ==
    ASSUME NEW K
    PROVE  /\ 1 \in DOMAIN K => Fit("a", K)
           /\ 2 \in DOMAIN K => Fit("b", K)
           /\ 3 \in DOMAIN K => Fit("c", K)
           /\ 4 \in DOMAIN K => Fit("d", K)
           /\ {2, 3} \subseteq DOMAIN K => Fit("branch", K)
           /\ Fit("get", K) /\ Fit("peek", K) /\ Fit("read", K)
           /\ Fit("put", K) /\ Fit("remove", K) /\ Fit("call", K)
           /\ Fit("await", K) /\ Fit("iterate", K) /\ Fit("value", K)
           /\ Fit("apply", K) /\ Fit("yield", K) /\ Fit("delegate", K)
           /\ Fit("short", K) /\ Fit("nullish", K)
BY DEF Fit, Position

\* A few steps that are within the operands.
LEMMA Fits1 ==
    ASSUME NEW K, NEW s, Len(s) = 1, Fit(s[1], K)
    PROVE  StepsFit(s, K)
BY DEF StepsFit, Fit

LEMMA Fits2 ==
    ASSUME NEW K, NEW s, Len(s) = 2, Fit(s[1], K), Fit(s[2], K)
    PROVE  StepsFit(s, K)
<1>1. \A j \in 1 .. 2 : j = 1 \/ j = 2
  OBVIOUS
<1>2. \A j \in 1 .. 2 : Fit(s[j], K)
  BY <1>1
<1> QED BY <1>2 DEF StepsFit, Fit

LEMMA Fits3 ==
    ASSUME NEW K, NEW s, Len(s) = 3, Fit(s[1], K), Fit(s[2], K), Fit(s[3], K)
    PROVE  StepsFit(s, K)
<1>1. \A j \in 1 .. 3 : j = 1 \/ j = 2 \/ j = 3
  OBVIOUS
<1>2. \A j \in 1 .. 3 : Fit(s[j], K)
  BY <1>1
<1> QED BY <1>2 DEF StepsFit, Fit

LEMMA Fits4 ==
    ASSUME NEW K, NEW s, Len(s) = 4, Fit(s[1], K), Fit(s[2], K), Fit(s[3], K), Fit(s[4], K)
    PROVE  StepsFit(s, K)
<1>1. \A j \in 1 .. 4 : j = 1 \/ j = 2 \/ j = 3 \/ j = 4
  OBVIOUS
<1>2. \A j \in 1 .. 4 : Fit(s[j], K)
  BY <1>1
<1> QED BY <1>2 DEF StepsFit, Fit

LEMMA Fits5 ==
    ASSUME NEW K, NEW s, Len(s) = 5, Fit(s[1], K), Fit(s[2], K), Fit(s[3], K), Fit(s[4], K),
           Fit(s[5], K)
    PROVE  StepsFit(s, K)
<1>1. \A j \in 1 .. 5 : j = 1 \/ j = 2 \/ j = 3 \/ j = 4 \/ j = 5
  OBVIOUS
<1>2. \A j \in 1 .. 5 : Fit(s[j], K)
  BY <1>1
<1> QED BY <1>2 DEF StepsFit, Fit

\* What a few steps without a default may do, written out.
LEMMA Rests1 ==
    ASSUME NEW K, NEW place, NEW R, NEW s, Len(s) = 1, RestsFrom(R, s, 1, K, place),
           s[1] # "default"
    PROVE  R[1] = Before(s[1], K, place, Nothing)
<1>1. /\ R[2] = Nothing
      /\ \A j \in 1 .. 1 : s[j] # "default" => R[j] = Before(s[j], K, place, R[j + 1])
  BY DEF RestsFrom
<1>2. R[1] = Before(s[1], K, place, R[2])
  BY <1>1
<1> QED BY <1>1, <1>2

LEMMA Rests2 ==
    ASSUME NEW K, NEW place, NEW R, NEW s, Len(s) = 2, RestsFrom(R, s, 1, K, place),
           s[1] # "default", s[2] # "default"
    PROVE  R[1] = Before(s[1], K, place, Before(s[2], K, place, Nothing))
<1>1. /\ R[3] = Nothing
      /\ \A j \in 1 .. 2 : s[j] # "default" => R[j] = Before(s[j], K, place, R[j + 1])
  BY DEF RestsFrom
<1>2. R[1] = Before(s[1], K, place, R[2]) /\ R[2] = Before(s[2], K, place, R[3])
  BY <1>1
<1> QED BY <1>1, <1>2

LEMMA Rests3 ==
    ASSUME NEW K, NEW place, NEW R, NEW s, Len(s) = 3, RestsFrom(R, s, 1, K, place),
           s[1] # "default", s[2] # "default", s[3] # "default"
    PROVE  R[1] = Before(s[1], K, place, Before(s[2], K, place, Before(s[3], K, place, Nothing)))
<1>1. /\ R[4] = Nothing
      /\ \A j \in 1 .. 3 : s[j] # "default" => R[j] = Before(s[j], K, place, R[j + 1])
  BY DEF RestsFrom
<1>2. /\ R[1] = Before(s[1], K, place, R[2])
      /\ R[2] = Before(s[2], K, place, R[3])
      /\ R[3] = Before(s[3], K, place, R[4])
  BY <1>1
<1> QED BY <1>1, <1>2

LEMMA Rests4 ==
    ASSUME NEW K, NEW place, NEW R, NEW s, Len(s) = 4, RestsFrom(R, s, 1, K, place),
           s[1] # "default", s[2] # "default", s[3] # "default", s[4] # "default"
    PROVE  R[1]
             = Before(s[1], K, place, Before(s[2], K, place, Before(s[3], K, place,
                 Before(s[4], K, place, Nothing))))
<1>1. /\ R[5] = Nothing
      /\ \A j \in 1 .. 4 : s[j] # "default" => R[j] = Before(s[j], K, place, R[j + 1])
  BY DEF RestsFrom
<1>2. /\ R[1] = Before(s[1], K, place, R[2])
      /\ R[2] = Before(s[2], K, place, R[3])
      /\ R[3] = Before(s[3], K, place, R[4])
      /\ R[4] = Before(s[4], K, place, R[5])
  BY <1>1
<1> QED BY <1>1, <1>2

LEMMA Rests5 ==
    ASSUME NEW K, NEW place, NEW R, NEW s, Len(s) = 5, RestsFrom(R, s, 1, K, place),
           s[1] # "default", s[2] # "default", s[3] # "default", s[4] # "default",
             s[5] # "default"
    PROVE  R[1]
             = Before(s[1], K, place, Before(s[2], K, place, Before(s[3], K, place,
                 Before(s[4], K, place, Before(s[5], K, place, Nothing)))))
<1>1. /\ R[6] = Nothing
      /\ \A j \in 1 .. 5 : s[j] # "default" => R[j] = Before(s[j], K, place, R[j + 1])
  BY DEF RestsFrom
<1>2. /\ R[1] = Before(s[1], K, place, R[2])
      /\ R[2] = Before(s[2], K, place, R[3])
      /\ R[3] = Before(s[3], K, place, R[4])
      /\ R[4] = Before(s[4], K, place, R[5])
      /\ R[5] = Before(s[5], K, place, R[6])
  BY <1>1
<1> QED BY <1>1, <1>2

\* What may follow from each step of a form on is what remains of its order.
HasRests(form, place, K, gen) ==
    /\ StepsFit(StepsOf(form, gen), K)
    /\ \E R : /\ RestsFrom(R, StepsOf(form, gen), 1, K, place)
              /\ R[1] = OrderOf(form, place, K, gen, Departures)

\* A compound assignment puts six one after another.
LEMMA CompoundOrder ==
    ASSUME NEW place \in Seq(Nat), NEW K \in [1 .. 3 -> Langs]
    PROVE  K[1] ** (K[2] ** (Does("get", place) ** (K[3] ** (Does("apply", place)
               ** Does("put", place)))))
             = K[1] ** K[2] ** Does("get", place) ** K[3] ** Does("apply", place)
                 ** Does("put", place)
<1>1. K[1] \in Langs /\ K[2] \in Langs /\ K[3] \in Langs
  OBVIOUS
<1> DEFINE X == Does("apply", place) ** Does("put", place)
<1> DEFINE Y == K[1] ** K[2] ** Does("get", place) ** K[3]
<1>2. X \in Langs
  BY OperationsAre, CatIs
<1>3. Y \in Langs
  <2>1. K[1] ** K[2] \in Langs
    BY <1>1, CatIs
  <2>2. K[1] ** K[2] ** Does("get", place) \in Langs
    BY <2>1, OperationsAre, CatIs
  <2> QED BY <1>1, <2>2, CatIs
<1> HIDE DEF X
<1>4. Does("get", place) \in Langs
  BY OperationsAre
<1>5. K[1] ** (K[2] ** (Does("get", place) ** (K[3] ** X)))
        = K[1] ** K[2] ** Does("get", place) ** K[3] ** X
  BY <1>1, <1>2, <1>4, Cat5
<1> HIDE DEF Y
<1>6. Y ** (Does("apply", place) ** Does("put", place))
        = Y ** Does("apply", place) ** Does("put", place)
  BY <1>3, OperationsAre, CatAssociates
<1>7. K[1] ** (K[2] ** (Does("get", place) ** (K[3] ** X))) = Y ** X
  BY <1>5 DEF Y
<1>8. Y ** X = Y ** Does("apply", place) ** Does("put", place)
  BY <1>6 DEF X
<1>9. K[1] ** (K[2] ** (Does("get", place) ** (K[3] ** X)))
        = Y ** Does("apply", place) ** Does("put", place)
  BY <1>7, <1>8
<1> QED BY <1>9 DEF X, Y

\* An optional call of a method reads the method twice in the direct evaluator.
LEMMA MethodOptOrder ==
    ASSUME NEW place \in Seq(Nat), NEW K \in [1 .. 3 -> Langs]
    PROVE  K[1] ** (K[2] ** (Does("get", place) ** Perhaps(K[1] ** (K[2] ** (Does("peek", place)
               ** (K[3] ** Does("call", place)))))))
             = K[1] ** K[2] ** Does("get", place) ** Perhaps(K[1] ** K[2] ** Does("peek", place)
                 ** K[3] ** Does("call", place))
<1>1. K[1] \in Langs /\ K[2] \in Langs /\ K[3] \in Langs
  OBVIOUS
<1> DEFINE call == K[1] ** K[2] ** Does("peek", place) ** K[3] ** Does("call", place)
<1>2. K[1] ** (K[2] ** (Does("peek", place) ** (K[3] ** Does("call", place)))) = call
  BY <1>1, OperationsAre, Cat5
<1>3. Perhaps(call) \in Langs
  <2>1. Does("peek", place) \in Langs /\ Does("call", place) \in Langs
    BY OperationsAre
  <2>2. K[1] ** K[2] \in Langs
    BY <1>1, CatIs
  <2>3. K[1] ** K[2] ** Does("peek", place) \in Langs
    BY <2>1, <2>2, CatIs
  <2>4. K[1] ** K[2] ** Does("peek", place) ** K[3] \in Langs
    BY <1>1, <2>3, CatIs
  <2>5. call \in Langs
    BY <2>1, <2>4, CatIs
  <2> QED BY <2>5, PerhapsIs
<1> HIDE DEF call
<1>4. K[1] ** (K[2] ** (Does("get", place) ** Perhaps(call)))
        = K[1] ** K[2] ** Does("get", place) ** Perhaps(call)
  BY <1>1, <1>3, OperationsAre, Cat4
<1>5. K[1] ** (K[2] ** (Does("get", place) ** Perhaps(K[1] ** (K[2] ** (Does("peek", place)
        ** (K[3] ** Does("call", place)))))))
      = K[1] ** K[2] ** Does("get", place) ** Perhaps(call)
  BY <1>2, <1>4
<1> QED BY <1>5 DEF call

\* Form by form: a name or a literal.
LEMMA LeafRests ==
    ASSUME NEW place \in Seq(Nat), NEW gen \in BOOLEAN, NEW K \in [1 .. 0 -> Langs], ~ gen
    PROVE  HasRests("leaf", place, K, gen)
<1> DEFINE s == <<"value">>
<1>1. StepsOf("leaf", gen) = s
  BY DirectStepsAre DEF StepsOf
<1>2. Len(s) = 1 /\ s[1] = "value"
  OBVIOUS
<1> HIDE DEF s
<1>3. StepsFit(s, K)
  BY <1>2, FitsAre, Fits1
<1>4. PICK R : RestsFrom(R, s, 1, K, place)
  BY <1>3, RestsExist
<1>5. Does("value", place) \in Langs
  BY OperationsAre
<1>6. R[1] = Before("value", K, place, Nothing)
  BY <1>2, <1>4, Rests1
<1>7. R[1] = Does("value", place)
  BY <1>5, <1>6, BeforeIs, CatNothing, OperationsAre
<1>8. OrderOf("leaf", place, K, gen, Departures) = Does("value", place)
  BY <1>5, CatNothing, PerhapsIs, OperationsAre, CatIs DEF OrderOf, Does, Departures
<1> QED BY <1>1, <1>3, <1>4, <1>7, <1>8 DEF HasRests

\* class extends a {}
LEMMA ClassRests ==
    ASSUME NEW place \in Seq(Nat), NEW gen \in BOOLEAN, NEW K \in [1 .. 1 -> Langs], ~ gen
    PROVE  HasRests("class", place, K, gen)
<1> DEFINE s == <<"a">>
<1>1. StepsOf("class", gen) = s
  BY DirectStepsAre DEF StepsOf
<1>2. Len(s) = 1 /\ s[1] = "a"
  OBVIOUS
<1> HIDE DEF s
<1>3. StepsFit(s, K)
  BY <1>2, FitsAre, Fits1
<1>4. PICK R : RestsFrom(R, s, 1, K, place)
  BY <1>3, RestsExist
<1>5. K[1] \in Langs
  OBVIOUS
<1>6. R[1] = Before("a", K, place, Nothing)
  BY <1>2, <1>4, Rests1
<1>7. R[1] = K[1]
  BY <1>5, <1>6, BeforeIs, CatNothing, OperationsAre
<1>8. OrderOf("class", place, K, gen, Departures) = K[1]
  BY <1>5, CatNothing, PerhapsIs, OperationsAre, CatIs DEF OrderOf, Does, Departures
<1> QED BY <1>1, <1>3, <1>4, <1>7, <1>8 DEF HasRests

\* o[k] = a
LEMMA AssignRests ==
    ASSUME NEW place \in Seq(Nat), NEW gen \in BOOLEAN, NEW K \in [1 .. 3 -> Langs]
    PROVE  HasRests("assign", place, K, gen)
<1> DEFINE s == <<"a", "b", "get", "c", "put">>
<1>1. StepsOf("assign", gen) = s
  BY DirectStepsAre, GeneratorStepsAre DEF StepsOf
<1>2. Len(s) = 5 /\ s[1] = "a" /\ s[2] = "b" /\ s[3] = "get" /\ s[4] = "c" /\ s[5] = "put"
  OBVIOUS
<1> HIDE DEF s
<1>3. StepsFit(s, K)
  <2>1. Fit(s[1], K) /\ Fit(s[2], K) /\ Fit(s[3], K) /\ Fit(s[4], K) /\ Fit(s[5], K)
    BY <1>2, FitsAre
  <2> QED BY <1>2, <2>1, Fits5
<1>4. PICK R : RestsFrom(R, s, 1, K, place)
  BY <1>3, RestsExist
<1>5. K[1] \in Langs /\ K[2] \in Langs /\ K[3] \in Langs
  OBVIOUS
<1>6. R[1]
        = Before("a", K, place, Before("b", K, place, Before("get", K, place,
            Before("c", K, place, Before("put", K, place, Nothing)))))
  BY <1>2, <1>4, Rests5
<1>7. R[1] = K[1] ** (K[2] ** (Does("get", place) ** (K[3] ** Does("put", place))))
  BY <1>5, <1>6, BeforeIs, CatNothing, OperationsAre
<1>8. OrderOf("assign", place, K, gen, Departures)
        = K[1] ** K[2] ** Does("get", place) ** K[3] ** Does("put", place)
  BY <1>5, CatNothing, PerhapsIs, OperationsAre, CatIs DEF OrderOf, Does, Departures
<1>9. K[1] ** (K[2] ** (Does("get", place) ** (K[3] ** Does("put", place))))
        = K[1] ** K[2] ** Does("get", place) ** K[3] ** Does("put", place)
  <2>1. Does("get", place) \in Langs /\ Does("put", place) \in Langs
    BY OperationsAre
  <2> QED BY <1>5, <2>1, Cat5
<1> QED BY <1>1, <1>3, <1>4, <1>7, <1>8, <1>9 DEF HasRests

\* o[k] += a
LEMMA CompoundRests ==
    ASSUME NEW place \in Seq(Nat), NEW gen \in BOOLEAN, NEW K \in [1 .. 3 -> Langs]
    PROVE  HasRests("compound", place, K, gen)
<1> DEFINE s == <<"a", "b", "get", "c", "apply", "put">>
<1>1. StepsOf("compound", gen) = s
  BY DirectStepsAre, GeneratorStepsAre DEF StepsOf
<1>2. /\ Len(s) = 6
      /\ s[1] = "a"
      /\ s[2] = "b"
      /\ s[3] = "get"
      /\ s[4] = "c"
      /\ s[5] = "apply"
      /\ s[6] = "put"
  OBVIOUS
<1> HIDE DEF s
<1>3. StepsFit(s, K)
  <2>1. \A j \in 1 .. 6 : j = 1 \/ j = 2 \/ j = 3 \/ j = 4 \/ j = 5 \/ j = 6
    OBVIOUS
  <2>2. \A j \in 1 .. 6 : Fit(s[j], K)
    BY <2>1, <1>2, FitsAre
  <2> QED BY <2>2, <1>2 DEF StepsFit, Fit
<1>4. PICK R : RestsFrom(R, s, 1, K, place)
  BY <1>3, RestsExist
<1>5. K[1] \in Langs /\ K[2] \in Langs /\ K[3] \in Langs
  OBVIOUS
<1>6. /\ R[7] = Nothing
      /\ \A j \in 1 .. 6 : s[j] # "default" => R[j] = Before(s[j], K, place, R[j + 1])
  BY <1>2, <1>4 DEF RestsFrom
<1>7. /\ R[1] = Before("a", K, place, R[2])
      /\ R[2] = Before("b", K, place, R[3])
      /\ R[3] = Before("get", K, place, R[4])
      /\ R[4] = Before("c", K, place, R[5])
      /\ R[5] = Before("apply", K, place, R[6])
      /\ R[6] = Before("put", K, place, R[7])
  BY <1>2, <1>6
<1>8. R[4] = K[3] ** (Does("apply", place) ** Does("put", place))
  BY <1>5, <1>7, <1>6, BeforeIs, CatNothing, OperationsAre
<1>9. R[1]
        = K[1] ** (K[2] ** (Does("get", place) ** (K[3] ** (Does("apply", place)
            ** Does("put", place)))))
  BY <1>7, <1>8, BeforeIs, OtherBefore
<1>10. OrderOf("compound", place, K, gen, Departures)
         = K[1] ** K[2] ** Does("get", place) ** K[3] ** Does("apply", place)
             ** Does("put", place)
  BY <1>5, CatNothing, PerhapsIs, OperationsAre, CatIs DEF OrderOf, Does, Departures
<1>11. K[1] ** (K[2] ** (Does("get", place) ** (K[3] ** (Does("apply", place)
           ** Does("put", place)))))
         = K[1] ** K[2] ** Does("get", place) ** K[3] ** Does("apply", place)
             ** Does("put", place)
  BY CompoundOrder
<1> QED BY <1>1, <1>3, <1>4, <1>9, <1>10, <1>11 DEF HasRests

\* o[k] ||= a
LEMMA LogAssignRests ==
    ASSUME NEW place \in Seq(Nat), NEW gen \in BOOLEAN, NEW K \in [1 .. 3 -> Langs]
    PROVE  HasRests("logAssign", place, K, gen)
<1> DEFINE s == <<"a", "b", "get", "short", "c", "put">>
<1>1. StepsOf("logAssign", gen) = s
  BY DirectStepsAre, GeneratorStepsAre DEF StepsOf
<1>2. /\ Len(s) = 6
      /\ s[1] = "a"
      /\ s[2] = "b"
      /\ s[3] = "get"
      /\ s[4] = "short"
      /\ s[5] = "c"
      /\ s[6] = "put"
  OBVIOUS
<1> HIDE DEF s
<1>3. StepsFit(s, K)
  <2>1. \A j \in 1 .. 6 : j = 1 \/ j = 2 \/ j = 3 \/ j = 4 \/ j = 5 \/ j = 6
    OBVIOUS
  <2>2. \A j \in 1 .. 6 : Fit(s[j], K)
    BY <2>1, <1>2, FitsAre
  <2> QED BY <2>2, <1>2 DEF StepsFit, Fit
<1>4. PICK R : RestsFrom(R, s, 1, K, place)
  BY <1>3, RestsExist
<1>5. K[1] \in Langs /\ K[2] \in Langs /\ K[3] \in Langs
  OBVIOUS
<1>6. /\ R[7] = Nothing
      /\ \A j \in 1 .. 6 : s[j] # "default" => R[j] = Before(s[j], K, place, R[j + 1])
  BY <1>2, <1>4 DEF RestsFrom
<1>7. /\ R[1] = Before("a", K, place, R[2])
      /\ R[2] = Before("b", K, place, R[3])
      /\ R[3] = Before("get", K, place, R[4])
      /\ R[4] = Before("short", K, place, R[5])
      /\ R[5] = Before("c", K, place, R[6])
      /\ R[6] = Before("put", K, place, R[7])
  BY <1>2, <1>6
<1>8. R[4] = Perhaps(K[3] ** Does("put", place))
  BY <1>5, <1>7, <1>6, BeforeIs, OtherBefore, CatNothing, OperationsAre
<1>9. R[1] = K[1] ** (K[2] ** (Does("get", place) ** Perhaps(K[3] ** Does("put", place))))
  BY <1>7, <1>8, BeforeIs, OtherBefore
<1>10. OrderOf("logAssign", place, K, gen, Departures)
         = K[1] ** K[2] ** Does("get", place) ** Perhaps(K[3] ** Does("put", place))
  BY <1>5, CatNothing, PerhapsIs, OperationsAre, CatIs DEF OrderOf, Does, Departures
<1>11. K[1] ** (K[2] ** (Does("get", place) ** Perhaps(K[3] ** Does("put", place))))
         = K[1] ** K[2] ** Does("get", place) ** Perhaps(K[3] ** Does("put", place))
  <2>1. Does("get", place) \in Langs /\ Does("put", place) \in Langs
    BY OperationsAre
  <2> QED BY <1>5, <2>1, PerhapsIs, CatIs, Cat4
<1> QED BY <1>1, <1>3, <1>4, <1>9, <1>10, <1>11 DEF HasRests

\* o.#p = a
LEMMA AssignOneRests ==
    ASSUME NEW place \in Seq(Nat), NEW gen \in BOOLEAN, NEW K \in [1 .. 2 -> Langs]
    PROVE  HasRests("assignOne", place, K, gen)
<1> DEFINE s == <<"a", "get", "b", "put">>
<1>1. StepsOf("assignOne", gen) = s
  BY DirectStepsAre, GeneratorStepsAre DEF StepsOf
<1>2. Len(s) = 4 /\ s[1] = "a" /\ s[2] = "get" /\ s[3] = "b" /\ s[4] = "put"
  OBVIOUS
<1> HIDE DEF s
<1>3. StepsFit(s, K)
  <2>1. Fit(s[1], K) /\ Fit(s[2], K) /\ Fit(s[3], K) /\ Fit(s[4], K)
    BY <1>2, FitsAre
  <2> QED BY <1>2, <2>1, Fits4
<1>4. PICK R : RestsFrom(R, s, 1, K, place)
  BY <1>3, RestsExist
<1>5. K[1] \in Langs /\ K[2] \in Langs
  OBVIOUS
<1>6. R[1]
        = Before("a", K, place, Before("get", K, place, Before("b", K, place,
            Before("put", K, place, Nothing))))
  BY <1>2, <1>4, Rests4
<1>7. R[1] = K[1] ** (Does("get", place) ** (K[2] ** Does("put", place)))
  BY <1>5, <1>6, BeforeIs, CatNothing, OperationsAre
<1>8. OrderOf("assignOne", place, K, gen, Departures)
        = K[1] ** Does("get", place) ** K[2] ** Does("put", place)
  BY <1>5, CatNothing, PerhapsIs, OperationsAre, CatIs DEF OrderOf, Does, Departures
<1>9. K[1] ** (Does("get", place) ** (K[2] ** Does("put", place)))
        = K[1] ** Does("get", place) ** K[2] ** Does("put", place)
  <2>1. Does("get", place) \in Langs /\ Does("put", place) \in Langs
    BY OperationsAre
  <2> QED BY <1>5, <2>1, Cat4
<1> QED BY <1>1, <1>3, <1>4, <1>7, <1>8, <1>9 DEF HasRests

\* x += a
LEMMA NameAssignRests ==
    ASSUME NEW place \in Seq(Nat), NEW gen \in BOOLEAN, NEW K \in [1 .. 1 -> Langs]
    PROVE  HasRests("nameAssign", place, K, gen)
<1> DEFINE s == <<"read", "a", "apply">>
<1>1. StepsOf("nameAssign", gen) = s
  BY DirectStepsAre, GeneratorStepsAre DEF StepsOf
<1>2. Len(s) = 3 /\ s[1] = "read" /\ s[2] = "a" /\ s[3] = "apply"
  OBVIOUS
<1> HIDE DEF s
<1>3. StepsFit(s, K)
  BY <1>2, FitsAre, Fits3
<1>4. PICK R : RestsFrom(R, s, 1, K, place)
  BY <1>3, RestsExist
<1>5. K[1] \in Langs
  OBVIOUS
<1>6. R[1] = Before("read", K, place, Before("a", K, place, Before("apply", K, place, Nothing)))
  BY <1>2, <1>4, Rests3
<1>7. R[1] = Does("read", place) ** (K[1] ** Does("apply", place))
  BY <1>5, <1>6, BeforeIs, CatNothing, OperationsAre
<1>8. OrderOf("nameAssign", place, K, gen, Departures)
        = Does("read", place) ** K[1] ** Does("apply", place)
  BY <1>5, CatNothing, PerhapsIs, OperationsAre, CatIs DEF OrderOf, Does, Departures
<1>9. Does("read", place) ** (K[1] ** Does("apply", place))
        = Does("read", place) ** K[1] ** Does("apply", place)
  <2>1. Does("read", place) \in Langs /\ Does("apply", place) \in Langs
    BY OperationsAre
  <2> QED BY <1>5, <2>1, Cat3
<1> QED BY <1>1, <1>3, <1>4, <1>7, <1>8, <1>9 DEF HasRests

\* x ||= a
LEMMA NameLogRests ==
    ASSUME NEW place \in Seq(Nat), NEW gen \in BOOLEAN, NEW K \in [1 .. 1 -> Langs]
    PROVE  HasRests("nameLog", place, K, gen)
<1> DEFINE s == <<"read", "short", "a">>
<1>1. StepsOf("nameLog", gen) = s
  BY DirectStepsAre, GeneratorStepsAre DEF StepsOf
<1>2. Len(s) = 3 /\ s[1] = "read" /\ s[2] = "short" /\ s[3] = "a"
  OBVIOUS
<1> HIDE DEF s
<1>3. StepsFit(s, K)
  BY <1>2, FitsAre, Fits3
<1>4. PICK R : RestsFrom(R, s, 1, K, place)
  BY <1>3, RestsExist
<1>5. K[1] \in Langs
  OBVIOUS
<1>6. R[1] = Before("read", K, place, Before("short", K, place, Before("a", K, place, Nothing)))
  BY <1>2, <1>4, Rests3
<1>7. R[1] = Does("read", place) ** Perhaps(K[1])
  BY <1>5, <1>6, BeforeIs, OtherBefore, CatNothing, OperationsAre
<1>8. OrderOf("nameLog", place, K, gen, Departures) = Does("read", place) ** Perhaps(K[1])
  BY <1>5, CatNothing, PerhapsIs, OperationsAre, CatIs DEF OrderOf, Does, Departures
<1> QED BY <1>1, <1>3, <1>4, <1>7, <1>8 DEF HasRests

\* a + b
LEMMA BinaryRests ==
    ASSUME NEW place \in Seq(Nat), NEW gen \in BOOLEAN, NEW K \in [1 .. 2 -> Langs]
    PROVE  HasRests("binary", place, K, gen)
<1> DEFINE s == <<"a", "b", "apply">>
<1>1. StepsOf("binary", gen) = s
  BY DirectStepsAre, GeneratorStepsAre DEF StepsOf
<1>2. Len(s) = 3 /\ s[1] = "a" /\ s[2] = "b" /\ s[3] = "apply"
  OBVIOUS
<1> HIDE DEF s
<1>3. StepsFit(s, K)
  BY <1>2, FitsAre, Fits3
<1>4. PICK R : RestsFrom(R, s, 1, K, place)
  BY <1>3, RestsExist
<1>5. K[1] \in Langs /\ K[2] \in Langs
  OBVIOUS
<1>6. R[1] = Before("a", K, place, Before("b", K, place, Before("apply", K, place, Nothing)))
  BY <1>2, <1>4, Rests3
<1>7. R[1] = K[1] ** (K[2] ** Does("apply", place))
  BY <1>5, <1>6, BeforeIs, CatNothing, OperationsAre
<1>8. OrderOf("binary", place, K, gen, Departures) = K[1] ** K[2] ** Does("apply", place)
  BY <1>5, CatNothing, PerhapsIs, OperationsAre, CatIs DEF OrderOf, Does, Departures
<1>9. K[1] ** (K[2] ** Does("apply", place)) = K[1] ** K[2] ** Does("apply", place)
  <2>1. Does("apply", place) \in Langs
    BY OperationsAre
  <2> QED BY <1>5, <2>1, Cat3
<1> QED BY <1>1, <1>3, <1>4, <1>7, <1>8, <1>9 DEF HasRests

\* a && b, a || b, a ?? b
LEMMA LogicalRests ==
    ASSUME NEW place \in Seq(Nat), NEW gen \in BOOLEAN, NEW K \in [1 .. 2 -> Langs]
    PROVE  HasRests("logical", place, K, gen)
<1> DEFINE s == <<"a", "short", "b">>
<1>1. StepsOf("logical", gen) = s
  BY DirectStepsAre, GeneratorStepsAre DEF StepsOf
<1>2. Len(s) = 3 /\ s[1] = "a" /\ s[2] = "short" /\ s[3] = "b"
  OBVIOUS
<1> HIDE DEF s
<1>3. StepsFit(s, K)
  BY <1>2, FitsAre, Fits3
<1>4. PICK R : RestsFrom(R, s, 1, K, place)
  BY <1>3, RestsExist
<1>5. K[1] \in Langs /\ K[2] \in Langs
  OBVIOUS
<1>6. R[1] = Before("a", K, place, Before("short", K, place, Before("b", K, place, Nothing)))
  BY <1>2, <1>4, Rests3
<1>7. R[1] = K[1] ** Perhaps(K[2])
  BY <1>5, <1>6, BeforeIs, OtherBefore, CatNothing, OperationsAre
<1>8. OrderOf("logical", place, K, gen, Departures) = K[1] ** Perhaps(K[2])
  BY <1>5, CatNothing, PerhapsIs, OperationsAre, CatIs DEF OrderOf, Does, Departures
<1> QED BY <1>1, <1>3, <1>4, <1>7, <1>8 DEF HasRests

\* -a
LEMMA UnaryRests ==
    ASSUME NEW place \in Seq(Nat), NEW gen \in BOOLEAN, NEW K \in [1 .. 1 -> Langs]
    PROVE  HasRests("unary", place, K, gen)
<1> DEFINE s == <<"a", "apply">>
<1>1. StepsOf("unary", gen) = s
  BY DirectStepsAre, GeneratorStepsAre DEF StepsOf
<1>2. Len(s) = 2 /\ s[1] = "a" /\ s[2] = "apply"
  OBVIOUS
<1> HIDE DEF s
<1>3. StepsFit(s, K)
  BY <1>2, FitsAre, Fits2
<1>4. PICK R : RestsFrom(R, s, 1, K, place)
  BY <1>3, RestsExist
<1>5. K[1] \in Langs
  OBVIOUS
<1>6. R[1] = Before("a", K, place, Before("apply", K, place, Nothing))
  BY <1>2, <1>4, Rests2
<1>7. R[1] = K[1] ** Does("apply", place)
  BY <1>5, <1>6, BeforeIs, CatNothing, OperationsAre
<1>8. OrderOf("unary", place, K, gen, Departures) = K[1] ** Does("apply", place)
  BY <1>5, CatNothing, PerhapsIs, OperationsAre, CatIs DEF OrderOf, Does, Departures
<1> QED BY <1>1, <1>3, <1>4, <1>7, <1>8 DEF HasRests

\* delete o[k]
LEMMA DeleteRests ==
    ASSUME NEW place \in Seq(Nat), NEW gen \in BOOLEAN, NEW K \in [1 .. 2 -> Langs]
    PROVE  HasRests("delete", place, K, gen)
<1> DEFINE s == <<"a", "b", "remove">>
<1>1. StepsOf("delete", gen) = s
  BY DirectStepsAre, GeneratorStepsAre DEF StepsOf
<1>2. Len(s) = 3 /\ s[1] = "a" /\ s[2] = "b" /\ s[3] = "remove"
  OBVIOUS
<1> HIDE DEF s
<1>3. StepsFit(s, K)
  BY <1>2, FitsAre, Fits3
<1>4. PICK R : RestsFrom(R, s, 1, K, place)
  BY <1>3, RestsExist
<1>5. K[1] \in Langs /\ K[2] \in Langs
  OBVIOUS
<1>6. R[1] = Before("a", K, place, Before("b", K, place, Before("remove", K, place, Nothing)))
  BY <1>2, <1>4, Rests3
<1>7. R[1] = K[1] ** (K[2] ** Does("remove", place))
  BY <1>5, <1>6, BeforeIs, CatNothing, OperationsAre
<1>8. OrderOf("delete", place, K, gen, Departures) = K[1] ** K[2] ** Does("remove", place)
  BY <1>5, CatNothing, PerhapsIs, OperationsAre, CatIs DEF OrderOf, Does, Departures
<1>9. K[1] ** (K[2] ** Does("remove", place)) = K[1] ** K[2] ** Does("remove", place)
  <2>1. Does("remove", place) \in Langs
    BY OperationsAre
  <2> QED BY <1>5, <2>1, Cat3
<1> QED BY <1>1, <1>3, <1>4, <1>7, <1>8, <1>9 DEF HasRests

\* [...a, b]
LEMMA ArrayRests ==
    ASSUME NEW place \in Seq(Nat), NEW gen \in BOOLEAN, NEW K \in [1 .. 2 -> Langs]
    PROVE  HasRests("array", place, K, gen)
<1> DEFINE s == <<"a", "iterate", "b">>
<1>1. StepsOf("array", gen) = s
  BY DirectStepsAre, GeneratorStepsAre DEF StepsOf
<1>2. Len(s) = 3 /\ s[1] = "a" /\ s[2] = "iterate" /\ s[3] = "b"
  OBVIOUS
<1> HIDE DEF s
<1>3. StepsFit(s, K)
  BY <1>2, FitsAre, Fits3
<1>4. PICK R : RestsFrom(R, s, 1, K, place)
  BY <1>3, RestsExist
<1>5. K[1] \in Langs /\ K[2] \in Langs
  OBVIOUS
<1>6. R[1] = Before("a", K, place, Before("iterate", K, place, Before("b", K, place, Nothing)))
  BY <1>2, <1>4, Rests3
<1>7. R[1] = K[1] ** (Does("iterate", place) ** K[2])
  BY <1>5, <1>6, BeforeIs, CatNothing, OperationsAre
<1>8. OrderOf("array", place, K, gen, Departures) = K[1] ** Does("iterate", place) ** K[2]
  BY <1>5, CatNothing, PerhapsIs, OperationsAre, CatIs DEF OrderOf, Does, Departures
<1>9. K[1] ** (Does("iterate", place) ** K[2]) = K[1] ** Does("iterate", place) ** K[2]
  <2>1. Does("iterate", place) \in Langs
    BY OperationsAre
  <2> QED BY <1>5, <2>1, Cat3
<1> QED BY <1>1, <1>3, <1>4, <1>7, <1>8, <1>9 DEF HasRests

\* {[a]: b}
LEMMA ObjectRests ==
    ASSUME NEW place \in Seq(Nat), NEW gen \in BOOLEAN, NEW K \in [1 .. 2 -> Langs]
    PROVE  HasRests("object", place, K, gen)
<1> DEFINE s == <<"a", "b">>
<1>1. StepsOf("object", gen) = s
  BY DirectStepsAre, GeneratorStepsAre DEF StepsOf
<1>2. Len(s) = 2 /\ s[1] = "a" /\ s[2] = "b"
  OBVIOUS
<1> HIDE DEF s
<1>3. StepsFit(s, K)
  BY <1>2, FitsAre, Fits2
<1>4. PICK R : RestsFrom(R, s, 1, K, place)
  BY <1>3, RestsExist
<1>5. K[1] \in Langs /\ K[2] \in Langs
  OBVIOUS
<1>6. R[1] = Before("a", K, place, Before("b", K, place, Nothing))
  BY <1>2, <1>4, Rests2
<1>7. R[1] = K[1] ** K[2]
  BY <1>5, <1>6, BeforeIs, CatNothing, OperationsAre
<1>8. OrderOf("object", place, K, gen, Departures) = K[1] ** K[2]
  BY <1>5, CatNothing, PerhapsIs, OperationsAre, CatIs DEF OrderOf, Does, Departures
<1> QED BY <1>1, <1>3, <1>4, <1>7, <1>8 DEF HasRests

\* o[k]
LEMMA MemberRests ==
    ASSUME NEW place \in Seq(Nat), NEW gen \in BOOLEAN, NEW K \in [1 .. 2 -> Langs]
    PROVE  HasRests("member", place, K, gen)
<1> DEFINE s == <<"a", "b", "get">>
<1>1. StepsOf("member", gen) = s
  BY DirectStepsAre, GeneratorStepsAre DEF StepsOf
<1>2. Len(s) = 3 /\ s[1] = "a" /\ s[2] = "b" /\ s[3] = "get"
  OBVIOUS
<1> HIDE DEF s
<1>3. StepsFit(s, K)
  BY <1>2, FitsAre, Fits3
<1>4. PICK R : RestsFrom(R, s, 1, K, place)
  BY <1>3, RestsExist
<1>5. K[1] \in Langs /\ K[2] \in Langs
  OBVIOUS
<1>6. R[1] = Before("a", K, place, Before("b", K, place, Before("get", K, place, Nothing)))
  BY <1>2, <1>4, Rests3
<1>7. R[1] = K[1] ** (K[2] ** Does("get", place))
  BY <1>5, <1>6, BeforeIs, CatNothing, OperationsAre
<1>8. OrderOf("member", place, K, gen, Departures) = K[1] ** K[2] ** Does("get", place)
  BY <1>5, CatNothing, PerhapsIs, OperationsAre, CatIs DEF OrderOf, Does, Departures
<1>9. K[1] ** (K[2] ** Does("get", place)) = K[1] ** K[2] ** Does("get", place)
  <2>1. Does("get", place) \in Langs
    BY OperationsAre
  <2> QED BY <1>5, <2>1, Cat3
<1> QED BY <1>1, <1>3, <1>4, <1>7, <1>8, <1>9 DEF HasRests

\* o?.[k]
LEMMA OptMemberRests ==
    ASSUME NEW place \in Seq(Nat), NEW gen \in BOOLEAN, NEW K \in [1 .. 2 -> Langs]
    PROVE  HasRests("optMember", place, K, gen)
<1> DEFINE s == <<"a", "nullish", "b", "get">>
<1>1. StepsOf("optMember", gen) = s
  BY DirectStepsAre, GeneratorStepsAre DEF StepsOf
<1>2. Len(s) = 4 /\ s[1] = "a" /\ s[2] = "nullish" /\ s[3] = "b" /\ s[4] = "get"
  OBVIOUS
<1> HIDE DEF s
<1>3. StepsFit(s, K)
  <2>1. Fit(s[1], K) /\ Fit(s[2], K) /\ Fit(s[3], K) /\ Fit(s[4], K)
    BY <1>2, FitsAre
  <2> QED BY <1>2, <2>1, Fits4
<1>4. PICK R : RestsFrom(R, s, 1, K, place)
  BY <1>3, RestsExist
<1>5. K[1] \in Langs /\ K[2] \in Langs
  OBVIOUS
<1>6. R[1]
        = Before("a", K, place, Before("nullish", K, place, Before("b", K, place,
            Before("get", K, place, Nothing))))
  BY <1>2, <1>4, Rests4
<1>7. R[1] = K[1] ** Perhaps(K[2] ** Does("get", place))
  BY <1>5, <1>6, BeforeIs, OtherBefore, CatNothing, OperationsAre
<1>8. OrderOf("optMember", place, K, gen, Departures)
        = K[1] ** Perhaps(K[2] ** Does("get", place))
  BY <1>5, CatNothing, PerhapsIs, OperationsAre, CatIs DEF OrderOf, Does, Departures
<1> QED BY <1>1, <1>3, <1>4, <1>7, <1>8 DEF HasRests

\* f(a)
LEMMA CallRests ==
    ASSUME NEW place \in Seq(Nat), NEW gen \in BOOLEAN, NEW K \in [1 .. 2 -> Langs]
    PROVE  HasRests("call", place, K, gen)
<1> DEFINE s == <<"a", "b", "call">>
<1>1. StepsOf("call", gen) = s
  BY DirectStepsAre, GeneratorStepsAre DEF StepsOf
<1>2. Len(s) = 3 /\ s[1] = "a" /\ s[2] = "b" /\ s[3] = "call"
  OBVIOUS
<1> HIDE DEF s
<1>3. StepsFit(s, K)
  BY <1>2, FitsAre, Fits3
<1>4. PICK R : RestsFrom(R, s, 1, K, place)
  BY <1>3, RestsExist
<1>5. K[1] \in Langs /\ K[2] \in Langs
  OBVIOUS
<1>6. R[1] = Before("a", K, place, Before("b", K, place, Before("call", K, place, Nothing)))
  BY <1>2, <1>4, Rests3
<1>7. R[1] = K[1] ** (K[2] ** Does("call", place))
  BY <1>5, <1>6, BeforeIs, CatNothing, OperationsAre
<1>8. OrderOf("call", place, K, gen, Departures) = K[1] ** K[2] ** Does("call", place)
  BY <1>5, CatNothing, PerhapsIs, OperationsAre, CatIs DEF OrderOf, Does, Departures
<1>9. K[1] ** (K[2] ** Does("call", place)) = K[1] ** K[2] ** Does("call", place)
  <2>1. Does("call", place) \in Langs
    BY OperationsAre
  <2> QED BY <1>5, <2>1, Cat3
<1> QED BY <1>1, <1>3, <1>4, <1>7, <1>8, <1>9 DEF HasRests

\* o[k](a): the direct evaluator takes the getter for the value.
LEMMA MethodRests ==
    ASSUME NEW place \in Seq(Nat), NEW gen \in BOOLEAN, NEW K \in [1 .. 3 -> Langs]
    PROVE  HasRests("method", place, K, gen)
<1>1. CASE gen
  <2> DEFINE s == <<"a", "b", "get", "c", "call">>
  <2>1. StepsOf("method", gen) = s
    BY <1>1, GeneratorStepsAre DEF StepsOf
  <2>2. Len(s) = 5 /\ s[1] = "a" /\ s[2] = "b" /\ s[3] = "get" /\ s[4] = "c" /\ s[5] = "call"
    OBVIOUS
  <2> HIDE DEF s
  <2>3. StepsFit(s, K)
    <3>1. Fit(s[1], K) /\ Fit(s[2], K) /\ Fit(s[3], K) /\ Fit(s[4], K) /\ Fit(s[5], K)
      BY <2>2, FitsAre
    <3> QED BY <2>2, <3>1, Fits5
  <2>4. PICK R : RestsFrom(R, s, 1, K, place)
    BY <2>3, RestsExist
  <2>5. K[1] \in Langs /\ K[2] \in Langs /\ K[3] \in Langs
    OBVIOUS
  <2>6. R[1]
          = Before("a", K, place, Before("b", K, place, Before("get", K, place,
              Before("c", K, place, Before("call", K, place, Nothing)))))
    BY <2>2, <2>4, Rests5
  <2>7. R[1] = K[1] ** (K[2] ** (Does("get", place) ** (K[3] ** Does("call", place))))
    BY <2>5, <2>6, BeforeIs, CatNothing, OperationsAre
  <2>8. OrderOf("method", place, K, gen, Departures)
          = K[1] ** K[2] ** Does("get", place) ** K[3] ** Does("call", place)
    BY <1>1, <2>5, CatNothing, PerhapsIs, OperationsAre, CatIs DEF OrderOf, Does, Departures
  <2>9. K[1] ** (K[2] ** (Does("get", place) ** (K[3] ** Does("call", place))))
          = K[1] ** K[2] ** Does("get", place) ** K[3] ** Does("call", place)
    <3>1. Does("get", place) \in Langs /\ Does("call", place) \in Langs
      BY OperationsAre
    <3> QED BY <2>5, <3>1, Cat5
  <2> QED BY <2>1, <2>3, <2>4, <2>7, <2>8, <2>9 DEF HasRests
<1>2. CASE ~ gen
  <2> DEFINE s == <<"a", "b", "peek", "c", "call">>
  <2>1. StepsOf("method", gen) = s
    BY <1>2, DirectStepsAre DEF StepsOf
  <2>2. Len(s) = 5 /\ s[1] = "a" /\ s[2] = "b" /\ s[3] = "peek" /\ s[4] = "c" /\ s[5] = "call"
    OBVIOUS
  <2> HIDE DEF s
  <2>3. StepsFit(s, K)
    <3>1. Fit(s[1], K) /\ Fit(s[2], K) /\ Fit(s[3], K) /\ Fit(s[4], K) /\ Fit(s[5], K)
      BY <2>2, FitsAre
    <3> QED BY <2>2, <3>1, Fits5
  <2>4. PICK R : RestsFrom(R, s, 1, K, place)
    BY <2>3, RestsExist
  <2>5. K[1] \in Langs /\ K[2] \in Langs /\ K[3] \in Langs
    OBVIOUS
  <2>6. R[1]
          = Before("a", K, place, Before("b", K, place, Before("peek", K, place,
              Before("c", K, place, Before("call", K, place, Nothing)))))
    BY <2>2, <2>4, Rests5
  <2>7. R[1] = K[1] ** (K[2] ** (Does("peek", place) ** (K[3] ** Does("call", place))))
    BY <2>5, <2>6, BeforeIs, CatNothing, OperationsAre
  <2>8. OrderOf("method", place, K, gen, Departures)
          = K[1] ** K[2] ** Does("peek", place) ** K[3] ** Does("call", place)
    BY <1>2, <2>5, CatNothing, PerhapsIs, OperationsAre, CatIs DEF OrderOf, Does, Departures
  <2>9. K[1] ** (K[2] ** (Does("peek", place) ** (K[3] ** Does("call", place))))
          = K[1] ** K[2] ** Does("peek", place) ** K[3] ** Does("call", place)
    <3>1. Does("peek", place) \in Langs /\ Does("call", place) \in Langs
      BY OperationsAre
    <3> QED BY <2>5, <3>1, Cat5
  <2> QED BY <2>1, <2>3, <2>4, <2>7, <2>8, <2>9 DEF HasRests
<1> QED BY <1>1, <1>2

\* f?.(a): the direct evaluator evaluates f twice.
LEMMA OptCallRests ==
    ASSUME NEW place \in Seq(Nat), NEW gen \in BOOLEAN, NEW K \in [1 .. 2 -> Langs]
    PROVE  HasRests("optCall", place, K, gen)
<1>1. CASE gen
  <2> DEFINE s == <<"a", "nullish", "b", "call">>
  <2>1. StepsOf("optCall", gen) = s
    BY <1>1, GeneratorStepsAre DEF StepsOf
  <2>2. Len(s) = 4 /\ s[1] = "a" /\ s[2] = "nullish" /\ s[3] = "b" /\ s[4] = "call"
    OBVIOUS
  <2> HIDE DEF s
  <2>3. StepsFit(s, K)
    <3>1. Fit(s[1], K) /\ Fit(s[2], K) /\ Fit(s[3], K) /\ Fit(s[4], K)
      BY <2>2, FitsAre
    <3> QED BY <2>2, <3>1, Fits4
  <2>4. PICK R : RestsFrom(R, s, 1, K, place)
    BY <2>3, RestsExist
  <2>5. K[1] \in Langs /\ K[2] \in Langs
    OBVIOUS
  <2>6. R[1]
          = Before("a", K, place, Before("nullish", K, place, Before("b", K, place,
              Before("call", K, place, Nothing))))
    BY <2>2, <2>4, Rests4
  <2>7. R[1] = K[1] ** Perhaps(K[2] ** Does("call", place))
    BY <2>5, <2>6, BeforeIs, OtherBefore, CatNothing, OperationsAre
  <2>8. OrderOf("optCall", place, K, gen, Departures)
          = K[1] ** Perhaps(K[2] ** Does("call", place))
    BY <1>1, <2>5, CatNothing, PerhapsIs, OperationsAre, CatIs DEF OrderOf, Does, Departures
  <2> QED BY <2>1, <2>3, <2>4, <2>7, <2>8 DEF HasRests
<1>2. CASE ~ gen
  <2> DEFINE s == <<"a", "nullish", "a", "b", "call">>
  <2>1. StepsOf("optCall", gen) = s
    BY <1>2, DirectStepsAre DEF StepsOf
  <2>2. Len(s) = 5 /\ s[1] = "a" /\ s[2] = "nullish" /\ s[3] = "a" /\ s[4] = "b" /\ s[5] = "call"
    OBVIOUS
  <2> HIDE DEF s
  <2>3. StepsFit(s, K)
    <3>1. Fit(s[1], K) /\ Fit(s[2], K) /\ Fit(s[3], K) /\ Fit(s[4], K) /\ Fit(s[5], K)
      BY <2>2, FitsAre
    <3> QED BY <2>2, <3>1, Fits5
  <2>4. PICK R : RestsFrom(R, s, 1, K, place)
    BY <2>3, RestsExist
  <2>5. K[1] \in Langs /\ K[2] \in Langs
    OBVIOUS
  <2>6. R[1]
          = Before("a", K, place, Before("nullish", K, place, Before("a", K, place,
              Before("b", K, place, Before("call", K, place, Nothing)))))
    BY <2>2, <2>4, Rests5
  <2>7. R[1] = K[1] ** Perhaps(K[1] ** (K[2] ** Does("call", place)))
    BY <2>5, <2>6, BeforeIs, OtherBefore, CatNothing, OperationsAre
  <2>8. OrderOf("optCall", place, K, gen, Departures)
          = K[1] ** Perhaps(K[1] ** K[2] ** Does("call", place))
    BY <1>2, <2>5, CatNothing, PerhapsIs, OperationsAre, CatIs DEF OrderOf, Does, Departures
  <2>9. K[1] ** Perhaps(K[1] ** (K[2] ** Does("call", place)))
          = K[1] ** Perhaps(K[1] ** K[2] ** Does("call", place))
    <3>1. Does("call", place) \in Langs
      BY OperationsAre
    <3> QED BY <2>5, <3>1, PerhapsIs, CatIs, Cat3
  <2> QED BY <2>1, <2>3, <2>4, <2>7, <2>8, <2>9 DEF HasRests
<1> QED BY <1>1, <1>2

\* o?.[k](a): the direct evaluator does not stop at a nullish o.
LEMMA OptMethodRests ==
    ASSUME NEW place \in Seq(Nat), NEW gen \in BOOLEAN, NEW K \in [1 .. 3 -> Langs]
    PROVE  HasRests("optMethod", place, K, gen)
<1>1. CASE gen
  <2> DEFINE s == <<"a", "nullish", "b", "get", "nullish", "c", "call">>
  <2>1. StepsOf("optMethod", gen) = s
    BY <1>1, GeneratorStepsAre DEF StepsOf
  <2>2. /\ Len(s) = 7
        /\ s[1] = "a"
        /\ s[2] = "nullish"
        /\ s[3] = "b"
        /\ s[4] = "get"
        /\ s[5] = "nullish"
        /\ s[6] = "c"
        /\ s[7] = "call"
    OBVIOUS
  <2> HIDE DEF s
  <2>3. StepsFit(s, K)
    <3>1. \A j \in 1 .. 7 : j = 1 \/ j = 2 \/ j = 3 \/ j = 4 \/ j = 5 \/ j = 6 \/ j = 7
      OBVIOUS
    <3>2. \A j \in 1 .. 7 : Fit(s[j], K)
      BY <3>1, <2>2, FitsAre
    <3> QED BY <3>2, <2>2 DEF StepsFit, Fit
  <2>4. PICK R : RestsFrom(R, s, 1, K, place)
    BY <2>3, RestsExist
  <2>5. K[1] \in Langs /\ K[2] \in Langs /\ K[3] \in Langs
    OBVIOUS
  <2>6. /\ R[8] = Nothing
        /\ \A j \in 1 .. 7 : s[j] # "default" => R[j] = Before(s[j], K, place, R[j + 1])
    BY <2>2, <2>4 DEF RestsFrom
  <2>7. /\ R[1] = Before("a", K, place, R[2])
      /\ R[2] = Before("nullish", K, place, R[3])
      /\ R[3] = Before("b", K, place, R[4])
      /\ R[4] = Before("get", K, place, R[5])
      /\ R[5] = Before("nullish", K, place, R[6])
      /\ R[6] = Before("c", K, place, R[7])
      /\ R[7] = Before("call", K, place, R[8])
    BY <2>2, <2>6
  <2>8. R[4] = Does("get", place) ** Perhaps(K[3] ** Does("call", place))
    BY <2>5, <2>7, <2>6, BeforeIs, OtherBefore, CatNothing, OperationsAre
  <2>9. R[1]
          = K[1] ** Perhaps(K[2] ** (Does("get", place) ** Perhaps(K[3] ** Does("call", place))))
    BY <2>7, <2>8, BeforeIs, OtherBefore
  <2>10. OrderOf("optMethod", place, K, gen, Departures)
           = K[1] ** Perhaps(K[2] ** Does("get", place) ** Perhaps(K[3] ** Does("call", place)))
    BY <1>1, <2>5, CatNothing, PerhapsIs, OperationsAre, CatIs DEF OrderOf, Does, Departures
  <2>11. K[1] ** Perhaps(K[2] ** (Does("get", place) ** Perhaps(K[3] ** Does("call", place))))
           = K[1] ** Perhaps(K[2] ** Does("get", place) ** Perhaps(K[3] ** Does("call", place)))
    <3>1. Does("get", place) \in Langs /\ Does("call", place) \in Langs
      BY OperationsAre
    <3> QED BY <2>5, <3>1, PerhapsIs, CatIs, Cat3
  <2> QED BY <2>1, <2>3, <2>4, <2>9, <2>10, <2>11 DEF HasRests
<1>2. CASE ~ gen
  <2> DEFINE s == <<"a", "b", "peek", "c", "call">>
  <2>1. StepsOf("optMethod", gen) = s
    BY <1>2, DirectStepsAre DEF StepsOf
  <2>2. Len(s) = 5 /\ s[1] = "a" /\ s[2] = "b" /\ s[3] = "peek" /\ s[4] = "c" /\ s[5] = "call"
    OBVIOUS
  <2> HIDE DEF s
  <2>3. StepsFit(s, K)
    <3>1. Fit(s[1], K) /\ Fit(s[2], K) /\ Fit(s[3], K) /\ Fit(s[4], K) /\ Fit(s[5], K)
      BY <2>2, FitsAre
    <3> QED BY <2>2, <3>1, Fits5
  <2>4. PICK R : RestsFrom(R, s, 1, K, place)
    BY <2>3, RestsExist
  <2>5. K[1] \in Langs /\ K[2] \in Langs /\ K[3] \in Langs
    OBVIOUS
  <2>6. R[1]
          = Before("a", K, place, Before("b", K, place, Before("peek", K, place,
              Before("c", K, place, Before("call", K, place, Nothing)))))
    BY <2>2, <2>4, Rests5
  <2>7. R[1] = K[1] ** (K[2] ** (Does("peek", place) ** (K[3] ** Does("call", place))))
    BY <2>5, <2>6, BeforeIs, CatNothing, OperationsAre
  <2>8. OrderOf("optMethod", place, K, gen, Departures)
          = K[1] ** K[2] ** Does("peek", place) ** K[3] ** Does("call", place)
    BY <1>2, <2>5, CatNothing, PerhapsIs, OperationsAre, CatIs DEF OrderOf, Does, Departures
  <2>9. K[1] ** (K[2] ** (Does("peek", place) ** (K[3] ** Does("call", place))))
          = K[1] ** K[2] ** Does("peek", place) ** K[3] ** Does("call", place)
    <3>1. Does("peek", place) \in Langs /\ Does("call", place) \in Langs
      BY OperationsAre
    <3> QED BY <2>5, <3>1, Cat5
  <2> QED BY <2>1, <2>3, <2>4, <2>7, <2>8, <2>9 DEF HasRests
<1> QED BY <1>1, <1>2

\* o[k]?.(a): the direct evaluator evaluates o and k twice.
LEMMA MethodOptRests ==
    ASSUME NEW place \in Seq(Nat), NEW gen \in BOOLEAN, NEW K \in [1 .. 3 -> Langs]
    PROVE  HasRests("methodOpt", place, K, gen)
<1>1. CASE gen
  <2> DEFINE s == <<"a", "b", "get", "nullish", "c", "call">>
  <2>1. StepsOf("methodOpt", gen) = s
    BY <1>1, GeneratorStepsAre DEF StepsOf
  <2>2. /\ Len(s) = 6
        /\ s[1] = "a"
        /\ s[2] = "b"
        /\ s[3] = "get"
        /\ s[4] = "nullish"
        /\ s[5] = "c"
        /\ s[6] = "call"
    OBVIOUS
  <2> HIDE DEF s
  <2>3. StepsFit(s, K)
    <3>1. \A j \in 1 .. 6 : j = 1 \/ j = 2 \/ j = 3 \/ j = 4 \/ j = 5 \/ j = 6
      OBVIOUS
    <3>2. \A j \in 1 .. 6 : Fit(s[j], K)
      BY <3>1, <2>2, FitsAre
    <3> QED BY <3>2, <2>2 DEF StepsFit, Fit
  <2>4. PICK R : RestsFrom(R, s, 1, K, place)
    BY <2>3, RestsExist
  <2>5. K[1] \in Langs /\ K[2] \in Langs /\ K[3] \in Langs
    OBVIOUS
  <2>6. /\ R[7] = Nothing
        /\ \A j \in 1 .. 6 : s[j] # "default" => R[j] = Before(s[j], K, place, R[j + 1])
    BY <2>2, <2>4 DEF RestsFrom
  <2>7. /\ R[1] = Before("a", K, place, R[2])
      /\ R[2] = Before("b", K, place, R[3])
      /\ R[3] = Before("get", K, place, R[4])
      /\ R[4] = Before("nullish", K, place, R[5])
      /\ R[5] = Before("c", K, place, R[6])
      /\ R[6] = Before("call", K, place, R[7])
    BY <2>2, <2>6
  <2>8. R[4] = Perhaps(K[3] ** Does("call", place))
    BY <2>5, <2>7, <2>6, BeforeIs, OtherBefore, CatNothing, OperationsAre
  <2>9. R[1] = K[1] ** (K[2] ** (Does("get", place) ** Perhaps(K[3] ** Does("call", place))))
    BY <2>7, <2>8, BeforeIs, OtherBefore
  <2>10. OrderOf("methodOpt", place, K, gen, Departures)
           = K[1] ** K[2] ** Does("get", place) ** Perhaps(K[3] ** Does("call", place))
    BY <1>1, <2>5, CatNothing, PerhapsIs, OperationsAre, CatIs DEF OrderOf, Does, Departures
  <2>11. K[1] ** (K[2] ** (Does("get", place) ** Perhaps(K[3] ** Does("call", place))))
           = K[1] ** K[2] ** Does("get", place) ** Perhaps(K[3] ** Does("call", place))
    <3>1. Does("get", place) \in Langs /\ Does("call", place) \in Langs
      BY OperationsAre
    <3> QED BY <2>5, <3>1, PerhapsIs, CatIs, Cat4
  <2> QED BY <2>1, <2>3, <2>4, <2>9, <2>10, <2>11 DEF HasRests
<1>2. CASE ~ gen
  <2> DEFINE s == <<"a", "b", "get", "nullish", "a", "b", "peek", "c", "call">>
  <2>1. StepsOf("methodOpt", gen) = s
    BY <1>2, DirectStepsAre DEF StepsOf
  <2>2. /\ Len(s) = 9
        /\ s[1] = "a"
        /\ s[2] = "b"
        /\ s[3] = "get"
        /\ s[4] = "nullish"
        /\ s[5] = "a"
        /\ s[6] = "b"
        /\ s[7] = "peek"
        /\ s[8] = "c"
        /\ s[9] = "call"
    OBVIOUS
  <2> HIDE DEF s
  <2>3. StepsFit(s, K)
    <3>1. \A j \in 1 .. 9 : j = 1 \/ j = 2 \/ j = 3 \/ j = 4 \/ j = 5 \/ j = 6 \/ j = 7 \/ j = 8
            \/ j = 9
      OBVIOUS
    <3>2. \A j \in 1 .. 9 : Fit(s[j], K)
      BY <3>1, <2>2, FitsAre
    <3> QED BY <3>2, <2>2 DEF StepsFit, Fit
  <2>4. PICK R : RestsFrom(R, s, 1, K, place)
    BY <2>3, RestsExist
  <2>5. K[1] \in Langs /\ K[2] \in Langs /\ K[3] \in Langs
    OBVIOUS
  <2>6. /\ R[10] = Nothing
        /\ \A j \in 1 .. 9 : s[j] # "default" => R[j] = Before(s[j], K, place, R[j + 1])
    BY <2>2, <2>4 DEF RestsFrom
  <2>7. /\ R[1] = Before("a", K, place, R[2])
      /\ R[2] = Before("b", K, place, R[3])
      /\ R[3] = Before("get", K, place, R[4])
      /\ R[4] = Before("nullish", K, place, R[5])
      /\ R[5] = Before("a", K, place, R[6])
      /\ R[6] = Before("b", K, place, R[7])
      /\ R[7] = Before("peek", K, place, R[8])
      /\ R[8] = Before("c", K, place, R[9])
      /\ R[9] = Before("call", K, place, R[10])
    BY <2>2, <2>6
  <2>8. R[4] = Perhaps(K[1] ** (K[2] ** (Does("peek", place) ** (K[3] ** Does("call", place)))))
    BY <2>5, <2>7, <2>6, BeforeIs, OtherBefore, CatNothing, OperationsAre
  <2>9. R[1]
          = K[1] ** (K[2] ** (Does("get", place) ** Perhaps(K[1] ** (K[2] ** (Does("peek", place)
              ** (K[3] ** Does("call", place)))))))
    BY <2>7, <2>8, BeforeIs, OtherBefore
  <2>10. OrderOf("methodOpt", place, K, gen, Departures)
           = K[1] ** K[2] ** Does("get", place) ** Perhaps(K[1] ** K[2] ** Does("peek", place)
               ** K[3] ** Does("call", place))
    BY <1>2, <2>5, CatNothing, PerhapsIs, OperationsAre, CatIs DEF OrderOf, Does, Departures
  <2>11. K[1] ** (K[2] ** (Does("get", place) ** Perhaps(K[1] ** (K[2] ** (Does("peek", place)
             ** (K[3] ** Does("call", place)))))))
           = K[1] ** K[2] ** Does("get", place) ** Perhaps(K[1] ** K[2] ** Does("peek", place)
               ** K[3] ** Does("call", place))
    BY MethodOptOrder
  <2> QED BY <2>1, <2>3, <2>4, <2>9, <2>10, <2>11 DEF HasRests
<1> QED BY <1>1, <1>2

\* o[k]++
LEMMA UpdateRests ==
    ASSUME NEW place \in Seq(Nat), NEW gen \in BOOLEAN, NEW K \in [1 .. 2 -> Langs]
    PROVE  HasRests("update", place, K, gen)
<1>1. CASE gen
  <2> DEFINE s == <<"a", "b", "get", "put">>
  <2>1. StepsOf("update", gen) = s
    BY <1>1, GeneratorStepsAre DEF StepsOf
  <2>2. Len(s) = 4 /\ s[1] = "a" /\ s[2] = "b" /\ s[3] = "get" /\ s[4] = "put"
    OBVIOUS
  <2> HIDE DEF s
  <2>3. StepsFit(s, K)
    <3>1. Fit(s[1], K) /\ Fit(s[2], K) /\ Fit(s[3], K) /\ Fit(s[4], K)
      BY <2>2, FitsAre
    <3> QED BY <2>2, <3>1, Fits4
  <2>4. PICK R : RestsFrom(R, s, 1, K, place)
    BY <2>3, RestsExist
  <2>5. K[1] \in Langs /\ K[2] \in Langs
    OBVIOUS
  <2>6. R[1]
          = Before("a", K, place, Before("b", K, place, Before("get", K, place,
              Before("put", K, place, Nothing))))
    BY <2>2, <2>4, Rests4
  <2>7. R[1] = K[1] ** (K[2] ** (Does("get", place) ** Does("put", place)))
    BY <2>5, <2>6, BeforeIs, CatNothing, OperationsAre
  <2>8. OrderOf("update", place, K, gen, Departures)
          = K[1] ** K[2] ** Does("get", place) ** Does("put", place)
    BY <1>1, <2>5, CatNothing, PerhapsIs, OperationsAre, CatIs DEF OrderOf, Does, Departures
  <2>9. K[1] ** (K[2] ** (Does("get", place) ** Does("put", place)))
          = K[1] ** K[2] ** Does("get", place) ** Does("put", place)
    <3>1. Does("get", place) \in Langs /\ Does("put", place) \in Langs
      BY OperationsAre
    <3> QED BY <2>5, <3>1, Cat4
  <2> QED BY <2>1, <2>3, <2>4, <2>7, <2>8, <2>9 DEF HasRests
<1>2. CASE ~ gen
  <2> DEFINE s == <<"a", "b", "peek", "put">>
  <2>1. StepsOf("update", gen) = s
    BY <1>2, DirectStepsAre DEF StepsOf
  <2>2. Len(s) = 4 /\ s[1] = "a" /\ s[2] = "b" /\ s[3] = "peek" /\ s[4] = "put"
    OBVIOUS
  <2> HIDE DEF s
  <2>3. StepsFit(s, K)
    <3>1. Fit(s[1], K) /\ Fit(s[2], K) /\ Fit(s[3], K) /\ Fit(s[4], K)
      BY <2>2, FitsAre
    <3> QED BY <2>2, <3>1, Fits4
  <2>4. PICK R : RestsFrom(R, s, 1, K, place)
    BY <2>3, RestsExist
  <2>5. K[1] \in Langs /\ K[2] \in Langs
    OBVIOUS
  <2>6. R[1]
          = Before("a", K, place, Before("b", K, place, Before("peek", K, place,
              Before("put", K, place, Nothing))))
    BY <2>2, <2>4, Rests4
  <2>7. R[1] = K[1] ** (K[2] ** (Does("peek", place) ** Does("put", place)))
    BY <2>5, <2>6, BeforeIs, CatNothing, OperationsAre
  <2>8. OrderOf("update", place, K, gen, Departures)
          = K[1] ** K[2] ** Does("peek", place) ** Does("put", place)
    BY <1>2, <2>5, CatNothing, PerhapsIs, OperationsAre, CatIs DEF OrderOf, Does, Departures
  <2>9. K[1] ** (K[2] ** (Does("peek", place) ** Does("put", place)))
          = K[1] ** K[2] ** Does("peek", place) ** Does("put", place)
    <3>1. Does("peek", place) \in Langs /\ Does("put", place) \in Langs
      BY OperationsAre
    <3> QED BY <2>5, <3>1, Cat4
  <2> QED BY <2>1, <2>3, <2>4, <2>7, <2>8, <2>9 DEF HasRests
<1> QED BY <1>1, <1>2

\* o.#p++
LEMMA UpdateOneRests ==
    ASSUME NEW place \in Seq(Nat), NEW gen \in BOOLEAN, NEW K \in [1 .. 1 -> Langs]
    PROVE  HasRests("updateOne", place, K, gen)
<1> DEFINE s == <<"a", "get", "put">>
<1>1. StepsOf("updateOne", gen) = s
  BY DirectStepsAre, GeneratorStepsAre DEF StepsOf
<1>2. Len(s) = 3 /\ s[1] = "a" /\ s[2] = "get" /\ s[3] = "put"
  OBVIOUS
<1> HIDE DEF s
<1>3. StepsFit(s, K)
  BY <1>2, FitsAre, Fits3
<1>4. PICK R : RestsFrom(R, s, 1, K, place)
  BY <1>3, RestsExist
<1>5. K[1] \in Langs
  OBVIOUS
<1>6. R[1] = Before("a", K, place, Before("get", K, place, Before("put", K, place, Nothing)))
  BY <1>2, <1>4, Rests3
<1>7. R[1] = K[1] ** (Does("get", place) ** Does("put", place))
  BY <1>5, <1>6, BeforeIs, CatNothing, OperationsAre
<1>8. OrderOf("updateOne", place, K, gen, Departures)
        = K[1] ** Does("get", place) ** Does("put", place)
  BY <1>5, CatNothing, PerhapsIs, OperationsAre, CatIs DEF OrderOf, Does, Departures
<1>9. K[1] ** (Does("get", place) ** Does("put", place))
        = K[1] ** Does("get", place) ** Does("put", place)
  <2>1. Does("get", place) \in Langs /\ Does("put", place) \in Langs
    BY OperationsAre
  <2> QED BY <1>5, <2>1, Cat3
<1> QED BY <1>1, <1>3, <1>4, <1>7, <1>8, <1>9 DEF HasRests

\* a, b
LEMMA SequenceRests ==
    ASSUME NEW place \in Seq(Nat), NEW gen \in BOOLEAN, NEW K \in [1 .. 2 -> Langs]
    PROVE  HasRests("sequence", place, K, gen)
<1> DEFINE s == <<"a", "b">>
<1>1. StepsOf("sequence", gen) = s
  BY DirectStepsAre, GeneratorStepsAre DEF StepsOf
<1>2. Len(s) = 2 /\ s[1] = "a" /\ s[2] = "b"
  OBVIOUS
<1> HIDE DEF s
<1>3. StepsFit(s, K)
  BY <1>2, FitsAre, Fits2
<1>4. PICK R : RestsFrom(R, s, 1, K, place)
  BY <1>3, RestsExist
<1>5. K[1] \in Langs /\ K[2] \in Langs
  OBVIOUS
<1>6. R[1] = Before("a", K, place, Before("b", K, place, Nothing))
  BY <1>2, <1>4, Rests2
<1>7. R[1] = K[1] ** K[2]
  BY <1>5, <1>6, BeforeIs, CatNothing, OperationsAre
<1>8. OrderOf("sequence", place, K, gen, Departures) = K[1] ** K[2]
  BY <1>5, CatNothing, PerhapsIs, OperationsAre, CatIs DEF OrderOf, Does, Departures
<1> QED BY <1>1, <1>3, <1>4, <1>7, <1>8 DEF HasRests

\* a ? b : c
LEMMA ConditionalRests ==
    ASSUME NEW place \in Seq(Nat), NEW gen \in BOOLEAN, NEW K \in [1 .. 3 -> Langs]
    PROVE  HasRests("conditional", place, K, gen)
<1> DEFINE s == <<"a", "branch">>
<1>1. StepsOf("conditional", gen) = s
  BY DirectStepsAre, GeneratorStepsAre DEF StepsOf
<1>2. Len(s) = 2 /\ s[1] = "a" /\ s[2] = "branch"
  OBVIOUS
<1> HIDE DEF s
<1>3. StepsFit(s, K)
  BY <1>2, FitsAre, Fits2
<1>4. PICK R : RestsFrom(R, s, 1, K, place)
  BY <1>3, RestsExist
<1>5. K[1] \in Langs /\ K[2] \in Langs /\ K[3] \in Langs
  OBVIOUS
<1>6. R[1] = Before("a", K, place, Before("branch", K, place, Nothing))
  BY <1>2, <1>4, Rests2
<1>7. R[1] = K[1] ** Either(K[2], K[3])
  BY <1>5, <1>6, BeforeIs, OtherBefore, CatNothing, OperationsAre, EitherIs
<1>8. OrderOf("conditional", place, K, gen, Departures) = K[1] ** Either(K[2], K[3])
  BY <1>5, CatNothing, PerhapsIs, OperationsAre, CatIs DEF OrderOf, Does, Departures
<1> QED BY <1>1, <1>3, <1>4, <1>7, <1>8 DEF HasRests

\* new f(...a)
LEMMA NewRests ==
    ASSUME NEW place \in Seq(Nat), NEW gen \in BOOLEAN, NEW K \in [1 .. 2 -> Langs]
    PROVE  HasRests("new", place, K, gen)
<1> DEFINE s == <<"a", "b", "iterate", "call">>
<1>1. StepsOf("new", gen) = s
  BY DirectStepsAre, GeneratorStepsAre DEF StepsOf
<1>2. Len(s) = 4 /\ s[1] = "a" /\ s[2] = "b" /\ s[3] = "iterate" /\ s[4] = "call"
  OBVIOUS
<1> HIDE DEF s
<1>3. StepsFit(s, K)
  <2>1. Fit(s[1], K) /\ Fit(s[2], K) /\ Fit(s[3], K) /\ Fit(s[4], K)
    BY <1>2, FitsAre
  <2> QED BY <1>2, <2>1, Fits4
<1>4. PICK R : RestsFrom(R, s, 1, K, place)
  BY <1>3, RestsExist
<1>5. K[1] \in Langs /\ K[2] \in Langs
  OBVIOUS
<1>6. R[1]
        = Before("a", K, place, Before("b", K, place, Before("iterate", K, place,
            Before("call", K, place, Nothing))))
  BY <1>2, <1>4, Rests4
<1>7. R[1] = K[1] ** (K[2] ** (Does("iterate", place) ** Does("call", place)))
  BY <1>5, <1>6, BeforeIs, CatNothing, OperationsAre
<1>8. OrderOf("new", place, K, gen, Departures)
        = K[1] ** K[2] ** Does("iterate", place) ** Does("call", place)
  BY <1>5, CatNothing, PerhapsIs, OperationsAre, CatIs DEF OrderOf, Does, Departures
<1>9. K[1] ** (K[2] ** (Does("iterate", place) ** Does("call", place)))
        = K[1] ** K[2] ** Does("iterate", place) ** Does("call", place)
  <2>1. Does("iterate", place) \in Langs /\ Does("call", place) \in Langs
    BY OperationsAre
  <2> QED BY <1>5, <2>1, Cat4
<1> QED BY <1>1, <1>3, <1>4, <1>7, <1>8, <1>9 DEF HasRests

\* `${a}${b}`
LEMMA TemplateRests ==
    ASSUME NEW place \in Seq(Nat), NEW gen \in BOOLEAN, NEW K \in [1 .. 2 -> Langs]
    PROVE  HasRests("template", place, K, gen)
<1> DEFINE s == <<"a", "b">>
<1>1. StepsOf("template", gen) = s
  BY DirectStepsAre, GeneratorStepsAre DEF StepsOf
<1>2. Len(s) = 2 /\ s[1] = "a" /\ s[2] = "b"
  OBVIOUS
<1> HIDE DEF s
<1>3. StepsFit(s, K)
  BY <1>2, FitsAre, Fits2
<1>4. PICK R : RestsFrom(R, s, 1, K, place)
  BY <1>3, RestsExist
<1>5. K[1] \in Langs /\ K[2] \in Langs
  OBVIOUS
<1>6. R[1] = Before("a", K, place, Before("b", K, place, Nothing))
  BY <1>2, <1>4, Rests2
<1>7. R[1] = K[1] ** K[2]
  BY <1>5, <1>6, BeforeIs, CatNothing, OperationsAre
<1>8. OrderOf("template", place, K, gen, Departures) = K[1] ** K[2]
  BY <1>5, CatNothing, PerhapsIs, OperationsAre, CatIs DEF OrderOf, Does, Departures
<1> QED BY <1>1, <1>3, <1>4, <1>7, <1>8 DEF HasRests

\* f`${a}`
LEMMA TaggedRests ==
    ASSUME NEW place \in Seq(Nat), NEW gen \in BOOLEAN, NEW K \in [1 .. 2 -> Langs]
    PROVE  HasRests("tagged", place, K, gen)
<1> DEFINE s == <<"a", "b", "call">>
<1>1. StepsOf("tagged", gen) = s
  BY DirectStepsAre, GeneratorStepsAre DEF StepsOf
<1>2. Len(s) = 3 /\ s[1] = "a" /\ s[2] = "b" /\ s[3] = "call"
  OBVIOUS
<1> HIDE DEF s
<1>3. StepsFit(s, K)
  BY <1>2, FitsAre, Fits3
<1>4. PICK R : RestsFrom(R, s, 1, K, place)
  BY <1>3, RestsExist
<1>5. K[1] \in Langs /\ K[2] \in Langs
  OBVIOUS
<1>6. R[1] = Before("a", K, place, Before("b", K, place, Before("call", K, place, Nothing)))
  BY <1>2, <1>4, Rests3
<1>7. R[1] = K[1] ** (K[2] ** Does("call", place))
  BY <1>5, <1>6, BeforeIs, CatNothing, OperationsAre
<1>8. OrderOf("tagged", place, K, gen, Departures) = K[1] ** K[2] ** Does("call", place)
  BY <1>5, CatNothing, PerhapsIs, OperationsAre, CatIs DEF OrderOf, Does, Departures
<1>9. K[1] ** (K[2] ** Does("call", place)) = K[1] ** K[2] ** Does("call", place)
  <2>1. Does("call", place) \in Langs
    BY OperationsAre
  <2> QED BY <1>5, <2>1, Cat3
<1> QED BY <1>1, <1>3, <1>4, <1>7, <1>8, <1>9 DEF HasRests

\* o[k]`${a}`
LEMMA TaggedMemberRests ==
    ASSUME NEW place \in Seq(Nat), NEW gen \in BOOLEAN, NEW K \in [1 .. 3 -> Langs]
    PROVE  HasRests("taggedMember", place, K, gen)
<1> DEFINE s == <<"a", "b", "get", "c", "call">>
<1>1. StepsOf("taggedMember", gen) = s
  BY DirectStepsAre, GeneratorStepsAre DEF StepsOf
<1>2. Len(s) = 5 /\ s[1] = "a" /\ s[2] = "b" /\ s[3] = "get" /\ s[4] = "c" /\ s[5] = "call"
  OBVIOUS
<1> HIDE DEF s
<1>3. StepsFit(s, K)
  <2>1. Fit(s[1], K) /\ Fit(s[2], K) /\ Fit(s[3], K) /\ Fit(s[4], K) /\ Fit(s[5], K)
    BY <1>2, FitsAre
  <2> QED BY <1>2, <2>1, Fits5
<1>4. PICK R : RestsFrom(R, s, 1, K, place)
  BY <1>3, RestsExist
<1>5. K[1] \in Langs /\ K[2] \in Langs /\ K[3] \in Langs
  OBVIOUS
<1>6. R[1]
        = Before("a", K, place, Before("b", K, place, Before("get", K, place,
            Before("c", K, place, Before("call", K, place, Nothing)))))
  BY <1>2, <1>4, Rests5
<1>7. R[1] = K[1] ** (K[2] ** (Does("get", place) ** (K[3] ** Does("call", place))))
  BY <1>5, <1>6, BeforeIs, CatNothing, OperationsAre
<1>8. OrderOf("taggedMember", place, K, gen, Departures)
        = K[1] ** K[2] ** Does("get", place) ** K[3] ** Does("call", place)
  BY <1>5, CatNothing, PerhapsIs, OperationsAre, CatIs DEF OrderOf, Does, Departures
<1>9. K[1] ** (K[2] ** (Does("get", place) ** (K[3] ** Does("call", place))))
        = K[1] ** K[2] ** Does("get", place) ** K[3] ** Does("call", place)
  <2>1. Does("get", place) \in Langs /\ Does("call", place) \in Langs
    BY OperationsAre
  <2> QED BY <1>5, <2>1, Cat5
<1> QED BY <1>1, <1>3, <1>4, <1>7, <1>8, <1>9 DEF HasRests

\* yield a: the direct evaluator does not suspend.
LEMMA YieldRests ==
    ASSUME NEW place \in Seq(Nat), NEW gen \in BOOLEAN, NEW K \in [1 .. 1 -> Langs]
    PROVE  HasRests("yield", place, K, gen)
<1>1. CASE gen
  <2> DEFINE s == <<"a", "yield">>
  <2>1. StepsOf("yield", gen) = s
    BY <1>1, GeneratorStepsAre DEF StepsOf
  <2>2. Len(s) = 2 /\ s[1] = "a" /\ s[2] = "yield"
    OBVIOUS
  <2> HIDE DEF s
  <2>3. StepsFit(s, K)
    BY <2>2, FitsAre, Fits2
  <2>4. PICK R : RestsFrom(R, s, 1, K, place)
    BY <2>3, RestsExist
  <2>5. K[1] \in Langs
    OBVIOUS
  <2>6. R[1] = Before("a", K, place, Before("yield", K, place, Nothing))
    BY <2>2, <2>4, Rests2
  <2>7. R[1] = K[1] ** Does("yield", place)
    BY <2>5, <2>6, BeforeIs, CatNothing, OperationsAre
  <2>8. OrderOf("yield", place, K, gen, Departures) = K[1] ** Does("yield", place)
    BY <1>1, <2>5, CatNothing, PerhapsIs, OperationsAre, CatIs DEF OrderOf, Does, Departures
  <2> QED BY <2>1, <2>3, <2>4, <2>7, <2>8 DEF HasRests
<1>2. CASE ~ gen
  <2> DEFINE s == <<"a">>
  <2>1. StepsOf("yield", gen) = s
    BY <1>2, DirectStepsAre DEF StepsOf
  <2>2. Len(s) = 1 /\ s[1] = "a"
    OBVIOUS
  <2> HIDE DEF s
  <2>3. StepsFit(s, K)
    BY <2>2, FitsAre, Fits1
  <2>4. PICK R : RestsFrom(R, s, 1, K, place)
    BY <2>3, RestsExist
  <2>5. K[1] \in Langs
    OBVIOUS
  <2>6. R[1] = Before("a", K, place, Nothing)
    BY <2>2, <2>4, Rests1
  <2>7. R[1] = K[1]
    BY <2>5, <2>6, BeforeIs, CatNothing, OperationsAre
  <2>8. OrderOf("yield", place, K, gen, Departures) = K[1]
    BY <1>2, <2>5, CatNothing, PerhapsIs, OperationsAre, CatIs DEF OrderOf, Does, Departures
  <2> QED BY <2>1, <2>3, <2>4, <2>7, <2>8 DEF HasRests
<1> QED BY <1>1, <1>2

\* yield* a: the direct evaluator does not suspend.
LEMMA DelegateRests ==
    ASSUME NEW place \in Seq(Nat), NEW gen \in BOOLEAN, NEW K \in [1 .. 1 -> Langs]
    PROVE  HasRests("delegate", place, K, gen)
<1>1. CASE gen
  <2> DEFINE s == <<"a", "iterate", "delegate">>
  <2>1. StepsOf("delegate", gen) = s
    BY <1>1, GeneratorStepsAre DEF StepsOf
  <2>2. Len(s) = 3 /\ s[1] = "a" /\ s[2] = "iterate" /\ s[3] = "delegate"
    OBVIOUS
  <2> HIDE DEF s
  <2>3. StepsFit(s, K)
    BY <2>2, FitsAre, Fits3
  <2>4. PICK R : RestsFrom(R, s, 1, K, place)
    BY <2>3, RestsExist
  <2>5. K[1] \in Langs
    OBVIOUS
  <2>6. R[1]
          = Before("a", K, place, Before("iterate", K, place, Before("delegate", K, place,
              Nothing)))
    BY <2>2, <2>4, Rests3
  <2>7. R[1] = K[1] ** Does("iterate", place)
    BY <2>5, <2>6, BeforeIs, OtherBefore, CatNothing, OperationsAre
  <2>8. OrderOf("delegate", place, K, gen, Departures) = K[1] ** Does("iterate", place)
    BY <1>1, <2>5, CatNothing, PerhapsIs, OperationsAre, CatIs DEF OrderOf, Does, Departures
  <2> QED BY <2>1, <2>3, <2>4, <2>7, <2>8 DEF HasRests
<1>2. CASE ~ gen
  <2> DEFINE s == <<"a", "iterate">>
  <2>1. StepsOf("delegate", gen) = s
    BY <1>2, DirectStepsAre DEF StepsOf
  <2>2. Len(s) = 2 /\ s[1] = "a" /\ s[2] = "iterate"
    OBVIOUS
  <2> HIDE DEF s
  <2>3. StepsFit(s, K)
    BY <2>2, FitsAre, Fits2
  <2>4. PICK R : RestsFrom(R, s, 1, K, place)
    BY <2>3, RestsExist
  <2>5. K[1] \in Langs
    OBVIOUS
  <2>6. R[1] = Before("a", K, place, Before("iterate", K, place, Nothing))
    BY <2>2, <2>4, Rests2
  <2>7. R[1] = K[1] ** Does("iterate", place)
    BY <2>5, <2>6, BeforeIs, CatNothing, OperationsAre
  <2>8. OrderOf("delegate", place, K, gen, Departures) = K[1] ** Does("iterate", place)
    BY <1>2, <2>5, CatNothing, PerhapsIs, OperationsAre, CatIs DEF OrderOf, Does, Departures
  <2> QED BY <2>1, <2>3, <2>4, <2>7, <2>8 DEF HasRests
<1> QED BY <1>1, <1>2

\* await a
LEMMA AwaitRests ==
    ASSUME NEW place \in Seq(Nat), NEW gen \in BOOLEAN, NEW K \in [1 .. 1 -> Langs]
    PROVE  HasRests("await", place, K, gen)
<1> DEFINE s == <<"a", "await">>
<1>1. StepsOf("await", gen) = s
  BY DirectStepsAre, GeneratorStepsAre DEF StepsOf
<1>2. Len(s) = 2 /\ s[1] = "a" /\ s[2] = "await"
  OBVIOUS
<1> HIDE DEF s
<1>3. StepsFit(s, K)
  BY <1>2, FitsAre, Fits2
<1>4. PICK R : RestsFrom(R, s, 1, K, place)
  BY <1>3, RestsExist
<1>5. K[1] \in Langs
  OBVIOUS
<1>6. R[1] = Before("a", K, place, Before("await", K, place, Nothing))
  BY <1>2, <1>4, Rests2
<1>7. R[1] = K[1] ** Does("await", place)
  BY <1>5, <1>6, BeforeIs, CatNothing, OperationsAre
<1>8. OrderOf("await", place, K, gen, Departures) = K[1] ** Does("await", place)
  BY <1>5, CatNothing, PerhapsIs, OperationsAre, CatIs DEF OrderOf, Does, Departures
<1> QED BY <1>1, <1>3, <1>4, <1>7, <1>8 DEF HasRests

\* A default that may be evaluated, the target and the assignment.
LEMMA DefaultFirst ==
    ASSUME NEW A \in Langs, NEW B \in Langs, NEW C \in Langs
    PROVE  Either(A ** (B ** C), B ** C) = (Perhaps(A) ** B) ** C
<1>1. B ** C \in Langs
  BY CatIs
<1>2. Either(A ** (B ** C), B ** C) = Perhaps(A) ** (B ** C)
  BY <1>1, CatOptional
<1> QED BY <1>2, PerhapsIs, CatAssociates

\* An element of an array pattern, whose default comes before its target in the code.
LEMMA ArrayPatternRests ==
    ASSUME NEW place \in Seq(Nat), NEW gen \in BOOLEAN, NEW K \in [1 .. 4 -> Langs]
    PROVE  HasRests("arrayPattern", place, K, gen)
<1> DEFINE s == <<"a", "iterate", "default", "d", "b", "c", "put">>
<1> DEFINE put == Does("put", place)
<1> DEFINE iterate == Does("iterate", place)
<1>1. StepsOf("arrayPattern", gen) = s
  BY DirectStepsAre, GeneratorStepsAre DEF StepsOf
<1>2. Len(s) = 7 /\ s[1] = "a" /\ s[2] = "iterate" /\ s[3] = "default" /\ s[4] = "d"
      /\ s[5] = "b" /\ s[6] = "c" /\ s[7] = "put"
  OBVIOUS
<1> HIDE DEF s
<1>3. StepsFit(s, K)
  <2>1. \A j \in 1 .. 7 : j = 1 \/ j = 2 \/ j = 3 \/ j = 4 \/ j = 5 \/ j = 6 \/ j = 7
    OBVIOUS
  <2>2. \A j \in 1 .. 7 : Fit(s[j], K) \/ (s[j] = "default" /\ j < 7)
    BY <2>1, <1>2, FitsAre
  <2>3. "default" \notin DOMAIN Position
    BY DEF Position
  <2> QED BY <2>2, <2>3, <1>2 DEF StepsFit, Fit
<1>4. PICK R : RestsFrom(R, s, 1, K, place)
  BY <1>3, RestsExist
<1>5. K[1] \in Langs /\ K[2] \in Langs /\ K[3] \in Langs /\ K[4] \in Langs
      /\ put \in Langs /\ iterate \in Langs
  BY OperationsAre
<1>6. R[8] = Nothing
      /\ \A j \in 1 .. 7 : R[j] = IF s[j] = "default" THEN Either(R[j + 1], R[j + 2])
                                  ELSE Before(s[j], K, place, R[j + 1])
  BY <1>2, <1>4 DEF RestsFrom
<1>7. /\ R[1] = Before("a", K, place, R[2])
      /\ R[2] = Before("iterate", K, place, R[3])
      /\ R[3] = Either(R[4], R[5])
      /\ R[4] = Before("d", K, place, R[5])
      /\ R[5] = Before("b", K, place, R[6])
      /\ R[6] = Before("c", K, place, R[7])
      /\ R[7] = Before("put", K, place, R[8])
  BY <1>2, <1>6
<1>8. R[7] = put
  BY <1>5, <1>6, <1>7, BeforeIs, CatNothing
<1> HIDE DEF put, iterate
<1>9. R[5] = K[2] ** K[3] ** put
  <2>1. R[5] = K[2] ** (K[3] ** put)
    BY <1>7, <1>8, BeforeIs
  <2> QED BY <2>1, <1>5, CatAssociates
<1>10. R[3] = Either(K[4] ** (K[2] ** K[3] ** put), K[2] ** K[3] ** put)
  BY <1>7, <1>9, BeforeIs
<1>11. R[3] = (Perhaps(K[4]) ** (K[2] ** K[3])) ** put
  <2>1. K[2] ** K[3] \in Langs
    BY <1>5, CatIs
  <2> QED BY <2>1, <1>5, <1>10, DefaultFirst
<1>12. R[1] = K[1] ** (iterate ** ((Perhaps(K[4]) ** (K[2] ** K[3])) ** put))
  BY <1>7, <1>11, BeforeIs DEF iterate
<1>13. Perhaps(K[4]) ** (K[2] ** K[3]) \in Langs
  <2>1. K[2] ** K[3] \in Langs
    BY <1>5, CatIs
  <2> QED BY <2>1, <1>5, PerhapsIs, CatIs
<1>14. R[1] = K[1] ** iterate ** (Perhaps(K[4]) ** (K[2] ** K[3])) ** put
  <2> DEFINE element == Perhaps(K[4]) ** (K[2] ** K[3])
  <2> HIDE DEF element
  <2>1. K[1] ** (iterate ** (element ** put)) = K[1] ** iterate ** element ** put
    BY <1>5, <1>13, Cat4 DEF element
  <2> QED BY <1>12, <2>1 DEF element
<1>15. OrderOf("arrayPattern", place, K, gen, Departures)
       = K[1] ** iterate ** (Perhaps(K[4]) ** (K[2] ** K[3])) ** put
  BY DEF OrderOf, Does, Departures, iterate, put
<1> QED BY <1>1, <1>3, <1>4, <1>14, <1>15 DEF HasRests

\* A property of an object pattern, the same.
LEMMA ObjectPatternRests ==
    ASSUME NEW place \in Seq(Nat), NEW gen \in BOOLEAN, NEW K \in [1 .. 4 -> Langs]
    PROVE  HasRests("objectPattern", place, K, gen)
<1> DEFINE s == <<"a", "b", "get", "default", "d", "c", "put">>
<1> DEFINE put == Does("put", place)
<1> DEFINE get == Does("get", place)
<1>1. StepsOf("objectPattern", gen) = s
  BY DirectStepsAre, GeneratorStepsAre DEF StepsOf
<1>2. Len(s) = 7 /\ s[1] = "a" /\ s[2] = "b" /\ s[3] = "get" /\ s[4] = "default"
      /\ s[5] = "d" /\ s[6] = "c" /\ s[7] = "put"
  OBVIOUS
<1> HIDE DEF s
<1>3. StepsFit(s, K)
  <2>1. \A j \in 1 .. 7 : j = 1 \/ j = 2 \/ j = 3 \/ j = 4 \/ j = 5 \/ j = 6 \/ j = 7
    OBVIOUS
  <2>2. \A j \in 1 .. 7 : Fit(s[j], K) \/ (s[j] = "default" /\ j < 7)
    BY <2>1, <1>2, FitsAre
  <2>3. "default" \notin DOMAIN Position
    BY DEF Position
  <2> QED BY <2>2, <2>3, <1>2 DEF StepsFit, Fit
<1>4. PICK R : RestsFrom(R, s, 1, K, place)
  BY <1>3, RestsExist
<1>5. K[1] \in Langs /\ K[2] \in Langs /\ K[3] \in Langs /\ K[4] \in Langs
      /\ put \in Langs /\ get \in Langs
  BY OperationsAre
<1>6. R[8] = Nothing
      /\ \A j \in 1 .. 7 : R[j] = IF s[j] = "default" THEN Either(R[j + 1], R[j + 2])
                                  ELSE Before(s[j], K, place, R[j + 1])
  BY <1>2, <1>4 DEF RestsFrom
<1>7. /\ R[1] = Before("a", K, place, R[2])
      /\ R[2] = Before("b", K, place, R[3])
      /\ R[3] = Before("get", K, place, R[4])
      /\ R[4] = Either(R[5], R[6])
      /\ R[5] = Before("d", K, place, R[6])
      /\ R[6] = Before("c", K, place, R[7])
      /\ R[7] = Before("put", K, place, R[8])
  BY <1>2, <1>6
<1>8. R[7] = put
  BY <1>5, <1>6, <1>7, BeforeIs, CatNothing
<1> HIDE DEF put, get
<1>9. R[4] = Either(K[4] ** (K[3] ** put), K[3] ** put)
  BY <1>7, <1>8, BeforeIs
<1>10. R[4] = (Perhaps(K[4]) ** K[3]) ** put
  BY <1>5, <1>9, DefaultFirst
<1>11. R[1] = K[1] ** (K[2] ** (get ** ((Perhaps(K[4]) ** K[3]) ** put)))
  BY <1>7, <1>10, BeforeIs DEF get
<1>12. R[1] = K[1] ** K[2] ** get ** (Perhaps(K[4]) ** K[3]) ** put
  <2> DEFINE element == Perhaps(K[4]) ** K[3]
  <2>1. element \in Langs
    BY <1>5, PerhapsIs, CatIs
  <2> HIDE DEF element
  <2>2. K[1] ** (K[2] ** (get ** (element ** put))) = K[1] ** K[2] ** get ** element ** put
    BY <1>5, <2>1, Cat5
  <2> QED BY <1>11, <2>2 DEF element
<1>13. OrderOf("objectPattern", place, K, gen, Departures)
       = K[1] ** K[2] ** get ** (Perhaps(K[4]) ** K[3]) ** put
  BY DEF OrderOf, Does, Departures, get, put
<1> QED BY <1>1, <1>3, <1>4, <1>12, <1>13 DEF HasRests

\* How many operands each form has.
LEMMA ArityIs ==
    /\ Arity["leaf"] = 0
    /\ Arity["class"] = 1
    /\ Arity["assign"] = 3
    /\ Arity["compound"] = 3
    /\ Arity["logAssign"] = 3
    /\ Arity["assignOne"] = 2
    /\ Arity["nameAssign"] = 1
    /\ Arity["nameLog"] = 1
    /\ Arity["binary"] = 2
    /\ Arity["logical"] = 2
    /\ Arity["unary"] = 1
    /\ Arity["delete"] = 2
    /\ Arity["array"] = 2
    /\ Arity["object"] = 2
    /\ Arity["member"] = 2
    /\ Arity["optMember"] = 2
    /\ Arity["call"] = 2
    /\ Arity["method"] = 3
    /\ Arity["optCall"] = 2
    /\ Arity["optMethod"] = 3
    /\ Arity["methodOpt"] = 3
    /\ Arity["update"] = 2
    /\ Arity["updateOne"] = 1
    /\ Arity["sequence"] = 2
    /\ Arity["conditional"] = 3
    /\ Arity["new"] = 2
    /\ Arity["template"] = 2
    /\ Arity["tagged"] = 2
    /\ Arity["taggedMember"] = 3
    /\ Arity["yield"] = 1
    /\ Arity["delegate"] = 1
    /\ Arity["await"] = 1
    /\ Arity["arrayPattern"] = 4
    /\ Arity["objectPattern"] = 4
BY DEF Arity

\* Every form of both evaluators: only a name or a literal and a class are never left to the
\* generator evaluator.
\* So for every form and for both evaluators.
LEMMA FormRests ==
    ASSUME NEW form \in Forms, NEW place \in Seq(Nat), NEW gen \in BOOLEAN,
           NEW K \in [1 .. Arity[form] -> Langs], gen => form \notin {"leaf", "class"}
    PROVE  HasRests(form, place, K, gen)
<1>1. Forms = {"leaf", "class", "assign", "compound", "logAssign", "assignOne", "nameAssign",
            "nameLog", "binary", "logical", "unary", "delete", "array", "object",
            "member", "optMember", "call", "method", "optCall", "optMethod", "methodOpt",
            "update", "updateOne", "sequence", "conditional", "new", "template", "tagged",
            "taggedMember", "yield", "delegate", "await", "arrayPattern", "objectPattern"}
  BY DEF Forms, Arity
<1>2. CASE form = "leaf"
  BY <1>2, ArityIs, LeafRests
<1>3. CASE form = "class"
  BY <1>3, ArityIs, ClassRests
<1>4. CASE form = "assign"
  BY <1>4, ArityIs, AssignRests
<1>5. CASE form = "compound"
  BY <1>5, ArityIs, CompoundRests
<1>6. CASE form = "logAssign"
  BY <1>6, ArityIs, LogAssignRests
<1>7. CASE form = "assignOne"
  BY <1>7, ArityIs, AssignOneRests
<1>8. CASE form = "nameAssign"
  BY <1>8, ArityIs, NameAssignRests
<1>9. CASE form = "nameLog"
  BY <1>9, ArityIs, NameLogRests
<1>10. CASE form = "binary"
  BY <1>10, ArityIs, BinaryRests
<1>11. CASE form = "logical"
  BY <1>11, ArityIs, LogicalRests
<1>12. CASE form = "unary"
  BY <1>12, ArityIs, UnaryRests
<1>13. CASE form = "delete"
  BY <1>13, ArityIs, DeleteRests
<1>14. CASE form = "array"
  BY <1>14, ArityIs, ArrayRests
<1>15. CASE form = "object"
  BY <1>15, ArityIs, ObjectRests
<1>16. CASE form = "member"
  BY <1>16, ArityIs, MemberRests
<1>17. CASE form = "optMember"
  BY <1>17, ArityIs, OptMemberRests
<1>18. CASE form = "call"
  BY <1>18, ArityIs, CallRests
<1>19. CASE form = "method"
  BY <1>19, ArityIs, MethodRests
<1>20. CASE form = "optCall"
  BY <1>20, ArityIs, OptCallRests
<1>21. CASE form = "optMethod"
  BY <1>21, ArityIs, OptMethodRests
<1>22. CASE form = "methodOpt"
  BY <1>22, ArityIs, MethodOptRests
<1>23. CASE form = "update"
  BY <1>23, ArityIs, UpdateRests
<1>24. CASE form = "updateOne"
  BY <1>24, ArityIs, UpdateOneRests
<1>25. CASE form = "sequence"
  BY <1>25, ArityIs, SequenceRests
<1>26. CASE form = "conditional"
  BY <1>26, ArityIs, ConditionalRests
<1>27. CASE form = "new"
  BY <1>27, ArityIs, NewRests
<1>28. CASE form = "template"
  BY <1>28, ArityIs, TemplateRests
<1>29. CASE form = "tagged"
  BY <1>29, ArityIs, TaggedRests
<1>30. CASE form = "taggedMember"
  BY <1>30, ArityIs, TaggedMemberRests
<1>31. CASE form = "yield"
  BY <1>31, ArityIs, YieldRests
<1>32. CASE form = "delegate"
  BY <1>32, ArityIs, DelegateRests
<1>33. CASE form = "await"
  BY <1>33, ArityIs, AwaitRests
<1>34. CASE form = "arrayPattern"
  BY <1>34, ArityIs, ArrayPatternRests
<1>35. CASE form = "objectPattern"
  BY <1>35, ArityIs, ObjectPatternRests
<1> QED BY <1>1, <1>2, <1>3, <1>4, <1>5, <1>6, <1>7, <1>8, <1>9, <1>10,
           <1>11, <1>12, <1>13, <1>14, <1>15, <1>16, <1>17, <1>18, <1>19, <1>20,
           <1>21, <1>22, <1>23, <1>24, <1>25, <1>26, <1>27, <1>28, <1>29, <1>30,
           <1>31, <1>32, <1>33, <1>34, <1>35

-----------------------------------------------------------------------------
(* The order of a whole expression, by induction over its tree.             *)

\* What a form may do, when its operands may do as g says.
OperandsIn(e, p, g) == [i \in 1 .. Arity[e[p]] |-> g[Append(p, i)]]
OrderAt(e, p, g) == OrderOf(e[p], p, OperandsIn(e, p, g), InGenerator(e, p), Departures)

\* Every form has finitely many operands.
LEMMA ArityIsNat ==
    \A form \in Forms : Arity[form] \in Nat
<1>1. Forms = {"leaf", "class", "assign", "compound", "logAssign", "assignOne", "nameAssign",
            "nameLog", "binary", "logical", "unary", "delete", "array", "object",
            "member", "optMember", "call", "method", "optCall", "optMethod", "methodOpt",
            "update", "updateOne", "sequence", "conditional", "new", "template", "tagged",
            "taggedMember", "yield", "delegate", "await", "arrayPattern", "objectPattern"}
  BY DEF Forms, Arity
<1> QED BY <1>1, ArityIs

\* What a tree says of one of its places.
LEMMA PlaceIs ==
    ASSUME NEW e, IsTree(e), NEW p \in DOMAIN e
    PROVE  /\ e[p] \in Forms /\ p \in Seq(Nat) /\ Len(p) \in Nat
           /\ \A i \in 1 .. Arity[e[p]] : Append(p, i) \in DOMAIN e
           /\ \A i \in 1 .. Len(p) : /\ Above(p, i) \in DOMAIN e
                                     /\ p[i] \in 1 .. Arity[e[Above(p, i)]]
BY DEF IsTree

\* A name, a literal or a class is evaluated by the generator evaluator in no tree: the one
\* has no operand, and the yields of the other's are overlooked.
LEMMA NotInGenerator ==
    ASSUME NEW e, IsTree(e), NEW p \in DOMAIN e, ContainsYield(e, p)
    PROVE  e[p] \notin {"leaf", "class"}
<1>1. PICK q \in DOMAIN e :
         /\ e[q] \in Suspending /\ IsPrefix(p, q)
         /\ \A i \in Len(p) + 1 .. Len(q) : q[i] \notin OverlookedIn(e[Above(q, i)])
  BY DEF ContainsYield
<1>2. q \in Seq(Nat) /\ p \in Seq(Nat) /\ Len(p) \in Nat /\ Len(q) \in Nat
  BY PlaceIs
<1>3. Len(p) <= Len(q) /\ SubSeq(p, 1, Len(p)) = SubSeq(q, 1, Len(p))
  BY <1>1, <1>2 DEF IsPrefix
<1>4. SubSeq(q, 1, Len(p)) = p
  BY <1>2, <1>3, SubSeqFull
<1>5. SUFFICES ASSUME e[p] \in {"leaf", "class"} PROVE FALSE
  OBVIOUS
<1>6. Len(q) > Len(p)
  <2>1. SUFFICES ASSUME Len(q) <= Len(p) PROVE FALSE
    BY <1>2
  <2>2. Len(q) = Len(p)
    BY <2>1, <1>2, <1>3
  <2>3. q = p
    BY <1>2, <1>4, <2>2, SubSeqFull
  <2> QED BY <1>1, <1>5, <2>3 DEF Suspending
<1> DEFINE k == Len(p) + 1
<1>7. k \in 1 .. Len(q) /\ k \in Len(p) + 1 .. Len(q) /\ k - 1 = Len(p)
  BY <1>2, <1>6
<1>8. Above(q, k) = p
  BY <1>4, <1>7 DEF Above
<1> HIDE DEF k
<1>9. q[k] \in 1 .. Arity[e[p]] /\ q[k] \notin OverlookedIn(e[p])
  <2>1. q[k] \in 1 .. Arity[e[Above(q, k)]]
    BY <1>7, PlaceIs
  <2>2. q[k] \notin OverlookedIn(e[Above(q, k)])
    BY <1>1, <1>7
  <2> QED BY <1>8, <2>1, <2>2
<1>10. CASE e[p] = "leaf"
  <2>1. 1 .. Arity[e[p]] = {}
    BY <1>10, ArityIs
  <2> QED BY <1>9, <2>1
<1>11. CASE e[p] = "class"
  <2>1. OverlookedIn(e[p]) = {1}
    BY <1>11 DEF OverlookedIn, Overlooked
  <2>2. 1 .. Arity[e[p]] = {1}
    BY <1>11, ArityIs
  <2> QED BY <1>9, <2>1, <2>2
<1> QED BY <1>5, <1>10, <1>11

\* The generator evaluator is only given what contains a yield it looks for.
LEMMA InGeneratorIs ==
    ASSUME NEW e, IsTree(e), NEW p \in DOMAIN e, InGenerator(e, p)
    PROVE  ContainsYield(e, p) /\ e[p] \notin {"leaf", "class"}
<1>1. p \in Seq(Nat) /\ Len(p) \in 0 .. Len(p)
  BY PlaceIs
<1>2. SubSeq(p, 1, Len(p)) = p
  BY <1>1, SubSeqFull
<1> QED BY <1>1, <1>2, NotInGenerator DEF InGenerator

\* When the operands of a place have languages, so has the place, and rests for its steps.
LEMMA OrderAtIs ==
    ASSUME NEW e, IsTree(e), NEW p \in DOMAIN e, NEW g,
           \A i \in 1 .. Arity[e[p]] : g[Append(p, i)] \in Langs
    PROVE  /\ HasRests(e[p], p, OperandsIn(e, p, g), InGenerator(e, p))
           /\ OrderAt(e, p, g) \in Langs
<1> DEFINE K == OperandsIn(e, p, g)
<1>1. e[p] \in Forms /\ p \in Seq(Nat)
  BY PlaceIs
<1>2. K \in [1 .. Arity[e[p]] -> Langs]
  BY DEF OperandsIn
<1>3. InGenerator(e, p) \in BOOLEAN /\ (InGenerator(e, p) => e[p] \notin {"leaf", "class"})
  BY InGeneratorIs DEF InGenerator
<1> HIDE DEF K
<1>4. HasRests(e[p], p, K, InGenerator(e, p))
  BY <1>1, <1>2, <1>3, FormRests
<1>5. PICK R : /\ RestsFrom(R, StepsOf(e[p], InGenerator(e, p)), 1, K, p)
               /\ R[1] = OrderOf(e[p], p, K, InGenerator(e, p), Departures)
  BY <1>4 DEF HasRests
<1>6. R[1] \in Langs
  <2>1. Len(StepsOf(e[p], InGenerator(e, p))) \in Nat
    BY <1>4 DEF HasRests, StepsFit
  <2> QED BY <1>5, <2>1 DEF RestsFrom
<1> QED BY <1>4, <1>5, <1>6 DEF OrderAt, K

\* The operands of the places of A are in A, and g says what each place of A may do.
SolvedOn(e, A, g) ==
    /\ \A p \in A : \A i \in 1 .. Arity[e[p]] : Append(p, i) \in A
    /\ g \in [A -> Langs]
    /\ \A p \in A : g[p] = OrderAt(e, p, g)

\* A place is added to those that have languages.
LEMMA OneMorePlace ==
    ASSUME NEW e, IsTree(e), NEW A \in SUBSET (DOMAIN e), NEW g, SolvedOn(e, A, g),
           NEW p \in DOMAIN e, p \notin A, \A i \in 1 .. Arity[e[p]] : Append(p, i) \in A
    PROVE  \E h : SolvedOn(e, A \cup {p}, h)
<1> DEFINE h == [q \in A \cup {p} |-> IF q = p THEN OrderAt(e, p, g) ELSE g[q]]
<1>1. \A q \in A \cup {p} : \A i \in 1 .. Arity[e[q]] : Append(q, i) \in A
  BY DEF SolvedOn
<1>2. OrderAt(e, p, g) \in Langs
  <2>1. \A i \in 1 .. Arity[e[p]] : g[Append(p, i)] \in Langs
    BY DEF SolvedOn
  <2> QED BY <2>1, OrderAtIs
<1>3. h \in [A \cup {p} -> Langs]
  BY <1>2 DEF SolvedOn
<1>4. h[p] = OrderAt(e, p, g) /\ \A q \in A : h[q] = g[q]
  OBVIOUS
<1> HIDE DEF h
<1>5. \A q \in A \cup {p} : OperandsIn(e, q, h) = OperandsIn(e, q, g)
  BY <1>1, <1>4 DEF OperandsIn
<1>6. ASSUME NEW q \in A \cup {p} PROVE h[q] = OrderAt(e, q, h)
  <2>1. OrderAt(e, q, h) = OrderAt(e, q, g)
    BY <1>5 DEF OrderAt
  <2>2. q \in A => g[q] = OrderAt(e, q, g)
    BY DEF SolvedOn
  <2> QED BY <1>4, <2>1, <2>2
<1>7. \A q \in A \cup {p} : \A i \in 1 .. Arity[e[q]] : Append(q, i) \in A \cup {p}
  BY <1>1
<1> QED BY <1>3, <1>6, <1>7 DEF SolvedOn

\* By the least set of places that is left.
LEMMA OrderExists ==
    ASSUME NEW e, IsTree(e)
    PROVE  \E g : SolvedOn(e, DOMAIN e, g)
<1> DEFINE Good == {A \in SUBSET (DOMAIN e) : \E g : SolvedOn(e, A, g)}
<1> DEFINE R == {(DOMAIN e) \ A : A \in Good}
<1>1. {} \in Good
  <2> DEFINE none == [p \in {} |-> {<<>>}]
  <2>1. none \in [{} -> Langs]
    OBVIOUS
  <2> HIDE DEF none
  <2>2. SolvedOn(e, {}, none)
    BY <2>1 DEF SolvedOn
  <2> QED BY <2>2
<1>2. R \subseteq FiniteSubsetsOf(DOMAIN e) /\ R # {}
  <2>1. FiniteSubsetsOf(DOMAIN e) = SUBSET (DOMAIN e)
    BY FS_FiniteSubsetsOfFinite DEF IsTree
  <2> HIDE DEF Good
  <2> QED BY <1>1, <2>1
<1>3. PICK X \in R : \A Y \in R : ~ (<<Y, X>> \in StrictSubsetOrdering(DOMAIN e))
  <2> HIDE DEF R
  <2> QED BY <1>2, FS_StrictSubsetOrderingWellFounded, WFMin
<1>4. PICK A \in Good : X = (DOMAIN e) \ A
  OBVIOUS
<1>5. A \in SUBSET (DOMAIN e) /\ \E g : SolvedOn(e, A, g)
  OBVIOUS
<1>6. SUFFICES ASSUME A # DOMAIN e PROVE FALSE
  BY <1>5
<1>7. PICK p \in DOMAIN e : p \notin A /\ \A i \in 1 .. Arity[e[p]] : Append(p, i) \in A
  <2>1. SUFFICES ASSUME \A p \in DOMAIN e :
                           (\A i \in 1 .. Arity[e[p]] : Append(p, i) \in A) => p \in A
                 PROVE  FALSE
    OBVIOUS
  <2>2. DOMAIN e \subseteq A
    BY <2>1, TreeInduction
  <2> QED BY <1>5, <1>6, <2>2
<1>8. A \cup {p} \in Good
  BY <1>5, <1>7, OneMorePlace
<1>9. (DOMAIN e) \ (A \cup {p}) \in R
  BY <1>8
<1>10. <<(DOMAIN e) \ (A \cup {p}), X>> \in StrictSubsetOrdering(DOMAIN e)
  BY <1>4, <1>5, <1>7 DEF StrictSubsetOrdering
<1> QED BY <1>3, <1>9, <1>10

\* The order of a tree is what its forms say of one another.
LEMMA OrderIs ==
    ASSUME NEW e, IsTree(e)
    PROVE  SolvedOn(e, DOMAIN e, Order(e, Departures))
<1>1. PICK g : SolvedOn(e, DOMAIN e, g)
  BY OrderExists
<1> DEFINE Made(f) ==
      [place \in DOMAIN e |->
         OrderOf(e[place], place, [i \in 1 .. Arity[e[place]] |-> f[Append(place, i)]],
                 InGenerator(e, place), Departures)]
<1>2. Order(e, Departures) = CHOOSE f : f = Made(f)
  BY DEF Order
<1>3. \A f : Made(f) = [p \in DOMAIN e |-> OrderAt(e, p, f)]
  BY DEF OrderAt, OperandsIn
<1>4. g = Made(g)
  <2>1. g = [p \in DOMAIN e |-> g[p]]
    BY <1>1 DEF SolvedOn
  <2>2. \A p \in DOMAIN e : g[p] = OrderAt(e, p, g)
    BY <1>1 DEF SolvedOn
  <2> QED BY <1>3, <2>1, <2>2
<1> HIDE DEF Made
<1> DEFINE f == Order(e, Departures)
<1>5. f = Made(f)
  BY <1>2, <1>4, Zenon
<1> HIDE DEF f
<1>6. f = [p \in DOMAIN e |-> OrderAt(e, p, f)]
  BY <1>3, <1>5
<1>7. \A p \in DOMAIN e : f[p] = OrderAt(e, p, f)
  BY <1>6
<1> DEFINE S == {p \in DOMAIN e : f[p] \in Langs}
<1>8. \A p \in DOMAIN e : (\A i \in 1 .. Arity[e[p]] : Append(p, i) \in S) => p \in S
  <2>1. SUFFICES ASSUME NEW p \in DOMAIN e, \A i \in 1 .. Arity[e[p]] : Append(p, i) \in S
                 PROVE  f[p] \in Langs
    OBVIOUS
  <2>2. OrderAt(e, p, f) \in Langs
    BY <2>1, OrderAtIs
  <2> QED BY <1>7, <2>2
<1>9. DOMAIN e \subseteq S
  BY <1>8, TreeInduction
<1>10. f \in [DOMAIN e -> Langs]
  <2>1. \A p \in DOMAIN e : f[p] \in Langs
    BY <1>9
  <2> QED BY <1>6, <2>1
<1>11. \A p \in DOMAIN e : \A i \in 1 .. Arity[e[p]] : Append(p, i) \in DOMAIN e
  BY PlaceIs
<1>12. SolvedOn(e, DOMAIN e, f)
  BY <1>7, <1>10, <1>11 DEF SolvedOn
<1> QED BY <1>12 DEF f

-----------------------------------------------------------------------------
(* The frames of an evaluation, and what all of them have left to do.       *)

\* What may follow from each step of the form at a place on.
RestOf(e, p) ==
    CHOOSE R : /\ RestsFrom(R, StepsOf(e[p], InGenerator(e, p)), 1,
                            OperandsIn(e, p, Order(e, Departures)), p)
               /\ R[1] = Order(e, Departures)[p]

\* There are such rests.
LEMMA RestOfIs ==
    ASSUME NEW e, IsTree(e), NEW p \in DOMAIN e
    PROVE  LET s == StepsOf(e[p], InGenerator(e, p))
               K == OperandsIn(e, p, Order(e, Departures))
           IN  /\ StepsFit(s, K)
               /\ RestsFrom(RestOf(e, p), s, 1, K, p)
               /\ RestOf(e, p)[1] = Order(e, Departures)[p]
<1> DEFINE O == Order(e, Departures)
<1>1. SolvedOn(e, DOMAIN e, O)
  BY OrderIs
<1> HIDE DEF O
<1>2. \A i \in 1 .. Arity[e[p]] : O[Append(p, i)] \in Langs
  BY <1>1 DEF SolvedOn
<1>3. HasRests(e[p], p, OperandsIn(e, p, O), InGenerator(e, p))
  BY <1>2, OrderAtIs
<1>4. O[p] = OrderOf(e[p], p, OperandsIn(e, p, O), InGenerator(e, p), Departures)
  BY <1>1 DEF SolvedOn, OrderAt
<1>5. /\ StepsFit(StepsOf(e[p], InGenerator(e, p)), OperandsIn(e, p, O))
      /\ \E R : /\ RestsFrom(R, StepsOf(e[p], InGenerator(e, p)), 1, OperandsIn(e, p, O), p)
                /\ R[1] = O[p]
  BY <1>3, <1>4 DEF HasRests
<1>6. /\ RestsFrom(RestOf(e, p), StepsOf(e[p], InGenerator(e, p)), 1, OperandsIn(e, p, O), p)
      /\ RestOf(e, p)[1] = O[p]
  BY <1>5, Zenon DEF RestOf, O
<1> QED BY <1>5, <1>6 DEF O

\* The steps of the form at a place.
StepsAt(e, p) == StepsOf(e[p], InGenerator(e, p))

\* Nothing follows the last step; the first is followed by the whole order of the place.
LEMMA RestEnds ==
    ASSUME NEW e, IsTree(e), NEW p \in DOMAIN e
    PROVE  /\ Len(StepsAt(e, p)) \in Nat
           /\ RestOf(e, p)[Len(StepsAt(e, p)) + 1] = Nothing
           /\ \A k \in 1 .. Len(StepsAt(e, p)) + 1 : RestOf(e, p)[k] \in Langs
           /\ RestOf(e, p)[1] = Order(e, Departures)[p]
<1> DEFINE s == StepsAt(e, p)
<1> DEFINE K == OperandsIn(e, p, Order(e, Departures))
<1>1. StepsFit(s, K) /\ RestsFrom(RestOf(e, p), s, 1, K, p)
      /\ RestOf(e, p)[1] = Order(e, Departures)[p]
  BY RestOfIs DEF StepsAt
<1> HIDE DEF s, K
<1>2. Len(s) \in Nat
  BY <1>1 DEF StepsFit
<1>3. RestOf(e, p)[Len(s) + 1] = Nothing /\ RestOf(e, p) \in [1 .. Len(s) + 1 -> Langs]
  BY <1>1 DEF RestsFrom
<1> QED BY <1>1, <1>2, <1>3 DEF s

\* What may follow from one step on, given what may follow from the next.
LEMMA RestBefore ==
    ASSUME NEW e, IsTree(e), NEW p \in DOMAIN e, NEW k \in 1 .. Len(StepsAt(e, p))
    PROVE  LET x == StepsAt(e, p)[k]
               R == RestOf(e, p)
               O == Order(e, Departures)
           IN  /\ x \in DOMAIN Position =>
                    /\ Position[x] \in 1 .. Arity[e[p]]
                    /\ R[k] = O[Append(p, Position[x])] ** R[k + 1]
               /\ x \in Operations \cup {"yield"} => R[k] = Does(x, p) ** R[k + 1]
               /\ x \in {"short", "nullish"} => R[k] = Perhaps(R[k + 1])
               /\ x = "branch" => /\ {2, 3} \subseteq 1 .. Arity[e[p]]
                                  /\ R[k] = Either(O[Append(p, 2)], O[Append(p, 3)]) ** R[k + 1]
               /\ x = "default" => /\ k + 2 \in 1 .. Len(StepsAt(e, p)) + 1
                                   /\ R[k] = Either(R[k + 1], R[k + 2])
               /\ x = "delegate" => R[k] = R[k + 1]
<1> DEFINE s == StepsAt(e, p)
<1> DEFINE R == RestOf(e, p)
<1> DEFINE O == Order(e, Departures)
<1> DEFINE K == OperandsIn(e, p, O)
<1> DEFINE x == s[k]
<1>1. StepsFit(s, K) /\ RestsFrom(R, s, 1, K, p)
  BY RestOfIs DEF StepsAt
<1>2. DOMAIN K = 1 .. Arity[e[p]] /\ \A i \in 1 .. Arity[e[p]] : K[i] = O[Append(p, i)]
  BY DEF OperandsIn
<1> HIDE DEF s, K, R, O
<1>3. k \in 1 .. Len(s) /\ Len(s) \in Nat
  BY <1>1 DEF StepsFit, s
<1>4. /\ x \in DOMAIN Position => Position[x] \in DOMAIN K
      /\ x = "branch" => {2, 3} \subseteq DOMAIN K
      /\ x = "default" => k < Len(s)
  BY <1>1, <1>3 DEF StepsFit
<1>5. R[k] = IF x = "default" THEN Either(R[k + 1], R[k + 2]) ELSE Before(x, K, p, R[k + 1])
  BY <1>1, <1>3 DEF RestsFrom
<1> HIDE DEF x
<1>6. x \in DOMAIN Position =>
        /\ Position[x] \in 1 .. Arity[e[p]]
        /\ R[k] = O[Append(p, Position[x])] ** R[k + 1]
  <2>1. SUFFICES ASSUME x \in DOMAIN Position
                 PROVE  /\ Position[x] \in 1 .. Arity[e[p]]
                        /\ R[k] = O[Append(p, Position[x])] ** R[k + 1]
    OBVIOUS
  <2>2. R[k] = Before(x, K, p, R[k + 1])
    BY <1>5, <2>1, StepKinds
  <2>3. Before(x, K, p, R[k + 1]) = K[Position[x]] ** R[k + 1]
    BY <2>1, OperandBefore
  <2> QED BY <1>2, <1>4, <2>1, <2>2, <2>3
<1>7. x \in Operations \cup {"yield"} => R[k] = Does(x, p) ** R[k + 1]
  BY <1>5, StepKinds, OperationBefore
<1>8. x \in {"short", "nullish"} => R[k] = Perhaps(R[k + 1])
  BY <1>5, OtherBefore
<1>9. x = "branch" => /\ {2, 3} \subseteq 1 .. Arity[e[p]]
                      /\ R[k] = Either(O[Append(p, 2)], O[Append(p, 3)]) ** R[k + 1]
  <2>1. SUFFICES ASSUME x = "branch"
                 PROVE  /\ {2, 3} \subseteq 1 .. Arity[e[p]]
                        /\ R[k] = Either(O[Append(p, 2)], O[Append(p, 3)]) ** R[k + 1]
    OBVIOUS
  <2>2. {2, 3} \subseteq 1 .. Arity[e[p]]
    BY <1>2, <1>4, <2>1
  <2>3. K[2] = O[Append(p, 2)] /\ K[3] = O[Append(p, 3)]
    BY <1>2, <2>2
  <2>4. R[k] = Before("branch", K, p, R[k + 1])
    BY <1>5, <2>1
  <2>5. R[k] = Either(K[2], K[3]) ** R[k + 1]
    BY <2>4, OtherBefore
  <2> QED BY <2>2, <2>3, <2>5
<1>10. x = "default" => /\ k + 2 \in 1 .. Len(s) + 1
                        /\ R[k] = Either(R[k + 1], R[k + 2])
  BY <1>3, <1>4, <1>5
<1>11. x = "delegate" => R[k] = R[k + 1]
  BY <1>5, OtherBefore
<1> QED BY <1>6, <1>7, <1>8, <1>9, <1>10, <1>11 DEF x, s, R, O

FrameSort == [place : Seq(Nat), step : Nat, gen : BOOLEAN]

\* The frames are an expression, one of its operands, one of that one's and so on.
FramesFit(e, ps) ==
    /\ ps \in Seq(FrameSort)
    /\ \A i \in 1 .. Len(ps) :
         /\ ps[i].place \in DOMAIN e /\ Len(ps[i].place) = i - 1
         /\ ps[i].gen = InGenerator(e, ps[i].place)
         /\ ps[i].step \in 1 .. Len(StepsAt(e, ps[i].place)) + 1
         /\ \A j \in 1 .. i : ps[j].place = SubSeq(ps[i].place, 1, j - 1)

\* Z[i] is what may follow when all frames from the i-th on are done.
Follows(e, ps, Z) ==
    /\ Z \in [1 .. Len(ps) + 1 -> Langs]
    /\ Z[1] = Nothing
    /\ \A i \in 1 .. Len(ps) : Z[i + 1] = RestOf(e, ps[i].place)[ps[i].step] ** Z[i]

\* The trace, followed by whatever may follow, is a trace of the program.
Tracked(e, ps, tr) ==
    \E Z : /\ Follows(e, ps, Z)
           /\ \A z \in Z[Len(ps) + 1] : tr \o z \in Order(e, Departures)[<<>>]

\* A frame that goes on: another step, and no other frame changes.
LEMMA FramesMove ==
    ASSUME NEW e, IsTree(e), NEW ps, FramesFit(e, ps), NEW n, n = Len(ps), n > 0,
           NEW k \in 1 .. Len(StepsAt(e, ps[n].place)) + 1,
           NEW qs, qs = [ps EXCEPT ![n].step = k]
    PROVE  /\ FramesFit(e, qs) /\ Len(qs) = n /\ qs[n].place = ps[n].place
           /\ qs[n].gen = ps[n].gen /\ qs[n].step = k
           /\ \A i \in 1 .. n - 1 : qs[i] = ps[i]
<1>1. ps \in Seq(FrameSort) /\ n \in Nat /\ n \in 1 .. n
  BY DEF FramesFit
<1>2. ps[n].place \in DOMAIN e /\ ps[n] \in FrameSort
  BY <1>1 DEF FramesFit
<1>3. k \in Nat
  BY <1>2, RestEnds
<1>4. qs[n] = [ps[n] EXCEPT !.step = k] /\ \A i \in 1 .. n - 1 : qs[i] = ps[i]
  BY <1>1
<1>5. Len(qs) = n /\ qs \in Seq(FrameSort)
  <2>1. [ps[n] EXCEPT !.step = k] \in FrameSort
    BY <1>2, <1>3 DEF FrameSort
  <2> QED BY <1>1, <2>1
<1>6. qs[n].place = ps[n].place /\ qs[n].gen = ps[n].gen /\ qs[n].step = k
  BY <1>2, <1>4 DEF FrameSort
<1>7. \A i \in 1 .. n : qs[i].place = ps[i].place /\ qs[i].gen = ps[i].gen
  <2>1. TAKE i \in 1 .. n
  <2>2. i = n \/ i \in 1 .. n - 1
    BY <1>1
  <2> QED BY <1>4, <1>6, <2>2
<1>8. \A i \in 1 .. n : qs[i].step \in 1 .. Len(StepsAt(e, qs[i].place)) + 1
  <2>1. TAKE i \in 1 .. n
  <2>2. CASE i = n
    BY <2>2, <1>6
  <2>3. CASE i \in 1 .. n - 1
    BY <2>3, <1>4 DEF FramesFit
  <2> QED BY <1>1, <2>2, <2>3
<1>9. FramesFit(e, qs)
  <2>1. ASSUME NEW i \in 1 .. n
        PROVE  /\ qs[i].place \in DOMAIN e /\ Len(qs[i].place) = i - 1
               /\ qs[i].gen = InGenerator(e, qs[i].place)
               /\ \A j \in 1 .. i : qs[j].place = SubSeq(qs[i].place, 1, j - 1)
    <3>1. /\ ps[i].place \in DOMAIN e /\ Len(ps[i].place) = i - 1
          /\ ps[i].gen = InGenerator(e, ps[i].place)
          /\ \A j \in 1 .. i : ps[j].place = SubSeq(ps[i].place, 1, j - 1)
      BY DEF FramesFit
    <3>2. \A j \in 1 .. i : qs[j].place = ps[j].place
      BY <1>1, <1>7
    <3> QED BY <1>7, <3>1, <3>2
  <2> QED BY <1>5, <1>8, <2>1 DEF FramesFit
<1> QED BY <1>4, <1>5, <1>6, <1>9

\* What u does and a may do after it, b may do.
LEMMA Regroup ==
    ASSUME NEW A \in Langs, NEW B, NEW C \in Langs, NEW S, NEW tr \in Traces, NEW u \in Traces,
           \A z \in B ** C : tr \o z \in S, \A a \in A : u \o a \in B
    PROVE  \A z \in A ** C : (tr \o u) \o z \in S
<1>1. SUFFICES ASSUME NEW z \in A ** C PROVE (tr \o u) \o z \in S
  OBVIOUS
<1>2. PICK a \in A, c \in C : z = a \o c
  <2>1. z \in A ** C
    OBVIOUS
  <2> QED BY ONLY <2>1, CatIn
<1>3. (u \o a) \o c \in B ** C
  BY <1>2, CatHas
<1>4. tr \o ((u \o a) \o c) \in S
  BY <1>3
<1>5. tr \in Traces /\ u \in Traces /\ a \in Traces /\ c \in Traces
  BY <1>2 DEF Langs
<1>6. a \o c \in Traces
  BY <1>5, ConcatProperties DEF Traces
<1>7. (tr \o u) \o (a \o c) = tr \o (u \o (a \o c))
  <2> DEFINE d == a \o c
  <2> HIDE DEF d
  <2>1. d \in Traces
    BY <1>6 DEF d
  <2>2. tr \in Traces /\ u \in Traces
    OBVIOUS
  <2>3. (tr \o u) \o d = tr \o (u \o d)
    BY ONLY <2>1, <2>2, TracesAssociate
  <2> QED BY <2>3 DEF d
<1>8. (u \o a) \o c = u \o (a \o c)
  <2>1. u \in Traces /\ a \in Traces /\ c \in Traces
    BY <1>5
  <2> QED BY ONLY <2>1, TracesAssociate
<1> QED BY <1>2, <1>4, <1>7, <1>8

\* The innermost frame goes on to another step after doing u: the trace stays tracked.
LEMMA TopMoves ==
    ASSUME NEW e, IsTree(e), NEW ps, FramesFit(e, ps), NEW n, n = Len(ps), n > 0,
           NEW k \in 1 .. Len(StepsAt(e, ps[n].place)) + 1,
           NEW qs, qs = [ps EXCEPT ![n].step = k],
           NEW tr \in Traces, Tracked(e, ps, tr), NEW u \in Traces,
           \A r \in RestOf(e, ps[n].place)[k] : u \o r \in RestOf(e, ps[n].place)[ps[n].step]
    PROVE  FramesFit(e, qs) /\ Tracked(e, qs, tr \o u)
<1> DEFINE R == RestOf(e, ps[n].place)
<1>1. PICK Z : /\ Follows(e, ps, Z)
               /\ \A z \in Z[Len(ps) + 1] : tr \o z \in Order(e, Departures)[<<>>]
  BY DEF Tracked
<1>2. n \in Nat /\ n \in 1 .. n /\ n + 1 \in 1 .. n + 1 /\ ps[n].place \in DOMAIN e
  BY DEF FramesFit
<1>3. Z[n + 1] = R[ps[n].step] ** Z[n] /\ Z[n] \in Langs /\ Z \in [1 .. n + 1 -> Langs]
  BY <1>1, <1>2 DEF Follows
<1>4. /\ FramesFit(e, qs) /\ Len(qs) = n /\ qs[n].place = ps[n].place
      /\ qs[n].gen = ps[n].gen /\ qs[n].step = k
      /\ \A i \in 1 .. n - 1 : qs[i] = ps[i]
  <2>1. FramesFit(e, qs)
    BY FramesMove
  <2>2. Len(qs) = n /\ qs[n].place = ps[n].place
    BY FramesMove
  <2>3. qs[n].gen = ps[n].gen /\ qs[n].step = k
    BY FramesMove
  <2>4. \A i \in 1 .. n - 1 : qs[i] = ps[i]
    BY FramesMove
  <2> QED BY <2>1, <2>2, <2>3, <2>4
<1>5. R[k] \in Langs
  BY <1>2, RestEnds
<1> HIDE DEF R
<1> DEFINE Y == [i \in 1 .. n + 1 |-> IF i = n + 1 THEN R[k] ** Z[n] ELSE Z[i]]
<1>6. R[k] ** Z[n] \in Langs
  BY <1>3, <1>5, CatIs
<1>7. Y \in [1 .. n + 1 -> Langs] /\ Y[n + 1] = R[k] ** Z[n] /\ \A i \in 1 .. n : Y[i] = Z[i]
  BY <1>2, <1>3, <1>6
<1> HIDE DEF Y
<1>8. Follows(e, qs, Y)
  <2>1. ASSUME NEW i \in 1 .. n
        PROVE  Y[i + 1] = RestOf(e, qs[i].place)[qs[i].step] ** Y[i]
    <3>1. CASE i = n
      BY <3>1, <1>2, <1>4, <1>7 DEF R
    <3>2. CASE i \in 1 .. n - 1
      <4>1. i + 1 \in 1 .. n /\ qs[i] = ps[i]
        BY <3>2, <1>2, <1>4
      <4> QED BY <4>1, <1>1, <1>7 DEF Follows
    <3> QED BY <1>2, <3>1, <3>2
  <2>2. Y[1] = Nothing
    BY <1>1, <1>2, <1>7 DEF Follows
  <2> QED BY <1>4, <1>7, <2>1, <2>2 DEF Follows
<1>9. \A z \in Y[n + 1] : (tr \o u) \o z \in Order(e, Departures)[<<>>]
  <2> DEFINE A == R[k]
  <2> DEFINE B == R[ps[n].step]
  <2> DEFINE C == Z[n]
  <2> DEFINE S == Order(e, Departures)[<<>>]
  <2>1. \A a \in A : u \o a \in B
    BY DEF R
  <2>2. \A z \in B ** C : tr \o z \in S
    BY <1>1, <1>3
  <2>3. A \in Langs /\ C \in Langs
    BY <1>3, <1>5
  <2>4. Y[n + 1] = A ** C
    BY <1>7
  <2> HIDE DEF A, B, C, S
  <2>5. \A z \in A ** C : (tr \o u) \o z \in S
    BY <2>1, <2>2, <2>3, Regroup
  <2> QED BY <2>4, <2>5 DEF S
<1>10. Tracked(e, qs, tr \o u)
  BY <1>4, <1>8, <1>9 DEF Tracked
<1> QED BY <1>4, <1>10

\* The frame of an expression.
LEMMA ExpressionIs ==
    ASSUME NEW p \in Seq(Nat), NEW k \in Nat, NEW g \in BOOLEAN
    PROVE  [place |-> p, step |-> k, gen |-> g] \in FrameSort
BY DEF FrameSort

\* A sequence of one.
LEMMA Single ==
    ASSUME NEW S, NEW x \in S
    PROVE  Len(<<x>>) = 1 /\ <<x>>[1] = x /\ <<x>> \in Seq(S)
OBVIOUS

\* An operand is in the hands of the generator evaluator if its expression is and if it
\* contains a yield.
LEMMA InGeneratorBelow ==
    ASSUME NEW e, IsTree(e), NEW p \in DOMAIN e, NEW i \in 1 .. Arity[e[p]]
    PROVE  InGenerator(e, Append(p, i))
             <=> InGenerator(e, p) /\ ContainsYield(e, Append(p, i))
<1> DEFINE q == Append(p, i)
<1>1. p \in Seq(Nat) /\ Len(p) \in Nat /\ i \in Nat
  <2>1. Arity[e[p]] \in Nat
    BY PlaceIs, ArityIsNat
  <2> QED BY <2>1, PlaceIs
<1>2. q \in Seq(Nat) /\ Len(q) = Len(p) + 1
  BY <1>1
<1>3. SubSeq(q, 1, Len(q)) = q
  BY <1>2, SubSeqFull
<1>4. \A n \in 0 .. Len(p) : SubSeq(q, 1, n) = SubSeq(p, 1, n)
  <2>1. TAKE n \in 0 .. Len(p)
  <2>2. \A j \in 1 .. n : q[j] = p[j]
    BY <1>1
  <2> QED BY <1>1, <1>2, <2>2
<1>5. 0 .. Len(q) = 0 .. Len(p) \cup {Len(q)}
  BY <1>1, <1>2
<1> HIDE DEF q
<1>6. InGenerator(e, q) <=> (\A n \in 0 .. Len(p) : ContainsYield(e, SubSeq(q, 1, n)))
                            /\ ContainsYield(e, q)
  BY <1>3, <1>5 DEF InGenerator
<1>7. InGenerator(e, q) <=> InGenerator(e, p) /\ ContainsYield(e, q)
  BY <1>4, <1>6 DEF InGenerator
<1> QED BY <1>7 DEF q

\* The frame of an operand on top of those of the expression that it is part of.
LEMMA FramesPush ==
    ASSUME NEW e, IsTree(e), NEW ps, FramesFit(e, ps), NEW n, n = Len(ps), n > 0,
           NEW i \in 1 .. Arity[e[ps[n].place]], NEW f,
           f = Expression(e, Append(ps[n].place, i), ps[n].gen), NEW qs, qs = Append(ps, f)
    PROVE  /\ FramesFit(e, qs) /\ Len(qs) = n + 1 /\ qs[n + 1] = f
           /\ f.place = Append(ps[n].place, i) /\ f.place \in DOMAIN e /\ f.step = 1
           /\ \A j \in 1 .. n : qs[j] = ps[j]
<1> DEFINE p == ps[n].place
<1>1. ps \in Seq(FrameSort) /\ n \in Nat /\ n \in 1 .. n
  BY DEF FramesFit
<1>2. p \in DOMAIN e /\ Len(p) = n - 1 /\ ps[n].gen = InGenerator(e, p)
      /\ \A j \in 1 .. n : ps[j].place = SubSeq(p, 1, j - 1)
  BY <1>1 DEF FramesFit
<1>3. p \in Seq(Nat) /\ Append(p, i) \in DOMAIN e /\ Append(p, i) \in Seq(Nat)
  BY <1>2, PlaceIs
<1> HIDE DEF p
<1>4. f.place = Append(p, i) /\ f.step = 1
      /\ f.gen = (ps[n].gen /\ ContainsYield(e, Append(p, i)))
  BY DEF Expression, p
<1>5. f.gen = InGenerator(e, f.place)
  <2>1. InGenerator(e, Append(p, i)) <=> InGenerator(e, p) /\ ContainsYield(e, Append(p, i))
    BY <1>2, InGeneratorBelow DEF p
  <2>2. InGenerator(e, Append(p, i)) \in BOOLEAN
    BY DEF InGenerator
  <2> QED BY <1>2, <1>4, <2>1, <2>2
<1>6. f \in FrameSort
  <2>1. f.gen \in BOOLEAN
    BY <1>5 DEF InGenerator
  <2>2. f = [place |-> Append(p, i), step |-> 1, gen |-> f.gen]
    BY <1>4 DEF Expression, p
  <2>3. [place |-> Append(p, i), step |-> 1, gen |-> f.gen] \in FrameSort
    BY <1>3, <2>1, ExpressionIs
  <2> QED BY <2>2, <2>3
<1>7. qs \in Seq(FrameSort) /\ Len(qs) = n + 1 /\ qs[n + 1] = f
      /\ \A j \in 1 .. n : qs[j] = ps[j]
  BY <1>1, <1>6
<1>8. \A j \in 1 .. n : qs[j].place = SubSeq(f.place, 1, j - 1)
  <2>1. TAKE j \in 1 .. n
  <2>2. SubSeq(Append(p, i), 1, j - 1) = SubSeq(p, 1, j - 1)
    <3>1. i \in Nat
      <4>1. Arity[e[p]] \in Nat
        BY <1>2, PlaceIs, ArityIsNat
      <4> QED BY <4>1 DEF p
    <3>2. \A m \in 1 .. j - 1 : Append(p, i)[m] = p[m]
      BY <1>1, <1>2, <1>3
    <3>3. j - 1 \in 0 .. Len(p)
      BY <1>1, <1>2
    <3> QED BY <1>3, <3>2, <3>3
  <2> QED BY <1>2, <1>4, <1>7, <2>2
<1>9. SubSeq(f.place, 1, (n + 1) - 1) = f.place /\ Len(f.place) = (n + 1) - 1
  <2>1. Len(Append(p, i)) = n
    BY <1>1, <1>2, <1>3
  <2>2. SubSeq(Append(p, i), 1, Len(Append(p, i))) = Append(p, i)
    BY <1>3, SubSeqFull
  <2>3. (n + 1) - 1 = n
    BY <1>1
  <2> QED BY <1>4, <2>1, <2>2, <2>3
<1>10. f.step \in 1 .. Len(StepsAt(e, f.place)) + 1
  BY <1>3, <1>4, RestEnds
<1>11. ASSUME NEW j \in 1 .. Len(qs)
       PROVE  /\ qs[j].place \in DOMAIN e /\ Len(qs[j].place) = j - 1
              /\ qs[j].gen = InGenerator(e, qs[j].place)
              /\ qs[j].step \in 1 .. Len(StepsAt(e, qs[j].place)) + 1
              /\ \A m \in 1 .. j : qs[m].place = SubSeq(qs[j].place, 1, m - 1)
  <2>1. CASE j \in 1 .. n
    <3>1. qs[j] = ps[j] /\ \A m \in 1 .. j : qs[m] = ps[m]
      BY <2>1, <1>1, <1>7
    <3> QED BY <2>1, <3>1 DEF FramesFit
  <2>2. CASE j = n + 1
    <3>1. \A m \in 1 .. n + 1 : m \in 1 .. n \/ m = n + 1
      BY <1>1
    <3>2. \A m \in 1 .. n + 1 : qs[m].place = SubSeq(f.place, 1, m - 1)
      BY <3>1, <1>7, <1>8, <1>9
    <3>3. qs[j] = f
      BY <2>2, <1>7
    <3>4. f.place \in DOMAIN e
      BY <1>3, <1>4
    <3>5. Len(f.place) = j - 1
      BY <2>2, <1>9
    <3>6. \A m \in 1 .. j : qs[m].place = SubSeq(f.place, 1, m - 1)
      BY <2>2, <3>2
    <3> QED BY <3>3, <3>4, <3>5, <3>6, <1>5, <1>10
  <2>3. j \in 1 .. n + 1
    BY <1>7
  <2>4. j \in 1 .. n \/ j = n + 1
    BY ONLY <1>1, <2>3
  <2> QED BY <2>1, <2>2, <2>4
<1>12. FramesFit(e, qs)
  BY ONLY <1>7, <1>11 DEF FramesFit
<1> QED BY <1>3, <1>4, <1>7, <1>12 DEF p

\* An operand of the innermost frame begins, and that one is a step further.
Nested(e, ps, n, i) ==
    Append([ps EXCEPT ![n].step = ps[n].step + 1],
           Expression(e, Append(ps[n].place, i), ps[n].gen))

Nests(e, ps, n, i, qs) ==
    /\ FramesFit(e, qs) /\ Len(qs) = n + 1
    /\ qs[n + 1].place = Append(ps[n].place, i) /\ qs[n + 1].step = 1
    /\ qs[n].place = ps[n].place /\ qs[n].step = ps[n].step + 1
    /\ \A j \in 1 .. n - 1 : qs[j] = ps[j]

LEMMA FramesNest ==
    ASSUME NEW e, IsTree(e), NEW ps, FramesFit(e, ps), NEW n, n = Len(ps), n > 0,
           ps[n].step <= Len(StepsAt(e, ps[n].place)),
           NEW i \in 1 .. Arity[e[ps[n].place]], NEW qs, qs = Nested(e, ps, n, i)
    PROVE  Nests(e, ps, n, i, qs)
<1> DEFINE ms == [ps EXCEPT ![n].step = ps[n].step + 1]
<1> DEFINE f == Expression(e, Append(ps[n].place, i), ps[n].gen)
<1>1. qs = Append(ms, f)
  BY DEF Nested
<1>2. n \in Nat /\ n \in 1 .. n /\ ps[n].place \in DOMAIN e
      /\ ps[n].step \in 1 .. Len(StepsAt(e, ps[n].place)) + 1
  BY DEF FramesFit
<1>3. ps[n].step + 1 \in 1 .. Len(StepsAt(e, ps[n].place)) + 1
  BY <1>2, RestEnds
<1>4. FramesFit(e, ms)
  BY <1>3, FramesMove
<1>5. Len(ms) = n /\ ms[n].place = ps[n].place
  BY <1>3, FramesMove
<1>6. ms[n].gen = ps[n].gen /\ ms[n].step = ps[n].step + 1
  BY <1>3, FramesMove
<1>7. \A j \in 1 .. n - 1 : ms[j] = ps[j]
  BY <1>3, FramesMove
<1>8. f.place = Append(ps[n].place, i) /\ f.step = 1
  BY DEF Expression
<1> HIDE DEF ms
<1>9. n = Len(ms) /\ i \in 1 .. Arity[e[ms[n].place]]
      /\ f = Expression(e, Append(ms[n].place, i), ms[n].gen)
  BY <1>5, <1>6
<1>10. FramesFit(e, qs)
  <2>1. IsTree(e) /\ n > 0 /\ qs = Append(ms, f)
    BY <1>1
  <2> QED BY ONLY <2>1, <1>4, <1>9, FramesPush
<1>11. Len(qs) = n + 1 /\ qs[n + 1] = f
  BY <1>1, <1>4, <1>9, FramesPush
<1>12. \A j \in 1 .. n : qs[j] = ms[j]
  BY <1>1, <1>4, <1>9, FramesPush
<1> HIDE DEF f
<1> QED BY <1>2, <1>5, <1>6, <1>7, <1>10, <1>11, <1>8, <1>12 DEF Nests

\* What the operand and then the rest of its expression may do, the expression may do.
LEMMA TracksPush ==
    ASSUME NEW e, IsTree(e), NEW ps, FramesFit(e, ps), NEW n, n = Len(ps), n > 0,
           NEW p, p = ps[n].place, NEW k, k = ps[n].step, k <= Len(StepsAt(e, p)),
           NEW i \in 1 .. Arity[e[p]],
           \A z \in Order(e, Departures)[Append(p, i)] ** RestOf(e, p)[k + 1] :
               z \in RestOf(e, p)[k],
           NEW qs, FramesFit(e, qs), Len(qs) = n + 1,
           qs[n + 1].place = Append(p, i), qs[n + 1].step = 1,
           qs[n].place = p, qs[n].step = k + 1, \A j \in 1 .. n - 1 : qs[j] = ps[j],
           NEW tr \in Traces, Tracked(e, ps, tr)
    PROVE  Tracked(e, qs, tr)
<1> DEFINE C == Order(e, Departures)[Append(p, i)]
<1> DEFINE A == RestOf(e, p)[k + 1]
<1> DEFINE B == RestOf(e, p)[k]
<1>1. PICK Z : /\ Follows(e, ps, Z)
               /\ \A z \in Z[Len(ps) + 1] : tr \o z \in Order(e, Departures)[<<>>]
  BY DEF Tracked
<1>2. n \in Nat /\ n \in 1 .. n /\ p \in DOMAIN e /\ k \in 1 .. Len(StepsAt(e, p)) + 1
      /\ Append(p, i) \in DOMAIN e
  <2>1. n \in Nat /\ n \in 1 .. n
    BY DEF FramesFit
  <2>2. p \in DOMAIN e /\ k \in 1 .. Len(StepsAt(e, p)) + 1
    BY <2>1 DEF FramesFit
  <2> QED BY <2>1, <2>2, PlaceIs
<1>3. k \in 1 .. Len(StepsAt(e, p)) /\ k + 1 \in 1 .. Len(StepsAt(e, p)) + 1
  BY <1>2, RestEnds
<1>4. A \in Langs /\ B \in Langs /\ C \in Langs
  <2>1. A \in Langs /\ B \in Langs
    BY <1>2, <1>3, RestEnds
  <2>2. C \in Langs
    BY <1>2, OrderIs DEF SolvedOn
  <2> QED BY <2>1, <2>2
<1>5. Z[n + 1] = B ** Z[n] /\ Z[n] \in Langs /\ Z \in [1 .. n + 1 -> Langs]
  BY <1>1, <1>2 DEF Follows
<1>6. RestOf(e, Append(p, i))[1] = C
  BY <1>2, RestEnds
<1>7. \A z \in C ** A : z \in B
  OBVIOUS
<1> DEFINE D == Z[n]
<1> DEFINE S == Order(e, Departures)[<<>>]
<1> HIDE DEF A, B, C, D, S
<1>8. A ** D \in Langs /\ C ** (A ** D) \in Langs
  <2>1. A ** D \in Langs
    BY <1>4, <1>5, CatIs DEF D
  <2> QED BY <1>4, <2>1, CatIs
<1> DEFINE Y == [j \in 1 .. n + 2 |-> IF j = n + 2 THEN C ** (A ** D)
                                    ELSE IF j = n + 1 THEN A ** D ELSE Z[j]]
<1>9. Y \in [1 .. n + 2 -> Langs] /\ Y[n + 2] = C ** (A ** D) /\ Y[n + 1] = A ** D
       /\ \A j \in 1 .. n : Y[j] = Z[j]
  BY <1>2, <1>5, <1>8
<1> HIDE DEF Y
<1>10. Follows(e, qs, Y)
  <2>1. ASSUME NEW j \in 1 .. n + 1
        PROVE  Y[j + 1] = RestOf(e, qs[j].place)[qs[j].step] ** Y[j]
    <3>1. CASE j = n + 1
      <4>1. RestOf(e, qs[j].place)[qs[j].step] = C
        BY <3>1, <1>6
      <4>2. j + 1 = n + 2
        BY <3>1, <1>2
      <4> QED BY <3>1, <4>1, <4>2, <1>9
    <3>2. CASE j = n
      <4>1. RestOf(e, qs[j].place)[qs[j].step] = A
        BY <3>2, <1>2 DEF A
      <4> QED BY <3>2, <4>1, <1>2, <1>9 DEF D
    <3>3. CASE j \in 1 .. n - 1
      <4>1. j + 1 \in 1 .. n /\ j \in 1 .. n /\ qs[j] = ps[j]
        BY <3>3, <1>2
      <4> QED BY <4>1, <1>1, <1>9 DEF Follows
    <3> QED BY <1>2, <3>1, <3>2, <3>3
  <2>2. Y[1] = Nothing
    <3>1. 1 \in 1 .. n
      BY <1>2
    <3>2. Z[1] = Nothing
      BY <1>1 DEF Follows
    <3> QED BY <3>1, <3>2, <1>9
  <2>3. Len(qs) + 1 = n + 2
    BY <1>2
  <2> QED BY <1>9, <2>1, <2>2, <2>3 DEF Follows
<1>11. \A z \in Y[n + 2] : tr \o z \in S
  <2>1. C ** (A ** D) = (C ** A) ** D
    BY <1>4, <1>5, CatAssociates DEF D
  <2>2. \A z \in B ** D : tr \o z \in S
    BY <1>1, <1>5 DEF D, S
  <2>3. \A z \in (C ** A) ** D : z \in B ** D
    <3>1. TAKE z \in (C ** A) ** D
    <3>2. PICK a \in C ** A, d \in D : z = a \o d
      BY ONLY <3>1, CatIn
    <3> QED BY <1>7, <3>2, CatHas
  <2> QED BY <1>9, <2>1, <2>2, <2>3
<1>12. Len(qs) + 1 = n + 2
  BY <1>2
<1> QED BY <1>10, <1>11, <1>12 DEF Tracked, S

\* The innermost frame is done.
LEMMA TracksPop ==
    ASSUME NEW e, IsTree(e), NEW ps, FramesFit(e, ps), NEW n, n = Len(ps), n > 0,
           ps[n].step = Len(StepsAt(e, ps[n].place)) + 1,
           NEW tr \in Traces, Tracked(e, ps, tr)
    PROVE  /\ FramesFit(e, Front(ps)) /\ Len(Front(ps)) = n - 1
           /\ Tracked(e, Front(ps), tr)
<1> DEFINE qs == Front(ps)
<1>1. PICK Z : /\ Follows(e, ps, Z)
               /\ \A z \in Z[Len(ps) + 1] : tr \o z \in Order(e, Departures)[<<>>]
  BY DEF Tracked
<1>2. n \in Nat /\ n \in 1 .. n /\ ps[n].place \in DOMAIN e /\ ps \in Seq(FrameSort)
  BY DEF FramesFit
<1>3. qs \in Seq(FrameSort) /\ Len(qs) = n - 1 /\ \A j \in 1 .. n - 1 : qs[j] = ps[j]
  BY <1>2 DEF Front
<1> HIDE DEF qs
<1>4. FramesFit(e, qs)
  <2>1. ASSUME NEW j \in 1 .. n - 1
        PROVE  /\ qs[j].place \in DOMAIN e /\ Len(qs[j].place) = j - 1
               /\ qs[j].gen = InGenerator(e, qs[j].place)
               /\ qs[j].step \in 1 .. Len(StepsAt(e, qs[j].place)) + 1
               /\ \A m \in 1 .. j : qs[m].place = SubSeq(qs[j].place, 1, m - 1)
    <3>1. j \in 1 .. n /\ qs[j] = ps[j] /\ \A m \in 1 .. j : qs[m] = ps[m]
      BY <1>2, <1>3
    <3> QED BY <3>1 DEF FramesFit
  <2> QED BY <1>3, <2>1 DEF FramesFit
<1>5. Z[n + 1] = Z[n] /\ Z \in [1 .. n + 1 -> Langs]
  <2>1. Z[n + 1] = RestOf(e, ps[n].place)[ps[n].step] ** Z[n] /\ Z[n] \in Langs
        /\ Z \in [1 .. n + 1 -> Langs]
    BY <1>1, <1>2 DEF Follows
  <2>2. RestOf(e, ps[n].place)[ps[n].step] = Nothing
    BY <1>2, RestEnds
  <2> QED BY <2>1, <2>2, CatNothing
<1> DEFINE Y == [j \in 1 .. n |-> Z[j]]
<1>6. Y \in [1 .. n -> Langs] /\ \A j \in 1 .. n : Y[j] = Z[j]
  BY <1>2, <1>5
<1> HIDE DEF Y
<1>7. Follows(e, qs, Y)
  <2>1. ASSUME NEW j \in 1 .. n - 1
        PROVE  Y[j + 1] = RestOf(e, qs[j].place)[qs[j].step] ** Y[j]
    <3>1. j + 1 \in 1 .. n /\ j \in 1 .. n /\ qs[j] = ps[j]
      BY <1>2, <1>3
    <3> QED BY <3>1, <1>1, <1>6 DEF Follows
  <2>2. Y[1] = Nothing
    BY <1>1, <1>2, <1>6 DEF Follows
  <2>3. Len(qs) + 1 = n
    BY <1>2, <1>3
  <2> QED BY <1>3, <1>6, <2>1, <2>2, <2>3 DEF Follows
<1>8. Tracked(e, qs, tr)
  <2>1. Len(qs) + 1 = n
    BY <1>2, <1>3
  <2>2. \A z \in Y[n] : tr \o z \in Order(e, Departures)[<<>>]
    BY <1>1, <1>2, <1>5, <1>6
  <2> QED BY <1>7, <2>1, <2>2 DEF Tracked
<1> QED BY <1>3, <1>4, <1>8 DEF qs

\* The evaluation of a program begins.
LEMMA TracksBegin ==
    ASSUME NEW e, IsTree(e), NEW f, f = Expression(e, <<>>, TRUE)
    PROVE  FramesFit(e, <<f>>) /\ Tracked(e, <<f>>, <<>>)
<1> DEFINE qs == <<f>>
<1> DEFINE S == Order(e, Departures)[<<>>]
<1>1. <<>> \in DOMAIN e /\ <<>> \in Seq(Nat)
  BY DEF IsTree
<1>2. f.place = <<>> /\ f.step = 1 /\ f.gen = ContainsYield(e, <<>>)
  BY DEF Expression, ContainsYield
<1>3. f.gen = InGenerator(e, <<>>) /\ f.gen \in BOOLEAN
  <2>1. 0 .. Len(<<>>) = {0} /\ SubSeq(<<>>, 1, 0) = <<>>
    OBVIOUS
  <2> QED BY <1>2, <2>1 DEF InGenerator, ContainsYield
<1>4. f \in FrameSort
  BY <1>1, <1>3 DEF Expression, FrameSort
<1>5. qs \in Seq(FrameSort) /\ Len(qs) = 1 /\ qs[1] = f
  BY ONLY <1>4, Single
<1> HIDE DEF qs
<1>6. RestOf(e, <<>>)[1] = S /\ 1 \in 1 .. Len(StepsAt(e, <<>>)) + 1 /\ S \in Langs
  <2>1. RestOf(e, <<>>)[1] = S /\ Len(StepsAt(e, <<>>)) \in Nat
    BY <1>1, RestEnds
  <2>2. 1 \in 1 .. Len(StepsAt(e, <<>>)) + 1
    BY <2>1
  <2>3. S \in Langs
    BY <1>1, OrderIs DEF SolvedOn
  <2> QED BY <2>1, <2>2, <2>3
<1>7. FramesFit(e, qs)
  <2>1. ASSUME NEW j \in 1 .. Len(qs)
        PROVE  /\ qs[j].place \in DOMAIN e /\ Len(qs[j].place) = j - 1
               /\ qs[j].gen = InGenerator(e, qs[j].place)
               /\ qs[j].step \in 1 .. Len(StepsAt(e, qs[j].place)) + 1
               /\ \A m \in 1 .. j : qs[m].place = SubSeq(qs[j].place, 1, m - 1)
    <3>1. j = 1 /\ qs[j] = f /\ j - 1 = 0
      <4>1. j \in 1 .. 1
        BY <1>5
      <4>2. j = 1
        BY <4>1
      <4>3. qs[1] = f
        BY <1>5
      <4>4. 1 - 1 = 0
        OBVIOUS
      <4> QED BY <4>2, <4>3, <4>4
    <3>2. \A m \in 1 .. j : m = 1 /\ m - 1 = 0
      BY <3>1
    <3>3. SubSeq(<<>>, 1, 0) = <<>> /\ Len(<<>>) = 0
      OBVIOUS
    <3>4. \A m \in 1 .. j : qs[m].place = SubSeq(qs[j].place, 1, m - 1)
      BY <3>1, <3>2, <3>3, <1>2
    <3> QED BY <3>1, <3>3, <3>4, <1>1, <1>2, <1>3, <1>6
  <2> QED BY <1>5, <2>1 DEF FramesFit
<1> HIDE DEF S
<1> DEFINE Z == [j \in 1 .. 2 |-> IF j = 1 THEN Nothing ELSE S ** Nothing]
<1>8. Z[1] = Nothing /\ Z[2] = S ** Nothing /\ S ** Nothing = S /\ Z \in [1 .. 2 -> Langs]
  BY <1>6, CatNothing
<1> HIDE DEF Z
<1>9. Follows(e, qs, Z)
  <2>1. \A j \in 1 .. Len(qs) : j = 1 /\ j + 1 = 2
    BY <1>5
  <2>2. RestOf(e, qs[1].place)[qs[1].step] = S
    BY <1>2, <1>5, <1>6
  <2>3. \A j \in 1 .. Len(qs) : Z[j + 1] = RestOf(e, qs[j].place)[qs[j].step] ** Z[j]
    BY <1>8, <2>1, <2>2
  <2>4. Len(qs) + 1 = 2
    BY <1>5
  <2> QED BY <1>8, <2>3, <2>4 DEF Follows
<1>10. \A z \in Z[Len(qs) + 1] : <<>> \o z \in S
  <2>1. \A z \in S : <<>> \o z = z
    BY <1>6, ConcatEmptySeq DEF Langs, Traces
  <2>2. Len(qs) + 1 = 2
    BY <1>5
  <2> QED BY <1>8, <2>1, <2>2
<1> QED BY <1>7, <1>9, <1>10 DEF Tracked, S, qs

\* The trace is one of the program's, or begins one.
\* With no frame left the trace is one of the program.
LEMMA TracksEnd ==
    ASSUME NEW e, IsTree(e), NEW tr \in Traces, Tracked(e, <<>>, tr)
    PROVE  tr \in Order(e, Departures)[<<>>]
<1>1. PICK Z : /\ Follows(e, <<>>, Z)
               /\ \A z \in Z[Len(<<>>) + 1] : tr \o z \in Order(e, Departures)[<<>>]
  BY DEF Tracked
<1>2. Len(<<>>) + 1 = 1
  OBVIOUS
<1>3. Z[1] = {<<>>}
  BY <1>1 DEF Follows, Nothing
<1>4. tr \o <<>> \in Order(e, Departures)[<<>>]
  BY <1>1, <1>2, <1>3
<1>5. tr \o <<>> = tr
  BY ConcatEmptySeq DEF Traces
<1> QED BY <1>4, <1>5

\* Whatever has been done so far is the beginning of a trace of the program.
LEMMA TracksPrefix ==
    ASSUME NEW e, IsTree(e), NEW ps, FramesFit(e, ps), NEW tr \in Traces, Tracked(e, ps, tr)
    PROVE  \E t \in Order(e, Departures)[<<>>] : IsPrefix(tr, t)
<1>1. PICK Z : /\ Follows(e, ps, Z)
               /\ \A z \in Z[Len(ps) + 1] : tr \o z \in Order(e, Departures)[<<>>]
  BY DEF Tracked
<1>2. Z[Len(ps) + 1] \in Langs
  BY <1>1 DEF Follows, FramesFit
<1>3. PICK z \in Z[Len(ps) + 1] : z \in Seq(Events)
  BY <1>2 DEF Langs, Traces
<1>4. tr \o z \in Order(e, Departures)[<<>>]
  BY <1>1, <1>3
<1>5. IsPrefix(tr, tr \o z)
  BY <1>3 DEF Traces, IsPrefix
<1> QED BY <1>4, <1>5

-----------------------------------------------------------------------------
(* The invariant of an evaluation, and that every step keeps it.            *)

\* Where an evaluation may be: the frames are nested in the tree, and what they have left to do
\* makes one of the traces of the program out of the trace so far.
EvaluationInv ==
    /\ mode \in {"idle", "run", "suspended", "done", "abrupt"}
    /\ trace \in Traces
    /\ FramesFit(program, pending)
    /\ mode = "idle" => trace = <<>>
    /\ mode # "idle" => IsTree(program)
    /\ pending = <<>> <=> mode \in {"idle", "done", "abrupt"}
    /\ mode \in {"run", "suspended", "done"} => Tracked(program, pending, trace)
    /\ mode = "abrupt" => \E t \in Order(program, Departures)[<<>>] : IsPrefix(trace, t)

\* No expression is under evaluation.
LEMMA NoFrames ==
    ASSUME NEW e
    PROVE  FramesFit(e, <<>>)
BY DEF FramesFit

\* The innermost frame of an evaluation.
LEMMA CurrentIs ==
    ASSUME EvaluationInv, mode \in {"run", "suspended"}
    PROVE  /\ Level \in Nat /\ Level > 0 /\ Level \in 1 .. Level /\ IsTree(program)
           /\ Current = pending[Level] /\ Current.place \in DOMAIN program
           /\ Current.place \in Seq(Nat)
           /\ Current.step \in 1 .. Len(Steps(Current)) + 1
           /\ Steps(Current) = StepsAt(program, Current.place)
           /\ Len(Steps(Current)) \in Nat
<1>1. FramesFit(program, pending) /\ IsTree(program) /\ pending # <<>>
  BY DEF EvaluationInv
<1>2. pending \in Seq(FrameSort)
  BY <1>1 DEF FramesFit
<1>3. Level \in Nat /\ Level > 0 /\ Level \in 1 .. Level
  BY <1>1, <1>2, EmptySeq DEF Level
<1>4. Current = pending[Level]
  BY DEF Current, Last, Level
<1>5. /\ Current.place \in DOMAIN program
      /\ Current.gen = InGenerator(program, Current.place)
      /\ Current.step \in 1 .. Len(StepsAt(program, Current.place)) + 1
  BY <1>1, <1>3, <1>4 DEF FramesFit, Level
<1>6. Steps(Current) = StepsAt(program, Current.place)
  BY <1>5 DEF Steps, StepsAt
<1>7. Current.place \in Seq(Nat) /\ Len(Steps(Current)) \in Nat
  BY <1>1, <1>5, <1>6, PlaceIs, RestEnds
<1> QED BY <1>1, <1>3, <1>4, <1>5, <1>6, <1>7

\* The innermost frame goes on to another step, and may have done something.
LEMMA RunMoves ==
    ASSUME EvaluationInv, mode = "run", NEW k \in 1 .. Len(Steps(Current)) + 1, NEW u \in Traces,
           \A r \in RestOf(program, Current.place)[k] :
               u \o r \in RestOf(program, Current.place)[Current.step],
           pending' = GoTo(k), program' = program, trace' = trace \o u,
           mode' \in {"run", "suspended"}
    PROVE  EvaluationInv'
<1> DEFINE n == Level
<1> DEFINE qs == GoTo(k)
<1>1. /\ n > 0 /\ IsTree(program) /\ Current = pending[n] /\ n = Len(pending) /\ n \in Nat
      /\ Steps(Current) = StepsAt(program, Current.place)
  BY CurrentIs DEF Level
<1>2. FramesFit(program, pending) /\ trace \in Traces /\ Tracked(program, pending, trace)
  BY DEF EvaluationInv
<1>3. qs = [pending EXCEPT ![n].step = k]
  BY DEF GoTo
<1> HIDE DEF n, qs
<1>4. k \in 1 .. Len(StepsAt(program, pending[n].place)) + 1
  BY <1>1
<1>5. \A r \in RestOf(program, pending[n].place)[k] :
         u \o r \in RestOf(program, pending[n].place)[pending[n].step]
  BY <1>1
<1>6. FramesFit(program, qs)
  BY ONLY <1>1, <1>2, <1>3, <1>4, FramesMove
<1>7. Len(qs) = n
  BY ONLY <1>1, <1>2, <1>3, <1>4, FramesMove
<1>8. u \in Traces
  OBVIOUS
<1>9. Tracked(program, qs, trace \o u)
  BY ONLY <1>1, <1>2, <1>3, <1>4, <1>5, <1>8, TopMoves
<1>10. trace \o u \in Traces
  BY <1>2, ConcatProperties DEF Traces
<1>11. qs # <<>>
  BY <1>1, <1>7
<1> QED BY <1>1, <1>6, <1>9, <1>10, <1>11 DEF EvaluationInv, qs

\* A trace to which nothing is added.
LEMMA NothingDone ==
    /\ <<>> \in Traces
    /\ \A t \in Traces : t \o <<>> = t /\ <<>> \o t = t
BY ConcatEmptySeq DEF Traces

\* Its next step is one of its form's.
LEMMA AtStepIs ==
    ASSUME EvaluationInv, AtStep
    PROVE  LET p == Current.place
               k == Current.step
               R == RestOf(program, p)
               O == Order(program, Departures)
           IN  /\ mode = "run" /\ p \in DOMAIN program /\ k \in 1 .. Len(Steps(Current))
               /\ k + 1 \in 1 .. Len(Steps(Current)) + 1
               /\ R[k] \in Langs /\ R[k + 1] \in Langs
               /\ Step \in DOMAIN Position =>
                    /\ Position[Step] \in 1 .. Arity[program[p]]
                    /\ R[k] = O[Append(p, Position[Step])] ** R[k + 1]
               /\ Step \in Operations \cup {"yield"} => R[k] = Does(Step, p) ** R[k + 1]
               /\ Step \in {"short", "nullish"} => R[k] = Perhaps(R[k + 1])
               /\ Step = "branch" => /\ {2, 3} \subseteq 1 .. Arity[program[p]]
                                     /\ R[k]
                                          = Either(O[Append(p, 2)], O[Append(p, 3)]) ** R[k + 1]
               /\ Step = "default" => /\ k + 2 \in 1 .. Len(Steps(Current)) + 1
                                      /\ R[k] = Either(R[k + 1], R[k + 2])
               /\ Step = "delegate" => R[k] = R[k + 1]
<1> DEFINE p == Current.place
<1> DEFINE k == Current.step
<1> DEFINE s == StepsAt(program, p)
<1>1. mode = "run"
  BY DEF AtStep
<1>2. p \in DOMAIN program /\ IsTree(program) /\ Steps(Current) = s /\ Len(s) \in Nat
      /\ k \in 1 .. Len(s) + 1
  BY <1>1, CurrentIs
<1>3. k <= Len(s)
  BY <1>2 DEF AtStep
<1> HIDE DEF p, k, s
<1>4. k \in 1 .. Len(s) /\ k + 1 \in 1 .. Len(s) + 1 /\ k \in 1 .. Len(s) + 1
  BY <1>2, <1>3
<1>5. RestOf(program, p)[k] \in Langs /\ RestOf(program, p)[k + 1] \in Langs
  BY <1>2, <1>4, RestEnds DEF s
<1>6. Step = s[k]
  BY <1>2 DEF Step, k
<1>7. IsTree(program) /\ p \in DOMAIN program /\ k \in 1 .. Len(StepsAt(program, p))
      /\ Step = StepsAt(program, p)[k]
  BY <1>2, <1>4, <1>6 DEF s
<1> DEFINE R == RestOf(program, p)
<1> DEFINE O == Order(program, Departures)
<1>8. Step \in DOMAIN Position =>
        /\ Position[Step] \in 1 .. Arity[program[p]]
        /\ R[k] = O[Append(p, Position[Step])] ** R[k + 1]
  BY ONLY <1>7, RestBefore
<1>9. /\ Step \in Operations \cup {"yield"} => R[k] = Does(Step, p) ** R[k + 1]
      /\ Step \in {"short", "nullish"} => R[k] = Perhaps(R[k + 1])
      /\ Step = "delegate" => R[k] = R[k + 1]
  BY ONLY <1>7, RestBefore
<1>10. Step = "branch" => /\ {2, 3} \subseteq 1 .. Arity[program[p]]
                          /\ R[k] = Either(O[Append(p, 2)], O[Append(p, 3)]) ** R[k + 1]
  BY ONLY <1>7, RestBefore
<1>11. Step = "default" => /\ k + 2 \in 1 .. Len(s) + 1
                           /\ R[k] = Either(R[k + 1], R[k + 2])
  BY ONLY <1>7, RestBefore DEF s
<1> QED BY <1>1, <1>2, <1>4, <1>5, <1>8, <1>9, <1>10, <1>11 DEF p, k

\* An operation, or a yield that suspends.
LEMMA PerformKeeps ==
    ASSUME EvaluationInv, AtStep, Step \in Operations \cup {"yield"},
           pending' = GoTo(Current.step + 1), trace' = Performed(Step), program' = program,
           mode' \in {"run", "suspended"}
    PROVE  EvaluationInv'
<1> DEFINE p == Current.place
<1> DEFINE R == RestOf(program, p)
<1> DEFINE u == <<<<Step, p>>>>
<1>1. /\ mode = "run" /\ Current.step + 1 \in 1 .. Len(Steps(Current)) + 1
      /\ R[Current.step] = Does(Step, p) ** R[Current.step + 1]
  BY AtStepIs
<1>2. p \in Seq(Nat)
  BY <1>1, CurrentIs
<1>3. u \in Traces /\ u \in Does(Step, p)
  BY <1>2, DoesIs DEF Does, Langs
<1>4. trace' = trace \o u
  <2>1. trace \in Seq(Events) /\ <<Step, p>> \in Events
    BY <1>2 DEF EvaluationInv, Traces, Events
  <2>2. Append(trace, <<Step, p>>) = trace \o <<<<Step, p>>>>
    BY ONLY <2>1, AppendIsConcat
  <2> QED BY <2>2 DEF Performed
<1> HIDE DEF u, R
<1>5. \A r \in R[Current.step + 1] : u \o r \in R[Current.step]
  BY <1>1, <1>3, CatHas
<1> QED BY <1>1, <1>3, <1>4, <1>5, RunMoves DEF R

\* A step that does nothing visible: a short circuit, a default that is or is not needed.
LEMMA SilentlyKeeps ==
    ASSUME EvaluationInv, AtStep, NEW k \in 1 .. Len(Steps(Current)) + 1,
           RestOf(program, Current.place)[k] \subseteq RestOf(program,
             Current.place)[Current.step],
           RestOf(program, Current.place)[k] \in Langs,
           pending' = GoTo(k), UNCHANGED <<program, trace>>, mode' = "run"
    PROVE  EvaluationInv'
<1>1. mode = "run" /\ trace \in Traces
  BY DEF AtStep, EvaluationInv
<1>2. trace' = trace \o <<>> /\ <<>> \in Traces
  BY <1>1, NothingDone
<1>3. \A r \in RestOf(program, Current.place)[k] :
         <<>> \o r \in RestOf(program, Current.place)[Current.step]
  BY NothingDone DEF Langs
<1> QED BY <1>1, <1>2, <1>3, RunMoves

\* An operand begins.
LEMMA OperandKeeps ==
    ASSUME EvaluationInv, AtStep, NEW i \in 1 .. Arity[program[Current.place]],
           \A z \in Order(program, Departures)[Append(Current.place, i)]
                      ** RestOf(program, Current.place)[Current.step + 1] :
               z \in RestOf(program, Current.place)[Current.step],
           pending' = Append(GoTo(Current.step + 1), Operand(i)),
           UNCHANGED <<program, mode, trace>>
    PROVE  EvaluationInv'
<1> DEFINE n == Level
<1> DEFINE k == Current.step
<1> DEFINE p == Current.place
<1> DEFINE qs == Append(GoTo(k + 1), Operand(i))
<1>1. mode = "run" /\ k <= Len(Steps(Current))
  BY DEF AtStep
<1>2. /\ n > 0 /\ IsTree(program) /\ Current = pending[n] /\ n = Len(pending) /\ n \in Nat
      /\ Steps(Current) = StepsAt(program, p)
  BY <1>1, CurrentIs DEF Level
<1>3. FramesFit(program, pending) /\ trace \in Traces /\ Tracked(program, pending, trace)
  BY <1>1 DEF EvaluationInv
<1>4. /\ i \in 1 .. Arity[program[pending[n].place]]
      /\ pending[n].step <= Len(StepsAt(program, pending[n].place))
      /\ p = pending[n].place /\ k = pending[n].step
  BY <1>1, <1>2
<1>5. \A z \in Order(program, Departures)[Append(p, i)] ** RestOf(program, p)[k + 1] :
         z \in RestOf(program, p)[k]
  OBVIOUS
<1>6. /\ IsTree(program) /\ FramesFit(program, pending) /\ n = Len(pending) /\ n > 0
      /\ pending[n].step <= Len(StepsAt(program, pending[n].place))
      /\ i \in 1 .. Arity[program[pending[n].place]]
  BY <1>2, <1>3, <1>4
<1>7. qs = Nested(program, pending, n, i)
  BY <1>2 DEF Nested, GoTo, Operand
<1> HIDE DEF n, k, p, qs
<1>8. Nests(program, pending, n, i, qs)
  BY ONLY <1>6, <1>7, FramesNest
<1>9. FramesFit(program, qs)
  BY <1>8 DEF Nests
<1>10. Len(qs) = n + 1
  BY <1>8 DEF Nests
<1>11. qs[n + 1].place = Append(p, i) /\ qs[n + 1].step = 1
  BY <1>8, <1>4 DEF Nests
<1>12. qs[n].place = p /\ qs[n].step = k + 1
  BY <1>8, <1>4 DEF Nests
<1>13. \A j \in 1 .. n - 1 : qs[j] = pending[j]
  BY <1>8 DEF Nests
<1>14. k <= Len(StepsAt(program, p)) /\ i \in 1 .. Arity[program[p]]
  BY <1>4
<1>15. Tracked(program, qs, trace)
  BY ONLY <1>2, <1>3, <1>4, <1>5, <1>9, <1>10, <1>11, <1>12, <1>13, <1>14, TracksPush
<1>16. qs # <<>>
  BY <1>2, <1>10
<1>17. pending' = qs
  BY DEF qs, k
<1> QED BY <1>1, <1>2, <1>3, <1>9, <1>15, <1>16, <1>17 DEF EvaluationInv

\* An expression is done, and its value goes to the one it is an operand of.
LEMMA CompleteKeeps ==
    ASSUME EvaluationInv, Complete
    PROVE  EvaluationInv'
<1> DEFINE n == Level
<1> DEFINE qs == Front(pending)
<1>1. mode = "run" /\ Current.step > Len(Steps(Current)) /\ pending' = qs
      /\ mode' = (IF n = 1 THEN "done" ELSE "run") /\ program' = program /\ trace' = trace
  BY DEF Complete
<1>2. /\ n > 0 /\ IsTree(program) /\ Current = pending[n] /\ n = Len(pending) /\ n \in Nat
      /\ Steps(Current) = StepsAt(program, Current.place) /\ Len(Steps(Current)) \in Nat
      /\ Current.step \in 1 .. Len(Steps(Current)) + 1
  BY <1>1, CurrentIs DEF Level
<1>3. FramesFit(program, pending) /\ trace \in Traces /\ Tracked(program, pending, trace)
  BY <1>1 DEF EvaluationInv
<1>4. pending[n].step = Len(StepsAt(program, pending[n].place)) + 1
  BY <1>1, <1>2
<1> HIDE DEF n
<1>5. FramesFit(program, qs)
  BY ONLY <1>2, <1>3, <1>4, TracksPop
<1>6. Len(qs) = n - 1
  BY ONLY <1>2, <1>3, <1>4, TracksPop
<1>7. Tracked(program, qs, trace)
  BY ONLY <1>2, <1>3, <1>4, TracksPop
<1>8. qs = <<>> <=> n = 1
  <2>1. qs \in Seq(FrameSort)
    BY <1>5 DEF FramesFit
  <2> HIDE DEF qs
  <2> QED BY <1>2, <1>6, <2>1, EmptySeq
<1> HIDE DEF qs
<1> QED BY <1>1, <1>2, <1>3, <1>5, <1>7, <1>8 DEF EvaluationInv

\* Nothing has been evaluated at first.
LEMMA EvaluationInit ==
    ExpressionsInit => EvaluationInv
BY NoFrames DEF ExpressionsInit, EvaluationInv, Traces

\* The evaluation of a program begins.
LEMMA BeginKeeps ==
    ASSUME EvaluationInv, BeginExpression
    PROVE  EvaluationInv'
<1>1. PICK e \in Programs : program' = e /\ pending' = <<Expression(e, <<>>, TRUE)>>
  BY DEF BeginExpression
<1>2. IsTree(e)
  BY ExpressionsAssumption
<1>3. mode' = "run" /\ trace' = <<>> /\ trace \in Traces
  BY DEF BeginExpression, EvaluationInv
<1> DEFINE f == Expression(e, <<>>, TRUE)
<1>4. FramesFit(e, <<f>>) /\ Tracked(e, <<f>>, <<>>)
  BY <1>2, TracksBegin
<1>5. <<f>> # <<>>
  OBVIOUS
<1>6. trace = <<>>
  BY <1>3 DEF BeginExpression
<1> HIDE DEF f
<1>7. pending' = <<f>>
  BY <1>1 DEF f
<1> QED BY <1>1, <1>2, <1>3, <1>4, <1>5, <1>6, <1>7 DEF EvaluationInv

\* Every step of an evaluation keeps the invariant.
LEMMA EvaluationKeeps ==
    ASSUME EvaluationInv, ExpressionsNext
    PROVE  EvaluationInv'
<1> DEFINE p == Current.place
<1> DEFINE k == Current.step
<1> DEFINE R == RestOf(program, p)
<1>1. CASE BeginExpression
  BY <1>1, BeginKeeps
<1>2. CASE TakeResult
  BY <1>2, NoFrames, NothingDone DEF TakeResult, EvaluationInv
<1>3. CASE EvaluateOperand
  <2>1. /\ Position[Step] \in 1 .. Arity[program[p]]
        /\ R[k] = Order(program, Departures)[Append(p, Position[Step])] ** R[k + 1]
    BY <1>3, AtStepIs DEF EvaluateOperand
  <2>2. \A z \in Order(program, Departures)[Append(p, Position[Step])] ** R[k + 1] : z \in R[k]
    BY <2>1
  <2> QED BY <1>3, <2>1, <2>2, OperandKeeps DEF EvaluateOperand
<1>4. CASE Complete
  BY <1>4, CompleteKeeps
<1>5. CASE Perform
  <2>1. mode = "run"
    BY <1>5 DEF Perform, AtStep
  <2> QED BY <1>5, <2>1, PerformKeeps DEF Perform
<1>6. CASE Stops
  <2>1. AtStep /\ Step \in {"short", "nullish"} /\ pending' = GoTo(Past(Current))
        /\ mode' = mode /\ program' = program /\ trace' = trace
    BY <1>6 DEF Stops
  <2>2. mode = "run" /\ R[k] = Perhaps(R[k + 1])
    BY <2>1, AtStepIs
  <2>3. /\ IsTree(program) /\ p \in DOMAIN program /\ Steps(Current) = StepsAt(program, p)
        /\ Len(Steps(Current)) \in Nat
    BY <2>2, CurrentIs
  <2>4. R[Past(Current)] = Nothing
    BY <2>3, RestEnds DEF Past
  <2>5. Past(Current) \in 1 .. Len(Steps(Current)) + 1
    BY <2>3 DEF Past
  <2>6. R[Past(Current)] \subseteq R[k] /\ R[Past(Current)] \in Langs
    <3>1. Nothing \subseteq Perhaps(R[k + 1])
      BY DEF Perhaps
    <3>2. Nothing \in Langs
      BY NothingDone DEF Nothing, Langs
    <3> QED BY <2>2, <2>4, <3>1, <3>2
  <2> QED BY <2>1, <2>2, <2>5, <2>6, SilentlyKeeps
<1>7. CASE GoesOn
  <2>1. AtStep /\ Step \in {"short", "nullish", "default"} /\ pending' = GoTo(k + 1)
        /\ mode' = mode /\ program' = program /\ trace' = trace
    BY <1>7 DEF GoesOn
  <2>2. /\ mode = "run" /\ R[k + 1] \in Langs /\ k + 1 \in 1 .. Len(Steps(Current)) + 1
        /\ Step \in {"short", "nullish"} => R[k] = Perhaps(R[k + 1])
        /\ Step = "default" => R[k] = Either(R[k + 1], R[k + 2])
    BY <2>1, AtStepIs
  <2>3. R[k + 1] \subseteq R[k]
    BY <2>1, <2>2 DEF Perhaps, Either
  <2> QED BY <2>1, <2>2, <2>3, SilentlyKeeps
<1>8. CASE HasValue
  <2>1. AtStep /\ Step = "default" /\ pending' = GoTo(k + 2)
        /\ mode' = mode /\ program' = program /\ trace' = trace
    BY <1>8 DEF HasValue
  <2>2. /\ mode = "run" /\ k + 2 \in 1 .. Len(Steps(Current)) + 1
        /\ R[k] = Either(R[k + 1], R[k + 2])
    BY <2>1, AtStepIs
  <2>3. R[k + 2] \in Langs
    <3>1. /\ IsTree(program) /\ p \in DOMAIN program /\ Steps(Current) = StepsAt(program, p)
      BY <2>2, CurrentIs
    <3> QED BY <2>2, <3>1, RestEnds
  <2>4. R[k + 2] \subseteq R[k]
    BY <2>2 DEF Either
  <2> QED BY <2>1, <2>2, <2>3, <2>4, SilentlyKeeps
<1>9. CASE Branch
  <2>1. PICK i \in {2, 3} : pending' = Append(GoTo(k + 1), Operand(i))
    BY <1>9 DEF Branch
  <2>2. /\ {2, 3} \subseteq 1 .. Arity[program[p]]
        /\ R[k] = Either(Order(program, Departures)[Append(p, 2)],
                         Order(program, Departures)[Append(p, 3)]) ** R[k + 1]
    BY <1>9, AtStepIs DEF Branch
  <2>3. \A z \in Order(program, Departures)[Append(p, i)] ** R[k + 1] : z \in R[k]
    <3> DEFINE A == Order(program, Departures)[Append(p, i)]
    <3> DEFINE B == R[k + 1]
    <3> DEFINE C == Either(Order(program, Departures)[Append(p, 2)],
                           Order(program, Departures)[Append(p, 3)])
    <3>1. A \subseteq C
      BY <2>1 DEF Either
    <3>2. R[k] = C ** B
      BY <2>2
    <3> HIDE DEF A, B, C
    <3>3. ASSUME NEW z \in A ** B PROVE z \in C ** B
      <4>1. PICK a \in A, b \in B : z = a \o b
        BY ONLY <3>3, CatIn
      <4> QED BY <3>1, <4>1, CatHas
    <3> QED BY <3>2, <3>3 DEF A, B
  <2>4. i \in 1 .. Arity[program[p]]
    BY <2>2
  <2> QED BY <1>9, <2>1, <2>3, <2>4, OperandKeeps DEF Branch
<1>10. CASE SuspendAtYield
  BY <1>10, PerformKeeps DEF SuspendAtYield
<1>11. CASE Delegate
  <2>1. AtStep /\ Step = "delegate" /\ program' = program /\ trace' = trace
    BY <1>11 DEF Delegate
  <2>2. /\ mode = "run" /\ R[k] = R[k + 1] /\ R[k + 1] \in Langs
        /\ k + 1 \in 1 .. Len(Steps(Current)) + 1
    BY <2>1, AtStepIs
  <2>3. CASE mode' = "suspended" /\ UNCHANGED pending
    BY <2>1, <2>2, <2>3 DEF EvaluationInv
  <2>4. CASE pending' = GoTo(k + 1) /\ UNCHANGED mode
    BY <2>1, <2>2, <2>4, SilentlyKeeps
  <2> QED BY <1>11, <2>3, <2>4 DEF Delegate
<1>12. CASE ResumeNext
  BY <1>12 DEF ResumeNext, EvaluationInv
<1>13. CASE Abrupt
  <2>1. mode \in {"run", "suspended"}
    BY <1>13 DEF Abrupt, AtStep
  <2>2. /\ mode' = "abrupt" /\ pending' = <<>> /\ program' = program /\ trace' = trace
    BY <1>13 DEF Abrupt
  <2>3. IsTree(program) /\ trace \in Traces
    BY <2>1 DEF EvaluationInv
  <2>4. \E t \in Order(program, Departures)[<<>>] : IsPrefix(trace, t)
    BY <2>1, TracksPrefix DEF EvaluationInv
  <2> QED BY <2>2, <2>3, <2>4, NoFrames DEF EvaluationInv
<1> QED BY <1>1, <1>2, <1>3, <1>4, <1>5, <1>6, <1>7, <1>8, <1>9, <1>10, <1>11, <1>12, <1>13
        DEF ExpressionsNext

\* So does no step.
LEMMA EvaluationStutters ==
    ASSUME EvaluationInv, UNCHANGED expressionVars
    PROVE  EvaluationInv'
BY DEF EvaluationInv, expressionVars

\* At all times the expressions under evaluation lie one in another in the tree, each in the
\* evaluator that contains_yield sends it to, and the trace, followed by whatever all of them
\* have left to do, is a trace of the program.
THEOREM EvaluationInvariance ==
    ExpressionsSpec => []EvaluationInv
<1>1. EvaluationInv /\ [ExpressionsNext]_expressionVars => EvaluationInv'
  BY EvaluationKeeps, EvaluationStutters
<1> QED BY EvaluationInit, <1>1, PTL DEF ExpressionsSpec

\* Whatever the program, and in whichever evaluator its parts land, its operations happen in an
\* order that the program may have, with the code's departures from ECMAScript allowed for; an
\* evaluation that ends early has done the beginning of one.
THEOREM OrderOfEvaluationCorrect ==
    ExpressionsSpec => []OrderOfEvaluation
<1>1. EvaluationInv => OrderOfEvaluation
  <2>1. ASSUME EvaluationInv, mode = "done"
        PROVE  trace \in Order(program, Departures)[<<>>]
    BY <2>1, TracksEnd DEF EvaluationInv
  <2>2. ASSUME EvaluationInv, mode = "abrupt"
        PROVE  \E t \in Order(program, Departures)[<<>>] : IsPrefix(trace, t)
    BY <2>2 DEF EvaluationInv
  <2> QED BY <2>1, <2>2 DEF OrderOfEvaluation
<1> QED BY <1>1, EvaluationInvariance, PTL

\* A yield that contains_yield finds is evaluated by eval_generator_expression, which can suspend
\* at it: only one in the tag of a tagged template or in the heritage of a class is not.
THEOREM EveryYieldSuspendsCorrect ==
    ExpressionsSpec => []EveryYieldSuspends
<1>1. EvaluationInv => EveryYieldSuspends
  <2>1. SUFFICES ASSUME EvaluationInv, NEW i \in 1 .. Level,
                        program[pending[i].place] \in Suspending, ~ pending[i].gen
                 PROVE  \E j \in 1 .. i - 1 :
                           pending[i].place[j] \in OverlookedIn(program[pending[j].place])
    BY DEF EveryYieldSuspends
  <2> DEFINE q == pending[i].place
  <2>2. FramesFit(program, pending)
    BY <2>1 DEF EvaluationInv
  <2>3. pending # <<>>
    BY <2>1 DEF Level
  <2>4. IsTree(program)
    BY <2>1, <2>3 DEF EvaluationInv
  <2>5. /\ q \in DOMAIN program /\ Len(q) = i - 1 /\ ~ InGenerator(program, q)
        /\ \A j \in 1 .. i : pending[j].place = SubSeq(q, 1, j - 1)
    BY <2>1, <2>2 DEF FramesFit, Level
  <2>6. q \in Seq(Nat) /\ i \in Nat /\ program[q] \in Suspending
    BY <2>1, <2>4, <2>5, PlaceIs DEF Level
  <2> HIDE DEF q
  <2>7. PICK n \in 0 .. Len(q) : ~ ContainsYield(program, SubSeq(q, 1, n))
    BY <2>5 DEF InGenerator
  <2> DEFINE p == SubSeq(q, 1, n)
  <2>8. Len(p) = n /\ IsPrefix(p, q)
    <3>1. Len(p) = n /\ n <= Len(q)
      BY <2>6
    <3>2. SubSeq(p, 1, n) = p
      BY <2>6, <3>1, SubSeqFull
    <3> QED BY <3>1, <3>2 DEF IsPrefix
  <2> HIDE DEF p
  <2>9. PICK m \in Len(p) + 1 .. Len(q) : q[m] \in OverlookedIn(program[Above(q, m)])
    BY <2>5, <2>6, <2>7, <2>8 DEF ContainsYield, p
  <2>10. m \in 1 .. i - 1 /\ m \in 1 .. i
    BY <2>5, <2>6, <2>8
  <2>11. pending[m].place = Above(q, m)
    BY <2>5, <2>10 DEF Above
  <2> QED BY <2>9, <2>10, <2>11 DEF q
<1> QED BY <1>1, EvaluationInvariance, PTL
=============================================================================
