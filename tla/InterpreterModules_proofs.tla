--------------------- MODULE InterpreterModules_proofs ---------------------
(***************************************************************************)
(* Proofs about InterpreterModules: the stacks of modules match the bodies *)
(* under evaluation, a module is evaluated once, and a read of a name can  *)
(* go on for ever only through a module that others referred to too early. *)
(*                                                                         *)
(* The argument for the last.  What an entry or a variable refers to has   *)
(* been evaluated to its end, or is unfinished, or is of the program, or   *)
(* is a variable of the module that has the entry (Refs).  So a read that  *)
(* comes to none of the excepted places leaves the modules under           *)
(* evaluation after two steps and never comes back to them, and what it    *)
(* comes to then no step changes any more (Loopless).                      *)
(***************************************************************************)
EXTENDS InterpreterModules, SequenceTheorems, FiniteSetTheorems, TLAPS

TypeInv ==
    /\ cache \subseteq Module
    /\ exports \in [Module -> [Name -> Entry]]
    /\ variables \in [Scope -> [Name -> Variable]]
    /\ frames \in Seq(Frame)
    /\ exports_stack \in Seq(Module)
    /\ base_dirs = exports_stack
    /\ statements \in Nat
    /\ evaluations \in [Module -> Nat]
    /\ unfinished \subseteq Module

\* A module that is not in the cache has not been evaluated.
Once == \A m \in Module :
           evaluations[m] <= 1 /\ (m \notin cache => evaluations[m] = 0)

-----------------------------------------------------------------------------
(* The frames and the stack of modules.                                    *)

BodiesIn(fs) == {i \in DOMAIN fs : fs[i].body /\ fs[i].code # Main}
UpTo(S, i) == {j \in S : j <= i}

\* The stack holds the bodies among the frames, and whoever waits for a body
\* waits for its module.
Matches(fs, stack) ==
    /\ Len(stack) = Cardinality(BodiesIn(fs))
    /\ \A i \in BodiesIn(fs) : /\ stack[Cardinality(UpTo(BodiesIn(fs), i))] = fs[i].code
                               /\ i # 1
                               /\ fs[i - 1].target = fs[i].code

\* A stack with no module twice.
Distinct(stack) == \A i, j \in DOMAIN stack : stack[i] = stack[j] => i = j

Stacks(fs, stack, known) ==
    /\ Matches(fs, stack)
    /\ Distinct(stack)
    /\ \A i \in DOMAIN stack : stack[i] \in known
    /\ \A i \in DOMAIN fs : fs[i].code \in known \cup {Main}

-----------------------------------------------------------------------------
(* What names refer to.                                                    *)

GoodEntry(m, r, known, active, early) ==
    r.how \in {"from", "binding"} =>
       /\ r.of \in known \cup {Main}
       /\ \/ r.of \in early \cup {Main}
          \/ r.of \notin active
          \/ r.how = "binding" /\ r.of = m

GoodVariable(r, known, active, early) ==
    r.how = "import" => r.of \in known /\ (r.of \in early \/ r.of \notin active)

Refs(vs, es, known, active, early) ==
    /\ \A m \in Module : \A n \in Name : GoodEntry(m, es[m][n], known, active, early)
    /\ \A s \in Scope : \A n \in Name : GoodVariable(vs[s][n], known, active, early)

LinkIn(p, vs, es) ==
    LET r == IF p.at = "env" THEN vs[p.of][p.name] ELSE es[p.of][p.name] IN
    CASE r.how = "import"  -> InNamespace(r.of, r.name)
      [] r.how = "from"    -> InNamespace(r.of, r.name)
      [] r.how = "binding" -> InEnv(r.of, r.name)
      [] r.how = "none" /\ p.at = "env" /\ p.of # Main -> InEnv(Main, p.name)
      [] OTHER -> Found

SettledIn(early) == {p \in Places : p.of \notin early /\ p # InEnv(Main, p.name)}

\* There is no loop of settled places.
NoLoop(vs, es, early) ==
    \A loop \in SUBSET {p \in SettledIn(early) : LinkIn(p, vs, es) \in SettledIn(early)} :
        loop # {} => \E p \in loop : LinkIn(p, vs, es) \notin loop

IInv ==
    /\ TypeInv
    /\ Once
    /\ Stacks(frames, exports_stack, cache)
    /\ Refs(variables, exports, cache, Evaluating, unfinished)
    /\ NoLoop(variables, exports, unfinished)

-----------------------------------------------------------------------------
(* The data.                                                               *)

\* What the sets of data hold.
LEMMA DataIs ==
    /\ \A r \in Entry : /\ r.how \in {"none", "value", "binding", "from"}
                        /\ r.of \in Scope /\ r.name \in Name
                        /\ r.how = "from" => r.of \in Module
    /\ \A r \in Variable : /\ r.how \in {"none", "value", "import"}
                           /\ r.of \in Scope /\ r.name \in Name
                           /\ r.how = "import" => r.of \in Module
    /\ Nothing \in Entry /\ Plain \in Entry /\ Nothing \in Variable /\ Plain \in Variable
    /\ Nothing.how = "none" /\ Plain.how = "value"
<1>1. /\ Nothing.how = "none" /\ Nothing.of = Main /\ Nothing.name = "x"
      /\ Plain.how = "value" /\ Plain.of = Main /\ Plain.name = "x"
  BY DEF Nothing, Plain
<1>2. Main \in Scope /\ "x" \in Name /\ Module \subseteq Scope
  BY DEF Scope, Name
<1>3. ASSUME NEW r \in Entry
      PROVE  /\ r.how \in {"none", "value", "binding", "from"}
             /\ r.of \in Scope /\ r.name \in Name
             /\ r.how = "from" => r.of \in Module
  <2>1. CASE r = Nothing \/ r = Plain
    BY <1>1, <1>2, <2>1
  <2>2. CASE \E s \in Scope, n \in Name : r = Binding(s, n)
    BY <2>2 DEF Binding
  <2>3. CASE \E m \in Module, n \in Name : r = From(m, n)
    BY <1>2, <2>3 DEF From
  <2> QED BY <2>1, <2>2, <2>3 DEF Entry
<1>4. ASSUME NEW r \in Variable
      PROVE  /\ r.how \in {"none", "value", "import"}
             /\ r.of \in Scope /\ r.name \in Name
             /\ r.how = "import" => r.of \in Module
  <2>1. CASE r = Nothing \/ r = Plain
    BY <1>1, <1>2, <2>1
  <2>2. CASE \E m \in Module, n \in Name : r = Import(m, n)
    BY <1>2, <2>2 DEF Import
  <2> QED BY <2>1, <2>2 DEF Variable
<1> QED BY <1>1, <1>3, <1>4 DEF Entry, Variable

\* The kinds of places.
LEMMA PlaceIs ==
    ASSUME NEW p \in Places
    PROVE  /\ p.of \in Scope /\ p.name \in Name
           /\ \/ p.at = "env" /\ p = InEnv(p.of, p.name)
              \/ p.at = "namespace" /\ p.of \in Module /\ p = InNamespace(p.of, p.name)
<1>1. CASE \E s \in Scope, n \in Name : p = InEnv(s, n)
  BY <1>1 DEF InEnv
<1>2. CASE \E m \in Module, n \in Name : p = InNamespace(m, n)
  BY <1>2 DEF InNamespace, Scope
<1> QED BY <1>1, <1>2 DEF Places

\* A read that comes to settled places only leaves the active modules after two
\* steps; so a loop of them lies where nothing has changed.
LEMMA Loopless ==
    ASSUME NEW vs, NEW es, NEW us \in [Scope -> [Name -> Variable]],
           NEW fs \in [Module -> [Name -> Entry]],
           NEW known, NEW active, NEW early, NEW later, early \subseteq later,
           Refs(us, fs, known, active, later),
           \A m \in Module : m \notin active => us[m] = vs[m] /\ fs[m] = es[m],
           NoLoop(vs, es, early)
    PROVE  NoLoop(us, fs, later)
<1> DEFINE To(p) == LinkIn(p, us, fs)
<1> SUFFICES ASSUME NEW loop \in SUBSET {p \in SettledIn(later) : To(p) \in SettledIn(later)},
                    loop # {}, \A p \in loop : To(p) \in loop
             PROVE  FALSE
  BY DEF NoLoop
<1>1. ASSUME NEW p \in loop
      PROVE  /\ p \in Places /\ p.of \in Module /\ p.name \in Name /\ p.of \notin later
             /\ p.of # Main \/ p.at = "namespace"
             /\ p.at \in {"env", "namespace"}
  <2>1. p \in Places /\ p.of \notin later /\ p # InEnv(Main, p.name)
    BY DEF SettledIn
  <2> QED BY <2>1, PlaceIs DEF Scope
<1>2. ASSUME NEW p \in loop
      PROVE  \/ To(p).of \notin active
             \/ p.at = "namespace" /\ To(p).at = "env" /\ To(p).of = p.of
  <2>1. To(p) \in loop /\ To(p) # Found
    <3>1. To(p) \in loop
      OBVIOUS
    <3>2. Found.at = "found"
      BY DEF Found
    <3> QED BY <1>1, <3>1, <3>2
  <2>2. To(p).of \notin later /\ To(p).of \in Module /\ To(p) # InEnv(Main, To(p).name)
    BY <1>1, <2>1 DEF SettledIn
  <2>3. CASE p.at = "env"
    <3>1. PICK r \in Variable : r = us[p.of][p.name]
      BY <1>1 DEF Scope
    <3>2. r.how \in {"none", "value", "import"}
      BY DataIs
    <3>3. r.how = "import"
      <4>1. CASE r.how = "none"
        <5>1. p.of # Main
          BY <1>1, <2>3
        <5>2. To(p) = InEnv(Main, p.name)
          BY <2>3, <3>1, <4>1, <5>1 DEF LinkIn
        <5>3. InEnv(Main, p.name).name = p.name
          BY DEF InEnv
        <5> QED BY <2>2, <5>2, <5>3
      <4>2. CASE r.how = "value"
        BY <2>1, <2>3, <3>1, <4>2 DEF LinkIn
      <4> QED BY <3>2, <4>1, <4>2
    <3>4. To(p) = InNamespace(r.of, r.name)
      BY <2>3, <3>1, <3>3 DEF LinkIn
    <3>5. To(p).of = r.of
      BY <3>4 DEF InNamespace
    <3>6. GoodVariable(r, known, active, later)
      BY <1>1, <3>1 DEF Refs, Scope
    <3> QED BY <2>2, <3>3, <3>5, <3>6 DEF GoodVariable
  <2>4. CASE p.at = "namespace"
    <3>1. PICK r \in Entry : r = fs[p.of][p.name]
      BY <1>1
    <3>2. r.how \in {"none", "value", "binding", "from"}
      BY DataIs
    <3>3. r.how \in {"binding", "from"}
      BY <2>1, <2>4, <3>1, <3>2 DEF LinkIn
    <3>4. GoodEntry(p.of, r, known, active, later)
      BY <1>1, <3>1 DEF Refs
    <3>5. CASE r.how = "from"
      <4>1. To(p) = InNamespace(r.of, r.name) /\ r.of \in Module
        BY <2>4, <3>1, <3>5, DataIs DEF LinkIn
      <4>2. To(p).of = r.of /\ r.of # Main
        BY <4>1, ModulesAssumption DEF InNamespace
      <4> QED BY <2>2, <3>4, <3>5, <4>2 DEF GoodEntry
    <3>6. CASE r.how = "binding"
      <4>1. To(p) = InEnv(r.of, r.name)
        BY <2>4, <3>1, <3>6 DEF LinkIn
      <4>2. To(p).of = r.of /\ To(p).at = "env" /\ r.of # Main
        BY <2>2, <4>1, ModulesAssumption DEF InEnv
      <4> QED BY <2>2, <2>4, <3>4, <3>6, <4>2 DEF GoodEntry
    <3> QED BY <3>3, <3>5, <3>6
  <2> QED BY <1>1, <2>3, <2>4
<1> DEFINE rest == {p \in loop : p.of \notin active}
<1>3. rest # {}
  <2>1. PICK p \in loop : TRUE
    OBVIOUS
  <2>2. To(p) \in loop /\ To(To(p)) \in loop
    OBVIOUS
  <2>3. To(p).of \notin active \/ To(p).at = "env"
    BY <1>2
  <2>4. To(p).of \notin active \/ To(To(p)).of \notin active
    BY <1>2, <2>2, <2>3
  <2> HIDE DEF To
  <2> QED BY <2>2, <2>4
<1>4. ASSUME NEW p \in rest PROVE To(p) \in rest
  <2>1. To(p) \in loop /\ p \in loop /\ p.of \notin active
    OBVIOUS
  <2>2. To(p).of \notin active
    BY <1>2, <2>1
  <2> HIDE DEF To
  <2> QED BY <2>1, <2>2
<1>5. ASSUME NEW p \in rest PROVE LinkIn(p, vs, es) = To(p)
  <2>1. p.of \in Module /\ us[p.of] = vs[p.of] /\ fs[p.of] = es[p.of]
    BY <1>1
  <2> QED BY <2>1 DEF LinkIn
<1>6. \A p \in rest : p \in SettledIn(early) /\ To(p) \in SettledIn(early)
  <2>1. \A p \in loop : p \in SettledIn(early)
    BY DEF SettledIn
  <2> HIDE DEF To
  <2> QED BY <2>1
<1>7. rest \in SUBSET {p \in SettledIn(early) : LinkIn(p, vs, es) \in SettledIn(early)}
  <2> HIDE DEF To, rest
  <2> QED BY <1>5, <1>6
<1>8. PICK p \in rest : LinkIn(p, vs, es) \notin rest
  <2> HIDE DEF To, rest
  <2> QED BY <1>3, <1>7 DEF NoLoop
<1> HIDE DEF To, rest
<1> QED BY <1>4, <1>5, <1>8

-----------------------------------------------------------------------------
(* The frames and the stack.                                               *)

\* The front and the last of a sequence.
LEMMA FrontIs ==
    ASSUME NEW S, NEW s \in Seq(S), s # <<>>
    PROVE  /\ Len(s) \in Nat \ {0}
           /\ Front(s) \in Seq(S) /\ Len(Front(s)) = Len(s) - 1
           /\ \A i \in 1..Len(s) - 1 : Front(s)[i] = s[i]
           /\ Last(s) = s[Len(s)] /\ Last(s) \in S
<1>1. Len(s) \in Nat \ {0}
  BY EmptySeq
<1>2. \A i \in 1..Len(s) - 1 : s[i] \in S
  BY <1>1, ElementOfSeq
<1>3. /\ SubSeq(s, 1, Len(s) - 1) \in Seq(S)
      /\ Len(SubSeq(s, 1, Len(s) - 1)) = IF 1 <= Len(s) - 1 THEN Len(s) - 1 - 1 + 1 ELSE 0
      /\ \A i \in 1..Len(s) - 1 - 1 + 1 : SubSeq(s, 1, Len(s) - 1)[i] = s[1 + i - 1]
  <2>1. 1 \in Int /\ Len(s) - 1 \in Int
    BY <1>1
  <2> QED BY <1>2, <2>1, SubSeqProperties
<1>4. Last(s) = s[Len(s)] /\ Front(s) = SubSeq(s, 1, Len(s) - 1)
  BY DEF Last, Front
<1>5. Last(s) \in S
  BY <1>1, <1>4, ElementOfSeq
<1>6. Len(Front(s)) = Len(s) - 1
  <2>1. PICK k \in Nat \ {0} : k = Len(s)
    BY <1>1
  <2>2. Len(Front(s)) = IF 1 <= k - 1 THEN k - 1 - 1 + 1 ELSE 0
    BY <1>3, <1>4, <2>1
  <2>3. (IF 1 <= k - 1 THEN k - 1 - 1 + 1 ELSE 0) = k - 1
    OBVIOUS
  <2> QED BY <2>1, <2>2, <2>3
<1>7. \A i \in 1..Len(s) - 1 : Front(s)[i] = s[i]
  <2> SUFFICES ASSUME NEW i \in 1..Len(s) - 1 PROVE Front(s)[i] = s[i]
    OBVIOUS
  <2>1. i \in 1..Len(s) - 1 - 1 + 1 /\ 1 + i - 1 = i
    BY <1>1
  <2> QED BY <1>3, <1>4, <2>1
<1> QED BY <1>1, <1>3, <1>4, <1>5, <1>6, <1>7

\* The bodies among the frames can be counted.
LEMMA Counted ==
    ASSUME NEW fs \in Seq(Frame)
    PROVE  /\ IsFiniteSet(BodiesIn(fs)) /\ Cardinality(BodiesIn(fs)) \in Nat
           /\ BodiesIn(fs) \subseteq 1..Len(fs) /\ Len(fs) \in Nat
           /\ \A i \in BodiesIn(fs) :
                 Cardinality(UpTo(BodiesIn(fs), i)) \in 1..Cardinality(BodiesIn(fs))
<1>1. Len(fs) \in Nat /\ DOMAIN fs = 1..Len(fs)
  BY LenProperties
<1>2. BodiesIn(fs) \subseteq 1..Len(fs)
  BY <1>1 DEF BodiesIn
<1>3. IsFiniteSet(BodiesIn(fs))
  <2>1. IsFiniteSet(1..Len(fs))
    BY <1>1, FS_Interval
  <2> QED BY <1>2, <2>1, FS_Subset
<1>4. Cardinality(BodiesIn(fs)) \in Nat
  BY <1>3, FS_CardinalityType
<1>5. ASSUME NEW i \in BodiesIn(fs)
      PROVE  Cardinality(UpTo(BodiesIn(fs), i)) \in 1..Cardinality(BodiesIn(fs))
  <2>1. UpTo(BodiesIn(fs), i) \subseteq BodiesIn(fs) /\ i \in UpTo(BodiesIn(fs), i)
    BY <1>1, <1>2 DEF UpTo
  <2>2. /\ IsFiniteSet(UpTo(BodiesIn(fs), i))
        /\ Cardinality(UpTo(BodiesIn(fs), i)) <= Cardinality(BodiesIn(fs))
    BY <1>3, <2>1, FS_Subset
  <2>3. Cardinality(UpTo(BodiesIn(fs), i)) \in Nat /\ Cardinality(UpTo(BodiesIn(fs), i)) # 0
    BY <2>1, <2>2, FS_CardinalityType, FS_EmptySet
  <2> QED BY <1>4, <2>2, <2>3
<1> QED BY <1>1, <1>2, <1>3, <1>4, <1>5

\* Two sequences of frames run the same code where the shorter one has frames,
\* and whoever waits below its last frame waits for the same.
SameCode(fs, gs) ==
    /\ \A i \in DOMAIN fs \cap DOMAIN gs : /\ gs[i].code = fs[i].code
                                           /\ gs[i].body = fs[i].body
    /\ \A i \in DOMAIN fs \cap DOMAIN gs :
          i + 1 \in DOMAIN fs \cap DOMAIN gs => gs[i].target = fs[i].target

\* The stack stays the same while frames that are no bodies come and go.
LEMMA NoBodyMoves ==
    ASSUME NEW fs \in Seq(Frame), NEW gs \in Seq(Frame), NEW stack,
           Matches(fs, stack), SameCode(fs, gs), BodiesIn(gs) = BodiesIn(fs)
    PROVE  Matches(gs, stack)
<1>1. /\ DOMAIN fs = 1..Len(fs) /\ DOMAIN gs = 1..Len(gs)
      /\ Len(fs) \in Nat /\ Len(gs) \in Nat
  BY LenProperties
<1>2. ASSUME NEW i \in BodiesIn(gs)
      PROVE  i # 1 /\ gs[i].code = fs[i].code /\ gs[i - 1].target = fs[i - 1].target
  <2>1. i \in DOMAIN fs /\ i \in DOMAIN gs /\ i # 1
    BY DEF BodiesIn, Matches
  <2>2. i - 1 \in DOMAIN fs /\ i - 1 \in DOMAIN gs /\ (i - 1) + 1 = i
    BY <1>1, <2>1
  <2> QED BY <2>1, <2>2 DEF SameCode
<1> QED BY <1>2 DEF Matches

\* A body on top of the frames goes on top of the stack.
LEMMA BodyPushed ==
    ASSUME NEW fs \in Seq(Frame), NEW gs \in Seq(Frame),
           NEW stack \in Seq(Module), NEW m \in Module,
           Matches(fs, stack), SameCode(fs, gs), Len(fs) > 0, Len(gs) = Len(fs) + 1,
           gs[Len(gs)].body, gs[Len(gs)].code = m, gs[Len(fs)].target = m
    PROVE  Matches(gs, Append(stack, m))
<1> DEFINE n == Len(gs)  C == Cardinality(BodiesIn(fs))
<1>1. /\ DOMAIN fs = 1..Len(fs) /\ DOMAIN gs = 1..Len(gs)
      /\ Len(fs) \in Nat /\ Len(gs) \in Nat
  BY LenProperties
<1>2. n \in DOMAIN gs /\ n \notin DOMAIN fs /\ n # 1 /\ n - 1 = Len(fs)
  BY <1>1
<1>3. BodiesIn(gs) = BodiesIn(fs) \cup {n}
  <2>1. DOMAIN fs \cap DOMAIN gs = DOMAIN fs /\ DOMAIN gs = DOMAIN fs \cup {n}
    BY <1>1
  <2> QED BY <2>1, ModulesAssumption DEF BodiesIn, SameCode
<1>4. IsFiniteSet(BodiesIn(fs)) /\ C \in Nat /\ BodiesIn(fs) \subseteq 1..Len(fs)
  BY Counted
<1>5. Cardinality(BodiesIn(gs)) = C + 1
  BY <1>1, <1>2, <1>3, <1>4, FS_AddElement
<1>6. /\ Len(stack) = C /\ Len(Append(stack, m)) = C + 1
      /\ \A k \in 1..C : Append(stack, m)[k] = stack[k]
      /\ Append(stack, m)[C + 1] = m
  BY AppendProperties DEF Matches
<1>7. ASSUME NEW i \in BodiesIn(gs)
      PROVE  /\ Append(stack, m)[Cardinality(UpTo(BodiesIn(gs), i))] = gs[i].code
             /\ i # 1 /\ gs[i - 1].target = gs[i].code
  <2>1. CASE i = n
    <3>1. UpTo(BodiesIn(gs), n) = BodiesIn(gs)
      BY <1>1, <1>2, <1>3, <1>4 DEF UpTo
    <3> QED BY <1>2, <1>5, <1>6, <2>1, <3>1
  <2>2. CASE i \in BodiesIn(fs)
    <3>1. i \in DOMAIN fs /\ i \in DOMAIN gs /\ i # 1
      BY <1>1, <1>4, <2>2 DEF Matches
    <3>2. i - 1 \in DOMAIN fs /\ i - 1 \in DOMAIN gs /\ (i - 1) + 1 = i
      BY <1>1, <3>1
    <3>3. gs[i].code = fs[i].code /\ gs[i - 1].target = fs[i - 1].target
      BY <3>1, <3>2 DEF SameCode
    <3>4. UpTo(BodiesIn(gs), i) = UpTo(BodiesIn(fs), i)
      <4>1. ~(n <= i)
        BY <1>1, <1>2, <3>1
      <4> QED BY <1>3, <4>1 DEF UpTo
    <3>5. Cardinality(UpTo(BodiesIn(fs), i)) \in 1..C
      BY <2>2, Counted
    <3>6. /\ stack[Cardinality(UpTo(BodiesIn(fs), i))] = fs[i].code
          /\ fs[i - 1].target = fs[i].code
      BY <2>2 DEF Matches
    <3> HIDE DEF C
    <3> QED BY <1>6, <3>1, <3>3, <3>4, <3>5, <3>6
  <2> QED BY <1>3, <2>1, <2>2
<1> QED BY <1>5, <1>6, <1>7 DEF Matches

\* The body on top of the frames is the module on top of the stack, its asker
\* waits below, and with it goes the top of the stack.
LEMMA BodyPopped ==
    ASSUME NEW fs \in Seq(Frame), NEW gs \in Seq(Frame), NEW stack \in Seq(Module),
           Matches(fs, stack), SameCode(fs, gs), Len(fs) = Len(gs) + 1,
           fs[Len(fs)].body, fs[Len(fs)].code # Main
    PROVE  /\ stack # <<>> /\ Last(stack) = fs[Len(fs)].code
           /\ Len(gs) > 0 /\ fs[Len(gs)].target = fs[Len(fs)].code
           /\ Matches(gs, Front(stack))
<1> DEFINE n == Len(fs)  C == Cardinality(BodiesIn(gs))
<1>1. /\ DOMAIN fs = 1..Len(fs) /\ DOMAIN gs = 1..Len(gs)
      /\ Len(fs) \in Nat /\ Len(gs) \in Nat
  BY LenProperties
<1>2. n \in DOMAIN fs /\ n \notin DOMAIN gs /\ n \in BodiesIn(fs) /\ n - 1 = Len(gs)
  BY <1>1 DEF BodiesIn
<1>3. BodiesIn(fs) = BodiesIn(gs) \cup {n}
  <2>1. DOMAIN fs \cap DOMAIN gs = DOMAIN gs /\ DOMAIN fs = DOMAIN gs \cup {n}
    BY <1>1
  <2> QED BY <2>1 DEF BodiesIn, SameCode
<1>4. IsFiniteSet(BodiesIn(gs)) /\ C \in Nat /\ BodiesIn(gs) \subseteq 1..Len(gs)
  BY Counted
<1>5. Cardinality(BodiesIn(fs)) = C + 1
  BY <1>1, <1>2, <1>3, <1>4, FS_AddElement
<1>6. n # 1 /\ fs[n - 1].target = fs[n].code
  BY <1>2 DEF Matches
<1>7. Len(stack) = C + 1 /\ stack # <<>>
  BY <1>4, <1>5, EmptySeq DEF Matches
<1>8. /\ Last(stack) = stack[C + 1] /\ Len(Front(stack)) = C
      /\ \A k \in 1..C : Front(stack)[k] = stack[k]
  <2>1. Len(stack) = C + 1 /\ Len(stack) - 1 = C
    BY <1>4, <1>7
  <2>2. /\ Len(Front(stack)) = Len(stack) - 1 /\ Last(stack) = stack[Len(stack)]
        /\ \A i \in 1..Len(stack) - 1 : Front(stack)[i] = stack[i]
    BY <1>7, FrontIs
  <2> HIDE DEF C
  <2> QED BY <2>1, <2>2
<1>9. Last(stack) = fs[n].code
  <2>1. UpTo(BodiesIn(fs), n) = BodiesIn(fs)
    BY <1>1, <1>2, <1>3, <1>4 DEF UpTo
  <2> QED BY <1>2, <1>5, <1>8, <2>1 DEF Matches
<1>10. ASSUME NEW i \in BodiesIn(gs)
       PROVE  /\ Front(stack)[Cardinality(UpTo(BodiesIn(gs), i))] = gs[i].code
              /\ i # 1 /\ gs[i - 1].target = gs[i].code
  <2>1. i \in DOMAIN fs /\ i \in DOMAIN gs /\ i \in BodiesIn(fs)
    BY <1>1, <1>3, <1>4
  <2>2. /\ stack[Cardinality(UpTo(BodiesIn(fs), i))] = fs[i].code
        /\ i # 1 /\ fs[i - 1].target = fs[i].code
    BY <2>1 DEF Matches
  <2>3. i - 1 \in DOMAIN fs /\ i - 1 \in DOMAIN gs /\ (i - 1) + 1 = i
    BY <1>1, <2>1, <2>2
  <2>4. gs[i].code = fs[i].code /\ gs[i - 1].target = fs[i - 1].target
    BY <2>1, <2>3 DEF SameCode
  <2>5. UpTo(BodiesIn(gs), i) = UpTo(BodiesIn(fs), i)
    <3>1. ~(n <= i)
      BY <1>1, <1>2, <2>1
    <3> QED BY <1>3, <3>1 DEF UpTo
  <2>6. Cardinality(UpTo(BodiesIn(gs), i)) \in 1..C
    BY Counted
  <2> HIDE DEF C
  <2> QED BY <1>8, <2>2, <2>4, <2>5, <2>6
<1>11. Len(gs) > 0 /\ fs[Len(gs)].target = fs[n].code
  BY <1>1, <1>2, <1>6
<1> QED BY <1>7, <1>8, <1>9, <1>10, <1>11 DEF Matches

\* A frame that is no body changes nothing among the bodies.
LEMMA SameBodies ==
    ASSUME NEW fs \in Seq(Frame), NEW gs \in Seq(Frame),
           SameCode(fs, gs), Len(gs) = Len(fs) + 1,
           ~gs[Len(gs)].body \/ gs[Len(gs)].code = Main
    PROVE  BodiesIn(gs) = BodiesIn(fs) /\ SameCode(gs, fs)
<1>1. /\ DOMAIN fs = 1..Len(fs) /\ DOMAIN gs = 1..Len(gs)
      /\ Len(fs) \in Nat /\ Len(gs) \in Nat
  BY LenProperties
<1>2. DOMAIN gs = DOMAIN fs \cup {Len(gs)} /\ DOMAIN fs \cap DOMAIN gs = DOMAIN fs
  BY <1>1
<1>3. BodiesIn(gs) = BodiesIn(fs)
  BY <1>2 DEF BodiesIn, SameCode
<1> QED BY <1>3 DEF SameCode

\* A frame on top leaves the others as they are.
LEMMA FramePushed ==
    ASSUME NEW fs \in Seq(Frame), NEW c \in Frame
    PROVE  /\ Append(fs, c) \in Seq(Frame) /\ SameCode(fs, Append(fs, c))
           /\ Len(Append(fs, c)) = Len(fs) + 1
           /\ Append(fs, c)[Len(fs) + 1] = c /\ Append(fs, c)[Len(Append(fs, c))] = c
<1>1. DOMAIN fs = 1..Len(fs) /\ Len(fs) \in Nat
  BY LenProperties
<1> QED BY <1>1, AppendProperties DEF SameCode

\* A new frame.
LEMMA CodeIs ==
    ASSUME NEW s \in Scope, NEW b \in BOOLEAN
    PROVE  Code(s, b) \in Frame /\ Code(s, b).code = s /\ Code(s, b).body = b
<1>1. Idle \in Wish /\ Main \in Scope
  BY DEF Wish, Scope
<1> QED BY <1>1 DEF Code, Frame

\* The top frame goes.
LEMMA FrameDropped ==
    ASSUME NEW fs \in Seq(Frame), fs # <<>>
    PROVE  /\ Front(fs) \in Seq(Frame) /\ Len(fs) = Len(Front(fs)) + 1
           /\ SameCode(fs, Front(fs)) /\ SameCode(Front(fs), fs)
           /\ Last(fs) = fs[Len(fs)] /\ Last(fs) \in Frame
<1>1. PICK gs \in Seq(Frame) : gs = Front(fs)
  BY FrontIs
<1>2. /\ Len(fs) \in Nat \ {0} /\ Len(gs) = Len(fs) - 1
      /\ \A i \in 1..Len(fs) - 1 : gs[i] = fs[i]
      /\ Last(fs) = fs[Len(fs)] /\ Last(fs) \in Frame
  BY <1>1, FrontIs
<1>3. DOMAIN fs = 1..Len(fs) /\ DOMAIN gs = 1..Len(gs)
  BY LenProperties
<1>4. SameCode(fs, gs) /\ SameCode(gs, fs)
  BY <1>2, <1>3 DEF SameCode
<1>5. Len(fs) = Len(gs) + 1
  BY <1>2
<1> QED BY <1>1, <1>2, <1>4, <1>5

\* The top frame goes, and who waited for it is resumed.
LEMMA FrameResumed ==
    ASSUME NEW fs \in Seq(Frame), fs # <<>>
    PROVE  /\ Resumed(Front(fs)) \in Seq(Frame)
           /\ Len(fs) = Len(Resumed(Front(fs))) + 1
           /\ SameCode(fs, Resumed(Front(fs))) /\ SameCode(Resumed(Front(fs)), fs)
<1>1. PICK below \in Seq(Frame) : below = Front(fs)
  BY FrameDropped
<1>2. Len(fs) = Len(below) + 1 /\ SameCode(fs, below)
  BY <1>1, FrameDropped
<1>3. /\ DOMAIN fs = 1..Len(fs) /\ DOMAIN below = 1..Len(below)
      /\ Len(fs) \in Nat /\ Len(below) \in Nat
  BY LenProperties
<1>4. PICK gs : gs = Resumed(below)
  OBVIOUS
<1>5. /\ gs \in Seq(Frame) /\ Len(gs) = Len(below)
      /\ \A i \in 1..Len(below) : gs[i].code = below[i].code /\ gs[i].body = below[i].body
      /\ \A i \in 1..Len(below) : i # Len(below) => gs[i].target = below[i].target
  <2>1. CASE below = <<>>
    <3>1. gs = below /\ Len(below) = 0
      BY <1>4, <2>1, EmptySeq DEF Resumed
    <3> QED BY <3>1
  <2>2. CASE below # <<>>
    <3>1. Len(below) \in 1..Len(below)
      BY <1>3, <2>2, EmptySeq
    <3>2. PICK b \in Frame : b = below[Len(below)]
      BY <3>1, ElementOfSeq
    <3>3. PICK c : c = [[b EXCEPT !.wish = Idle] EXCEPT !.target = Main]
      OBVIOUS
    <3>4. c \in Frame /\ c.code = b.code /\ c.body = b.body
      <4>1. Idle \in Wish /\ Main \in Scope
        BY DEF Wish, Scope
      <4> QED BY <3>3, <4>1 DEF Frame
    <3>5. gs = [below EXCEPT ![Len(below)] = c]
      BY <1>3, <1>4, <2>2, <3>1, <3>2, <3>3 DEF Resumed
    <3>6. /\ gs \in Seq(Frame) /\ Len(gs) = Len(below)
          /\ \A j \in 1..Len(below) : gs[j] = IF j = Len(below) THEN c ELSE below[j]
      BY <3>1, <3>4, <3>5, ExceptSeq
    <3> QED BY <3>2, <3>4, <3>6
  <2> QED BY <2>1, <2>2
<1>6. DOMAIN gs = DOMAIN below /\ DOMAIN fs \cap DOMAIN below = DOMAIN below
  <2>1. DOMAIN gs = 1..Len(gs)
    BY <1>5, LenProperties
  <2>2. DOMAIN fs \cap DOMAIN below = DOMAIN below
    BY <1>2, <1>3
  <2> QED BY <1>3, <1>5, <2>1, <2>2
<1>7. SameCode(fs, gs) /\ SameCode(gs, fs)
  <2>1. ASSUME NEW i \in DOMAIN below
        PROVE  /\ gs[i].code = fs[i].code /\ gs[i].body = fs[i].body
               /\ i + 1 \in DOMAIN below => gs[i].target = fs[i].target
    <3>1. i \in 1..Len(below) /\ (i + 1 \in DOMAIN below => i # Len(below))
      BY <1>3
    <3> QED BY <1>5, <1>6, <1>2, <3>1 DEF SameCode
  <2> QED BY <1>6, <2>1 DEF SameCode
<1> QED BY <1>1, <1>2, <1>4, <1>5, <1>7

-----------------------------------------------------------------------------
(* Changes of the data.                                                    *)

\* Names come to refer to something else only in active modules and in the
\* program, and then to something good.
Moves(vs, es, us, fs, known, active, early) ==
    /\ vs \in [Scope -> [Name -> Variable]] /\ es \in [Module -> [Name -> Entry]]
    /\ us \in [Scope -> [Name -> Variable]] /\ fs \in [Module -> [Name -> Entry]]
    /\ \A m \in Module, n \in Name :
          \/ fs[m][n] = es[m][n]
          \/ m \in active /\ GoodEntry(m, fs[m][n], known, active, early)
    /\ \A s \in Scope, n \in Name :
          \/ us[s][n] = vs[s][n]
          \/ s \in active \cup {Main} /\ GoodVariable(us[s][n], known, active, early)

\* What a good reference is stays good while modules finish, and a module only
\* becomes active that nobody knows.
LEMMA DataKeeps ==
    ASSUME NEW vs, NEW es, NEW known, NEW active, NEW early,
           Refs(vs, es, known, active, early), NoLoop(vs, es, early),
           NEW us, NEW fs, NEW known2, NEW active2, NEW early2,
           known \subseteq known2, early \subseteq early2, active2 \cap known \subseteq active,
           Moves(vs, es, us, fs, known2, active2, early2)
    PROVE  Refs(us, fs, known2, active2, early2) /\ NoLoop(us, fs, early2)
<1> USE DEF Moves
<1>1. ASSUME NEW m \in Module, NEW n \in Name
      PROVE  GoodEntry(m, fs[m][n], known2, active2, early2)
  <2>1. CASE fs[m][n] = es[m][n]
    <3>1. PICK r : r = es[m][n]
      OBVIOUS
    <3>2. GoodEntry(m, r, known, active, early)
      BY <3>1 DEF Refs
    <3>3. GoodEntry(m, r, known2, active2, early2)
      BY <3>2 DEF GoodEntry
    <3> QED BY <2>1, <3>1, <3>3
  <2> QED BY <2>1
<1>2. ASSUME NEW s \in Scope, NEW n \in Name
      PROVE  GoodVariable(us[s][n], known2, active2, early2)
  <2>1. CASE us[s][n] = vs[s][n]
    <3>1. PICK r : r = vs[s][n]
      OBVIOUS
    <3>2. GoodVariable(r, known, active, early)
      BY <3>1 DEF Refs
    <3>3. GoodVariable(r, known2, active2, early2)
      BY <3>2 DEF GoodVariable
    <3> QED BY <2>1, <3>1, <3>3
  <2> QED BY <2>1
<1>3. Refs(us, fs, known2, active2, early2)
  BY <1>1, <1>2 DEF Refs
<1>4. \A m \in Module : m \notin active2 => us[m] = vs[m] /\ fs[m] = es[m]
  <2> SUFFICES ASSUME NEW m \in Module, m \notin active2
               PROVE  us[m] = vs[m] /\ fs[m] = es[m]
    OBVIOUS
  <2>1. m \in Scope /\ m # Main
    BY ModulesAssumption DEF Scope
  <2>2. \A n \in Name : us[m][n] = vs[m][n] /\ fs[m][n] = es[m][n]
    BY <2>1
  <2>3. us[m] \in [Name -> Variable] /\ vs[m] \in [Name -> Variable]
    BY <2>1
  <2>4. fs[m] \in [Name -> Entry] /\ es[m] \in [Name -> Entry]
    OBVIOUS
  <2> QED BY <2>2, <2>3, <2>4
<1>5. NoLoop(us, fs, early2)
  <2>1. us \in [Scope -> [Name -> Variable]] /\ fs \in [Module -> [Name -> Entry]]
    OBVIOUS
  <2>2. NoLoop(vs, es, early) /\ early \subseteq early2
    OBVIOUS
  <2> QED BY ONLY <1>3, <1>4, <2>1, <2>2, Loopless
<1> QED BY <1>3, <1>5

\* What an export writes, and where.
LEMMA WriteIs ==
    ASSUME exports \in [Module -> [Name -> Entry]], NEW stack \in Seq(Module),
           NEW entries, DOMAIN entries \subseteq Name,
           \A n \in DOMAIN entries : entries[n] \in Entry,
           WriteExports(stack, entries)
    PROVE  /\ exports' \in [Module -> [Name -> Entry]]
           /\ \A m \in Module, n \in Name :
                 \/ exports'[m][n] = exports[m][n]
                 \/ /\ stack # <<>> /\ m = Last(stack) /\ m \in Range(stack)
                    /\ n \in DOMAIN entries /\ exports'[m][n] = entries[n]
<1>1. CASE stack = <<>>
  BY <1>1 DEF WriteExports
<1>2. CASE stack # <<>>
  <2>1. Last(stack) \in Module /\ Last(stack) \in Range(stack)
    BY <1>2, FrontIs, LenProperties DEF Range
  <2>2. PICK top \in Module : top = Last(stack)
    BY <2>1
  <2>3. PICK row : row = [n \in Name |-> IF n \in DOMAIN entries THEN entries[n]
                                        ELSE exports[top][n]]
    OBVIOUS
  <2>4. row \in [Name -> Entry]
    BY <2>3
  <2>5. exports' = [exports EXCEPT ![top] = row]
    BY <1>2, <2>2, <2>3 DEF WriteExports
  <2> QED BY <1>2, <2>1, <2>2, <2>3, <2>4, <2>5
<1> QED BY <1>1, <1>2

\* The new references of an import or an export-from are good.
LEMMA GrantKeeps ==
    ASSUME TypeInv, Refs(variables, exports, cache, Evaluating, unfinished),
           NEW f \in Frame, NEW wish \in Wish, NEW m \in cache,
           NEW stack \in Seq(Module), Range(stack) \subseteq Evaluating,
           NEW early, unfinished \subseteq early,
           m \in early \/ m \notin Range(stack),
           f.body => f.code \in Range(stack) \cup {Main},
           Grant(f, wish, m, stack)
    PROVE  Moves(variables, exports, variables', exports', cache, Range(stack), early)
<1>1. m \in Module /\ exports \in [Module -> [Name -> Entry]]
      /\ variables \in [Scope -> [Name -> Variable]]
  BY DEF TypeInv
<1>2. wish.local \in Name /\ wish.name \in Name
      /\ wish.what \in {"nothing", "import", "from", "star"}
  BY DEF Wish, Idle, Name
<1>3. /\ variables' \in [Scope -> [Name -> Variable]]
      /\ \A s \in Scope, n \in Name :
            \/ variables'[s][n] = variables[s][n]
            \/ /\ s \in Range(stack) \cup {Main}
               /\ GoodVariable(variables'[s][n], cache, Range(stack), early)
  <2>1. CASE wish.what = "import" /\ f.body
    <3>1. PICK r : r = Import(m, wish.name)
      OBVIOUS
    <3>2. r \in Variable /\ r.of = m
      BY <1>1, <1>2, <3>1 DEF Variable, Import
    <3>3. GoodVariable(r, cache, Range(stack), early)
      BY <3>2 DEF GoodVariable
    <3>4. f.code \in Scope
      BY DEF Frame
    <3>5. variables' = [variables EXCEPT ![f.code][wish.local] = r]
      BY <2>1, <3>1 DEF Grant
    <3> QED BY <1>1, <1>2, <2>1, <3>2, <3>3, <3>4, <3>5
  <2>2. CASE ~(wish.what = "import" /\ f.body)
    BY <1>1, <2>2 DEF Grant
  <2> QED BY <2>1, <2>2
<1>4. /\ exports' \in [Module -> [Name -> Entry]]
      /\ \A k \in Module, n \in Name :
            \/ exports'[k][n] = exports[k][n]
            \/ k \in Range(stack) /\ GoodEntry(k, exports'[k][n], cache, Range(stack), early)
  <2>1. CASE wish.what = "from"
    <3>1. PICK r : r = From(m, wish.name)
      OBVIOUS
    <3>2. r \in Entry /\ r.of = m /\ r.how = "from"
      BY <1>1, <1>2, <3>1 DEF Entry, From
    <3>3. \A k : GoodEntry(k, r, cache, Range(stack), early)
      BY <3>2 DEF GoodEntry
    <3>4. PICK entries : entries = [k \in {wish.local} |-> r]
      OBVIOUS
    <3>5. WriteExports(stack, entries)
      BY <2>1, <3>1, <3>4 DEF Grant
    <3>6. DOMAIN entries \subseteq Name /\ \A n \in DOMAIN entries : entries[n] = r
      BY <1>2, <3>4
    <3>7. /\ exports' \in [Module -> [Name -> Entry]]
          /\ \A k \in Module, n \in Name :
                 \/ exports'[k][n] = exports[k][n]
                 \/ /\ stack # <<>> /\ k = Last(stack) /\ k \in Range(stack)
                    /\ n \in DOMAIN entries /\ exports'[k][n] = entries[n]
      BY <1>1, <3>2, <3>5, <3>6, WriteIs
    <3> QED BY <3>3, <3>6, <3>7
  <2>2. CASE wish.what = "star"
    <3>1. PICK shared : shared = {n \in Name \ {"default"} : exports[m][n] # Nothing}
      OBVIOUS
    <3>2. PICK entries : entries = [k \in shared |-> exports[m][k]]
      OBVIOUS
    <3>3. WriteExports(stack, entries)
      BY <2>2, <3>1, <3>2 DEF Grant
    <3>4. /\ DOMAIN entries \subseteq Name
          /\ \A n \in DOMAIN entries : entries[n] = exports[m][n] /\ entries[n] \in Entry
      BY <1>1, <3>1, <3>2
    <3>5. /\ exports' \in [Module -> [Name -> Entry]]
          /\ \A k \in Module, n \in Name :
                 \/ exports'[k][n] = exports[k][n]
                 \/ /\ stack # <<>> /\ k = Last(stack) /\ k \in Range(stack)
                    /\ n \in DOMAIN entries /\ exports'[k][n] = entries[n]
      BY <1>1, <3>3, <3>4, WriteIs
    <3>6. ASSUME NEW k \in Module, NEW n \in Name
          PROVE  GoodEntry(k, exports[m][n], cache, Range(stack), early)
      <4>1. PICK r : r = exports[m][n]
        OBVIOUS
      <4>2. GoodEntry(m, r, cache, Evaluating, unfinished)
        BY <1>1, <4>1 DEF Refs
      <4>3. GoodEntry(k, r, cache, Range(stack), early)
        BY <4>2 DEF GoodEntry
      <4> QED BY <4>1, <4>3
    <3> QED BY <3>4, <3>5, <3>6
  <2>3. CASE wish.what \notin {"from", "star"}
    BY <1>1, <1>2, <2>3 DEF Grant
  <2> QED BY <2>1, <2>2, <2>3
<1> QED BY <1>1, <1>3, <1>4 DEF Moves

-----------------------------------------------------------------------------
(* The steps.                                                              *)

\* The code of a body is a module on the stack.
LEMMA BodyOnStack ==
    ASSUME NEW fs \in Seq(Frame), NEW stack \in Seq(Module), Matches(fs, stack),
           NEW i \in DOMAIN fs, fs[i].body
    PROVE  fs[i].code \in Range(stack) \cup {Main}
<1>1. CASE fs[i].code # Main
  <2>1. i \in BodiesIn(fs)
    BY <1>1 DEF BodiesIn
  <2>2. PICK k : k = Cardinality(UpTo(BodiesIn(fs), i))
    OBVIOUS
  <2>3. k \in 1..Len(stack) /\ stack[k] = fs[i].code
    BY <2>1, <2>2, Counted DEF Matches
  <2> QED BY <2>3, LenProperties DEF Range
<1> QED BY <1>1

\* The modules on the stack are in the cache.
LEMMA ActiveIsKnown ==
    ASSUME IInv
    PROVE  Evaluating \subseteq cache
BY DEF IInv, Stacks, Evaluating, Range

\* The top frame.
LEMMA TopIs ==
    ASSUME IInv, frames # <<>>
    PROVE  /\ Top \in Frame /\ Top.code \in cache \cup {Main} /\ Top.code \in Scope
           /\ Top.body => Top.code \in Evaluating \cup {Main}
           /\ Len(frames) \in DOMAIN frames /\ Top = frames[Len(frames)]
<1>1. frames \in Seq(Frame) /\ exports_stack \in Seq(Module)
  BY DEF IInv, TypeInv
<1>2. Len(frames) \in DOMAIN frames /\ Top = frames[Len(frames)] /\ Top \in Frame
  <2>1. Len(frames) \in Nat \ {0} /\ Top = frames[Len(frames)] /\ Top \in Frame
    BY <1>1, FrontIs DEF Top
  <2>2. DOMAIN frames = 1..Len(frames)
    BY <1>1, LenProperties
  <2> QED BY <2>1, <2>2
<1>3. Top.code \in cache \cup {Main} /\ Top.code \in Scope
  BY <1>2 DEF IInv, Stacks, Frame
<1>4. Top.body => Top.code \in Evaluating \cup {Main}
  BY <1>1, <1>2, BodyOnStack DEF IInv, Stacks, Evaluating
<1> QED BY <1>2, <1>3, <1>4

\* A step that changes only what names refer to.
LEMMA DataStep ==
    ASSUME IInv,
           UNCHANGED <<cache, frames, exports_stack, base_dirs, evaluations>>,
           statements' \in Nat, unfinished' \subseteq Module, unfinished \subseteq unfinished',
           Moves(variables, exports, variables', exports', cache, Evaluating, unfinished')
    PROVE  IInv'
<1>1. Evaluating' = Evaluating
  BY DEF Evaluating
<1>2. TypeInv' /\ Once' /\ Stacks(frames', exports_stack', cache')
  BY DEF IInv, TypeInv, Once, Moves
<1>3. Refs(variables', exports', cache, Evaluating, unfinished') /\ NoLoop(variables', exports', unfinished')
  <2>1. /\ Refs(variables, exports, cache, Evaluating, unfinished)
        /\ NoLoop(variables, exports, unfinished)
    BY DEF IInv
  <2>2. Evaluating \cap cache \subseteq Evaluating /\ cache \subseteq cache
    OBVIOUS
  <2> QED BY <2>1, <2>2, DataKeeps
<1> QED BY <1>1, <1>2, <1>3 DEF IInv

\* A step that changes only frames that are no bodies of modules.
LEMMA FrameStep ==
    ASSUME IInv, statements' \in Nat,
           UNCHANGED <<cache, exports, variables, exports_stack, base_dirs,
                       evaluations, unfinished>>,
           frames' \in Seq(Frame), Matches(frames', exports_stack),
           \A i \in DOMAIN frames' : frames'[i].code \in cache \cup {Main}
    PROVE  IInv'
<1>1. Evaluating' = Evaluating
  BY DEF Evaluating
<1>2. TypeInv' /\ Once'
  BY DEF IInv, TypeInv, Once
<1>3. Stacks(frames', exports_stack, cache)
  BY DEF IInv, Stacks
<1> QED BY <1>1, <1>2, <1>3 DEF IInv

\* The first frame: the program.
LEMMA StartProgramKeeps == ASSUME IInv, StartProgram PROVE IInv'
<1>1. frames \in Seq(Frame) /\ frames = <<>> /\ Len(frames) = 0
  BY EmptySeq DEF StartProgram, IInv, TypeInv
<1>2. PICK c \in Frame : c = Code(Main, TRUE) /\ c.code = Main /\ c.body = TRUE
  BY CodeIs DEF Scope
<1>3. PICK gs : gs = Append(frames, c)
  OBVIOUS
<1>4. frames' = gs
  BY <1>1, <1>2, <1>3 DEF StartProgram
<1>5. /\ gs \in Seq(Frame) /\ SameCode(frames, gs) /\ Len(gs) = Len(frames) + 1
      /\ gs[Len(gs)] = c
  BY <1>1, <1>3, FramePushed
<1>6. BodiesIn(gs) = BodiesIn(frames)
  BY <1>1, <1>2, <1>5, SameBodies
<1>7. Matches(gs, exports_stack)
  BY <1>1, <1>5, <1>6, NoBodyMoves DEF IInv, Stacks
<1>8. ASSUME NEW i \in DOMAIN gs PROVE gs[i].code = Main
  <2>1. i = Len(gs)
    BY <1>1, <1>5, LenProperties
  <2> QED BY <1>2, <1>5, <2>1
<1>9. statements' \in Nat
  BY DEF StartProgram, IInv, TypeInv
<1> QED BY <1>4, <1>5, <1>7, <1>8, <1>9, FrameStep DEF StartProgram

\* A function is called.
LEMMA CallKeeps == ASSUME IInv, NEW s \in Scope, Call(s) PROVE IInv'
<1>1. frames \in Seq(Frame)
  BY DEF IInv, TypeInv
<1>2. PICK c \in Frame : c = Code(s, FALSE) /\ c.code = s /\ c.body = FALSE
  BY CodeIs
<1>3. PICK gs : gs = Append(frames, c)
  OBVIOUS
<1>4. frames' = gs
  BY <1>2, <1>3 DEF Call
<1>5. /\ gs \in Seq(Frame) /\ SameCode(frames, gs) /\ Len(gs) = Len(frames) + 1
      /\ gs[Len(gs)] = c
  BY <1>1, <1>3, FramePushed
<1>6. BodiesIn(gs) = BodiesIn(frames)
  BY <1>1, <1>2, <1>5, SameBodies
<1>7. Matches(gs, exports_stack)
  BY <1>1, <1>5, <1>6, NoBodyMoves DEF IInv, Stacks
<1>8. s \in cache \cup {Main}
  <2>1. CASE s # Main
    <3>1. s \in Module /\ evaluations[s] > 0
      BY <2>1 DEF Call, Scope
    <3> QED BY <3>1 DEF IInv, Once
  <2> QED BY <2>1
<1>9. ASSUME NEW i \in DOMAIN gs PROVE gs[i].code \in cache \cup {Main}
  <2>1. i = Len(gs) \/ (i \in DOMAIN frames /\ gs[i].code = frames[i].code)
    <3>1. /\ DOMAIN gs = 1..Len(gs) /\ DOMAIN frames = 1..Len(frames)
          /\ Len(gs) \in Nat /\ Len(frames) \in Nat
      BY <1>1, <1>5, LenProperties
    <3>2. i = Len(gs) \/ i \in DOMAIN frames
      BY <1>5, <3>1
    <3>3. \A j \in DOMAIN frames \cap DOMAIN gs : gs[j].code = frames[j].code
      BY <1>5 DEF SameCode
    <3> QED BY <1>9, <3>2, <3>3
  <2> QED BY <1>2, <1>5, <1>8, <2>1 DEF IInv, Stacks
<1>10. statements' \in Nat
  BY DEF Call, Statement, IInv, TypeInv
<1> QED BY <1>4, <1>5, <1>7, <1>9, <1>10, FrameStep DEF Call

\* A function, the program, or an abandoned body: the top frame just goes.
LEMMA DropKeeps ==
    ASSUME IInv, frames # <<>>, ~Top.body \/ Top.code = Main,
           statements' = statements,
           frames' = Front(frames) \/ frames' = Resumed(Front(frames)),
           UNCHANGED <<cache, exports, variables, exports_stack, base_dirs,
                       evaluations, unfinished>>
    PROVE  IInv'
<1>1. frames \in Seq(Frame) /\ statements' \in Nat
  BY DEF IInv, TypeInv
<1>2. PICK gs : gs = frames'
  OBVIOUS
<1>3. /\ gs \in Seq(Frame) /\ Len(frames) = Len(gs) + 1
      /\ SameCode(frames, gs) /\ SameCode(gs, frames)
  BY <1>1, <1>2, FrameDropped, FrameResumed
<1>4. ~frames[Len(frames)].body \/ frames[Len(frames)].code = Main
  BY TopIs
<1>5. BodiesIn(gs) = BodiesIn(frames)
  BY <1>1, <1>3, <1>4, SameBodies
<1>6. Matches(gs, exports_stack)
  BY <1>1, <1>3, <1>5, NoBodyMoves DEF IInv, Stacks
<1>7. ASSUME NEW i \in DOMAIN gs PROVE gs[i].code \in cache \cup {Main}
  <2>1. /\ DOMAIN gs = 1..Len(gs) /\ DOMAIN frames = 1..Len(frames)
        /\ Len(gs) \in Nat /\ Len(frames) \in Nat
    BY <1>1, <1>3, LenProperties
  <2>2. i \in DOMAIN frames
    BY <1>3, <1>7, <2>1
  <2>3. gs[i].code = frames[i].code
    BY <1>3, <1>7, <2>2 DEF SameCode
  <2> QED BY <2>2, <2>3 DEF IInv, Stacks
<1> QED BY <1>1, <1>2, <1>3, <1>6, <1>7, FrameStep

\* What is left when the body of a module is gone, and who waited for it.
LEMMA BodyGone ==
    ASSUME IInv, frames # <<>>, Top.body, Top.code # Main,
           NEW gs, gs = Resumed(Front(frames)),
           NEW stack, stack = Front(exports_stack)
    PROVE  /\ gs \in Seq(Frame) /\ stack \in Seq(Module)
           /\ Stacks(gs, stack, cache)
           /\ Range(stack) \subseteq Evaluating /\ Top.code \notin Range(stack)
           /\ Top.code \in cache
           /\ LET f == Last(Front(frames)) IN
              /\ f \in Frame /\ f.target = Top.code
              /\ f.body => f.code \in Range(stack) \cup {Main}
<1>1. frames \in Seq(Frame) /\ exports_stack \in Seq(Module)
  BY DEF IInv, TypeInv
<1>2. /\ gs \in Seq(Frame) /\ Len(frames) = Len(gs) + 1
      /\ SameCode(frames, gs) /\ SameCode(gs, frames)
  BY <1>1, FrameResumed
<1>3. PICK n : n = Len(frames)
  OBVIOUS
<1>4. /\ frames[n] = Top /\ n \in DOMAIN frames /\ Top.code \in cache
  BY <1>3, TopIs
<1>5. Matches(frames, exports_stack)
  BY DEF IInv, Stacks
<1>6. /\ exports_stack # <<>> /\ Last(exports_stack) = Top.code
      /\ Len(gs) > 0 /\ frames[Len(gs)].target = Top.code
      /\ Matches(gs, stack)
  <2>1. frames[Len(frames)].body /\ frames[Len(frames)].code # Main
    BY <1>3, <1>4
  <2>2. /\ exports_stack # <<>> /\ Last(exports_stack) = frames[Len(frames)].code
        /\ Len(gs) > 0 /\ frames[Len(gs)].target = frames[Len(frames)].code
        /\ Matches(gs, Front(exports_stack))
    BY ONLY <1>1, <1>2, <1>5, <2>1, BodyPopped
  <2> QED BY <1>3, <1>4, <2>2
<1>7. PICK k \in Nat \ {0} : k = Len(exports_stack)
  BY <1>1, <1>6, FrontIs
<1>8. /\ stack \in Seq(Module) /\ Len(stack) = k - 1 /\ Top.code = exports_stack[k]
      /\ \A i \in 1..k - 1 : stack[i] = exports_stack[i]
      /\ DOMAIN exports_stack = 1..k /\ DOMAIN stack = 1..k - 1
  <2>1. /\ stack \in Seq(Module) /\ Len(stack) = k - 1
        /\ \A i \in 1..k - 1 : stack[i] = exports_stack[i]
        /\ Top.code = exports_stack[k]
    BY <1>1, <1>6, <1>7, FrontIs
  <2> QED BY <1>1, <1>7, <2>1, LenProperties
<1>9. Distinct(exports_stack) /\ \A i \in DOMAIN exports_stack : exports_stack[i] \in cache
  BY DEF IInv, Stacks
<1>10. \A i \in 1..k - 1 : i \in 1..k /\ i # k /\ k \in 1..k
  OBVIOUS
<1>11. Distinct(stack) /\ \A i \in DOMAIN stack : stack[i] \in cache
  BY <1>8, <1>9, <1>10 DEF Distinct
<1>12. Range(stack) \subseteq Evaluating /\ Top.code \notin Range(stack)
  <2>1. \A i \in DOMAIN stack : stack[i] = exports_stack[i] /\ i \in DOMAIN exports_stack
    BY <1>8, <1>10
  <2>2. \A i \in DOMAIN stack : exports_stack[i] # exports_stack[k]
    BY <1>8, <1>9, <1>10 DEF Distinct
  <2> QED BY <1>8, <2>1, <2>2 DEF Evaluating, Range
<1>13. ASSUME NEW i \in DOMAIN gs
       PROVE  i \in DOMAIN frames /\ gs[i].code = frames[i].code /\ gs[i].body = frames[i].body
  <2>1. /\ DOMAIN gs = 1..Len(gs) /\ DOMAIN frames = 1..Len(frames)
        /\ Len(gs) \in Nat /\ Len(frames) \in Nat
    BY <1>1, <1>2, LenProperties
  <2>2. i \in DOMAIN frames
    BY <1>2, <1>13, <2>1
  <2> QED BY <1>2, <1>13, <2>2 DEF SameCode
<1>14. \A i \in DOMAIN gs : gs[i].code \in cache \cup {Main}
  BY <1>13 DEF IInv, Stacks
<1>15. PICK below \in Seq(Frame) : below = Front(frames)
  BY <1>1, FrameDropped
<1>16. PICK f : f = Last(below)
  OBVIOUS
<1>17. /\ Len(below) = Len(gs) /\ below # <<>>
       /\ f = below[Len(gs)] /\ f \in Frame /\ Len(gs) \in DOMAIN gs
  <2>1. Len(frames) = Len(below) + 1 /\ Len(below) \in Nat /\ Len(gs) \in Nat
    BY <1>1, <1>2, <1>15, FrameDropped, LenProperties
  <2>2. Len(below) = Len(gs)
    BY <1>2, <2>1
  <2>3. below # <<>>
    BY <1>6, <2>2, EmptySeq
  <2>4. f = below[Len(below)] /\ f \in Frame
    BY <1>15, <1>16, <2>3, FrontIs
  <2>5. DOMAIN gs = 1..Len(gs)
    BY <1>2, LenProperties
  <2> QED BY <1>6, <2>1, <2>2, <2>3, <2>4, <2>5
<1>18. f = frames[Len(gs)]
  <2>1. \A i \in 1..Len(frames) - 1 : below[i] = frames[i]
    BY <1>1, <1>15, FrontIs
  <2>2. Len(gs) \in 1..Len(frames) - 1
    <3>1. Len(gs) \in Nat
      BY <1>2, LenProperties
    <3> QED BY <1>2, <1>6, <3>1
  <2> QED BY <1>17, <2>1, <2>2
<1>19. f.body => f.code \in Range(stack) \cup {Main}
  <2>1. gs[Len(gs)].code = f.code /\ gs[Len(gs)].body = f.body
    BY <1>13, <1>17, <1>18
  <2> QED BY <1>2, <1>6, <1>8, <1>17, <2>1, BodyOnStack
<1>20. Stacks(gs, stack, cache)
  BY <1>6, <1>11, <1>14 DEF Stacks
<1> QED BY <1>2, <1>4, <1>6, <1>8, <1>12, <1>15, <1>16, <1>17, <1>18, <1>19, <1>20

\* A step in which the body of a module goes.
LEMMA BodyStep ==
    ASSUME IInv, frames # <<>>, Top.body, Top.code # Main,
           frames' = Resumed(Front(frames)),
           exports_stack' = Front(exports_stack), base_dirs' = Front(base_dirs),
           UNCHANGED <<cache, statements, evaluations, unfinished>>,
           Moves(variables, exports, variables', exports', cache,
                 Range(Front(exports_stack)), unfinished)
    PROVE  IInv'
<1>1. PICK gs, stack : gs = Resumed(Front(frames)) /\ stack = Front(exports_stack)
  OBVIOUS
<1>2. /\ gs \in Seq(Frame) /\ stack \in Seq(Module)
      /\ Stacks(gs, stack, cache) /\ Range(stack) \subseteq Evaluating
  BY <1>1, BodyGone
<1>3. frames' = gs /\ exports_stack' = stack /\ base_dirs' = stack /\ Evaluating' = Range(stack)
  BY <1>1 DEF IInv, TypeInv, Evaluating
<1>4. TypeInv' /\ Once'
  <2>1. /\ cache \subseteq Module /\ statements \in Nat
        /\ evaluations \in [Module -> Nat] /\ unfinished \subseteq Module /\ Once
    BY DEF IInv, TypeInv
  <2> QED BY <1>2, <1>3, <2>1 DEF TypeInv, Once, Moves
<1>5. /\ Refs(variables', exports', cache, Range(stack), unfinished)
      /\ NoLoop(variables', exports', unfinished)
  <2>1. /\ Refs(variables, exports, cache, Evaluating, unfinished)
        /\ NoLoop(variables, exports, unfinished)
    BY DEF IInv
  <2>2. /\ Range(stack) \cap cache \subseteq Evaluating /\ cache \subseteq cache
        /\ unfinished \subseteq unfinished
    BY <1>2
  <2>3. Moves(variables, exports, variables', exports', cache, Range(stack), unfinished)
    BY <1>1
  <2> QED BY ONLY <2>1, <2>2, <2>3, DataKeeps
<1>6. Stacks(frames', exports_stack', cache')
  BY <1>2, <1>3
<1> QED BY <1>3, <1>4, <1>5, <1>6 DEF IInv

\* Nothing moves.
LEMMA Unmoved ==
    ASSUME IInv, UNCHANGED <<variables, exports>>, NEW known, NEW active, NEW early
    PROVE  Moves(variables, exports, variables', exports', known, active, early)
BY DEF IInv, TypeInv, Moves

\* A body throws, or a function or the program does.
LEMMA ThrowsKeeps == ASSUME IInv, Throws PROVE IInv'
<1>1. CASE Top.body /\ Top.code # Main
  <2>1. exports_stack' = Front(exports_stack) /\ base_dirs' = Front(base_dirs)
    BY <1>1 DEF Throws, Leave
  <2>2. Moves(variables, exports, variables', exports', cache,
              Range(Front(exports_stack)), unfinished)
    BY Unmoved DEF Throws
  <2> QED BY <1>1, <2>1, <2>2, BodyStep DEF Throws
<1>2. CASE ~Top.body \/ Top.code = Main
  <2>1. UNCHANGED <<exports_stack, base_dirs>>
    BY <1>2 DEF Throws, Leave
  <2> QED BY <1>2, <2>1, DropKeeps DEF Throws
<1> QED BY <1>1, <1>2

\* A function or the program ends.
LEMMA EndsKeeps == ASSUME IInv, Ends PROVE IInv'
BY DropKeeps DEF Ends

\* A body ends, and its asker gets the namespace.
LEMMA BodyEndsKeeps == ASSUME IInv, BodyEnds PROVE IInv'
<1>1. /\ frames # <<>> /\ Top.body /\ Top.code # Main
      /\ frames' = Resumed(Front(frames))
      /\ exports_stack' = Front(exports_stack) /\ base_dirs' = Front(base_dirs)
      /\ UNCHANGED <<cache, statements, evaluations, unfinished>>
  BY DEF BodyEnds, Leave
<1>2. PICK gs, stack, f, m : /\ gs = Resumed(Front(frames)) /\ stack = Front(exports_stack)
                             /\ f = Last(Front(frames)) /\ m = Top.code
  OBVIOUS
<1>3. /\ stack \in Seq(Module) /\ Range(stack) \subseteq Evaluating
      /\ m \notin Range(stack) /\ m \in cache /\ f \in Frame /\ f.target = m
      /\ f.body => f.code \in Range(stack) \cup {Main}
  BY <1>1, <1>2, BodyGone
<1>4. Grant(f, f.wish, m, stack)
  BY <1>1, <1>2, <1>3 DEF BodyEnds
<1>5. f.wish \in Wish
  BY <1>3 DEF Frame
<1>6. Moves(variables, exports, variables', exports', cache, Range(stack), unfinished)
  <2>1. TypeInv /\ Refs(variables, exports, cache, Evaluating, unfinished)
    BY DEF IInv
  <2>2. unfinished \subseteq unfinished
    OBVIOUS
  <2> QED BY ONLY <1>3, <1>4, <1>5, <2>1, <2>2, GrantKeeps
<1> QED BY <1>1, <1>2, <1>6, BodyStep

\* A declaration.
LEMMA DeclareKeeps == ASSUME IInv, NEW n \in Name, Declare(n) PROVE IInv'
<1>1. frames # <<>> /\ Top.body /\ statements' \in Nat
  BY DEF Declare, Statement, IInv, TypeInv
<1>2. Top.code \in Evaluating \cup {Main} /\ Top.code \in Scope
  BY <1>1, TopIs
<1>3. GoodVariable(Plain, cache, Evaluating, unfinished)
  BY DataIs DEF GoodVariable
<1>4. Moves(variables, exports, variables', exports', cache, Evaluating, unfinished)
  <2>1. /\ variables \in [Scope -> [Name -> Variable]] /\ exports \in [Module -> [Name -> Entry]]
        /\ variables' = [variables EXCEPT ![Top.code][n] = Plain] /\ exports' = exports
        /\ Plain \in Variable
    BY DataIs DEF Declare, IInv, TypeInv
  <2>2. PICK c \in Scope : c = Top.code
    BY <1>2
  <2>3. /\ variables' \in [Scope -> [Name -> Variable]]
        /\ \A s \in Scope, k \in Name :
              \/ variables'[s][k] = variables[s][k]
              \/ s = c /\ variables'[s][k] = Plain
    BY <2>1, <2>2
  <2> QED BY <1>2, <1>3, <2>1, <2>2, <2>3 DEF Moves
<1>5. unfinished' = unfinished /\ unfinished' \subseteq Module
  BY DEF Declare, IInv, TypeInv
<1> QED BY <1>1, <1>4, <1>5, DataStep DEF Declare

\* What one exported name refers to.
LEMMA WriteMoves ==
    ASSUME IInv, UNCHANGED variables, NEW n \in Name, NEW r \in Entry, NEW early,
           WriteExports(exports_stack, [k \in {n} |-> r]),
           exports_stack # <<>> => GoodEntry(Last(exports_stack), r, cache, Evaluating, early)
    PROVE  Moves(variables, exports, variables', exports', cache, Evaluating, early)
<1>1. /\ exports \in [Module -> [Name -> Entry]] /\ exports_stack \in Seq(Module)
      /\ variables \in [Scope -> [Name -> Variable]]
  BY DEF IInv, TypeInv
<1>2. PICK entries : entries = [k \in {n} |-> r]
  OBVIOUS
<1>3. /\ DOMAIN entries \subseteq Name
      /\ \A k \in DOMAIN entries : entries[k] = r /\ entries[k] \in Entry
  BY <1>2
<1>4. /\ exports' \in [Module -> [Name -> Entry]]
      /\ \A m \in Module, k \in Name :
            \/ exports'[m][k] = exports[m][k]
            \/ /\ exports_stack # <<>> /\ m = Last(exports_stack) /\ m \in Range(exports_stack)
               /\ k \in DOMAIN entries /\ exports'[m][k] = entries[k]
  BY <1>1, <1>2, <1>3, WriteIs
<1>5. ASSUME NEW m \in Module, NEW k \in Name, exports'[m][k] # exports[m][k]
      PROVE  m \in Evaluating /\ GoodEntry(m, exports'[m][k], cache, Evaluating, early)
  <2>1. /\ exports_stack # <<>> /\ m = Last(exports_stack) /\ m \in Evaluating
        /\ exports'[m][k] = r
    BY <1>3, <1>4, <1>5 DEF Evaluating
  <2>2. GoodEntry(Last(exports_stack), r, cache, Evaluating, early)
    BY <2>1
  <2> QED BY <2>1, <2>2
<1> QED BY <1>1, <1>4, <1>5 DEF Moves

\* A default export.
LEMMA ExportDefaultKeeps == ASSUME IInv, ExportDefault PROVE IInv'
<1>1. /\ statements' \in Nat /\ unfinished' = unfinished /\ unfinished' \subseteq Module
      /\ WriteExports(exports_stack, [k \in {"default"} |-> Plain])
  BY DEF ExportDefault, Statement, IInv, TypeInv
<1>2. \A m : GoodEntry(m, Plain, cache, Evaluating, unfinished)
  BY DataIs DEF GoodEntry
<1>3. Plain \in Entry /\ "default" \in Name
  BY DataIs DEF Name
<1>4. Moves(variables, exports, variables', exports', cache, Evaluating, unfinished)
  BY <1>1, <1>2, <1>3, WriteMoves DEF ExportDefault
<1> QED BY <1>1, <1>4, DataStep DEF ExportDefault

\* An export of a variable.
LEMMA ExportBindingKeeps ==
    ASSUME IInv, NEW n \in Name, NEW local \in Name, ExportBinding(n, local)
    PROVE  IInv'
<1>1. frames # <<>> /\ statements' \in Nat
  BY DEF ExportBinding, Statement, IInv, TypeInv
<1>2. PICK c \in Scope : c = Top.code /\ c \in cache \cup {Main}
  BY <1>1, TopIs
<1>3. PICK early : early = unfinished'
  OBVIOUS
<1>4. early = unfinished \cup ({c} \cap Range(Front(exports_stack)))
  BY <1>2, <1>3 DEF ExportBinding
<1>5. PICK r : r = Binding(c, local)
  OBVIOUS
<1>6. r \in Entry /\ r.how = "binding" /\ r.of = c
  BY <1>5 DEF Binding, Entry
<1>7. exports_stack \in Seq(Module) /\ cache \subseteq Module /\ unfinished \subseteq Module
  BY DEF IInv, TypeInv
<1>8. ASSUME exports_stack # <<>>
      PROVE  GoodEntry(Last(exports_stack), r, cache, Evaluating, early)
  <2>1. \A m \in Evaluating : m = Last(exports_stack) \/ m \in Range(Front(exports_stack))
    <3>1. PICK k \in Nat \ {0} : k = Len(exports_stack)
      BY <1>7, <1>8, FrontIs
    <3>2. /\ DOMAIN exports_stack = 1..k /\ Last(exports_stack) = exports_stack[k]
          /\ \A i \in 1..k - 1 : Front(exports_stack)[i] = exports_stack[i]
          /\ DOMAIN Front(exports_stack) = 1..k - 1
      <4>1. PICK front \in Seq(Module) : front = Front(exports_stack)
        BY <1>7, <1>8, FrontIs
      <4>2. Len(front) = k - 1
        BY <1>7, <1>8, <3>1, <4>1, FrontIs
      <4>3. DOMAIN front = 1..k - 1
        BY <4>2, LenProperties
      <4> QED BY <1>7, <1>8, <3>1, <4>1, <4>3, FrontIs, LenProperties
    <3>3. \A i \in 1..k : i = k \/ i \in 1..k - 1
      OBVIOUS
    <3> QED BY <3>2, <3>3 DEF Evaluating, Range
  <2> QED BY <1>2, <1>4, <1>6, <2>1 DEF GoodEntry
<1>9. Moves(variables, exports, variables', exports', cache, Evaluating, early)
  <2>1. WriteExports(exports_stack, [k \in {n} |-> r]) /\ UNCHANGED variables
    BY <1>2, <1>5 DEF ExportBinding
  <2> QED BY <1>6, <1>8, <2>1, WriteMoves
<1>10. early \subseteq Module /\ unfinished \subseteq early
  <2>1. c \in Range(Front(exports_stack)) => c \in Module
    <3>1. CASE exports_stack = <<>>
      <4>1. Front(exports_stack) = <<>>
        <5>1. Len(exports_stack) = 0 /\ Front(exports_stack) = SubSeq(exports_stack, 1, Len(exports_stack) - 1)
          BY <3>1, EmptySeq DEF Front
        <5> QED BY <5>1, SubSeqEmpty
      <4> QED BY <4>1, EmptySeq DEF Range
    <3>2. CASE exports_stack # <<>>
      <4>1. Front(exports_stack) \in Seq(Module)
        BY <1>7, <3>2, FrontIs
      <4> QED BY <4>1, RangeOfSeq
    <3> QED BY <3>1, <3>2
  <2> QED BY <1>4, <1>7, <2>1
<1> QED BY <1>1, <1>3, <1>9, <1>10, DataStep DEF ExportBinding

-----------------------------------------------------------------------------
(* Loading.                                                                *)

\* What is asked of a module in the cache.
LEMMA LoadCachedKeeps ==
    ASSUME IInv, NEW m \in Module, NEW wish \in Wish, LoadCached(m, wish)
    PROVE  IInv'
<1>1. frames # <<>> /\ statements' \in Nat /\ m \in cache
  BY DEF LoadCached, Statement, IInv, TypeInv
<1>2. PICK f, early : f = Top /\ early = unfinished'
  OBVIOUS
<1>3. f \in Frame /\ (f.body => f.code \in Evaluating \cup {Main})
  BY <1>1, <1>2, TopIs
<1>4. /\ early = unfinished \cup ({m} \cap Evaluating)
      /\ Grant(f, wish, m, exports_stack)
  BY <1>2 DEF LoadCached
<1>5. /\ exports_stack \in Seq(Module) /\ Range(exports_stack) = Evaluating
      /\ unfinished \subseteq Module /\ TypeInv
      /\ Refs(variables, exports, cache, Evaluating, unfinished)
  BY DEF IInv, TypeInv, Evaluating
<1>6. /\ Range(exports_stack) \subseteq Evaluating /\ unfinished \subseteq early
      /\ m \in early \/ m \notin Range(exports_stack)
      /\ early \subseteq Module
  BY <1>4, <1>5
<1>7. Moves(variables, exports, variables', exports', cache, Range(exports_stack), early)
  <2>1. f.body => f.code \in Range(exports_stack) \cup {Main}
    BY <1>3, <1>5
  <2>2. f \in Frame /\ m \in cache /\ exports_stack \in Seq(Module)
    BY <1>1, <1>3, <1>5
  <2> QED BY ONLY <1>4, <1>5, <1>6, <2>1, <2>2, GrantKeeps
<1> QED BY <1>1, <1>2, <1>5, <1>6, <1>7, DataStep DEF LoadCached

\* A module that nobody knows yet comes into the cache, and perhaps on the stack.
LEMMA Entered ==
    ASSUME IInv, NEW m \in Module, NEW active, active \subseteq Evaluating \cup {m}, m \notin cache
    PROVE  /\ Refs(variables, exports, cache \cup {m}, active, unfinished)
           /\ NoLoop(variables, exports, unfinished)
<1>1. /\ Refs(variables, exports, cache, Evaluating, unfinished)
      /\ NoLoop(variables, exports, unfinished)
      /\ variables \in [Scope -> [Name -> Variable]] /\ exports \in [Module -> [Name -> Entry]]
  BY DEF IInv, TypeInv
<1>2. Moves(variables, exports, variables, exports, cache \cup {m}, active, unfinished)
  BY <1>1 DEF Moves
<1>3. /\ cache \subseteq cache \cup {m} /\ unfinished \subseteq unfinished
      /\ active \cap cache \subseteq Evaluating
  OBVIOUS
<1>4. PICK known : known = cache \cup {m}
  OBVIOUS
<1> QED BY <1>1, <1>2, <1>3, <1>4, DataKeeps

\* A module whose file cannot be read.
LEMMA LoadFailsKeeps == ASSUME IInv, NEW m \in Module, LoadFails(m) PROVE IInv'
<1>1. /\ cache' = cache \cup {m} /\ m \notin cache /\ statements' \in Nat
      /\ UNCHANGED <<exports, variables, frames, exports_stack, base_dirs,
                     evaluations, unfinished>>
  BY DEF LoadFails, Statement, IInv, TypeInv
<1>2. TypeInv' /\ Once'
  BY <1>1 DEF IInv, TypeInv, Once
<1>3. Stacks(frames, exports_stack, cache \cup {m})
  BY DEF IInv, Stacks
<1>4. Evaluating' = Evaluating
  BY <1>1 DEF Evaluating
<1>5. /\ Refs(variables, exports, cache \cup {m}, Evaluating, unfinished)
      /\ NoLoop(variables, exports, unfinished)
  BY <1>1, Entered
<1> QED BY <1>1, <1>2, <1>3, <1>4, <1>5 DEF IInv

\* The frame of a statement that waits, and on it the body it waits for.
Waiting(fs, wish, m, body) ==
    Append([fs EXCEPT ![Len(fs)].wish = wish, ![Len(fs)].target = m], body)

\* They are what the stack of modules is to match.
LEMMA WaiterAndBody ==
    ASSUME NEW fs \in Seq(Frame), fs # <<>>, NEW wish \in Wish, NEW m \in Module,
           NEW body \in Frame, NEW gs, gs = Waiting(fs, wish, m, body)
    PROVE  /\ gs \in Seq(Frame) /\ SameCode(fs, gs) /\ Len(gs) = Len(fs) + 1
           /\ gs[Len(gs)] = body /\ gs[Len(fs)].target = m
<1>1. PICK n \in Nat \ {0} : n = Len(fs)
  BY EmptySeq
<1>2. DOMAIN fs = 1..n /\ n \in 1..n
  BY <1>1, LenProperties
<1>3. PICK b \in Frame : b = fs[n]
  BY <1>1, <1>2, ElementOfSeq
<1>4. PICK c : c = [[b EXCEPT !.wish = wish] EXCEPT !.target = m]
  OBVIOUS
<1>5. c \in Frame /\ c.code = b.code /\ c.body = b.body /\ c.target = m
  BY <1>4 DEF Frame, Scope
<1>6. PICK waiting : waiting = [fs EXCEPT ![n] = c]
  OBVIOUS
<1>7. waiting = [fs EXCEPT ![Len(fs)].wish = wish, ![Len(fs)].target = m]
  BY <1>1, <1>2, <1>3, <1>4, <1>6
<1>8. /\ waiting \in Seq(Frame) /\ Len(waiting) = n
      /\ \A i \in 1..n : waiting[i] = IF i = n THEN c ELSE fs[i]
  BY <1>1, <1>2, <1>5, <1>6, ExceptSeq
<1>9. gs = Append(waiting, body)
  BY <1>7 DEF Waiting
<1>10. /\ gs \in Seq(Frame) /\ Len(gs) = n + 1 /\ gs[n + 1] = body
       /\ \A i \in 1..n : gs[i] = waiting[i]
  BY <1>8, <1>9, AppendProperties
<1>11. DOMAIN gs = 1..n + 1
  BY <1>10, LenProperties
<1>12. ASSUME NEW i \in 1..n
       PROVE  /\ gs[i].code = fs[i].code /\ gs[i].body = fs[i].body
              /\ i # n => gs[i].target = fs[i].target
  BY <1>3, <1>5, <1>8, <1>10
<1>13. \A i \in 1..n : i + 1 \in 1..n => i # n
  OBVIOUS
<1>14. SameCode(fs, gs)
  <2>1. DOMAIN fs \cap DOMAIN gs = 1..n
    BY <1>2, <1>11
  <2> QED BY <1>12, <1>13, <2>1 DEF SameCode
<1>15. gs[n].target = m
  BY <1>2, <1>5, <1>8, <1>10
<1> QED BY <1>1, <1>10, <1>14, <1>15

\* A module on top of a stack that does not hold it.
LEMMA StackPushed ==
    ASSUME NEW stack \in Seq(Module), NEW m \in Module, NEW longer,
           longer = Append(stack, m), Distinct(stack), m \notin Range(stack)
    PROVE  /\ longer \in Seq(Module) /\ Distinct(longer)
           /\ Range(longer) = Range(stack) \cup {m}
<1>1. PICK n \in Nat : n = Len(stack)
  BY LenProperties
<1>2. /\ longer \in Seq(Module) /\ Len(longer) = n + 1 /\ longer[n + 1] = m
      /\ \A i \in 1..n : longer[i] = stack[i]
  BY <1>1, AppendProperties
<1>3. DOMAIN stack = 1..n /\ DOMAIN longer = 1..n + 1
  BY <1>1, <1>2, LenProperties
<1>4. \A i \in 1..n + 1 : i = n + 1 \/ i \in 1..n
  OBVIOUS
<1>5. \A i \in 1..n : stack[i] # m
  BY <1>3 DEF Range
<1>6. Distinct(longer)
  BY <1>2, <1>3, <1>4, <1>5 DEF Distinct
<1>7. Range(longer) = Range(stack) \cup {m}
  <2>1. n + 1 \in 1..n + 1 /\ \A i \in 1..n : i \in 1..n + 1
    OBVIOUS
  <2> QED BY <1>2, <1>3, <1>4, <2>1 DEF Range
<1> QED BY <1>2, <1>6, <1>7

\* A module is read and its body begins.
LEMMA LoadEvaluatesKeeps ==
    ASSUME IInv, NEW m \in Module, NEW wish \in Wish, LoadEvaluates(m, wish)
    PROVE  IInv'
<1>0. PICK body \in Frame : body = Code(m, TRUE) /\ body.code = m /\ body.body = TRUE
  BY CodeIs DEF Scope
<1>1. PICK gs : gs = Waiting(frames, wish, m, body)
  OBVIOUS
<1>2. PICK stack : stack = Append(exports_stack, m)
  OBVIOUS
<1>3. /\ frames # <<>> /\ statements' \in Nat /\ m \notin cache /\ cache' = cache \cup {m}
      /\ frames' = gs /\ exports_stack' = stack /\ base_dirs' = stack
      /\ evaluations' = [evaluations EXCEPT ![m] = @ + 1]
      /\ UNCHANGED <<exports, variables, unfinished>>
  BY <1>0, <1>1, <1>2 DEF LoadEvaluates, Enter, Statement, Waiting, IInv, TypeInv
<1>4. /\ frames \in Seq(Frame) /\ exports_stack \in Seq(Module)
      /\ Matches(frames, exports_stack) /\ Distinct(exports_stack)
      /\ Evaluating = Range(exports_stack)
  BY DEF IInv, TypeInv, Stacks, Evaluating
<1>5. /\ gs \in Seq(Frame) /\ SameCode(frames, gs) /\ Len(gs) = Len(frames) + 1
      /\ gs[Len(gs)] = body /\ gs[Len(frames)].target = m
  <2>1. PICK fs \in Seq(Frame) : fs = frames /\ fs # <<>>
    BY <1>3, <1>4
  <2>2. gs = Waiting(fs, wish, m, body)
    BY <1>1, <2>1
  <2>3. /\ gs \in Seq(Frame) /\ SameCode(fs, gs) /\ Len(gs) = Len(fs) + 1
        /\ gs[Len(gs)] = body /\ gs[Len(fs)].target = m
    <3>1. \A w \in Wish, k \in Module, b \in Frame : \A g :
             g = Waiting(fs, w, k, b) =>
                /\ g \in Seq(Frame) /\ SameCode(fs, g) /\ Len(g) = Len(fs) + 1
                /\ g[Len(g)] = b /\ g[Len(fs)].target = k
      BY ONLY <2>1, WaiterAndBody
    <3> QED BY <2>2, <3>1
  <2> QED BY <2>1, <2>3
<1>6. gs[Len(gs)].body /\ gs[Len(gs)].code = m
  BY <1>0, <1>5
<1>7. m \notin Range(exports_stack)
  BY <1>3, <1>4, ActiveIsKnown
<1>8. /\ stack \in Seq(Module) /\ Distinct(stack)
      /\ Range(stack) = Evaluating \cup {m}
  BY <1>2, <1>4, <1>7, StackPushed
<1>9. Matches(gs, stack)
  <2>1. Len(frames) > 0
    BY <1>3, <1>4, EmptySeq
  <2> QED BY ONLY <1>2, <1>4, <1>5, <1>6, <2>1, BodyPushed
<1>10. ASSUME NEW i \in DOMAIN gs PROVE gs[i].code \in cache \cup {m} \cup {Main}
  <2>1. /\ DOMAIN gs = 1..Len(gs) /\ DOMAIN frames = 1..Len(frames)
        /\ Len(gs) \in Nat /\ Len(frames) \in Nat
    BY <1>4, <1>5, LenProperties
  <2>2. i = Len(gs) \/ i \in DOMAIN frames
    BY <1>5, <1>10, <2>1
  <2>3. i \in DOMAIN frames => gs[i].code = frames[i].code
    BY <1>5, <1>10 DEF SameCode
  <2> QED BY <1>6, <2>2, <2>3 DEF IInv, Stacks
<1>11. \A i \in DOMAIN stack : stack[i] \in cache \cup {m}
  <2>1. Range(stack) \subseteq cache \cup {m}
    BY <1>8, ActiveIsKnown
  <2> QED BY <2>1 DEF Range
<1>12. Stacks(gs, stack, cache \cup {m})
  BY <1>8, <1>9, <1>10, <1>11 DEF Stacks
<1>13. TypeInv' /\ Once'
  <2>1. /\ cache \subseteq Module /\ unfinished \subseteq Module
        /\ exports \in [Module -> [Name -> Entry]] /\ variables \in [Scope -> [Name -> Variable]]
        /\ evaluations \in [Module -> Nat] /\ Once
    BY DEF IInv, TypeInv
  <2>2. TypeInv'
    BY <1>3, <1>5, <1>8, <2>1 DEF TypeInv
  <2>3. evaluations[m] = 0
    BY <1>3, <2>1 DEF Once
  <2>4. Once'
    BY <1>3, <2>1, <2>3 DEF Once
  <2> QED BY <2>2, <2>4
<1>14. Evaluating' = Evaluating \cup {m}
  BY <1>3, <1>8 DEF Evaluating
<1>15. /\ Refs(variables, exports, cache \cup {m}, Evaluating \cup {m}, unfinished)
       /\ NoLoop(variables, exports, unfinished)
  BY <1>3, Entered
<1> QED BY <1>3, <1>12, <1>13, <1>14, <1>15 DEF IInv

\* Nothing refers to anything in the beginning.
LEMMA InitKeeps == ASSUME Init PROVE IInv
<1>1. TypeInv /\ Once
  BY DataIs, EmptySeq DEF Init, TypeInv, Once
<1>2. BodiesIn(<<>>) = {} /\ Cardinality({}) = 0
  BY EmptySeq, FS_EmptySet DEF BodiesIn
<1>3. Stacks(frames, exports_stack, cache)
  <2>1. Matches(<<>>, <<>>) /\ Distinct(<<>>)
    BY <1>2, EmptySeq DEF Matches, Distinct
  <2>2. frames = <<>> /\ exports_stack = <<>>
    BY DEF Init
  <2> QED BY <2>1, <2>2 DEF Stacks
<1>4. Nothing.how = "none"
  BY DataIs
<1>5. Refs(variables, exports, cache, Evaluating, unfinished)
  BY <1>4 DEF Init, Refs, GoodEntry, GoodVariable
<1>6. NoLoop(variables, exports, unfinished)
  <2> SUFFICES ASSUME NEW loop \in SUBSET {p \in SettledIn(unfinished) :
                                   LinkIn(p, variables, exports) \in SettledIn(unfinished)},
                      NEW p \in loop
               PROVE  FALSE
    BY DEF NoLoop
  <2>1. PICK q : q = LinkIn(p, variables, exports)
    OBVIOUS
  <2>2. /\ p \in Places /\ q \in Places /\ q # InEnv(Main, q.name)
    BY <2>1 DEF SettledIn
  <2>3. q = InEnv(Main, p.name) \/ q = Found
    <3>1. CASE p.at = "env"
      BY <1>4, <2>1, <2>2, <3>1, PlaceIs DEF Init, LinkIn
    <3>2. CASE p.at = "namespace"
      BY <1>4, <2>1, <2>2, <3>2, PlaceIs DEF Init, LinkIn
    <3> QED BY <2>2, <3>1, <3>2, PlaceIs
  <2>4. InEnv(Main, p.name).name = p.name /\ Found.at = "found"
    BY DEF InEnv, Found
  <2>5. q # Found
    BY <2>2, <2>4, PlaceIs
  <2> QED BY <2>2, <2>3, <2>4, <2>5
<1> QED BY <1>1, <1>3, <1>5, <1>6 DEF IInv

\* Every step keeps the invariant.
LEMMA NextKeeps == ASSUME IInv, [Next]_vars PROVE IInv'
<1>1. CASE UNCHANGED vars
  BY <1>1 DEF vars, IInv, TypeInv, Once, Evaluating
<1>2. CASE StartProgram
  BY <1>2, StartProgramKeeps
<1>3. CASE Load
  BY <1>3, LoadCachedKeeps, LoadEvaluatesKeeps, LoadFailsKeeps DEF Load
<1>4. CASE ExportDefault
  BY <1>4, ExportDefaultKeeps
<1>5. CASE \E s \in Scope : Call(s)
  BY <1>5, CallKeeps
<1>6. CASE \E n \in Name : Declare(n)
  BY <1>6, DeclareKeeps
<1>7. CASE \E n \in Name : \E local \in Name : ExportBinding(n, local)
  BY <1>7, ExportBindingKeeps
<1>8. CASE BodyEnds
  BY <1>8, BodyEndsKeeps
<1>9. CASE Ends
  BY <1>9, EndsKeeps
<1>10. CASE Throws
  BY <1>10, ThrowsKeeps
<1> QED BY <1>1, <1>2, <1>3, <1>4, <1>5, <1>6, <1>7, <1>8, <1>9, <1>10 DEF Next

-----------------------------------------------------------------------------
(* The theorems.                                                           *)

\* The inductive invariant holds.
THEOREM Invariance == Spec => []IInv
<1>1. Init => IInv
  BY InitKeeps
<1>2. IInv /\ [Next]_vars => IInv'
  BY NextKeeps
<1> QED BY <1>1, <1>2, PTL DEF Spec

\* The two stacks of load_module_namespace hold the bodies under evaluation,
\* innermost last, after any sequence of failed, caught and nested imports.
THEOREM StacksMatchFramesCorrect == Spec => []StacksMatchFrames
<1>1. IInv => StacksMatchFrames
  <2> SUFFICES ASSUME IInv PROVE StacksMatchFrames
    OBVIOUS
  <2>1. Bodies = BodiesIn(frames)
    BY DEF Bodies, BodiesIn
  <2>2. \A i : Nth(i) = Cardinality(UpTo(BodiesIn(frames), i))
    BY <2>1 DEF Nth, UpTo
  <2>3. Matches(frames, exports_stack) /\ base_dirs = exports_stack
    BY DEF IInv, TypeInv, Stacks
  <2> QED BY <2>1, <2>2, <2>3 DEF StacksMatchFrames, Matches
<1> QED BY <1>1, Invariance, PTL

\* No module is evaluated twice, whether it fails, is imported by a module it
\* imports, or is asked for again.
THEOREM EvaluatedOnceCorrect == Spec => []EvaluatedOnce
<1>1. IInv => EvaluatedOnce
  BY DEF IInv, Once, EvaluatedOnce
<1> QED BY <1>1, Invariance, PTL

\* A chain of live bindings that get_binding and resolve_namespace_export follow
\* for ever passes a module that others referred to before its end, or a variable
\* of the program.
THEOREM EndlessOnlyInCycleCorrect == Spec => []EndlessOnlyInCycle
<1>1. IInv => EndlessOnlyInCycle
  <2> SUFFICES ASSUME IInv PROVE EndlessOnlyInCycle
    OBVIOUS
  <2>1. Settled = SettledIn(unfinished)
    BY DEF Settled, SettledIn
  <2>2. \A p : Link(p) = LinkIn(p, variables, exports)
    BY DEF Link, LinkIn, Refers
  <2>3. NoLoop(variables, exports, unfinished)
    BY DEF IInv
  <2> QED BY <2>1, <2>2, <2>3 DEF EndlessOnlyInCycle, NoLoop
<1> QED BY <1>1, Invariance, PTL
=============================================================================
