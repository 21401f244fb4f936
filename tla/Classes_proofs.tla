---------------------------- MODULE Classes_proofs ----------------------------
(***************************************************************************)
(* Proofs about Classes: what a constructor has finished has all its       *)
(* fields, and a derived constructor sees no object before the             *)
(* constructors above have given it theirs.                                *)
(*                                                                         *)
(* A constructor on the stack answers for one object, the one it was       *)
(* passed: what it has as "this" is that one or excused.  When super()     *)
(* gives it the object, the constructor above has finished with it; when   *)
(* it ends, nothing is left to initialize.                                 *)
(***************************************************************************)
EXTENDS Classes, SequenceTheorems, TLAPS

Lefts == {<<>>, <<"private">>, <<"public">>, <<"private", "public">>}

FrameType ==
    [fn : {"constructor", "method", "arrow", "definition"}, class : Class,
     this : Object \cup {None}, bound : Object \cup {None},
     via : {"new", "super", "call"}, at : {"parameters", "body"},
     left : Lefts, inited : BOOLEAN]

TypeInv ==
    /\ complete \subseteq Class
    /\ brands \in [Object -> SUBSET Class]
    /\ slots \in [Object -> [Class -> {"none", "set", "stale"}]]
    /\ fields \in [Object -> SUBSET Class]
    /\ born \in [Address -> Class \cup {None}]
    /\ frames \in Seq(FrameType)
    /\ known \subseteq Address
    /\ made \subseteq Address
    /\ excused \subseteq Address

-----------------------------------------------------------------------------
(* The tables and histories that frames and objects are judged by.         *)
Tables == [brands |-> brands, slots |-> slots, fields |-> fields,
           born |-> born, excused |-> excused]

\* o has what instances of c have.
Ready(o, c, T) ==
    /\ c \in T.brands[o]
    /\ Has(c, TRUE, FALSE) => T.slots[o][c] = "set"
    /\ Has(c, FALSE, FALSE) => c \in T.fields[o]

AllReady(o, S, T) == \A c \in S : Ready(o, c, T)

\* Fields of the kind are still to be initialized by f.
Ahead(f, which) == f.left \in {<<which>>, <<"private", "public">>}

\* The object of f has what its class gives it, but for what lies ahead.
OwnReady(f, T) ==
    /\ f.class \in T.brands[f.bound]
    /\ Has(f.class, TRUE, FALSE) => Ahead(f, "private") \/ T.slots[f.bound][f.class] = "set"
    /\ Has(f.class, FALSE, FALSE) => Ahead(f, "public") \/ f.class \in T.fields[f.bound]

\* The constructor of a class that extends none.
BaseSound(f, T) ==
    /\ f.bound = f.this
    /\ f.at = "parameters" => ~f.inited /\ f.left = <<>>
    /\ f.bound \in Address \ T.excused /\ f.at = "body" => OwnReady(f, T)

\* The constructor of one that does.
DerivedSound(f, T) ==
    /\ f.bound \in {None, f.this} \/ {f.bound, f.this} \cap Address \subseteq T.excused
    /\ (f.inited \/ f.left # <<>>) /\ f.this \in Address \ T.excused => f.bound = f.this
    /\ f.bound \in Address \ T.excused =>
          OwnReady(f, T) /\ AllReady(f.bound, Chain(Parent[f.class]), T)

FrameSound(f, T) ==
    /\ f.fn # "constructor" => f.via = "call"
    /\ f.fn = "arrow" => f.this = None
    /\ f.fn = "constructor" =>
          /\ f.this \in Address \cup {None}
          /\ f.via \in {"new", "super"}
          /\ f.via = "new" => f.this \in Address /\ T.born[f.this] = f.class
          /\ IF Derived(f.class) THEN DerivedSound(f, T) ELSE BaseSound(f, T)

\* f was called by super() in g.
CalledBy(g, f) ==
    /\ g.fn \in {"constructor", "arrow"} /\ g.left = <<>> /\ Derived(g.class)
    /\ f.fn = "constructor" /\ f.class = Parent[g.class] /\ f.this = g.this

FramesSound(fs, T) ==
    \A i \in DOMAIN fs :
        /\ FrameSound(fs[i], T)
        /\ fs[i].via = "super" => i # 1 /\ CalledBy(fs[i - 1], fs[i])

InstancesSound(objects, T) ==
    \A o \in objects :
        /\ T.born[o] # None
        /\ o \notin T.excused => AllReady(o, Chain(T.born[o]), T)

IInv ==
    /\ TypeInv
    /\ FramesSound(frames, Tables)
    /\ InstancesSound(made, Tables)

-----------------------------------------------------------------------------
(* The operators.                                                          *)

\* None is nothing, and classes are no instances.
LEMMA Apart ==
    /\ Object = Class \cup Address /\ None \notin Class /\ None \notin Address
    /\ None \notin Object /\ \A c \in Class : c \notin Address
    /\ \A c \in Class : Derived(c) => Parent[c] \in Class
    /\ \A c \in Class : ~Derived(c) => Parent[c] = None
BY ClassesAssumption DEF Object, Derived

\* The chain of a class: the class, and the chain of the one it extends.
LEMMA ChainStep ==
    ASSUME NEW c \in Class, NEW x \in Chain(c)
    PROVE  x = c \/ (Derived(c) /\ x \in Chain(Parent[c]))
<1> DEFINE above == IF Derived(c) THEN Chain(Parent[c]) ELSE {}
<1>1. above \subseteq Class
  BY DEF Chain
<1>2. ASSUME NEW y \in {c} \cup above PROVE Only(Parent[y]) \subseteq {c} \cup above
  <2>1. CASE y = c
    <3>1. CASE Derived(c)
      <4>1. Parent[c] \in Class
        BY <3>1, Apart
      <4>2. Parent[c] \in Chain(Parent[c])
        BY <4>1 DEF Chain
      <4> QED BY <2>1, <3>1, <4>2 DEF Only
    <3>2. CASE ~Derived(c)
      BY <2>1, <3>2 DEF Only, Derived
    <3> QED BY <3>1, <3>2
  <2>2. CASE y \in above
    <3>1. Derived(c) /\ y \in Chain(Parent[c])
      BY <2>2
    <3>2. ASSUME NEW z \in Only(Parent[y]) PROVE z \in Chain(Parent[c])
      <4>1. y \in Class /\ z = Parent[y] /\ z # None
        BY <3>1, <3>2 DEF Chain, Only
      <4>2. z \in Class
        BY <4>1, ClassesAssumption
      <4>3. ASSUME NEW S \in SUBSET Class, Parent[c] \in S,
                   \A w \in S : Only(Parent[w]) \subseteq S
            PROVE  z \in S
        <5>1. y \in S
          BY <3>1, <4>3 DEF Chain
        <5> QED BY <3>2, <4>3, <5>1
      <4> QED BY <4>2, <4>3 DEF Chain
    <3> QED BY <3>1, <3>2
  <2> QED BY <2>1, <2>2
<1>3. {c} \cup above \in SUBSET Class
  BY <1>1
<1>4. x \in {c} \cup above
  <2> HIDE DEF above
  <2> QED BY <1>2, <1>3 DEF Chain
<1> QED BY <1>4

\* The fields ahead when the first have been initialized.
LEMMA LeftsAre ==
    /\ <<>> \in Lefts
    /\ \A l \in Lefts : l # <<>> =>
          /\ Tail(l) \in Lefts /\ Len(l) \in Nat
          /\ Head(l) \in {"private", "public"}
          /\ Head(l) = "private" => Tail(l) \in {<<>>, <<"public">>}
          /\ Head(l) = "public" => Tail(l) = <<>> /\ l = <<"public">>
          /\ Head(l) = "private" /\ l = <<"private", "public">> => Tail(l) = <<"public">>
BY DEF Lefts

\* The fields that a function finds.
LEMMA FieldsForAre ==
    ASSUME NEW f \in FrameType
    PROVE  /\ FieldsFor(f) \in Lefts
           /\ f.class \in complete /\ Has(f.class, TRUE, FALSE) =>
                 FieldsFor(f) \in {<<"private">>, <<"private", "public">>}
           /\ f.class \in complete /\ f.fn = "constructor" /\ Has(f.class, FALSE, FALSE) =>
                 FieldsFor(f) \in {<<"public">>, <<"private", "public">>}
<1>1. /\ <<"private">> \o <<"public">> = <<"private", "public">>
      /\ <<>> \o <<>> = <<>>
      /\ <<>> \o <<"public">> = <<"public">>
      /\ <<"private">> \o <<>> = <<"private">>
  <2> DEFINE S == {"private", "public"}
  <2>1. /\ <<>> \in Seq(S) /\ <<"private">> \in Seq(S) /\ <<"public">> \in Seq(S)
        /\ <<"private", "public">> \in Seq(S)
    OBVIOUS
  <2>2. <<>> \o <<>> = <<>> /\ <<>> \o <<"public">> = <<"public">>
        /\ <<"private">> \o <<>> = <<"private">>
    <3> HIDE DEF S
    <3> QED BY <2>1, ConcatEmptySeq
  <2>3. PICK s \in Seq(S) : s = <<"private">> \o <<"public">>
    <3> HIDE DEF S
    <3> QED BY <2>1, ConcatProperties
  <2>4. /\ Len(s) = Len(<<"private">>) + Len(<<"public">>)
        /\ \A i \in 1 .. Len(<<"private">>) + Len(<<"public">>) :
              s[i] = IF i <= Len(<<"private">>) THEN <<"private">>[i]
                     ELSE <<"public">>[i - Len(<<"private">>)]
    <3> HIDE DEF S
    <3> QED BY <2>1, <2>3, ConcatProperties
  <2>5. Len(<<"private">>) = 1 /\ Len(<<"public">>) = 1 /\ Len(<<"private", "public">>) = 2
    OBVIOUS
  <2>6. Len(s) = 2 /\ \A i \in 1..2 : s[i] = <<"private", "public">>[i]
    BY <2>4, <2>5
  <2>7. s = <<"private", "public">>
    <3> HIDE DEF S
    <3> QED BY <2>1, <2>3, <2>5, <2>6, SeqEqual
  <2> QED BY <2>2, <2>3, <2>7
<1> QED BY <1>1 DEF FieldsFor, Lefts

\* The parts of a frame.
LEMMA FrameIs ==
    ASSUME NEW f \in FrameType
    PROVE  /\ f.fn \in {"constructor", "method", "arrow", "definition"} /\ f.class \in Class
           /\ f.this \in Object \cup {None} /\ f.bound \in Object \cup {None}
           /\ f.via \in {"new", "super", "call"} /\ f.at \in {"parameters", "body"}
           /\ f.left \in Lefts /\ f.inited \in BOOLEAN
BY DEF FrameType

-----------------------------------------------------------------------------
(* Frames under changes of the tables.                                     *)

TableType ==
    [brands : [Object -> SUBSET Class], slots : [Object -> [Class -> {"none", "set", "stale"}]],
     fields : [Object -> SUBSET Class], born : [Address -> Class \cup {None}],
     excused : SUBSET Address]

\* o loses nothing from T to U, and stays what it is.
Kept(o, T, U) ==
    /\ o \in Object => /\ T.brands[o] \subseteq U.brands[o]
                       /\ \A c \in Class : T.slots[o][c] = "set" => U.slots[o][c] = "set"
                       /\ T.fields[o] \subseteq U.fields[o]
    /\ o \in Address /\ T.born[o] # None => T.born[o] = U.born[o]
    /\ o \in T.excused => o \in U.excused

\* What is ready stays so.
LEMMA ReadyKept ==
    ASSUME NEW T, NEW U, NEW o \in Object, Kept(o, T, U), NEW c \in Class, Ready(o, c, T)
    PROVE  Ready(o, c, U)
BY DEF Kept, Ready

\* And a frame stays sound.
LEMMA FrameKept ==
    ASSUME NEW T, NEW U, NEW f \in FrameType, FrameSound(f, T),
           Kept(f.this, T, U), Kept(f.bound, T, U)
    PROVE  FrameSound(f, U)
<1>1. /\ f.class \in Class /\ f.this \in Object \cup {None} /\ f.bound \in Object \cup {None}
      /\ f.class # None
  BY FrameIs, Apart
<1>2. ASSUME f.bound \in Address \ U.excused
      PROVE  f.bound \in Address \ T.excused /\ f.bound \in Object
  BY <1>2 DEF Kept, Object
<1>3. ASSUME f.bound \in Object, OwnReady(f, T) PROVE OwnReady(f, U)
  BY <1>1, <1>3 DEF OwnReady, Kept
<1>4. ASSUME f.bound \in Object, NEW S \in SUBSET Class, AllReady(f.bound, S, T)
      PROVE  AllReady(f.bound, S, U)
  BY <1>4, ReadyKept DEF AllReady
<1>5. CASE f.fn # "constructor"
  BY <1>5 DEF FrameSound
<1>6. CASE f.fn = "constructor" /\ ~Derived(f.class)
  <2>1. BaseSound(f, T)
    BY <1>6 DEF FrameSound
  <2>2. BaseSound(f, U)
    BY <1>2, <1>3, <2>1 DEF BaseSound
  <2> QED BY <1>1, <1>6, <2>2 DEF FrameSound, Kept
<1>7. CASE f.fn = "constructor" /\ Derived(f.class)
  <2>1. DerivedSound(f, T)
    BY <1>7 DEF FrameSound
  <2>2. f.bound \in {None, f.this} \/ {f.bound, f.this} \cap Address \subseteq U.excused
    BY <2>1 DEF DerivedSound, Kept
  <2>3. (f.inited \/ f.left # <<>>) /\ f.this \in Address \ U.excused => f.bound = f.this
    BY <2>1 DEF DerivedSound, Kept
  <2>4. ASSUME f.bound \in Address \ U.excused
        PROVE  OwnReady(f, U) /\ AllReady(f.bound, Chain(Parent[f.class]), U)
    <3>1. OwnReady(f, T) /\ AllReady(f.bound, Chain(Parent[f.class]), T)
      BY <1>2, <2>1, <2>4 DEF DerivedSound
    <3>2. Chain(Parent[f.class]) \in SUBSET Class
      BY DEF Chain
    <3> QED BY <1>2, <1>3, <1>4, <2>4, <3>1, <3>2
  <2>5. DerivedSound(f, U)
    BY <2>2, <2>3, <2>4 DEF DerivedSound
  <2> QED BY <1>1, <1>7, <2>5 DEF FrameSound, Kept
<1> QED BY <1>5, <1>6, <1>7

\* All frames stay sound.
LEMMA FramesKept ==
    ASSUME NEW T, NEW U, NEW fs \in Seq(FrameType), FramesSound(fs, T),
           \A i \in DOMAIN fs : Kept(fs[i].this, T, U) /\ Kept(fs[i].bound, T, U)
    PROVE  FramesSound(fs, U)
<1>1. ASSUME NEW i \in DOMAIN fs PROVE FrameSound(fs[i], U)
  <2>1. fs[i] \in FrameType
    BY LenProperties, ElementOfSeq
  <2>2. FrameSound(fs[i], T)
    BY DEF FramesSound
  <2> QED BY <2>1, <2>2, FrameKept
<1> QED BY <1>1 DEF FramesSound

\* Instances stay ready.
LEMMA InstancesKept ==
    ASSUME NEW T, NEW U, NEW objects \in SUBSET Address, InstancesSound(objects, T),
           \A o \in objects : Kept(o, T, U)
    PROVE  InstancesSound(objects, U)
<1> SUFFICES ASSUME NEW o \in objects
             PROVE  /\ U.born[o] # None
                    /\ o \notin U.excused => AllReady(o, Chain(U.born[o]), U)
  BY DEF InstancesSound
<1>1. o \in Object /\ o \in Address /\ Kept(o, T, U) /\ T.born[o] = U.born[o] /\ T.born[o] # None
  BY DEF Object, Kept, InstancesSound
<1>2. ASSUME o \notin U.excused PROVE AllReady(o, Chain(U.born[o]), U)
  <2>1. AllReady(o, Chain(U.born[o]), T)
    BY <1>1, <1>2 DEF InstancesSound, Kept
  <2>2. Chain(U.born[o]) \subseteq Class
    BY DEF Chain
  <2> QED BY <1>1, <2>1, <2>2, ReadyKept DEF AllReady
<1> QED BY <1>1, <1>2

-----------------------------------------------------------------------------
(* Frames that come and go.                                                *)

\* One more.
LEMMA FramePushed ==
    ASSUME NEW T, NEW fs \in Seq(FrameType), FramesSound(fs, T),
           NEW f \in FrameType, FrameSound(f, T),
           f.via = "super" => fs # <<>> /\ CalledBy(Last(fs), f)
    PROVE  Append(fs, f) \in Seq(FrameType) /\ FramesSound(Append(fs, f), T)
<1>1. PICK n \in Nat : n = Len(fs)
  BY LenProperties
<1>2. PICK gs : gs = Append(fs, f)
  OBVIOUS
<1>3. /\ gs \in Seq(FrameType) /\ Len(gs) = n + 1 /\ gs[n + 1] = f
      /\ \A i \in 1..n : gs[i] = fs[i]
  BY <1>1, <1>2, AppendProperties
<1>4. DOMAIN fs = 1..n /\ DOMAIN gs = 1..n + 1
  BY <1>1, <1>3, LenProperties
<1>5. ASSUME NEW i \in 1..n + 1
      PROVE  FrameSound(gs[i], T) /\ (gs[i].via = "super" => i # 1 /\ CalledBy(gs[i - 1], gs[i]))
  <2>1. CASE i \in 1..n
    <3>1. FrameSound(fs[i], T) /\ (fs[i].via = "super" => i # 1 /\ CalledBy(fs[i - 1], fs[i]))
      BY <1>4, <2>1 DEF FramesSound
    <3>2. i # 1 => i - 1 \in 1..n
      BY <2>1
    <3> QED BY <1>3, <2>1, <3>1, <3>2
  <2>2. CASE i = n + 1
    <3>1. ASSUME f.via = "super" PROVE i # 1 /\ CalledBy(gs[i - 1], f)
      <4>1. fs # <<>> /\ CalledBy(Last(fs), f)
        BY <3>1
      <4>2. n # 0 /\ Last(fs) = fs[n]
        BY <1>1, <4>1, EmptySeq DEF Last
      <4>3. i # 1 /\ i - 1 = n /\ n \in 1..n
        BY <2>2, <4>2
      <4> QED BY <1>3, <4>1, <4>2, <4>3
    <3> QED BY <1>3, <2>2, <3>1
  <2> QED BY <2>1, <2>2
<1> QED BY <1>2, <1>3, <1>4, <1>5 DEF FramesSound

\* One less.
LEMMA FramePopped ==
    ASSUME NEW T, NEW fs \in Seq(FrameType), fs # <<>>, FramesSound(fs, T)
    PROVE  /\ Front(fs) \in Seq(FrameType) /\ FramesSound(Front(fs), T)
           /\ Last(fs) \in FrameType /\ FrameSound(Last(fs), T)
           /\ Last(fs).via = "super" => Front(fs) # <<>> /\ CalledBy(Last(Front(fs)), Last(fs))
<1>1. PICK n \in Nat : Len(fs) = n + 1
  <2>1. Len(fs) \in Nat \ {0}
    BY EmptySeq
  <2> QED BY <2>1
<1>2. PICK gs : gs = Front(fs)
  OBVIOUS
<1>3. /\ gs \in Seq(FrameType) /\ Len(gs) = n /\ \A i \in 1..n : gs[i] = fs[i]
  <2>1. gs = SubSeq(fs, 1, n)
    BY <1>1, <1>2 DEF Front
  <2>2. \A i \in 1..n : fs[i] \in FrameType
    BY <1>1, ElementOfSeq
  <2>3. /\ SubSeq(fs, 1, n) \in Seq(FrameType)
        /\ Len(SubSeq(fs, 1, n)) = IF 1 <= n THEN n - 1 + 1 ELSE 0
        /\ \A i \in 1..n - 1 + 1 : SubSeq(fs, 1, n)[i] = fs[1 + i - 1]
    BY <2>2, SubSeqProperties
  <2>4. Len(gs) = n
    BY <2>1, <2>3
  <2>5. \A i \in 1..n : i \in 1..n - 1 + 1 /\ 1 + i - 1 = i
    OBVIOUS
  <2> QED BY <2>1, <2>3, <2>4, <2>5
<1>4. DOMAIN fs = 1..n + 1 /\ DOMAIN gs = 1..n /\ Last(fs) = fs[n + 1]
  BY <1>1, <1>3, LenProperties DEF Last
<1>5. ASSUME NEW i \in 1..n
      PROVE  FrameSound(gs[i], T) /\ (gs[i].via = "super" => i # 1 /\ CalledBy(gs[i - 1], gs[i]))
  <2>1. i \in 1..n + 1 /\ (i # 1 => i - 1 \in 1..n)
    OBVIOUS
  <2>2. FrameSound(fs[i], T) /\ (fs[i].via = "super" => i # 1 /\ CalledBy(fs[i - 1], fs[i]))
    BY <1>4, <2>1 DEF FramesSound
  <2> QED BY <1>3, <2>1, <2>2
<1>6. n + 1 \in 1..n + 1 /\ (n + 1) - 1 = n
  OBVIOUS
<1>7. Last(fs) \in FrameType /\ FrameSound(Last(fs), T)
  BY <1>1, <1>4, <1>6, ElementOfSeq DEF FramesSound
<1>8. ASSUME Last(fs).via = "super" PROVE gs # <<>> /\ CalledBy(Last(gs), Last(fs))
  <2>1. n + 1 # 1 /\ CalledBy(fs[n], fs[n + 1])
    BY <1>4, <1>6, <1>8 DEF FramesSound
  <2>2. n \in 1..n /\ gs # <<>>
    BY <1>3, <2>1, EmptySeq
  <2> QED BY <1>3, <1>4, <2>1, <2>2 DEF Last
<1> QED BY <1>2, <1>3, <1>4, <1>5, <1>7, <1>8 DEF FramesSound

\* The top one changes.
LEMMA FrameReplaced ==
    ASSUME NEW T, NEW fs \in Seq(FrameType), fs # <<>>, FramesSound(fs, T),
           NEW f \in FrameType, FrameSound(f, T),
           f.fn = Last(fs).fn, f.class = Last(fs).class, f.this = Last(fs).this,
           f.via = Last(fs).via
    PROVE  /\ [fs EXCEPT ![Len(fs)] = f] = Append(Front(fs), f)
           /\ Append(Front(fs), f) \in Seq(FrameType)
           /\ FramesSound(Append(Front(fs), f), T)
<1>1. PICK gs \in Seq(FrameType) : gs = Front(fs)
  BY FramePopped
<1>2. /\ FramesSound(gs, T)
      /\ Last(fs).via = "super" => gs # <<>> /\ CalledBy(Last(gs), Last(fs))
  BY <1>1, FramePopped
<1>3. f.via = "super" => gs # <<>> /\ CalledBy(Last(gs), f)
  BY <1>2 DEF CalledBy
<1>4. Append(gs, f) \in Seq(FrameType) /\ FramesSound(Append(gs, f), T)
  BY <1>2, <1>3, FramePushed
<1>5. [fs EXCEPT ![Len(fs)] = f] = Append(gs, f)
  <2>1. PICK n \in Nat : Len(fs) = n + 1
    <3>1. Len(fs) \in Nat \ {0}
      BY EmptySeq
    <3> QED BY <3>1
  <2>2. PICK hs : hs = [fs EXCEPT ![n + 1] = f]
    OBVIOUS
  <2>3. /\ hs \in Seq(FrameType) /\ Len(hs) = n + 1
        /\ \A i \in 1..n + 1 : hs[i] = IF i = n + 1 THEN f ELSE fs[i]
    <3>1. n + 1 \in 1..Len(fs)
      BY <2>1
    <3> QED BY <2>1, <2>2, <3>1, ExceptSeq
  <2>4. /\ Len(gs) = n /\ \A i \in 1..n : gs[i] = fs[i]
    <3>1. gs = SubSeq(fs, 1, n)
      BY <1>1, <2>1 DEF Front
    <3>2. \A i \in 1..n : fs[i] \in FrameType
      BY <2>1, ElementOfSeq
    <3>3. /\ Len(SubSeq(fs, 1, n)) = IF 1 <= n THEN n - 1 + 1 ELSE 0
          /\ \A i \in 1..n - 1 + 1 : SubSeq(fs, 1, n)[i] = fs[1 + i - 1]
      BY <3>2, SubSeqProperties
    <3>4. Len(gs) = n
      BY <3>1, <3>3
    <3>5. \A i \in 1..n : i \in 1..n - 1 + 1 /\ 1 + i - 1 = i
      OBVIOUS
    <3> QED BY <3>1, <3>3, <3>4, <3>5
  <2>5. PICK ks : ks = Append(gs, f)
    OBVIOUS
  <2>6. /\ ks \in Seq(FrameType) /\ Len(ks) = n + 1
        /\ \A i \in 1..n + 1 : ks[i] = IF i = n + 1 THEN f ELSE fs[i]
    <3>1. /\ ks \in Seq(FrameType) /\ Len(ks) = n + 1 /\ ks[n + 1] = f
          /\ \A i \in 1..n : ks[i] = gs[i]
      BY <2>4, <2>5, AppendProperties
    <3>2. \A i \in 1..n + 1 : i = n + 1 \/ i \in 1..n
      OBVIOUS
    <3> QED BY <2>4, <3>1, <3>2
  <2>7. hs = ks
    BY <2>3, <2>6, SeqEqual
  <2> QED BY <2>1, <2>2, <2>5, <2>7
<1> QED BY <1>1, <1>4, <1>5
-----------------------------------------------------------------------------
(* Steps in general.                                                       *)

Grows(T, U) == \A o \in Object \cup {None} : Kept(o, T, U)

Same(T) == /\ T.brands = brands /\ T.slots = slots /\ T.fields = fields
           /\ T.born = born /\ T.excused = excused

\* The tables before and after a step.
Steps(T, U) ==
    /\ T = Tables /\ Same(T)
    /\ U = Tables' /\ U.brands = brands' /\ U.slots = slots'
    /\ U.fields = fields' /\ U.born = born' /\ U.excused = excused'

\* There are such tables.
LEMMA TablesAre == \E T, U : Steps(T, U)
<1>1. Same(Tables)
  BY DEF Tables, Same
<1>2. PICK U : U = Tables'
  OBVIOUS
<1>3. /\ U.brands = brands' /\ U.slots = slots'
      /\ U.fields = fields' /\ U.born = born' /\ U.excused = excused'
  BY <1>2 DEF Tables
<1> QED BY <1>1, <1>2, <1>3 DEF Steps

\* What is kept when the tables grow.
LEMMA Grown ==
    ASSUME IInv, NEW T, T = Tables, NEW U, Grows(T, U)
    PROVE  /\ frames \in Seq(FrameType) /\ FramesSound(frames, U)
           /\ InstancesSound(made, U)
<1>1. frames \in Seq(FrameType) /\ FramesSound(frames, T) /\ InstancesSound(made, T)
  BY DEF IInv, TypeInv
<1>2. \A i \in DOMAIN frames : Kept(frames[i].this, T, U) /\ Kept(frames[i].bound, T, U)
  <2> SUFFICES ASSUME NEW i \in DOMAIN frames
               PROVE  Kept(frames[i].this, T, U) /\ Kept(frames[i].bound, T, U)
    OBVIOUS
  <2>1. frames[i] \in FrameType
    BY <1>1, LenProperties, ElementOfSeq
  <2>2. frames[i].this \in Object \cup {None} /\ frames[i].bound \in Object \cup {None}
    BY <2>1, FrameIs
  <2> QED BY <2>2 DEF Grows
<1>3. \A o \in made : Kept(o, T, U)
  BY DEF IInv, TypeInv, Grows, Object
<1>4. FramesSound(frames, U)
  BY <1>1, <1>2, FramesKept
<1>5. made \in SUBSET Address
  BY DEF IInv, TypeInv
<1>6. InstancesSound(made, U)
  BY <1>1, <1>3, <1>5, InstancesKept
<1> QED BY <1>1, <1>4, <1>6

\* A frame goes.
LEMMA Popped ==
    ASSUME IInv, NEW T, T = Tables, NEW U, Grows(T, U), frames # <<>>
    PROVE  /\ Front(frames) \in Seq(FrameType) /\ FramesSound(Front(frames), U)
           /\ Top \in FrameType /\ FrameSound(Top, U) /\ FrameSound(Top, T)
           /\ Top.via = "super" => Front(frames) # <<>> /\ CalledBy(Last(Front(frames)), Top)
<1>1. frames \in Seq(FrameType) /\ FramesSound(frames, U)
  BY Grown
<1>2. frames \in Seq(FrameType) /\ FramesSound(frames, T)
  BY DEF IInv, TypeInv
<1>3. /\ Front(frames) \in Seq(FrameType) /\ FramesSound(Front(frames), U)
      /\ Top \in FrameType /\ FrameSound(Top, U)
      /\ Top.via = "super" => Front(frames) # <<>> /\ CalledBy(Last(Front(frames)), Top)
  BY <1>1, FramePopped DEF Top
<1>4. FrameSound(Top, T)
  BY <1>2, FramePopped DEF Top
<1> QED BY <1>3, <1>4

\* A frame comes.
LEMMA Pushed ==
    ASSUME IInv, NEW T, T = Tables, NEW U, Grows(T, U),
           NEW f \in FrameType, FrameSound(f, U),
           f.via = "super" => frames # <<>> /\ CalledBy(Top, f)
    PROVE  Append(frames, f) \in Seq(FrameType) /\ FramesSound(Append(frames, f), U)
<1>1. frames \in Seq(FrameType) /\ FramesSound(frames, U)
  BY Grown
<1> QED BY <1>1, FramePushed DEF Top

\* The top frame changes.
LEMMA Replaced ==
    ASSUME IInv, NEW T, T = Tables, NEW U, Grows(T, U), frames # <<>>,
           NEW f \in FrameType, FrameSound(f, U),
           f.fn = Top.fn, f.class = Top.class, f.this = Top.this, f.via = Top.via
    PROVE  /\ SetTop(f) = Append(Front(frames), f)
           /\ SetTop(f) \in Seq(FrameType) /\ FramesSound(SetTop(f), U)
<1>1. frames \in Seq(FrameType) /\ FramesSound(frames, U)
  BY Grown
<1>2. /\ [frames EXCEPT ![Len(frames)] = f] = Append(Front(frames), f)
      /\ Append(Front(frames), f) \in Seq(FrameType)
      /\ FramesSound(Append(Front(frames), f), U)
  BY <1>1, FrameReplaced DEF Top
<1> QED BY <1>2 DEF SetTop

\* A constructor that is called.
LEMMA CalledIsSound ==
    ASSUME NEW T, NEW c \in Class, NEW via \in {"new", "super"}, NEW this \in Address \cup {None},
           via = "new" => this \in Address /\ T.born[this] = c,
           NEW f, f = NewFrame("constructor", c, via, this, InitialThis(c, this))
    PROVE  f \in FrameType /\ FrameSound(f, T)
<1>1. InitialThis(c, this) \in Address \cup {None} /\ this \in Object \cup {None}
  BY DEF InitialThis, Object
<1>3. /\ f \in FrameType
      /\ f.fn = "constructor" /\ f.class = c /\ f.via = via /\ f.this = this
      /\ f.bound = InitialThis(c, this)
      /\ f.at = "parameters" /\ f.left = <<>> /\ f.inited = FALSE
  BY <1>1 DEF NewFrame, FrameType, Lefts, Object
<1>4. CASE Derived(c)
  <2>1. f.bound = None
    BY <1>3, <1>4 DEF InitialThis
  <2>2. DerivedSound(f, T)
    BY <1>3, <2>1, Apart DEF DerivedSound
  <2> QED BY <1>3, <1>4, <2>2 DEF FrameSound
<1>5. CASE ~Derived(c)
  <2>1. BaseSound(f, T)
    BY <1>3, <1>5 DEF BaseSound, InitialThis
  <2> QED BY <1>3, <1>5, <2>1 DEF FrameSound
<1> QED BY <1>4, <1>5

-----------------------------------------------------------------------------
(* Definitions of classes.                                                 *)

\* The definition of a class begins.
LEMMA ClassBeginsKeeps ==
    ASSUME IInv, NEW c \in Class, ClassBegins(c) PROVE IInv'
<1>1. PICK T, U : Steps(T, U)
  BY TablesAre
<1>2. Grows(T, U)
  BY <1>1, Apart DEF ClassBegins, BrandObject, Steps, Same, Grows, Kept, histories
<1>3. PICK f : f = NewFrame("definition", c, "call", c, c)
  OBVIOUS
<1>4. f \in FrameType /\ f.fn = "definition" /\ f.via = "call"
  BY <1>3 DEF NewFrame, FrameType, Lefts, Object
<1>5. FrameSound(f, U)
  BY <1>4 DEF FrameSound
<1>6. frames' \in Seq(FrameType) /\ FramesSound(frames', U)
  BY <1>1, <1>2, <1>3, <1>4, <1>5, Pushed DEF Steps, ClassBegins, Push
<1>7. InstancesSound(made', U)
  BY <1>1, <1>2, Grown DEF Steps, ClassBegins, histories
<1>8. TypeInv'
  BY <1>6 DEF IInv, TypeInv, ClassBegins, BrandObject, histories
<1> QED BY <1>1, <1>6, <1>7, <1>8 DEF IInv, Steps

\* The loop over the elements.
LEMMA DefineKeeps ==
    ASSUME IInv, NEW kinds, Define(kinds) PROVE IInv'
<1>1. /\ UNCHANGED <<complete, brands, slots, fields, born, frames, known, made, excused>>
  BY DEF Define, histories
<1>2. TypeInv'
  BY <1>1 DEF IInv, TypeInv
<1>3. UNCHANGED Tables
  BY <1>1 DEF Tables
<1> QED BY <1>1, <1>2, <1>3 DEF IInv

\* The end of it.
LEMMA ClassEndsKeeps == ASSUME IInv, ClassEnds PROVE IInv'
<1>1. PICK T, U : Steps(T, U)
  BY TablesAre
<1>2. Grows(T, U)
  BY <1>1 DEF ClassEnds, Steps, Same, Grows, Kept, histories
<1>3. Top \in FrameType /\ frames # <<>> /\ Top.fn = "definition" /\ FrameSound(Top, T)
  BY <1>1, <1>2, Popped DEF ClassEnds, InFn, Steps
<1>4. PICK t : t = Top
  OBVIOUS
<1>5. PICK f : f = [t EXCEPT !.left = IF Has(t.class, TRUE, TRUE) THEN <<"private">> ELSE <<>>]
  OBVIOUS
<1>6. f \in FrameType /\ f.fn = t.fn /\ f.class = t.class /\ f.this = t.this /\ f.via = t.via
  BY <1>3, <1>4, <1>5 DEF FrameType, Lefts
<1>7. FrameSound(f, U)
  BY <1>3, <1>4, <1>6 DEF FrameSound
<1>8. SetTop(f) \in Seq(FrameType) /\ FramesSound(SetTop(f), U)
  BY <1>1, <1>2, <1>3, <1>4, <1>6, <1>7, Replaced DEF Steps
<1>9. frames' = SetTop(f)
  BY <1>4, <1>5 DEF ClassEnds
<1>10. InstancesSound(made', U)
  BY <1>1, <1>2, Grown DEF ClassEnds, histories, Steps
<1>11. TypeInv'
  <2>1. Top.class \in Class
    BY <1>3, FrameIs
  <2> QED BY <1>8, <1>9, <2>1 DEF IInv, TypeInv, ClassEnds, histories
<1> QED BY <1>1, <1>8, <1>9, <1>10, <1>11 DEF IInv, Steps

-----------------------------------------------------------------------------
(* Frames that go.                                                         *)

\* A frame goes, what was excused stays so.
LEMMA PopKeeps ==
    ASSUME IInv, frames # <<>>, frames' = Front(frames), UNCHANGED <<tables, known, made>>,
           excused \subseteq excused', excused' \subseteq Address
    PROVE  IInv'
<1>1. PICK T, U : Steps(T, U)
  BY TablesAre
<1>2. Grows(T, U)
  BY <1>1 DEF tables, Steps, Same, Grows, Kept
<1>3. frames' \in Seq(FrameType) /\ FramesSound(frames', U)
  BY <1>1, <1>2, Popped DEF Steps
<1>4. InstancesSound(made', U)
  BY <1>1, <1>2, Grown DEF Steps
<1>5. TypeInv'
  BY <1>3 DEF IInv, TypeInv, tables
<1> QED BY <1>1, <1>3, <1>4, <1>5 DEF IInv, Steps

\* A class is there, a method or an arrow function returns.
LEMMA ReturnsKeep == ASSUME IInv, DefinitionReturns \/ CallReturns PROVE IInv'
<1>1. excused' = excused /\ excused \subseteq Address
  BY DEF IInv, TypeInv, DefinitionReturns, CallReturns, histories
<1> QED BY <1>1, PopKeeps DEF DefinitionReturns, CallReturns, AtEnd, InFn, histories

\* Code throws.
LEMMA ThrowsKeeps == ASSUME IInv, Throws PROVE IInv'
<1>1. excused \subseteq excused' /\ excused' \subseteq Address
  BY DEF IInv, TypeInv, Throws, Excuse
<1> QED BY <1>1, PopKeeps DEF Throws

-----------------------------------------------------------------------------
(* Frames that come.                                                       *)

\* new.
LEMMA NewKeeps == ASSUME IInv, NEW c \in Class, New(c) PROVE IInv'
<1>1. PICK T, U : Steps(T, U)
  BY TablesAre
<1>2. PICK o \in Address : /\ born[o] = None /\ born' = [born EXCEPT ![o] = c]
                           /\ Push(NewFrame("constructor", c, "new", o, InitialThis(c, o)))
                           /\ Shows(InitialThis(c, o))
  BY DEF New
<1>3. /\ born'[o] = c /\ born' \in [Address -> Class \cup {None}]
      /\ \A x \in Address : born[x] # None => born'[x] = born[x]
  BY <1>2 DEF IInv, TypeInv
<1>4. Grows(T, U)
  BY <1>1, <1>3 DEF New, Steps, Same, Grows, Kept, histories
<1>5. PICK f : f = NewFrame("constructor", c, "new", o, InitialThis(c, o))
  OBVIOUS
<1>6. f \in FrameType /\ FrameSound(f, U)
  <2>1. U.born[o] = c /\ o \in Address \cup {None}
    BY <1>1, <1>3 DEF Steps
  <2> QED BY <1>5, <2>1, CalledIsSound
<1>7. f.via # "super"
  BY <1>5 DEF NewFrame
<1>8. frames' \in Seq(FrameType) /\ FramesSound(frames', U)
  BY <1>1, <1>2, <1>4, <1>5, <1>6, <1>7, Pushed DEF Steps, Push
<1>9. InstancesSound(made', U)
  BY <1>1, <1>4, Grown DEF New, histories, Steps
<1>10. TypeInv'
  BY <1>2, <1>3, <1>8 DEF IInv, TypeInv, New, Shows, histories
<1> QED BY <1>1, <1>8, <1>9, <1>10 DEF IInv, Steps

\* super().
LEMMA SuperCallKeeps == ASSUME IInv, SuperCall PROVE IInv'
<1>1. PICK T, U : Steps(T, U)
  BY TablesAre
<1>2. Grows(T, U)
  BY <1>1 DEF SuperCall, tables, Steps, Same, Grows, Kept, histories
<1>3. /\ Top \in FrameType /\ FrameSound(Top, T) /\ frames # <<>>
      /\ Top.fn \in {"constructor", "arrow"} /\ Top.left = <<>> /\ Derived(Top.class)
  BY <1>1, <1>2, Popped DEF SuperCall, InFn, Steps
<1>4. PICK p : p = Parent[Top.class]
  OBVIOUS
<1>5. p \in Class /\ Top.this \in Address \cup {None}
  BY <1>3, <1>4, Apart, FrameIs DEF FrameSound
<1>6. PICK f : f = NewFrame("constructor", p, "super", Top.this, InitialThis(p, Top.this))
  OBVIOUS
<1>7. f \in FrameType /\ FrameSound(f, U)
  BY <1>5, <1>6, CalledIsSound
<1>8. CalledBy(Top, f)
  BY <1>3, <1>4, <1>6 DEF CalledBy, NewFrame
<1>9. frames' \in Seq(FrameType) /\ FramesSound(frames', U)
  <2>1. frames' = Append(frames, f)
    BY <1>4, <1>6 DEF SuperCall, Push
  <2> QED BY <1>1, <1>2, <1>3, <1>7, <1>8, <2>1, Pushed DEF Steps
<1>10. InstancesSound(made', U)
  BY <1>1, <1>2, Grown DEF SuperCall, histories, Steps
<1>11. TypeInv'
  <2>1. known' \subseteq Address
    BY DEF IInv, TypeInv, SuperCall, Shows
  <2> QED BY <1>9, <2>1 DEF IInv, TypeInv, SuperCall, tables, histories
<1> QED BY <1>1, <1>9, <1>10, <1>11 DEF IInv, Steps

\* A method, an accessor or an arrow function is called.
LEMMA CalledKeeps ==
    ASSUME IInv, NEW f \in FrameType, f.fn # "constructor", f.via = "call",
           f.fn = "arrow" => f.this = None,
           frames' = Append(frames, f), UNCHANGED <<tables, known, histories>>
    PROVE  IInv'
<1>1. PICK T, U : Steps(T, U)
  BY TablesAre
<1>2. Grows(T, U)
  BY <1>1 DEF tables, Steps, Same, Grows, Kept, histories
<1>3. FrameSound(f, U)
  BY DEF FrameSound
<1>4. frames' \in Seq(FrameType) /\ FramesSound(frames', U)
  BY <1>1, <1>2, <1>3, Pushed DEF Steps
<1>5. InstancesSound(made', U)
  BY <1>1, <1>2, Grown DEF histories, Steps
<1>6. TypeInv'
  BY <1>4 DEF IInv, TypeInv, tables, histories
<1> QED BY <1>1, <1>4, <1>5, <1>6 DEF IInv, Steps

\* A method or an accessor.
LEMMA CallKeeps ==
    ASSUME IInv, NEW c \in Class, NEW o \in known \cup {None}, Call(c, o) PROVE IInv'
<1>1. PICK f : f = NewFrame("method", c, "call", o, o)
  OBVIOUS
<1>2. o \in Object \cup {None}
  BY DEF IInv, TypeInv, Object
<1>3. f \in FrameType /\ f.fn = "method" /\ f.via = "call"
  BY <1>1, <1>2 DEF NewFrame, FrameType, Lefts
<1>4. frames' = Append(frames, f) /\ UNCHANGED <<tables, known, histories>>
  BY <1>1 DEF Call, Push
<1> QED BY <1>3, <1>4, CalledKeeps

\* An arrow function.
LEMMA CallArrowKeeps == ASSUME IInv, CallArrow PROVE IInv'
<1>1. PICK f : f = NewFrame("arrow", Top.class, "call", None, Top.bound)
  OBVIOUS
<1>2. Top \in FrameType
  <2>1. frames # <<>> /\ frames \in Seq(FrameType) /\ FramesSound(frames, Tables)
    BY DEF IInv, TypeInv, CallArrow, InFn
  <2> QED BY <2>1, FramePopped DEF Top
<1>3. f \in FrameType /\ f.fn = "arrow" /\ f.via = "call" /\ f.this = None
  BY <1>1, <1>2, FrameIs DEF NewFrame, FrameType, Lefts
<1>4. frames' = Append(frames, f) /\ UNCHANGED <<tables, known, histories>>
  BY <1>1 DEF CallArrow, Push
<1> QED BY <1>3, <1>4, CalledKeeps

-----------------------------------------------------------------------------
(* Fields that are initialized.                                            *)

\* A frame whose initialization begins.
LEMMA InitializingIs ==
    ASSUME NEW f \in FrameType, NEW g, g = Initializing(f)
    PROVE  /\ g \in FrameType /\ g.fn = f.fn /\ g.class = f.class /\ g.this = f.this
           /\ g.bound = f.bound /\ g.via = f.via /\ g.at = f.at
           /\ g.left = FieldsFor(f) /\ g.inited = (FieldsFor(f) = <<>>)
<1>1. FieldsFor(f) \in Lefts
  BY FieldsForAre
<1> QED BY <1>1 DEF Initializing, FrameType

\* What a frame is when maybe_initialize_current_instance_fields has run.
Begun(f, g, U) ==
    /\ g \in FrameType /\ g.fn = f.fn /\ g.class = f.class /\ g.this = f.this
    /\ g.bound = f.bound /\ g.via = f.via /\ g.at = f.at
    /\ f.inited => g = f
    /\ ~f.inited /\ f.fn = "constructor" /\ f.bound \in Address \ U.excused => OwnReady(g, U)

\* It brands the object and finds the fields, or the object is excused.
LEMMA MaybeInitializeBegins ==
    ASSUME TypeInv, NEW T, NEW U, Steps(T, U), UNCHANGED <<slots, fields, born>>,
           NEW f \in FrameType, NEW stack, MaybeInitialize(stack, f),
           excused \subseteq excused', Early(f) \cap Address \subseteq excused'
    PROVE  /\ Grows(T, U) /\ brands' \in [Object -> SUBSET Class]
           /\ \E g : frames' = Append(stack, g) /\ Begun(f, g, U)
<1>1. f.class \in Class
  BY FrameIs
<1>2. CASE f.inited
  <2>1. frames' = Append(stack, f) /\ brands' = brands
    BY <1>2 DEF MaybeInitialize
  <2>2. Grows(T, U)
    BY <2>1 DEF Steps, Same, Grows, Kept
  <2>3. Begun(f, f, U)
    BY <1>2 DEF Begun
  <2> QED BY <2>1, <2>2, <2>3 DEF TypeInv
<1>3. CASE ~f.inited
  <2>1. PICK g : g = Initializing(f) /\ frames' = Append(stack, g)
    BY <1>3 DEF MaybeInitialize
  <2>2. brands' = [o \in Object |-> brands[o] \cup IF o \in Target(f) THEN {f.class} ELSE {}]
    BY <1>3 DEF MaybeInitialize, BrandObject
  <2>3. /\ brands' \in [Object -> SUBSET Class]
        /\ \A o \in Object : brands[o] \subseteq brands'[o]
    BY <1>1, <2>2 DEF TypeInv
  <2>4. Grows(T, U)
    BY <2>3 DEF Steps, Same, Grows, Kept
  <2>5. /\ g \in FrameType /\ g.fn = f.fn /\ g.class = f.class /\ g.this = f.this
        /\ g.bound = f.bound /\ g.via = f.via /\ g.at = f.at /\ g.left = FieldsFor(f)
    BY <2>1, InitializingIs
  <2>6. ASSUME f.fn = "constructor", f.bound \in Address \ U.excused PROVE OwnReady(g, U)
    <3>1. Target(f) = {f.bound} /\ f.bound \in Object /\ f.bound \in Address
      BY <2>6, Apart DEF Target, Only
    <3>2. f.class \in U.brands[f.bound]
      BY <2>2, <3>1 DEF Steps
    <3>3. f.class \in complete
      BY <1>3, <2>6, <3>1 DEF Early, Steps
    <3>4. /\ Has(f.class, TRUE, FALSE) => g.left \in {<<"private">>, <<"private", "public">>}
          /\ Has(f.class, FALSE, FALSE) => g.left \in {<<"public">>, <<"private", "public">>}
      BY <2>5, <2>6, <3>3, FieldsForAre
    <3> QED BY <2>5, <3>2, <3>4 DEF OwnReady, Ahead
  <2>7. Begun(f, g, U)
    BY <1>3, <2>5, <2>6 DEF Begun
  <2> QED BY <2>1, <2>3, <2>4, <2>7
<1> QED BY <1>2, <1>3

\* The parameters of a function are bound.
LEMMA ParametersBoundKeeps == ASSUME IInv, ParametersBound PROVE IInv'
<1>1. PICK T, U : Steps(T, U)
  BY TablesAre
<1>2. frames # <<>> /\ UNCHANGED <<progress, complete, slots, fields, born, known, made>>
  BY DEF ParametersBound, InFn
<1>3. PICK t : t = Top
  OBVIOUS
<1>4. t \in FrameType /\ FrameSound(t, T)
  <2>1. frames \in Seq(FrameType) /\ FramesSound(frames, T)
    BY <1>1 DEF IInv, TypeInv, Steps
  <2> QED BY <1>2, <1>3, <2>1, FramePopped DEF Top
<1>5. t.at = "parameters" /\ t.left = <<>>
  BY <1>3 DEF ParametersBound, InFn
<1>6. PICK f : f = [t EXCEPT !.at = "body"]
  OBVIOUS
<1>7. /\ f \in FrameType /\ f.fn = t.fn /\ f.class = t.class /\ f.this = t.this
      /\ f.bound = t.bound /\ f.via = t.via /\ f.at = "body" /\ f.left = <<>>
      /\ f.inited = t.inited
  BY <1>4, <1>5, <1>6 DEF FrameType
<1>8. CASE f.fn = "constructor" /\ Derived(f.class)
  <2>1. frames' = SetTop(f) /\ UNCHANGED <<brands, excused>>
    BY <1>3, <1>6, <1>8 DEF ParametersBound
  <2>2. Grows(T, U)
    BY <1>1, <1>2, <2>1 DEF Steps, Same, Grows, Kept
  <2>3. FrameSound(t, U)
    BY <1>1, <1>2, <1>3, <2>2, Popped DEF Steps
  <2>4. DerivedSound(t, U)
    BY <1>7, <1>8, <2>3 DEF FrameSound
  <2>5. DerivedSound(f, U)
    BY <1>5, <1>7, <2>4 DEF DerivedSound, OwnReady, Ahead
  <2>6. FrameSound(f, U)
    BY <1>7, <1>8, <2>3, <2>5 DEF FrameSound
  <2>7. frames' \in Seq(FrameType) /\ FramesSound(frames', U)
    BY <1>1, <1>2, <1>3, <1>7, <2>1, <2>2, <2>6, Replaced DEF Steps
  <2>8. InstancesSound(made', U)
    BY <1>1, <1>2, <2>2, Grown DEF Steps
  <2>9. TypeInv'
    BY <1>2, <2>1, <2>7 DEF IInv, TypeInv
  <2> QED BY <1>1, <2>7, <2>8, <2>9 DEF IInv, Steps
<1>9. CASE ~(f.fn = "constructor" /\ Derived(f.class))
  <2>1. MaybeInitialize(Front(frames), f) /\ Excuse(Early(f))
    BY <1>3, <1>6, <1>9 DEF ParametersBound
  <2>2. /\ excused \subseteq excused' /\ Early(f) \cap Address \subseteq excused'
        /\ excused' \subseteq Address
    BY <2>1 DEF Excuse, IInv, TypeInv
  <2>3. Grows(T, U) /\ brands' \in [Object -> SUBSET Class]
    BY <1>1, <1>2, <1>7, <2>1, <2>2, MaybeInitializeBegins DEF IInv
  <2>4. PICK g : frames' = Append(Front(frames), g) /\ Begun(f, g, U)
    BY <1>1, <1>2, <1>7, <2>1, <2>2, MaybeInitializeBegins DEF IInv
  <2>5. /\ g \in FrameType /\ g.fn = t.fn /\ g.class = t.class /\ g.this = t.this
        /\ g.bound = t.bound /\ g.via = t.via /\ g.at = "body"
    BY <1>7, <2>4 DEF Begun
  <2>6. FrameSound(t, U)
    BY <1>1, <1>2, <1>3, <2>3, Popped DEF Steps
  <2>7. ASSUME t.fn = "constructor" PROVE BaseSound(g, U)
    <3>1. BaseSound(t, U)
      BY <1>7, <1>9, <2>6, <2>7 DEF FrameSound
    <3>2. ~f.inited
      BY <1>5, <1>7, <3>1 DEF BaseSound
    <3>3. g.bound \in Address \ U.excused => OwnReady(g, U)
      BY <1>7, <2>4, <2>5, <2>7, <3>2 DEF Begun
    <3> QED BY <2>5, <3>1, <3>3 DEF BaseSound
  <2>8. FrameSound(g, U)
    BY <1>7, <1>9, <2>5, <2>6, <2>7 DEF FrameSound
  <2>9. frames' \in Seq(FrameType) /\ FramesSound(frames', U)
    <3>1. SetTop(g) = Append(Front(frames), g) /\ SetTop(g) \in Seq(FrameType) /\ FramesSound(SetTop(g), U)
      BY <1>1, <1>2, <1>3, <2>3, <2>5, <2>8, Replaced DEF Steps
    <3> QED BY <2>4, <3>1
  <2>10. InstancesSound(made', U)
    BY <1>1, <1>2, <2>3, Grown DEF Steps
  <2>11. TypeInv'
    BY <1>2, <2>2, <2>3, <2>9 DEF IInv, TypeInv
  <2> QED BY <1>1, <2>9, <2>10, <2>11 DEF IInv, Steps
<1> QED BY <1>8, <1>9

\* What f is when one kind of its fields is initialized.
Advanced(f) == [f EXCEPT !.left = Tail(@), !.inited = Len(f.left) = 1]

\* A constructor stays sound when the fields ahead come to be set.
LEMMA AdvancedIsSound ==
    ASSUME NEW f \in FrameType, NEW T, FrameSound(f, T), f.left # <<>>, NEW g, g = Advanced(f),
           f.fn = "constructor" /\ f.bound \in Address =>
              /\ Head(f.left) = "private" => T.slots[f.bound][f.class] = "set"
              /\ Head(f.left) = "public" => f.class \in T.fields[f.bound]
    PROVE  /\ g \in FrameType /\ g.fn = f.fn /\ g.class = f.class /\ g.this = f.this
           /\ g.via = f.via /\ FrameSound(g, T)
<1>1. f.left \in Lefts
  BY FrameIs
<1>2. /\ Tail(f.left) \in Lefts /\ Head(f.left) \in {"private", "public"}
      /\ Head(f.left) = "private" => Tail(f.left) \in {<<>>, <<"public">>}
      /\ Head(f.left) = "public" => Tail(f.left) = <<>> /\ f.left = <<"public">>
      /\ Head(f.left) = "private" /\ f.left = <<"private", "public">> => Tail(f.left) = <<"public">>
  BY <1>1, LeftsAre
<1>3. /\ g \in FrameType /\ g.fn = f.fn /\ g.class = f.class /\ g.this = f.this
      /\ g.bound = f.bound /\ g.via = f.via /\ g.at = f.at /\ g.left = Tail(f.left)
  BY <1>2 DEF Advanced, FrameType
<1>4. ASSUME f.fn = "constructor", f.bound \in Address, OwnReady(f, T) PROVE OwnReady(g, T)
  <2>1. CASE Head(f.left) = "private"
    <3>1. T.slots[f.bound][f.class] = "set"
      BY <1>4, <2>1
    <3>2. Ahead(f, "public") => Ahead(g, "public")
      BY <1>2, <1>3, <2>1 DEF Ahead
    <3> QED BY <1>3, <1>4, <3>1, <3>2 DEF OwnReady
  <2>2. CASE Head(f.left) = "public"
    <3>1. f.class \in T.fields[f.bound]
      BY <1>4, <2>2
    <3>2. ~Ahead(f, "private")
      BY <1>2, <2>2 DEF Ahead
    <3> QED BY <1>3, <1>4, <3>1, <3>2 DEF OwnReady
  <2> QED BY <1>2, <2>1, <2>2
<1>5. CASE f.fn # "constructor"
  BY <1>3, <1>5 DEF FrameSound
<1>6. CASE f.fn = "constructor" /\ Derived(f.class)
  <2>1. DerivedSound(f, T)
    BY <1>6 DEF FrameSound
  <2>2. DerivedSound(g, T)
    BY <1>3, <1>4, <1>6, <2>1 DEF DerivedSound
  <2> QED BY <1>3, <1>6, <2>2 DEF FrameSound
<1>7. CASE f.fn = "constructor" /\ ~Derived(f.class)
  <2>1. BaseSound(f, T)
    BY <1>7 DEF FrameSound
  <2>2. f.at # "parameters"
    BY <2>1 DEF BaseSound
  <2>3. BaseSound(g, T)
    BY <1>3, <1>4, <1>7, <2>1, <2>2 DEF BaseSound
  <2> QED BY <1>3, <1>7, <2>3 DEF FrameSound
<1> QED BY <1>3, <1>5, <1>6, <1>7

\* The private fields.
LEMMA InitializePrivateKeeps == ASSUME IInv, InitializePrivate PROVE IInv'
<1>1. PICK T, U : Steps(T, U)
  BY TablesAre
<1>2. /\ frames # <<>> /\ Top.left # <<>> /\ Head(Top.left) = "private"
      /\ UNCHANGED <<progress, complete, brands, fields, born, known, made, excused>>
  BY DEF InitializePrivate, histories
<1>3. slots' = [o \in Object |-> IF o \in Target(Top) THEN [slots[o] EXCEPT ![Top.class] = "set"]
                                 ELSE slots[o]]
  BY DEF InitializePrivate, SetPrivateSlot
<1>4. PICK t : t = Top
  OBVIOUS
<1>5. t \in FrameType
  <2>1. frames \in Seq(FrameType) /\ FramesSound(frames, T)
    BY <1>1 DEF IInv, TypeInv, Steps
  <2> QED BY <1>2, <1>4, <2>1, FramePopped DEF Top
<1>6. t.class \in Class
  BY <1>5, FrameIs
<1>7. /\ slots' \in [Object -> [Class -> {"none", "set", "stale"}]]
      /\ \A o \in Object, c \in Class : slots[o][c] = "set" => slots'[o][c] = "set"
      /\ \A o \in Object : o \in Target(t) => slots'[o][t.class] = "set"
  BY <1>3, <1>4, <1>6 DEF IInv, TypeInv
<1>8. Grows(T, U)
  BY <1>1, <1>2, <1>7 DEF Steps, Same, Grows, Kept
<1>9. FrameSound(t, U)
  BY <1>1, <1>2, <1>4, <1>8, Popped DEF Steps
<1>10. PICK g : g = Advanced(t)
  OBVIOUS
<1>11. ASSUME t.fn = "constructor", t.bound \in Address PROVE U.slots[t.bound][t.class] = "set"
  <2>1. t.bound \in Target(t) /\ t.bound \in Object
    BY <1>11, Apart DEF Target, Only
  <2> QED BY <1>1, <1>7, <2>1 DEF Steps
<1>12. /\ g \in FrameType /\ g.fn = t.fn /\ g.class = t.class /\ g.this = t.this
       /\ g.via = t.via /\ FrameSound(g, U)
  BY <1>2, <1>4, <1>5, <1>9, <1>10, <1>11, AdvancedIsSound
<1>13. frames' = SetTop(g)
  BY <1>4, <1>10 DEF InitializePrivate, Advanced
<1>14. frames' \in Seq(FrameType) /\ FramesSound(frames', U)
  BY <1>1, <1>2, <1>4, <1>8, <1>12, <1>13, Replaced DEF Steps
<1>15. InstancesSound(made', U)
  BY <1>1, <1>2, <1>8, Grown DEF Steps
<1>16. TypeInv'
  BY <1>2, <1>7, <1>14 DEF IInv, TypeInv
<1> QED BY <1>1, <1>14, <1>15, <1>16 DEF IInv, Steps

\* The public ones.
LEMMA InitializePublicKeeps == ASSUME IInv, InitializePublic PROVE IInv'
<1>1. PICK T, U : Steps(T, U)
  BY TablesAre
<1>2. /\ frames # <<>> /\ Top.left # <<>> /\ Head(Top.left) = "public"
      /\ UNCHANGED <<progress, complete, brands, slots, born, known, made, excused>>
  BY DEF InitializePublic, histories
<1>3. PICK t : t = Top
  OBVIOUS
<1>4. t \in FrameType
  <2>1. frames \in Seq(FrameType) /\ FramesSound(frames, T)
    BY <1>1 DEF IInv, TypeInv, Steps
  <2> QED BY <1>2, <1>3, <2>1, FramePopped DEF Top
<1>5. t.class \in Class /\ t.bound \in Object \cup {None} /\ t.bound # None
  <2>1. t.bound # None
    BY <1>3 DEF InitializePublic, Target, Only
  <2> QED BY <1>4, <2>1, FrameIs
<1>6. fields' = [fields EXCEPT ![t.bound] = @ \cup {t.class}]
  BY <1>3 DEF InitializePublic
<1>7. /\ fields' \in [Object -> SUBSET Class]
      /\ \A o \in Object : fields[o] \subseteq fields'[o]
      /\ t.class \in fields'[t.bound]
  BY <1>5, <1>6 DEF IInv, TypeInv
<1>8. Grows(T, U)
  BY <1>1, <1>2, <1>7 DEF Steps, Same, Grows, Kept
<1>9. FrameSound(t, U)
  BY <1>1, <1>2, <1>3, <1>8, Popped DEF Steps
<1>10. PICK g : g = Advanced(t)
  OBVIOUS
<1>11. t.class \in U.fields[t.bound]
  BY <1>1, <1>7 DEF Steps
<1>12. /\ g \in FrameType /\ g.fn = t.fn /\ g.class = t.class /\ g.this = t.this
       /\ g.via = t.via /\ FrameSound(g, U)
  BY <1>2, <1>3, <1>4, <1>9, <1>10, <1>11, AdvancedIsSound
<1>13. frames' = SetTop(g)
  BY <1>3, <1>10 DEF InitializePublic, Advanced
<1>14. frames' \in Seq(FrameType) /\ FramesSound(frames', U)
  BY <1>1, <1>2, <1>3, <1>8, <1>12, <1>13, Replaced DEF Steps
<1>15. InstancesSound(made', U)
  BY <1>1, <1>2, <1>8, Grown DEF Steps
<1>16. TypeInv'
  BY <1>2, <1>7, <1>14 DEF IInv, TypeInv
<1> QED BY <1>1, <1>14, <1>15, <1>16 DEF IInv, Steps

\* A private field is written.
LEMMA WritePrivateKeeps == ASSUME IInv, NEW o \in known \cup Class, WritePrivate(o) PROVE IInv'
<1>1. PICK T, U : Steps(T, U)
  BY TablesAre
<1>2. PICK c : c = Top.class /\ c \in Class
  BY DEF IInv, TypeInv, WritePrivate
<1>3. slots' = [x \in Object |-> IF x \in {o} THEN [slots[x] EXCEPT ![c] = "set"] ELSE slots[x]]
  BY <1>2 DEF WritePrivate, SetPrivateSlot
<1>4. /\ slots' \in [Object -> [Class -> {"none", "set", "stale"}]]
      /\ \A x \in Object, d \in Class : slots[x][d] = "set" => slots'[x][d] = "set"
  BY <1>2, <1>3 DEF IInv, TypeInv
<1>5. UNCHANGED <<progress, complete, brands, fields, born, frames, known, made, excused>>
  BY DEF WritePrivate, histories
<1>6. Grows(T, U)
  BY <1>1, <1>4, <1>5 DEF Steps, Same, Grows, Kept
<1>7. FramesSound(frames', U) /\ InstancesSound(made', U)
  BY <1>1, <1>5, <1>6, Grown DEF Steps
<1>8. TypeInv'
  BY <1>4, <1>5 DEF IInv, TypeInv
<1> QED BY <1>1, <1>7, <1>8 DEF IInv, Steps

-----------------------------------------------------------------------------
(* Constructors that end.                                                  *)

\* At its end a constructor has finished with the object it answers for.
LEMMA FinishedIsReady ==
    ASSUME NEW t \in FrameType, NEW T, FrameSound(t, T), t.fn = "constructor",
           t.left = <<>>, t.at = "body", t.bound \in Address \ T.excused
    PROVE  t.bound = t.this /\ AllReady(t.this, Chain(t.class), T)
<1>1. t.class \in Class /\ t.bound # None
  BY FrameIs, Apart
<1>2. ~Ahead(t, "private") /\ ~Ahead(t, "public")
  BY DEF Ahead
<1>3. CASE Derived(t.class)
  <2>1. DerivedSound(t, T)
    BY <1>3 DEF FrameSound
  <2>2. t.bound = t.this
    BY <1>1, <2>1 DEF DerivedSound
  <2>3. Ready(t.this, t.class, T) /\ AllReady(t.this, Chain(Parent[t.class]), T)
    BY <1>2, <2>1, <2>2 DEF DerivedSound, OwnReady, Ready
  <2>4. AllReady(t.this, Chain(t.class), T)
    BY <1>1, <2>3, ChainStep DEF AllReady
  <2> QED BY <2>2, <2>4
<1>4. CASE ~Derived(t.class)
  <2>1. BaseSound(t, T)
    BY <1>4 DEF FrameSound
  <2>2. t.bound = t.this
    BY <2>1 DEF BaseSound
  <2>3. Ready(t.this, t.class, T)
    BY <1>2, <2>1, <2>2 DEF BaseSound, OwnReady, Ready
  <2>4. AllReady(t.this, Chain(t.class), T)
    BY <1>1, <1>4, <2>3, ChainStep DEF AllReady
  <2> QED BY <2>2, <2>4
<1> QED BY <1>3, <1>4

\* new takes what the constructor returns.
LEMMA NewReturnsKeeps == ASSUME IInv, NEW r \in Live \cup {None}, NewReturns(r) PROVE IInv'
<1>1. PICK T, U : Steps(T, U)
  BY TablesAre
<1>2. /\ frames # <<>> /\ UNCHANGED <<tables, excused>> /\ frames' = Front(frames)
      /\ Top.left = <<>> /\ Top.at = "body" /\ Top.via = "new" /\ MayReturn(r)
  BY DEF NewReturns, AtEnd, InFn
<1>3. Grows(T, U)
  BY <1>1, <1>2 DEF tables, Steps, Same, Grows, Kept
<1>4. PICK t : t = Top
  OBVIOUS
<1>5. /\ t \in FrameType /\ FrameSound(t, U)
      /\ frames' \in Seq(FrameType) /\ FramesSound(frames', U)
  BY <1>1, <1>2, <1>3, <1>4, Popped DEF Steps
<1>6. t.fn = "constructor" /\ t.this \in Address /\ U.born[t.this] = t.class /\ t.class \in Class
  BY <1>2, <1>4, <1>5, FrameIs DEF FrameSound
<1>7. InstancesSound(made, U)
  BY <1>1, <1>3, Grown DEF Steps
<1>8. ASSUME r = None \/ (r = t.this /\ t.bound = r), t.this \notin U.excused
      PROVE  AllReady(t.this, Chain(t.class), U)
  <2>1. t.bound = t.this
    <3>1. CASE r = t.this /\ t.bound = r
      BY <3>1
    <3>2. CASE r = None /\ ~Derived(t.class)
      BY <1>5, <1>6, <3>2 DEF FrameSound, BaseSound
    <3>3. CASE r = None /\ Derived(t.class)
      <4>1. t.bound # None
        BY <1>2, <1>4, <1>6, <3>3 DEF MayReturn
      <4> QED BY <1>5, <1>6, <1>8, <3>3, <4>1 DEF FrameSound, DerivedSound
    <3> QED BY <1>8, <3>1, <3>2, <3>3
  <2>2. t.bound \in Address \ U.excused /\ t.left = <<>> /\ t.at = "body"
    BY <1>2, <1>4, <1>6, <1>8, <2>1
  <2> QED BY <1>5, <1>6, <2>2, FinishedIsReady
<1>9. made' = made \cup IF r = None \/ (r = t.this /\ t.bound = r) THEN {t.this} ELSE {}
  BY <1>4 DEF NewReturns
<1>10. InstancesSound(made', U)
  BY <1>6, <1>7, <1>8, <1>9, Apart DEF InstancesSound
<1>11. TypeInv'
  <2>1. known' \subseteq Address
    <3>1. known' = known \cup IF r \in {None, t.this} THEN {t.this} ELSE {}
      BY <1>4 DEF NewReturns
    <3> QED BY <1>6, <3>1 DEF IInv, TypeInv
  <2> QED BY <1>2, <1>5, <1>6, <1>9, <2>1 DEF IInv, TypeInv, tables
<1> QED BY <1>1, <1>5, <1>10, <1>11 DEF IInv, Steps

\* super() gives the constructor below what the one above returns.
LEMMA SuperReturnsKeeps == ASSUME IInv, NEW r \in Live \cup {None}, SuperReturns(r) PROVE IInv'
<1>1. PICK T, U : Steps(T, U)
  BY TablesAre
<1>2. /\ frames # <<>> /\ UNCHANGED <<progress, complete, slots, fields, born, known, made>>
      /\ Top.left = <<>> /\ Top.at = "body" /\ Top.via = "super" /\ MayReturn(r)
  BY DEF SuperReturns, AtEnd, InFn
<1>3. PICK t, below, g :
         t = Top /\ below = Front(frames) /\ g = Last(below)
  OBVIOUS
<1>4. PICK this : this = IF r = None THEN t.this ELSE r
  OBVIOUS
<1>5. PICK f : f = [g EXCEPT !.bound = this]
  OBVIOUS
<1>6. /\ MaybeInitialize(Front(below), f)
      /\ Excuse(Early(f) \cup IF this = t.bound THEN {} ELSE {this, t.this})
  BY <1>3, <1>4, <1>5 DEF SuperReturns
<1>7. /\ excused \subseteq excused' /\ Early(f) \cap Address \subseteq excused'
      /\ excused' \subseteq Address
      /\ this # t.bound => {this, t.this} \cap Address \subseteq excused'
  BY <1>6 DEF Excuse, IInv, TypeInv
<1>8. frames \in Seq(FrameType) /\ FramesSound(frames, T)
  BY <1>1 DEF IInv, TypeInv, Steps
<1>9. /\ t \in FrameType /\ FrameSound(t, T)
      /\ below \in Seq(FrameType) /\ FramesSound(below, T) /\ below # <<>> /\ CalledBy(g, t)
  BY <1>2, <1>3, <1>8, FramePopped DEF Top
<1>10. g \in FrameType /\ FrameSound(g, T)
  BY <1>3, <1>9, FramePopped
<1>11. this \in Object \cup {None}
  BY <1>4, <1>9, FrameIs DEF Live, IInv, TypeInv, Object
<1>12. /\ f \in FrameType /\ f.fn = g.fn /\ f.class = g.class /\ f.this = g.this
       /\ f.bound = this /\ f.via = g.via /\ f.at = g.at /\ f.left = g.left
       /\ f.inited = g.inited
  BY <1>5, <1>10, <1>11 DEF FrameType
<1>13. Grows(T, U) /\ brands' \in [Object -> SUBSET Class]
  BY <1>1, <1>2, <1>6, <1>7, <1>12, MaybeInitializeBegins DEF IInv
<1>14. PICK h : frames' = Append(Front(below), h) /\ Begun(f, h, U)
  BY <1>1, <1>2, <1>6, <1>7, <1>12, MaybeInitializeBegins DEF IInv
<1>15. /\ h \in FrameType /\ h.fn = g.fn /\ h.class = g.class /\ h.this = g.this
       /\ h.bound = this /\ h.via = g.via
  BY <1>12, <1>14 DEF Begun
<1>16. /\ t.fn = "constructor" /\ t.class = Parent[g.class] /\ t.this = g.this
       /\ g.left = <<>> /\ Derived(g.class)
  BY <1>9 DEF CalledBy
<1>17. /\ FramesSound(frames, U) /\ FrameSound(t, U) /\ FramesSound(below, U) /\ FrameSound(g, U)
  <2>1. FrameSound(t, U) /\ FramesSound(below, U)
    BY <1>1, <1>2, <1>3, <1>13, Popped DEF Steps
  <2>2. FrameSound(g, U)
    BY <1>3, <1>9, <2>1, FramePopped
  <2>3. FramesSound(frames, U)
    BY <1>1, <1>13, Grown DEF Steps
  <2> QED BY <2>1, <2>2, <2>3
<1>18. h.bound = h.this \/ {h.bound, h.this} \cap Address \subseteq U.excused
  <2>1. CASE this # t.bound
    BY <1>1, <1>7, <1>15, <1>16, <2>1 DEF Steps
  <2>2. CASE this = t.bound /\ ~Derived(t.class)
    BY <1>15, <1>16, <1>17, <2>2 DEF FrameSound, BaseSound
  <2>3. CASE this = t.bound /\ Derived(t.class)
    <3>1. t.bound # None
      <4>1. CASE r = None
        BY <1>2, <1>3, <1>16, <2>3, <4>1 DEF MayReturn
      <4>2. CASE r # None
        BY <1>4, <2>3, <4>2
      <4> QED BY <4>1, <4>2
    <3> QED BY <1>15, <1>16, <1>17, <2>3, <3>1 DEF FrameSound, DerivedSound
  <2> QED BY <2>1, <2>2, <2>3
<1>19. ASSUME h.fn = "constructor", h.bound \in Address \ U.excused
       PROVE  OwnReady(h, U) /\ AllReady(h.bound, Chain(Parent[h.class]), U)
  <2>1. h.bound = h.this /\ t.bound = this
    BY <1>1, <1>7, <1>15, <1>18, <1>19 DEF Steps
  <2>2. AllReady(t.this, Chain(t.class), U)
    BY <1>2, <1>3, <1>9, <1>15, <1>16, <1>17, <1>19, <2>1, FinishedIsReady
  <2>3. AllReady(h.bound, Chain(Parent[h.class]), U)
    BY <1>15, <1>16, <2>1, <2>2
  <2>4. OwnReady(h, U)
    <3>1. CASE ~f.inited
      BY <1>12, <1>14, <1>15, <1>19, <3>1 DEF Begun
    <3>2. CASE f.inited
      <4>1. DerivedSound(g, U)
        BY <1>15, <1>16, <1>17, <1>19 DEF FrameSound
      <4>2. g.bound = g.this
        BY <1>12, <1>15, <1>19, <2>1, <3>2, <4>1 DEF DerivedSound
      <4>3. OwnReady(g, U)
        BY <1>15, <1>19, <2>1, <4>1, <4>2 DEF DerivedSound
      <4>4. h.left = g.left
        BY <1>12, <1>14, <3>2 DEF Begun
      <4> QED BY <1>15, <2>1, <4>2, <4>3, <4>4 DEF OwnReady, Ahead
    <3> QED BY <3>1, <3>2
  <2> QED BY <2>3, <2>4
<1>20. FrameSound(h, U)
  <2>1. CASE h.fn # "constructor"
    BY <1>15, <1>17, <2>1 DEF FrameSound
  <2>2. CASE h.fn = "constructor"
    <3>1. DerivedSound(h, U)
      BY <1>18, <1>19, <2>2 DEF DerivedSound
    <3> QED BY <1>15, <1>16, <1>17, <2>2, <3>1 DEF FrameSound
  <2> QED BY <2>1, <2>2
<1>21. frames' \in Seq(FrameType) /\ FramesSound(frames', U)
  BY <1>3, <1>9, <1>14, <1>15, <1>17, <1>20, FrameReplaced
<1>22. InstancesSound(made', U)
  BY <1>1, <1>2, <1>13, Grown DEF Steps
<1>23. TypeInv'
  BY <1>2, <1>7, <1>13, <1>21 DEF IInv, TypeInv
<1> QED BY <1>1, <1>21, <1>22, <1>23 DEF IInv, Steps

-----------------------------------------------------------------------------
(* Addresses that become free.                                             *)

\* No frame has the object, so nothing is said of it any more.
LEMMA DropKeeps == ASSUME IInv, NEW o \in Address, Drop(o) PROVE IInv'
<1>1. PICK T, U : Steps(T, U)
  BY TablesAre
<1>2. /\ UNCHANGED <<progress, complete, brands, frames>>
      /\ made' = made \ {o} /\ excused' = excused \ {o} /\ known' = known \ {o}
      /\ born' = [born EXCEPT ![o] = None] /\ fields' = [fields EXCEPT ![o] = {}]
      /\ slots' = [slots EXCEPT ![o] =
                      [c \in Class |-> IF @[c] = "none" THEN "none" ELSE "stale"]]
  BY DEF Drop
<1>3. o \in Object
  BY DEF Object
<1>4. /\ slots' \in [Object -> [Class -> {"none", "set", "stale"}]]
      /\ \A x \in Object \ {o} : slots'[x] = slots[x]
  BY <1>2, <1>3 DEF IInv, TypeInv
<1>5. /\ fields' \in [Object -> SUBSET Class] /\ \A x \in Object \ {o} : fields'[x] = fields[x]
      /\ born' \in [Address -> Class \cup {None}]
      /\ \A x \in Address \ {o} : born'[x] = born[x]
  BY <1>2, <1>3 DEF IInv, TypeInv
<1>6. \A x \in (Object \cup {None}) \ {o} : Kept(x, T, U)
  BY <1>1, <1>2, <1>4, <1>5, Apart DEF Kept, Steps, Same
<1>7. frames \in Seq(FrameType) /\ FramesSound(frames, T) /\ InstancesSound(made, T)
  BY <1>1 DEF IInv, TypeInv, Steps
<1>8. \A i \in DOMAIN frames : Kept(frames[i].this, T, U) /\ Kept(frames[i].bound, T, U)
  <2> SUFFICES ASSUME NEW i \in DOMAIN frames
               PROVE  Kept(frames[i].this, T, U) /\ Kept(frames[i].bound, T, U)
    OBVIOUS
  <2>1. frames[i] \in FrameType
    BY <1>7, LenProperties, ElementOfSeq
  <2>2. frames[i].this \in Object \cup {None} /\ frames[i].bound \in Object \cup {None}
    BY <2>1, FrameIs
  <2>3. o # frames[i].this /\ o # frames[i].bound
    BY DEF Drop
  <2> QED BY <1>6, <2>2, <2>3
<1>9. FramesSound(frames', U)
  BY <1>2, <1>7, <1>8, FramesKept
<1>10. InstancesSound(made', U)
  <2>1. made' \in SUBSET Address /\ InstancesSound(made', T)
    BY <1>2, <1>7 DEF IInv, TypeInv, InstancesSound
  <2>2. \A x \in made' : Kept(x, T, U)
    BY <1>2, <1>6, <2>1 DEF Object
  <2> QED BY <2>1, <2>2, InstancesKept
<1>11. TypeInv'
  BY <1>2, <1>4, <1>5 DEF IInv, TypeInv
<1> QED BY <1>1, <1>9, <1>10, <1>11 DEF IInv, Steps

-----------------------------------------------------------------------------
(* The invariant.                                                          *)

\* Nothing is on the stack in the beginning.
LEMMA InitKeeps == ASSUME Init PROVE IInv
<1>1. frames = <<>> /\ <<>> \in Seq(FrameType) /\ DOMAIN <<>> = {}
  BY EmptySeq DEF Init
<1>2. FramesSound(frames, Tables)
  BY <1>1 DEF FramesSound
<1>3. InstancesSound(made, Tables)
  BY DEF Init, InstancesSound
<1>4. TypeInv
  BY <1>1 DEF Init, TypeInv
<1> QED BY <1>2, <1>3, <1>4 DEF IInv

\* Every step keeps the invariant.
LEMMA NextKeeps == ASSUME IInv, [Next]_vars PROVE IInv'
<1>1. CASE UNCHANGED vars
  BY <1>1 DEF vars, tables, histories, IInv, TypeInv, Tables
<1>2. CASE DefineMethod \/ DefineAccessor \/ DefineField \/ StaticBlock
  BY <1>2, DefineKeeps DEF DefineMethod, DefineAccessor, DefineField, StaticBlock
<1>3. CASE ClassEnds \/ DefinitionReturns \/ CallReturns \/ Throws
  BY <1>3, ClassEndsKeeps, ReturnsKeep, ThrowsKeeps
<1>4. CASE SuperCall \/ CallArrow \/ ParametersBound
  BY <1>4, SuperCallKeeps, CallArrowKeeps, ParametersBoundKeeps
<1>5. CASE InitializePrivate \/ InitializePublic
  BY <1>5, InitializePrivateKeeps, InitializePublicKeeps
<1>6. CASE \E c \in Class : ClassBegins(c)
  BY <1>6, ClassBeginsKeeps
<1>7. CASE \E c \in Class : New(c)
  BY <1>7, NewKeeps
<1>8. CASE \E c \in Class : \E o \in known \cup {None} : Call(c, o)
  BY <1>8, CallKeeps
<1>9. CASE \E r \in Live \cup {None} : NewReturns(r)
  BY <1>9, NewReturnsKeeps
<1>10. CASE \E r \in Live \cup {None} : SuperReturns(r)
  BY <1>10, SuperReturnsKeeps
<1>11. CASE \E o \in known \cup Class : WritePrivate(o)
  BY <1>11, WritePrivateKeeps
<1>12. CASE \E o \in Address : Drop(o)
  BY <1>12, DropKeeps
<1> QED BY <1>1, <1>2, <1>3, <1>4, <1>5, <1>6, <1>7, <1>8, <1>9, <1>10, <1>11, <1>12 DEF Next

-----------------------------------------------------------------------------
(* The theorems.                                                           *)

\* The inductive invariant holds.
THEOREM Invariance == Spec => []IInv
<1>1. Init => IInv
  BY InitKeeps
<1>2. IInv /\ [Next]_vars => IInv'
  BY NextKeeps
<1> QED BY <1>1, <1>2, PTL DEF Spec

\* An instance that new returns has the brands and fields of its class and of
\* all the classes above, however many there are.
THEOREM ConstructedIsInitializedCorrect == Spec => []ConstructedIsInitialized
<1>1. IInv => ConstructedIsInitialized
  <2> SUFFICES ASSUME IInv, NEW o \in made \ excused, NEW c \in Chain(born[o])
               PROVE  c \in brands[o] /\ Initialized(o, c)
    BY DEF ConstructedIsInitialized
  <2>1. PICK T : T = Tables /\ Same(T)
    <3>1. Same(Tables)
      BY DEF Tables, Same
    <3> QED BY <3>1
  <2>2. Ready(o, c, T)
    BY <2>1 DEF IInv, InstancesSound, AllReady, Same
  <2> QED BY <2>1, <2>2 DEF Ready, Same, Initialized
<1> QED BY <1>1, Invariance, PTL

\* The code of a derived constructor sees as "this" only an object that has the
\* fields of all the classes above.
THEOREM ThisIsReadyCorrect == Spec => []ThisIsReady
<1>1. IInv => ThisIsReady
  <2> SUFFICES ASSUME IInv, NEW i \in DOMAIN frames, frames[i].fn = "constructor",
                      Derived(frames[i].class), frames[i].bound \in Address \ excused,
                      NEW c \in Chain(Parent[frames[i].class])
               PROVE  Initialized(frames[i].bound, c)
    BY DEF ThisIsReady
  <2>1. PICK T : T = Tables /\ Same(T)
    <3>1. Same(Tables)
      BY DEF Tables, Same
    <3> QED BY <3>1
  <2>2. FrameSound(frames[i], T)
    BY <2>1 DEF IInv, FramesSound
  <2>3. Ready(frames[i].bound, c, T)
    BY <2>1, <2>2 DEF FrameSound, DerivedSound, AllReady, Same
  <2> QED BY <2>1, <2>3 DEF Ready, Same, Initialized
<1> QED BY <1>1, Invariance, PTL
=============================================================================
