--------------------------- MODULE Promises_proofs ---------------------------
(***************************************************************************)
(* Safety of promises and microtasks, for any number of promises,          *)
(* reactions and nested frames.  The inductive invariant follows each      *)
(* reaction from the promise it is attached to, through the queue, into a  *)
(* running handler: what it will settle, and with what.                    *)
(***************************************************************************)
EXTENDS Promises, FiniteSetTheorems, SequenceTheorems, TLAPS

State == Settlement \cup {Pending, Unborn}
TaskSet == [state : Settlement, reaction : Reaction]
Frame == [what : {"program", "drain", "then", "finally"}, result : Value,
          original : Settlement \cup {Pending}]

Handlers == {i \in DOMAIN stack : stack[i].what \in {"then", "finally"}}

TypeInv ==
    /\ created \in 0 .. MaxPromises
    /\ state \in [Promise -> State]
    /\ reactions \in [Promise -> Seq(Reaction)]
    /\ queue \in Seq(TaskSet)
    /\ stack \in Seq(Frame)
    /\ resolvable \subseteq 1 .. created
    /\ attached \in 0 .. MaxReactions
    /\ adopted \in [Promise -> 0 .. created]
    /\ finallyOf \in [Promise -> 0 .. created]
    /\ lastRun \in [Promise -> 0 .. attached]

\* The reactions that wait on a promise or in the queue.
Entries == {queue[i].reaction : i \in DOMAIN queue}
           \cup UNION {{reactions[q][i] : i \in DOMAIN reactions[q]} : q \in Promise}

\* Promises come into being in order; nothing refers to one that does not exist.
Born ==
    /\ \A p \in Promise : state[p] = Unborn <=> p > created
    /\ \A p \in Promise : p > created => adopted[p] = 0 /\ finallyOf[p] = 0
    /\ \A rx \in Entries : rx.result \in 1 .. created
    /\ \A i \in Handlers : stack[i].result \in 1 .. created

\* A reaction waits on a pending promise, or is queued with its settlement.
Waiting ==
    /\ \A q \in Promise : state[q] # Pending => reactions[q] = <<>>
    /\ \A q \in Promise : \A i \in DOMAIN reactions[q] : reactions[q][i].source = q
    /\ \A i \in DOMAIN queue : queue[i].state = state[queue[i].reaction.source]

\* Reactions are numbered as they are attached, and kept in that order.
Numbered ==
    /\ \A q \in Promise : Len(reactions[q]) <= attached
    /\ \A q \in Promise : \A i \in DOMAIN reactions[q] :
          /\ lastRun[q] < reactions[q][i].no /\ reactions[q][i].no <= attached
          /\ \A j \in DOMAIN reactions[q] :
                i < j => reactions[q][i].no < reactions[q][j].no
    /\ \A i \in DOMAIN queue :
          /\ lastRun[queue[i].reaction.source] < queue[i].reaction.no
          /\ queue[i].reaction.no <= attached
          /\ \A j \in DOMAIN queue :
                /\ i < j
                /\ queue[i].reaction.source = queue[j].reaction.source
                => queue[i].reaction.no < queue[j].reaction.no

\* A derived promise has one entry while it is pending, then none.
Derived(p) == p \in 1 .. created /\ p \notin resolvable
InLine(p) == \/ (\E r : Registered(p) = {r}) /\ Queued(p) = {}
             \/ Registered(p) = {} /\ (\E i : Queued(p) = {i})
NotInLine(p) == Registered(p) = {} /\ Queued(p) = {}
HasEntry(p) ==
    /\ state[p] = Pending => \/ InLine(p) /\ Running(p) = {}
                             \/ NotInLine(p) /\ \E i : Running(p) = {i}
    /\ state[p] # Pending => NotInLine(p) /\ Running(p) = {}
OneEntry == \A p \in Promise : Derived(p) => HasEntry(p)

\* What an entry knows of the promise it will settle.
ReactionFits(rx) ==
    LET p == rx.result IN
    CASE rx.kind = "then"    -> /\ finallyOf[p] = 0
                                /\ rx.handlers # {} => Derived(p)
                                /\ adopted[p] # 0 => /\ adopted[p] = rx.source
                                                     /\ rx.handlers = {}
      [] rx.kind = "finally" -> /\ finallyOf[p] = rx.source /\ adopted[p] = 0
                                /\ Derived(p)
      [] rx.kind = "pass"    -> /\ finallyOf[p] # 0 /\ adopted[p] = rx.source
                                /\ rx.original = state[finallyOf[p]]
                                /\ rx.original \in Settlement
FrameFits(f) ==
    LET p == f.result IN
    /\ Derived(p) /\ adopted[p] = 0
    /\ f.what = "then" => finallyOf[p] = 0
    /\ f.what = "finally" => /\ finallyOf[p] # 0 /\ f.original = state[finallyOf[p]]
                             /\ f.original \in Settlement
Fits ==
    /\ \A rx \in Entries : ReactionFits(rx)
    /\ \A i \in Handlers : FrameFits(stack[i])
    /\ \A p \in resolvable : adopted[p] = 0 /\ finallyOf[p] = 0

IInv == TypeInv /\ Born /\ Waiting /\ Numbered /\ OneEntry /\ Fits /\ WaitsAndFollows
-----------------------------------------------------------------------------
\* Pending and Unborn are no settlements; each settlement is told by its how.
LEMMA Settlements ==
    /\ Pending \notin Settlement /\ Unborn \notin Settlement /\ Unborn # Pending
    /\ Rejected \in Settlement /\ Pending.how = "pending"
    /\ \A v \in Value : Fulfilled(v) \in Settlement
    /\ \A s \in Settlement : s.how \in {"fulfilled", "rejected"}
    /\ \A s \in Settlement : s.how = "rejected" <=> s = Rejected
<1>1. /\ Pending.how = "pending" /\ Unborn.how = "unborn"
      /\ Rejected.how = "rejected"
      /\ \A v \in Value : Fulfilled(v).how = "fulfilled"
  BY DEF Pending, Unborn, Rejected, Fulfilled
<1>2. \A s : s \in Settlement <=> s = Rejected \/ \E v \in Value : s = Fulfilled(v)
  BY DEF Settlement
<1> QED
  BY <1>1, <1>2

\* What attach_promise_reaction does with a reaction on an existing promise.
NewReaction(p, kind, handlers, original, result) ==
    [no |-> attached + 1, source |-> p, result |-> result,
     kind |-> kind, handlers |-> handlers, original |-> original]

AttachEffect(p, rx) ==
    /\ rx \in Reaction /\ rx.source = p /\ rx.no = attached + 1
    /\ attached' = attached + 1 /\ attached' \in 0 .. MaxReactions
    /\ reactions' \in [Promise -> Seq(Reaction)] /\ queue' \in Seq(TaskSet)
    /\ \/ /\ state[p] = Pending /\ queue' = queue
          /\ \A q \in Promise \ {p} : reactions'[q] = reactions[q]
          /\ Len(reactions'[p]) = Len(reactions[p]) + 1
          /\ \A i \in 1 .. Len(reactions[p]) : reactions'[p][i] = reactions[p][i]
          /\ reactions'[p][Len(reactions[p]) + 1] = rx
       \/ /\ state[p] \in Settlement /\ reactions' = reactions
          /\ Len(queue') = Len(queue) + 1
          /\ \A i \in 1 .. Len(queue) : queue'[i] = queue[i]
          /\ queue'[Len(queue) + 1].state = state[p]
          /\ queue'[Len(queue) + 1].reaction = rx

\* attach_promise_reaction has that effect.
LEMMA AttachLemma ==
    ASSUME TypeInv, NEW p \in Promise, NEW kind \in {"then", "finally", "pass"},
           NEW handlers \in SUBSET {"fulfilled", "rejected"},
           NEW original \in Settlement \cup {Pending}, NEW result \in Promise,
           state[p] # Unborn, Attach(p, kind, handlers, original, result)
    PROVE  AttachEffect(p, NewReaction(p, kind, handlers, original, result))
<1> DEFINE rx == NewReaction(p, kind, handlers, original, result)
<1>1. rx \in Reaction /\ rx.source = p /\ rx.no = attached + 1
  BY BoundsAssumption DEF NewReaction, Reaction, TypeInv
<1>2. attached' = attached + 1 /\ attached' \in 0 .. MaxReactions
  BY BoundsAssumption DEF Attach, TypeInv
<1>3. CASE state[p] = Pending
  <2>1. /\ reactions' = [reactions EXCEPT ![p] = Append(@, rx)] /\ queue' = queue
        /\ reactions[p] \in Seq(Reaction) /\ reactions \in [Promise -> Seq(Reaction)]
    BY <1>3 DEF Attach, NewReaction, TypeInv
  <2> HIDE DEF rx
  <2>2. /\ Append(reactions[p], rx) \in Seq(Reaction)
        /\ Len(Append(reactions[p], rx)) = Len(reactions[p]) + 1
        /\ \A i \in 1 .. Len(reactions[p]) : Append(reactions[p], rx)[i] = reactions[p][i]
        /\ Append(reactions[p], rx)[Len(reactions[p]) + 1] = rx
    BY <1>1, <2>1, AppendProperties
  <2>3. reactions'[p] = Append(reactions[p], rx)
    BY <2>1
  <2>4. AttachEffect(p, rx)
    BY <1>1, <1>2, <1>3, <2>1, <2>2, <2>3 DEF TypeInv, AttachEffect
  <2> QED
    BY <2>4 DEF rx
<1>4. CASE state[p] # Pending
  <2>1. state[p] \in Settlement
    BY <1>4 DEF TypeInv, State
  <2> DEFINE task == [state |-> state[p], reaction |-> rx]
  <2>2. /\ queue' = Append(queue, task) /\ reactions' = reactions
        /\ queue \in Seq(TaskSet)
    BY <1>4 DEF Attach, Task, NewReaction, TypeInv
  <2>3. task \in TaskSet
    BY <1>1, <2>1 DEF TaskSet
  <2> HIDE DEF task, rx
  <2>4. /\ queue' \in Seq(TaskSet) /\ Len(queue') = Len(queue) + 1
        /\ \A i \in 1 .. Len(queue) : queue'[i] = queue[i]
        /\ queue'[Len(queue) + 1] = task
    BY <2>2, <2>3, AppendProperties
  <2>5. AttachEffect(p, rx)
    BY <1>1, <1>2, <2>1, <2>2, <2>4 DEF TypeInv, task, AttachEffect
  <2> QED
    BY <2>5 DEF rx
<1> QED
  BY <1>3, <1>4

\* What settle_promise does to a pending promise.
SettleEffect(tasks, p, s) ==
    /\ state' = [state EXCEPT ![p] = s] /\ state' \in [Promise -> State]
    /\ reactions' = [reactions EXCEPT ![p] = <<>>]
    /\ reactions' \in [Promise -> Seq(Reaction)]
    /\ queue' \in Seq(TaskSet) /\ Len(queue') = Len(tasks) + Len(reactions[p])
    /\ \A i \in 1 .. Len(tasks) : queue'[i] = tasks[i]
    /\ \A i \in 1 .. Len(reactions[p]) :
          /\ queue'[Len(tasks) + i].state = s
          /\ queue'[Len(tasks) + i].reaction = reactions[p][i]

\* settle_promise has that effect on a pending promise.
LEMMA SettleLemma ==
    ASSUME TypeInv, NEW tasks \in Seq(TaskSet), NEW p \in Promise,
           NEW s \in Settlement, state[p] = Pending, Settle(tasks, p, s)
    PROVE  SettleEffect(tasks, p, s)
<1>1. /\ state' = [state EXCEPT ![p] = s]
      /\ reactions' = [reactions EXCEPT ![p] = <<>>]
      /\ queue' = tasks \o Triggered(p, s)
  BY DEF Settle
<1>2. state' \in [Promise -> State] /\ reactions' \in [Promise -> Seq(Reaction)]
  BY <1>1 DEF TypeInv, State
<1>3. /\ reactions[p] \in Seq(Reaction) /\ Len(reactions[p]) \in Nat
      /\ DOMAIN reactions[p] = 1 .. Len(reactions[p])
      /\ \A i \in 1 .. Len(reactions[p]) : reactions[p][i] \in Reaction
  BY DEF TypeInv
<1>4. /\ Triggered(p, s) = [i \in 1 .. Len(reactions[p]) |->
                             [state |-> s, reaction |-> reactions[p][i]]]
      /\ \A i \in 1 .. Len(reactions[p]) :
            [state |-> s, reaction |-> reactions[p][i]] \in TaskSet
  BY <1>3 DEF Triggered, Task, TaskSet
<1>5. Triggered(p, s) \in Seq(TaskSet) /\ Len(Triggered(p, s)) = Len(reactions[p])
  BY <1>3, <1>4
<1> HIDE DEF Triggered
<1>6. /\ queue' \in Seq(TaskSet) /\ Len(queue') = Len(tasks) + Len(reactions[p])
      /\ \A i \in 1 .. Len(tasks) + Len(reactions[p]) :
            queue'[i] = IF i <= Len(tasks) THEN tasks[i] ELSE Triggered(p, s)[i - Len(tasks)]
  <2> DEFINE t == Triggered(p, s)
  <2>1. t \in Seq(TaskSet) /\ Len(t) = Len(reactions[p])
    BY <1>5
  <2>2. queue' = tasks \o t
    BY <1>1
  <2> HIDE DEF t
  <2>3. /\ tasks \o t \in Seq(TaskSet) /\ Len(tasks \o t) = Len(tasks) + Len(t)
        /\ \A i \in 1 .. Len(tasks) + Len(t) :
              (tasks \o t)[i] = IF i <= Len(tasks) THEN tasks[i] ELSE t[i - Len(tasks)]
    BY <2>1, ConcatProperties
  <2> QED
    BY <2>1, <2>2, <2>3 DEF t
<1>7. Len(tasks) \in Nat
  OBVIOUS
<1> QED
  BY <1>1, <1>2, <1>3, <1>4, <1>6, <1>7 DEF SettleEffect

\* A frame is pushed.
LEMMA PushEffect ==
    ASSUME TypeInv, NEW f \in Frame, stack' = Append(stack, f)
    PROVE  /\ stack' \in Seq(Frame) /\ Len(stack') = Len(stack) + 1
           /\ Len(stack) \in Nat /\ DOMAIN stack = 1 .. Len(stack)
           /\ DOMAIN stack' = 1 .. Len(stack) + 1
           /\ \A i \in 1 .. Len(stack) : stack'[i] = stack[i]
           /\ stack'[Len(stack) + 1] = f
           /\ Handlers' = IF f.what \in {"then", "finally"}
                          THEN Handlers \cup {Len(stack) + 1} ELSE Handlers
           /\ \A i \in Handlers : stack'[i] = stack[i]
<1>1. /\ stack' \in Seq(Frame) /\ Len(stack') = Len(stack) + 1
      /\ Len(stack) \in Nat /\ DOMAIN stack = 1 .. Len(stack)
      /\ DOMAIN stack' = 1 .. Len(stack) + 1
      /\ \A i \in 1 .. Len(stack) : stack'[i] = stack[i]
      /\ stack'[Len(stack) + 1] = f
  BY DEF TypeInv
<1> QED
  BY <1>1 DEF Handlers

\* The stack without its top frame.
LEMMA BelowEffect ==
    ASSUME TypeInv, stack # <<>>
    PROVE  /\ Len(stack) \in Nat \ {0} /\ DOMAIN stack = 1 .. Len(stack)
           /\ Below \in Seq(Frame) /\ Len(Below) = Len(stack) - 1
           /\ \A i \in 1 .. Len(stack) - 1 : Below[i] = stack[i]
           /\ Top \in Frame /\ Top = stack[Len(stack)]
<1>1. /\ stack \in Seq(Frame) /\ Len(stack) \in Nat \ {0}
      /\ DOMAIN stack = 1 .. Len(stack)
  BY DEF TypeInv
<1>2. \A i \in 1 .. Len(stack) - 1 : stack[i] \in Frame
  BY <1>1
<1>3. Below \in Seq(Frame)
  BY <1>1, <1>2, SubSeqProperties DEF Below
<1>4. Len(Below) = Len(stack) - 1 /\ \A i \in 1 .. Len(stack) - 1 : Below[i] = stack[i]
  BY <1>1 DEF Below
<1> QED
  BY <1>1, <1>3, <1>4 DEF Top

\* The top frame is popped.
LEMMA PopEffect ==
    ASSUME TypeInv, stack # <<>>, stack' = Below
    PROVE  /\ stack' \in Seq(Frame) /\ Len(stack) \in Nat \ {0}
           /\ DOMAIN stack = 1 .. Len(stack)
           /\ DOMAIN stack' = 1 .. Len(stack) - 1 /\ Len(stack') = Len(stack) - 1
           /\ \A i \in 1 .. Len(stack) - 1 : stack'[i] = stack[i]
           /\ Top \in Frame /\ Top = stack[Len(stack)]
           /\ Handlers' = Handlers \ {Len(stack)}
           /\ \A i \in Handlers' : stack'[i] = stack[i]
<1>1. /\ stack' \in Seq(Frame) /\ Len(stack) \in Nat \ {0}
      /\ DOMAIN stack = 1 .. Len(stack)
      /\ Len(stack') = Len(stack) - 1
      /\ \A i \in 1 .. Len(stack) - 1 : stack'[i] = stack[i]
      /\ Top \in Frame /\ Top = stack[Len(stack)]
  BY BelowEffect
<1>2. DOMAIN stack' = 1 .. Len(stack) - 1
  BY <1>1
<1>3. Handlers' = Handlers \ {Len(stack)}
  BY <1>1, <1>2 DEF Handlers
<1>4. \A i \in Handlers' : stack'[i] = stack[i]
  BY <1>1, <1>2 DEF Handlers
<1> QED
  BY <1>1, <1>2, <1>3, <1>4

\* The top frame is replaced.
LEMMA ReplaceEffect ==
    ASSUME TypeInv, stack # <<>>, NEW f \in Frame, stack' = Append(Below, f)
    PROVE  /\ stack' \in Seq(Frame) /\ DOMAIN stack' = 1 .. Len(stack)
           /\ \A i \in 1 .. Len(stack) - 1 : stack'[i] = stack[i]
           /\ stack'[Len(stack)] = f
<1>1. PICK below : below = Below
  OBVIOUS
<1>2. /\ below \in Seq(Frame) /\ Len(below) = Len(stack) - 1
      /\ \A i \in 1 .. Len(stack) - 1 : below[i] = stack[i]
      /\ Len(stack) \in Nat \ {0}
  BY <1>1, BelowEffect
<1>3. /\ Append(below, f) \in Seq(Frame) /\ Len(Append(below, f)) = Len(stack)
      /\ \A i \in 1 .. Len(stack) - 1 : Append(below, f)[i] = stack[i]
      /\ Append(below, f)[Len(stack)] = f
  BY <1>2
<1> QED
  BY <1>1, <1>2, <1>3

-----------------------------------------------------------------------------
\* A pair is registered when its reaction is there.
LEMMA RegisteredPairs ==
    ASSUME NEW x, NEW q \in Promise, NEW i \in 1 .. MaxReactions
    PROVE  /\ <<q, i>> \in Registered(x) <=>
                 i \in DOMAIN reactions[q] /\ reactions[q][i].result = x
           /\ <<q, i>> \in Registered(x)' <=>
                 i \in DOMAIN reactions'[q] /\ reactions'[q][i].result = x
<1>1. <<q, i>> \in Promise \X (1 .. MaxReactions) /\ <<q, i>>[1] = q /\ <<q, i>>[2] = i
  OBVIOUS
<1>2. <<q, i>> \in Registered(x) <=>
         i \in DOMAIN reactions[q] /\ reactions[q][i].result = x
  BY <1>1 DEF Registered
<1>3. <<q, i>> \in Registered(x)' <=>
         i \in DOMAIN reactions'[q] /\ reactions'[q][i].result = x
  BY <1>1 DEF Registered
<1> QED
  BY <1>2, <1>3

\* What it is to be an entry, before and after a step.
LEMMA EntriesAre ==
    ASSUME NEW rx
    PROVE  /\ rx \in Entries <=>
                 \/ \E i \in DOMAIN queue : rx = queue[i].reaction
                 \/ \E q \in Promise : \E i \in DOMAIN reactions[q] : rx = reactions[q][i]
           /\ rx \in Entries' <=>
                 \/ \E i \in DOMAIN queue' : rx = queue'[i].reaction
                 \/ \E q \in Promise : \E i \in DOMAIN reactions'[q] : rx = reactions'[q][i]
  BY DEF Entries

\* The types of what the queue and the promises hold.
LEMMA Elements ==
    ASSUME TypeInv
    PROVE  /\ Len(queue) \in Nat /\ DOMAIN queue = 1 .. Len(queue)
           /\ \A i \in DOMAIN queue :
                 queue[i].state \in Settlement /\ queue[i].reaction \in Reaction
           /\ \A q \in Promise : /\ Len(reactions[q]) \in Nat
                                 /\ DOMAIN reactions[q] = 1 .. Len(reactions[q])
           /\ \A q \in Promise : \A i \in DOMAIN reactions[q] : reactions[q][i] \in Reaction
           /\ \A rx \in Reaction : rx.no \in Nat /\ rx.source \in Promise
                                   /\ rx.result \in Promise
<1>1. queue \in Seq(TaskSet) /\ reactions \in [Promise -> Seq(Reaction)]
  BY DEF TypeInv
<1>2. \A t \in TaskSet : t.state \in Settlement /\ t.reaction \in Reaction
  BY DEF TaskSet
<1>3. \A rx \in Reaction : rx.no \in Nat /\ rx.source \in Promise /\ rx.result \in Promise
  BY DEF Reaction
<1>4. \A q \in Promise : reactions[q] \in Seq(Reaction)
  BY <1>1
<1> QED
  BY ONLY <1>1, <1>2, <1>3, <1>4

\* Promises that exist, and those that adopted and finallyOf name.
LEMMA Exist ==
    ASSUME TypeInv
    PROVE  /\ created \in Nat /\ created <= MaxPromises /\ MaxPromises \in Nat
           /\ 1 .. created \subseteq Promise
           /\ \A q \in Promise : /\ adopted[q] \in 0 .. created
                                 /\ finallyOf[q] \in 0 .. created
                                 /\ finallyOf[q] = 0 \/ finallyOf[q] \in Promise
<1>1. created \in Nat /\ created <= MaxPromises /\ MaxPromises \in Nat
  BY BoundsAssumption DEF TypeInv
<1>2. 1 .. created \subseteq Promise
  BY <1>1 DEF Promise
<1>3. \A q \in Promise : adopted[q] \in 0 .. created /\ finallyOf[q] \in 0 .. created
  BY DEF TypeInv
<1>4. \A q \in Promise : finallyOf[q] = 0 \/ finallyOf[q] \in 1 .. created
  BY <1>1, <1>3
<1> QED
  BY ONLY <1>1, <1>2, <1>3, <1>4

\* Entries are reactions.
LEMMA EntryTypes == ASSUME TypeInv, NEW rx \in Entries PROVE rx \in Reaction
  BY Elements, EntriesAre

\* No entry settles a promise that is not in line.
LEMMA NotInLineMeans ==
    ASSUME TypeInv, Numbered, NEW p, NotInLine(p), NEW rx \in Entries
    PROVE  rx.result # p
<1>1. ASSUME NEW i \in DOMAIN queue PROVE queue[i].reaction.result # p
  BY DEF NotInLine, Queued
<1>2. ASSUME NEW q \in Promise, NEW i \in DOMAIN reactions[q]
      PROVE  reactions[q][i].result # p
  <2>1. i \in 1 .. MaxReactions
    BY <1>2, BoundsAssumption DEF TypeInv, Numbered
  <2> QED
    BY <2>1, RegisteredPairs DEF NotInLine
<1> QED
  BY <1>1, <1>2, EntriesAre

-----------------------------------------------------------------------------
\* Attaching a reaction puts its result in line; nobody else is moved.
LEMMA AttachEntries ==
    ASSUME TypeInv, Numbered, NEW p \in Promise, NEW rx, AttachEffect(p, rx),
           NEW x \in Promise
    PROVE  /\ x # rx.result => Registered(x)' = Registered(x) /\ Queued(x)' = Queued(x)
           /\ x = rx.result /\ NotInLine(x) => InLine(x)'
<1>0. attached' = attached + 1 /\ attached' \in 0 .. MaxReactions
  BY DEF AttachEffect
<1>1. CASE state[p] = Pending
  <2>1. /\ queue' = queue /\ reactions' \in [Promise -> Seq(Reaction)]
        /\ reactions \in [Promise -> Seq(Reaction)]
        /\ \A q \in Promise \ {p} : reactions'[q] = reactions[q]
        /\ Len(reactions'[p]) = Len(reactions[p]) + 1
        /\ \A i \in 1 .. Len(reactions[p]) : reactions'[p][i] = reactions[p][i]
        /\ reactions'[p][Len(reactions[p]) + 1] = rx
    BY <1>1, Settlements DEF AttachEffect, TypeInv
  <2>2. Len(reactions[p]) + 1 \in 1 .. MaxReactions
    BY <1>0, <2>1, BoundsAssumption DEF Numbered, TypeInv
  <2>3. /\ DOMAIN reactions[p] = 1 .. Len(reactions[p])
        /\ DOMAIN reactions'[p] = 1 .. Len(reactions[p]) + 1
    BY <2>1, <2>2
  <2>4. Queued(x)' = Queued(x)
    BY <2>1 DEF Queued
  <2> DEFINE last == <<p, Len(reactions[p]) + 1>>
             new == IF x = rx.result THEN {last} ELSE {}
  <2>5. ASSUME NEW q \in Promise, NEW i \in 1 .. MaxReactions
        PROVE  <<q, i>> \in Registered(x)' <=> <<q, i>> \in Registered(x) \cup new
    <3>1. /\ <<q, i>> \in Registered(x) <=>
                i \in DOMAIN reactions[q] /\ reactions[q][i].result = x
          /\ <<q, i>> \in Registered(x)' <=>
                i \in DOMAIN reactions'[q] /\ reactions'[q][i].result = x
      BY RegisteredPairs
    <3>2. CASE q = p
      BY <2>1, <2>2, <2>3, <3>1, <3>2
    <3>3. CASE q # p
      BY <2>1, <3>1, <3>3
    <3> QED
      BY <3>2, <3>3
  <2>6. \A r \in Registered(x)' \cup Registered(x) \cup new :
           \E q \in Promise, i \in 1 .. MaxReactions : r = <<q, i>>
    BY <2>2 DEF Registered
  <2>7. Registered(x)' = Registered(x) \cup new
    BY <2>5, <2>6
  <2> QED
    BY <2>4, <2>7 DEF InLine, NotInLine
<1>2. CASE state[p] # Pending
  <2>1. /\ reactions' = reactions /\ queue \in Seq(TaskSet) /\ queue' \in Seq(TaskSet)
        /\ Len(queue') = Len(queue) + 1
        /\ \A i \in 1 .. Len(queue) : queue'[i] = queue[i]
        /\ queue'[Len(queue) + 1].reaction = rx
    BY <1>2 DEF AttachEffect, TypeInv
  <2>2. /\ Len(queue) \in Nat /\ DOMAIN queue = 1 .. Len(queue)
        /\ DOMAIN queue' = 1 .. Len(queue) + 1
    BY <2>1
  <2>3. Registered(x)' = Registered(x)
    BY <2>1 DEF Registered
  <2>4. Queued(x)' = Queued(x) \cup IF x = rx.result THEN {Len(queue) + 1} ELSE {}
    BY <2>1, <2>2 DEF Queued
  <2> QED
    BY <2>3, <2>4 DEF InLine, NotInLine
<1> QED
  BY <1>1, <1>2

\* S stands for the tasks that will settle x, where some may have been taken off.
TasksFor(tasks, x) == {i \in 1 .. Len(tasks) : tasks[i].reaction.result = x}
StaysInLine(x, S) ==
    /\ S = {} /\ Registered(x) = {} => NotInLine(x)'
    /\ (\E i : S = {i}) /\ Registered(x) = {} => InLine(x)'
    /\ S = {} /\ (\E r : Registered(x) = {r}) => InLine(x)'

\* Settling moves the entries of the promise from its reactions to the queue.
\* What is in line stays in line, except for the task that was taken off.
LEMMA SettleEntries ==
    ASSUME TypeInv, Numbered, NEW tasks \in Seq(TaskSet), NEW p \in Promise,
           NEW s, SettleEffect(tasks, p, s), NEW x \in Promise,
           NEW S, S = TasksFor(tasks, x)
    PROVE  StaysInLine(x, S)
<1>1. /\ reactions' = [reactions EXCEPT ![p] = <<>>]
      /\ queue' \in Seq(TaskSet) /\ Len(queue') = Len(tasks) + Len(reactions[p])
      /\ \A i \in 1 .. Len(tasks) : queue'[i] = tasks[i]
      /\ \A i \in 1 .. Len(reactions[p]) :
            queue'[Len(tasks) + i].reaction = reactions[p][i]
  BY DEF SettleEffect
<1>2. /\ reactions \in [Promise -> Seq(Reaction)] /\ Len(tasks) \in Nat
      /\ Len(reactions[p]) \in Nat /\ Len(reactions[p]) <= MaxReactions
      /\ DOMAIN reactions[p] = 1 .. Len(reactions[p])
      /\ DOMAIN queue' = 1 .. Len(tasks) + Len(reactions[p])
      /\ reactions'[p] = <<>> /\ \A q \in Promise \ {p} : reactions'[q] = reactions[q]
  BY <1>1, BoundsAssumption DEF TypeInv, Numbered
<1>3. \A r : r \in Registered(x)' <=> r \in Registered(x) /\ r[1] # p
  BY <1>2 DEF Registered
<1>4. \A i : i \in 1 .. Len(tasks) => (i \in Queued(x)' <=> i \in S)
  BY <1>1, <1>2 DEF Queued, TasksFor
<1>5. \A i \in 1 .. Len(reactions[p]) :
         Len(tasks) + i \in Queued(x)' <=> <<p, i>> \in Registered(x)
  <2> SUFFICES ASSUME NEW i \in 1 .. Len(reactions[p])
               PROVE  Len(tasks) + i \in Queued(x)' <=> <<p, i>> \in Registered(x)
    OBVIOUS
  <2>1. Len(tasks) + i \in Queued(x)' <=> reactions[p][i].result = x
    BY <1>1, <1>2 DEF Queued
  <2>2. <<p, i>> \in Registered(x) <=> reactions[p][i].result = x
    BY <1>2, BoundsAssumption DEF Registered
  <2> QED
    BY <2>1, <2>2
<1>6. \A i \in Queued(x)' : \/ i \in 1 .. Len(tasks)
                            \/ \E j \in 1 .. Len(reactions[p]) : i = Len(tasks) + j
  <2> SUFFICES ASSUME NEW i \in 1 .. Len(tasks) + Len(reactions[p]), i > Len(tasks)
               PROVE  \E j \in 1 .. Len(reactions[p]) : i = Len(tasks) + j
    BY <1>2 DEF Queued
  <2>1. i - Len(tasks) \in 1 .. Len(reactions[p]) /\ i = Len(tasks) + (i - Len(tasks))
    BY <1>2
  <2> QED
    BY <2>1
<1>7. Registered(x) = {} => Registered(x)' = {} /\ Queued(x)' = S
  <2> SUFFICES ASSUME Registered(x) = {} PROVE Registered(x)' = {} /\ Queued(x)' = S
    OBVIOUS
  <2>1. \A i : i \in Queued(x)' <=> i \in S
    BY <1>4, <1>5, <1>6 DEF TasksFor
  <2> QED
    BY <1>3, <2>1
<1>8. ASSUME S = {}, NEW r, Registered(x) = {r}
      PROVE  InLine(x)'
  <2>1. /\ r \in Promise \X (1 .. MaxReactions) /\ r[2] \in DOMAIN reactions[r[1]]
        /\ r = <<r[1], r[2]>>
    BY <1>8 DEF Registered
  <2>2. CASE r[1] = p
    <3>1. Registered(x)' = {}
      BY <1>3, <1>8, <2>2
    <3>2. PICK k \in 1 .. Len(reactions[p]) : r = <<p, k>>
      BY <1>2, <2>1, <2>2
    <3>3. \A i : i \in Queued(x)' <=> i = Len(tasks) + k
      <4>1. Len(tasks) + k \in Queued(x)'
        BY <1>5, <1>8, <3>2
      <4>2. ASSUME NEW i \in Queued(x)' PROVE i = Len(tasks) + k
        <5>1. PICK j \in 1 .. Len(reactions[p]) : i = Len(tasks) + j
          BY <1>4, <1>6, <1>8, <4>2
        <5>2. <<p, j>> = <<p, k>>
          BY <1>5, <1>8, <3>2, <4>2, <5>1
        <5> QED
          BY <5>1, <5>2
      <4> QED
        BY <4>1, <4>2
    <3>4. Queued(x)' = {Len(tasks) + k}
      BY <3>3
    <3>5. \E i : Queued(x)' = {i}
      BY <3>4
    <3> QED
      BY <3>1, <3>5 DEF InLine
  <2>3. CASE r[1] # p
    <3>1. Registered(x)' = {r}
      BY <1>3, <1>8, <2>3
    <3>2. \A i \in 1 .. Len(reactions[p]) : <<p, i>> \notin Registered(x)
      BY <1>8, <2>1, <2>3
    <3>3. Queued(x)' = {}
      BY <1>4, <1>5, <1>6, <1>8, <3>2
    <3>4. \E y : Registered(x)' = {y}
      BY <3>1
    <3> QED
      BY <3>3, <3>4 DEF InLine
  <2> QED
    BY <2>2, <2>3
<1>9. (\E i : S = {i}) /\ Registered(x) = {} => InLine(x)'
  BY <1>7 DEF InLine
<1>10. S = {} /\ Registered(x) = {} => NotInLine(x)'
  BY <1>7 DEF NotInLine
<1> QED
  BY <1>8, <1>9, <1>10 DEF StaysInLine

\* Attaching keeps reactions with their promises, tasks with their settlements.
LEMMA AttachKeeps ==
    ASSUME TypeInv, Born, Waiting, Numbered, NEW p \in 1 .. created, NEW rx,
           AttachEffect(p, rx), UNCHANGED lastRun,
           \A q \in 1 .. created : state'[q] = state[q]
    PROVE  Waiting' /\ Numbered' /\ Entries' \subseteq Entries \cup {rx}
<1>0. /\ p \in Promise /\ attached' = attached + 1 /\ attached \in Nat
      /\ rx.source = p /\ rx.no = attached + 1 /\ created \in Nat
      /\ lastRun \in [Promise -> Nat] /\ lastRun' = lastRun
      /\ \A q \in Promise : lastRun[q] <= attached
  <2>1. /\ attached \in Nat /\ created \in Nat /\ 1 .. created \subseteq Promise
        /\ lastRun \in [Promise -> 0 .. attached]
    BY BoundsAssumption DEF TypeInv, Promise
  <2> QED
    BY <2>1 DEF AttachEffect
<1>e. /\ \A q \in Promise : Len(reactions[q]) \in Nat
                            /\ DOMAIN reactions[q] = 1 .. Len(reactions[q])
      /\ Len(queue) \in Nat /\ DOMAIN queue = 1 .. Len(queue)
  BY Elements
<1>1. ASSUME NEW q \in Promise, state'[q] # Pending PROVE state[q] # Pending
  <2>1. CASE q \in 1 .. created
    BY <1>1, <2>1
  <2>2. CASE q > created
    BY <2>2, Settlements DEF Born
  <2> QED
    BY <1>0, <2>1, <2>2 DEF Promise
<1>2. ASSUME NEW i \in DOMAIN queue
      PROVE  /\ queue[i].reaction.source \in 1 .. created
             /\ queue[i].reaction.source \in Promise
             /\ queue[i].state \in Settlement
             /\ queue[i].reaction.no \in Nat
             /\ queue[i].state = state[queue[i].reaction.source]
  <2>1. /\ queue[i].state \in Settlement /\ queue[i].reaction \in Reaction
        /\ queue[i].reaction.source \in Promise /\ queue[i].reaction.no \in Nat
    BY <1>2, Elements
  <2>2. queue[i].state = state[queue[i].reaction.source]
    BY <1>2 DEF Waiting
  <2>3. queue[i].reaction.source \in 1 .. created
    BY <1>0, <2>1, <2>2, Settlements DEF Born, Promise
  <2> QED
    BY <2>1, <2>2, <2>3
<1>3. \A q \in Promise : \A i \in DOMAIN reactions[q] : reactions[q][i].no \in Nat
  BY Elements
<1>w. /\ \A q \in Promise : state[q] # Pending => reactions[q] = <<>>
      /\ \A q \in Promise : \A i \in DOMAIN reactions[q] : reactions[q][i].source = q
  BY DEF Waiting
<1>n. /\ \A q \in Promise : Len(reactions[q]) <= attached
      /\ \A q \in Promise : \A i \in DOMAIN reactions[q] :
            /\ lastRun[q] < reactions[q][i].no /\ reactions[q][i].no <= attached
            /\ \A j \in DOMAIN reactions[q] :
                  i < j => reactions[q][i].no < reactions[q][j].no
      /\ \A i \in DOMAIN queue :
            /\ lastRun[queue[i].reaction.source] < queue[i].reaction.no
            /\ queue[i].reaction.no <= attached
            /\ \A j \in DOMAIN queue :
                  /\ i < j
                  /\ queue[i].reaction.source = queue[j].reaction.source
                  => queue[i].reaction.no < queue[j].reaction.no
  BY DEF Numbered
<1>4. CASE state[p] = Pending
  <2>1. /\ queue' = queue
        /\ \A q \in Promise \ {p} : reactions'[q] = reactions[q]
        /\ DOMAIN reactions'[p] = 1 .. Len(reactions[p]) + 1
        /\ Len(reactions'[p]) = Len(reactions[p]) + 1
        /\ \A i \in 1 .. Len(reactions[p]) : reactions'[p][i] = reactions[p][i]
        /\ reactions'[p][Len(reactions[p]) + 1] = rx
    <3>1. reactions'[p] \in Seq(Reaction)
      BY <1>0 DEF AttachEffect
    <3> QED
      BY <1>0, <1>e, <1>4, <3>1, Settlements DEF AttachEffect
  <2>o. ASSUME NEW i \in DOMAIN reactions'[p]
        PROVE  \/ i \in DOMAIN reactions[p] /\ reactions'[p][i] = reactions[p][i]
               \/ i = Len(reactions[p]) + 1 /\ reactions'[p][i] = rx
    <3>1. Len(reactions[p]) \in Nat /\ DOMAIN reactions[p] = 1 .. Len(reactions[p])
      BY <1>0, <1>e
    <3>2. i \in 1 .. Len(reactions[p]) + 1
      BY <2>1, <2>o
    <3>3. CASE i \in 1 .. Len(reactions[p])
      BY <2>1, <3>1, <3>3
    <3>4. CASE i = Len(reactions[p]) + 1
      BY <2>1, <3>4
    <3> QED
      BY ONLY <3>1, <3>2, <3>3, <3>4
  <2>2. Waiting'
    <3>1. ASSUME NEW q \in Promise, state'[q] # Pending PROVE reactions'[q] = <<>>
      BY <1>1, <1>4, <1>w, <2>1, <3>1
    <3>2. ASSUME NEW q \in Promise, NEW i \in DOMAIN reactions'[q]
          PROVE  reactions'[q][i].source = q
      <4>1. CASE q # p
        BY <1>w, <2>1, <3>2, <4>1
      <4>2. CASE q = p
        BY <1>0, <1>w, <2>o, <3>2, <4>2
      <4> QED
        BY <4>1, <4>2
    <3> QED
      BY <1>2, <2>1, <3>1, <3>2 DEF Waiting
  <2>3. Numbered'
    <3>1. \A i \in DOMAIN queue' : queue'[i] = queue[i] /\ i \in DOMAIN queue
      BY <2>1
    <3>2. ASSUME NEW q \in Promise PROVE Len(reactions'[q]) <= attached + 1
      <4>1. /\ Len(reactions[q]) \in Nat /\ Len(reactions[q]) <= attached
            /\ attached \in Nat
        BY <1>0, <1>e, <1>n
      <4>2. CASE q # p
        <5>1. reactions'[q] = reactions[q]
          BY <2>1, <4>2
        <5> QED
          BY ONLY <4>1, <5>1
      <4>3. CASE q = p
        <5>1. Len(reactions'[p]) = Len(reactions[p]) + 1
          BY <2>1
        <5> QED
          BY ONLY <4>1, <4>3, <5>1
      <4> QED
        BY <4>2, <4>3
    <3>3. ASSUME NEW q \in Promise, NEW i \in DOMAIN reactions'[q]
          PROVE  /\ lastRun[q] < reactions'[q][i].no /\ reactions'[q][i].no <= attached + 1
                 /\ \A j \in DOMAIN reactions'[q] :
                       i < j => reactions'[q][i].no < reactions'[q][j].no
      <4>1. CASE q # p
        <5>1. reactions'[q] = reactions[q] /\ i \in DOMAIN reactions[q]
          BY <2>1, <3>3, <4>1
        <5>2. /\ lastRun[q] < reactions[q][i].no /\ reactions[q][i].no <= attached
              /\ \A j \in DOMAIN reactions[q] :
                    i < j => reactions[q][i].no < reactions[q][j].no
          BY <1>n, <5>1
        <5>3. reactions[q][i].no \in Nat /\ attached \in Nat
          BY <1>0, <1>3, <5>1
        <5>4. reactions[q][i].no <= attached + 1
          BY ONLY <5>2, <5>3
        <5> QED
          BY ONLY <5>1, <5>2, <5>4
      <4>2. CASE q = p
        <5>1. CASE i \in DOMAIN reactions[p] /\ reactions'[p][i] = reactions[p][i]
          <6>1. lastRun[q] < reactions'[q][i].no /\ reactions'[q][i].no <= attached
            BY <1>0, <1>n, <4>2, <5>1
          <6>2. ASSUME NEW j \in DOMAIN reactions'[p], i < j
                PROVE  reactions'[p][i].no < reactions'[p][j].no
            BY <1>0, <1>n, <1>3, <2>o, <5>1, <6>1, <6>2
          <6> QED
            BY <1>0, <1>3, <4>2, <5>1, <6>1, <6>2
        <5>2. CASE i = Len(reactions[p]) + 1 /\ reactions'[p][i] = rx
          BY <1>0, <1>e, <2>1, <4>2, <5>2
        <5> QED
          BY <2>o, <3>3, <4>2, <5>1, <5>2
      <4> QED
        BY <4>1, <4>2
    <3>4. ASSUME NEW i \in DOMAIN queue
          PROVE  /\ lastRun[queue[i].reaction.source] < queue[i].reaction.no
                 /\ queue[i].reaction.no <= attached + 1
      BY <1>0, <1>n, <1>2
    <3> QED
      BY <1>0, <2>1, <3>1, <3>2, <3>3, <3>4 DEF Numbered
  <2>4. ASSUME NEW y \in Entries' PROVE y \in Entries \cup {rx}
    <3>1. CASE \E k \in DOMAIN queue : y = queue[k].reaction
      BY <3>1, EntriesAre
    <3>2. CASE \E q \in Promise : \E k \in DOMAIN reactions'[q] : y = reactions'[q][k]
      <4>1. PICK q \in Promise : \E k \in DOMAIN reactions'[q] : y = reactions'[q][k]
        BY <3>2
      <4>2. CASE q = p
        BY <2>o, <4>1, <4>2, EntriesAre
      <4>3. CASE q # p
        BY <2>1, <4>1, <4>3, EntriesAre
      <4> QED
        BY <4>2, <4>3
    <3> QED
      BY <2>1, <3>1, <3>2, EntriesAre
  <2> QED
    BY <2>2, <2>3, <2>4
<1>5. CASE state[p] # Pending
  <2>1. /\ reactions' = reactions /\ DOMAIN queue' = 1 .. Len(queue) + 1
        /\ \A i \in 1 .. Len(queue) : queue'[i] = queue[i]
        /\ queue'[Len(queue) + 1].state = state[p]
        /\ queue'[Len(queue) + 1].reaction = rx
    <3>1. queue' \in Seq(TaskSet)
      BY <1>0 DEF AttachEffect
    <3> QED
      BY <1>0, <1>e, <1>5, <3>1 DEF AttachEffect
  <2>o. ASSUME NEW i \in DOMAIN queue'
        PROVE  \/ i \in DOMAIN queue /\ queue'[i] = queue[i]
               \/ i = Len(queue) + 1 /\ queue'[i].state = state[p]
                  /\ queue'[i].reaction = rx
    BY <1>0, <1>e, <2>1, <2>o
  <2>2. Waiting'
    <3>1. \A i \in DOMAIN queue' : queue'[i].state = state'[queue'[i].reaction.source]
      BY <1>0, <1>2, <2>o
    <3> QED
      BY <1>0, <1>1, <1>w, <2>1, <3>1 DEF Waiting
  <2>3. Numbered'
    <3>1. ASSUME NEW q \in Promise PROVE Len(reactions'[q]) <= attached + 1
      <4>1. Len(reactions[q]) \in Nat /\ Len(reactions[q]) <= attached
        BY <1>e, <1>n
      <4>2. attached \in Nat /\ reactions' = reactions
        BY <1>0, <2>1
      <4> QED
        BY ONLY <4>1, <4>2
    <3>2. ASSUME NEW q \in Promise, NEW i \in DOMAIN reactions[q]
          PROVE  lastRun[q] < reactions[q][i].no /\ reactions[q][i].no <= attached + 1
      <4>1. lastRun[q] < reactions[q][i].no /\ reactions[q][i].no <= attached
        BY <1>n, <3>2
      <4>2. reactions[q][i].no \in Nat
        BY <1>3, <3>2
      <4> QED
        BY <1>0, <4>1, <4>2
    <3>3. ASSUME NEW i \in DOMAIN queue'
          PROVE  /\ lastRun[queue'[i].reaction.source] < queue'[i].reaction.no
                 /\ queue'[i].reaction.no <= attached + 1
                 /\ \A j \in DOMAIN queue' :
                       /\ i < j
                       /\ queue'[i].reaction.source = queue'[j].reaction.source
                       => queue'[i].reaction.no < queue'[j].reaction.no
      <4>1. CASE i \in DOMAIN queue /\ queue'[i] = queue[i]
        <5>1. /\ lastRun[queue'[i].reaction.source] < queue'[i].reaction.no
              /\ queue'[i].reaction.no <= attached
          BY <1>n, <4>1
        <5>2. ASSUME NEW j \in DOMAIN queue', i < j,
                     queue'[i].reaction.source = queue'[j].reaction.source
              PROVE  queue'[i].reaction.no < queue'[j].reaction.no
          <6>1. CASE j \in DOMAIN queue /\ queue'[j] = queue[j]
            BY <1>n, <4>1, <5>2, <6>1
          <6>2. CASE queue'[j].reaction = rx
            BY <1>0, <1>2, <4>1, <5>1, <6>2
          <6> QED
            BY <2>o, <5>2, <6>1, <6>2
        <5> QED
          BY <1>0, <1>2, <4>1, <5>1, <5>2
      <4>2. CASE i = Len(queue) + 1 /\ queue'[i].reaction = rx
        BY <1>0, <1>e, <2>1, <4>2
      <4> QED
        BY <2>o, <3>3, <4>1, <4>2
    <3> QED
      BY <1>0, <2>1, <3>1, <3>2, <3>3 DEF Numbered
  <2>4. ASSUME NEW y \in Entries' PROVE y \in Entries \cup {rx}
    BY <2>1, <2>o, EntriesAre
  <2> QED
    BY <2>2, <2>3, <2>4
<1> QED
  BY <1>4, <1>5

\* Settling keeps them too, also when it takes the first task off the queue.
LEMMA SettleKeeps ==
    ASSUME TypeInv, Born, Waiting, Numbered, NEW p \in Promise, NEW s,
           NEW tasks \in Seq(TaskSet), state[p] = Pending, SettleEffect(tasks, p, s),
           NEW k \in {0, 1}, Len(queue) = Len(tasks) + k,
           \A i \in 1 .. Len(tasks) : tasks[i] = queue[i + k],
           \A q \in Promise : state[q] = Pending => lastRun'[q] = lastRun[q],
           \A i \in 1 .. Len(tasks) :
              lastRun'[tasks[i].reaction.source] < tasks[i].reaction.no,
           UNCHANGED attached
    PROVE  Waiting' /\ Numbered' /\ Entries' \subseteq Entries
<1>1. /\ state' = [state EXCEPT ![p] = s] /\ state \in [Promise -> State]
      /\ reactions'[p] = <<>> /\ DOMAIN reactions'[p] = {} /\ Len(reactions'[p]) = 0
      /\ \A q \in Promise \ {p} : reactions'[q] = reactions[q]
      /\ Len(tasks) \in Nat /\ attached \in Nat
  BY BoundsAssumption DEF SettleEffect, TypeInv
<1>2. /\ Len(queue) \in Nat /\ DOMAIN queue = 1 .. Len(queue)
      /\ Len(reactions[p]) \in Nat /\ DOMAIN reactions[p] = 1 .. Len(reactions[p])
  BY Elements
<1>3. ASSUME NEW i \in DOMAIN queue'
      PROVE  \/ /\ i \in 1 .. Len(tasks) /\ i + k \in DOMAIN queue
                /\ queue'[i] = queue[i + k] /\ queue'[i] = tasks[i]
             \/ \E j \in DOMAIN reactions[p] :
                   /\ i = Len(tasks) + j /\ queue'[i].state = s
                   /\ queue'[i].reaction = reactions[p][j]
  <2>1. i \in 1 .. Len(tasks) + Len(reactions[p])
    BY <1>3 DEF SettleEffect
  <2>2. CASE i \in 1 .. Len(tasks)
    BY <1>1, <1>2, <2>2 DEF SettleEffect
  <2>3. CASE i \notin 1 .. Len(tasks)
    <3>1. PICK j \in 1 .. Len(reactions[p]) : i = Len(tasks) + j
      <4>1. i - Len(tasks) \in 1 .. Len(reactions[p]) /\ i = Len(tasks) + (i - Len(tasks))
        BY <1>1, <1>2, <2>1, <2>3
      <4> QED
        BY <4>1
    <3> QED
      BY <1>2, <3>1 DEF SettleEffect
  <2> QED
    BY <2>2, <2>3
<1>4. ASSUME NEW i \in DOMAIN queue
      PROVE  /\ queue[i].reaction.source \in Promise \ {p}
             /\ queue[i].reaction.no \in Nat
             /\ queue[i].state = state'[queue[i].reaction.source]
  <2>1. /\ queue[i].state \in Settlement /\ queue[i].reaction.source \in Promise
        /\ queue[i].reaction.no \in Nat
    BY <1>4, Elements
  <2>2. queue[i].state = state[queue[i].reaction.source]
    BY <1>4 DEF Waiting
  <2> QED
    BY <1>1, <2>1, <2>2, Settlements
<1>5. Waiting'
  <2>1. ASSUME NEW q \in Promise, state'[q] # Pending PROVE reactions'[q] = <<>>
    BY <1>1, <2>1 DEF Waiting
  <2>2. ASSUME NEW q \in Promise, NEW i \in DOMAIN reactions'[q]
        PROVE  reactions'[q][i].source = q
    BY <1>1, <2>2 DEF Waiting
  <2>3. ASSUME NEW i \in DOMAIN queue'
        PROVE  queue'[i].state = state'[queue'[i].reaction.source]
    <3>1. \A j \in DOMAIN reactions[p] : reactions[p][j].source = p
      BY DEF Waiting
    <3>2. state'[p] = s
      BY <1>1
    <3> QED
      BY <1>3, <1>4, <2>3, <3>1, <3>2
  <2> QED
    BY <2>1, <2>2, <2>3 DEF Waiting
<1>6. Numbered'
  <2>n. /\ \A q \in Promise : Len(reactions[q]) <= attached
        /\ \A q \in Promise : \A i \in DOMAIN reactions[q] :
              /\ lastRun[q] < reactions[q][i].no /\ reactions[q][i].no <= attached
              /\ \A j \in DOMAIN reactions[q] :
                    i < j => reactions[q][i].no < reactions[q][j].no
        /\ \A i \in DOMAIN queue :
              /\ queue[i].reaction.no <= attached
              /\ \A j \in DOMAIN queue :
                    /\ i < j
                    /\ queue[i].reaction.source = queue[j].reaction.source
                    => queue[i].reaction.no < queue[j].reaction.no
    BY DEF Numbered
  <2>1. \A q \in Promise : Len(reactions'[q]) <= attached
    BY <1>1, <2>n
  <2>2. ASSUME NEW q \in Promise, NEW i \in DOMAIN reactions'[q]
        PROVE  /\ lastRun'[q] < reactions'[q][i].no /\ reactions'[q][i].no <= attached
               /\ \A j \in DOMAIN reactions'[q] :
                     i < j => reactions'[q][i].no < reactions'[q][j].no
    <3>1. q # p /\ reactions'[q] = reactions[q]
      BY <1>1, <2>2
    <3>2. lastRun'[q] = lastRun[q]
      BY <2>2, <3>1 DEF Waiting
    <3> QED
      BY <2>n, <2>2, <3>1, <3>2
  <2>3. \A j \in DOMAIN reactions[p] : reactions[p][j].source = p
    BY DEF Waiting
  <2>4. ASSUME NEW i \in DOMAIN queue'
        PROVE  /\ lastRun'[queue'[i].reaction.source] < queue'[i].reaction.no
               /\ queue'[i].reaction.no <= attached
               /\ \A j \in DOMAIN queue' :
                     /\ i < j
                     /\ queue'[i].reaction.source = queue'[j].reaction.source
                     => queue'[i].reaction.no < queue'[j].reaction.no
    <3>1. CASE /\ i \in 1 .. Len(tasks) /\ i + k \in DOMAIN queue
               /\ queue'[i] = queue[i + k] /\ queue'[i] = tasks[i]
      <4>1. /\ lastRun'[queue'[i].reaction.source] < queue'[i].reaction.no
            /\ queue'[i].reaction.no <= attached
            /\ queue'[i].reaction.source # p
        BY <1>4, <2>n, <3>1
      <4>2. ASSUME NEW j \in DOMAIN queue', i < j,
                   queue'[i].reaction.source = queue'[j].reaction.source
            PROVE  queue'[i].reaction.no < queue'[j].reaction.no
        <5>1. j \in 1 .. Len(tasks) /\ j + k \in DOMAIN queue /\ queue'[j] = queue[j + k]
          BY <1>3, <2>3, <4>1, <4>2
        <5>2. i + k < j + k
          BY <3>1, <4>2, <5>1
        <5>3. queue[i + k].reaction.source = queue[j + k].reaction.source
          BY <3>1, <4>2, <5>1
        <5>4. \A a, b \in DOMAIN queue :
                 a < b /\ queue[a].reaction.source = queue[b].reaction.source
                 => queue[a].reaction.no < queue[b].reaction.no
          BY <2>n
        <5> QED
          BY <3>1, <5>1, <5>2, <5>3, <5>4
      <4> QED
        BY <4>1, <4>2
    <3>2. ASSUME NEW m \in DOMAIN reactions[p], i = Len(tasks) + m,
                 queue'[i].reaction = reactions[p][m]
          PROVE  /\ lastRun'[queue'[i].reaction.source] < queue'[i].reaction.no
                 /\ queue'[i].reaction.no <= attached
                 /\ \A j \in DOMAIN queue' :
                       i < j => queue'[i].reaction.no < queue'[j].reaction.no
      <4>1. /\ lastRun'[queue'[i].reaction.source] < queue'[i].reaction.no
            /\ queue'[i].reaction.no <= attached
        BY <2>n, <2>3, <3>2
      <4>2. ASSUME NEW j \in DOMAIN queue', i < j
            PROVE  queue'[i].reaction.no < queue'[j].reaction.no
        <5>1. m \in Nat /\ ~(j \in 1 .. Len(tasks))
          BY <1>1, <1>2, <3>2, <4>2
        <5>2. PICK n \in DOMAIN reactions[p] :
                 j = Len(tasks) + n /\ queue'[j].reaction = reactions[p][n]
          BY <1>3, <4>2, <5>1
        <5>3. m < n
          BY <1>1, <1>2, <3>2, <4>2, <5>2
        <5> QED
          BY <2>n, <3>2, <5>2, <5>3
      <4> QED
        BY <4>1, <4>2
    <3> QED
      BY <1>3, <2>4, <3>1, <3>2
  <2> QED
    BY <2>1, <2>2, <2>4 DEF Numbered
<1>7. ASSUME NEW y \in Entries' PROVE y \in Entries
  <2>1. CASE \E i \in DOMAIN queue' : y = queue'[i].reaction
    BY <1>3, <2>1, EntriesAre
  <2>2. CASE \E q \in Promise : \E i \in DOMAIN reactions'[q] : y = reactions'[q][i]
    BY <1>1, <2>2, EntriesAre
  <2> QED
    BY <2>1, <2>2, EntriesAre
<1> QED
  BY <1>5, <1>6, <1>7

\* Taking tasks off the queue, when nothing is settled.
LEMMA TakeEntries ==
    ASSUME UNCHANGED reactions, NEW x, NEW tasks \in Seq(TaskSet), queue' = tasks,
           NEW S, S = TasksFor(tasks, x)
    PROVE  StaysInLine(x, S)
<1>1. Registered(x)' = Registered(x) /\ Queued(x)' = S
  BY DEF Registered, Queued, TasksFor
<1> QED
  BY <1>1 DEF StaysInLine, InLine, NotInLine

\* Taking tasks off keeps reactions and tasks where they belong.
LEMMA TakeKeeps ==
    ASSUME TypeInv, Born, Waiting, Numbered, UNCHANGED <<state, reactions, attached>>,
           NEW tasks \in Seq(TaskSet), queue' = tasks,
           NEW k \in {0, 1}, Len(queue) = Len(tasks) + k,
           \A i \in 1 .. Len(tasks) : tasks[i] = queue[i + k],
           \A q \in Promise : state[q] = Pending => lastRun'[q] = lastRun[q],
           \A i \in 1 .. Len(tasks) :
              lastRun'[tasks[i].reaction.source] < tasks[i].reaction.no
    PROVE  Waiting' /\ Numbered' /\ Entries' \subseteq Entries
<1>1. /\ Len(queue) \in Nat /\ DOMAIN queue = 1 .. Len(queue)
      /\ DOMAIN tasks = 1 .. Len(tasks) /\ Len(tasks) \in Nat
  BY Elements
<1>2. ASSUME NEW i \in DOMAIN tasks
      PROVE  i + k \in DOMAIN queue /\ tasks[i] = queue[i + k]
  <2>1. i \in 1 .. Len(tasks)
    BY <1>1, <1>2
  <2>2. i + k \in 1 .. Len(tasks) + k
    BY <1>1, <2>1
  <2> QED
    BY <1>1, <2>1, <2>2
<1>3. Waiting'
  BY <1>2 DEF Waiting
<1>4. Numbered'
  <2>1. /\ \A q \in Promise : Len(reactions[q]) <= attached
        /\ \A q \in Promise : \A i \in DOMAIN reactions[q] :
              /\ lastRun'[q] < reactions[q][i].no /\ reactions[q][i].no <= attached
              /\ \A j \in DOMAIN reactions[q] :
                    i < j => reactions[q][i].no < reactions[q][j].no
    <3>1. \A q \in Promise : \A i \in DOMAIN reactions[q] : lastRun'[q] = lastRun[q]
      BY DEF Waiting
    <3> QED
      BY <3>1 DEF Numbered
  <2>2. ASSUME NEW i \in DOMAIN tasks
        PROVE  /\ tasks[i].reaction.no <= attached
               /\ \A j \in DOMAIN tasks :
                     /\ i < j /\ tasks[i].reaction.source = tasks[j].reaction.source
                     => tasks[i].reaction.no < tasks[j].reaction.no
    <3>1. tasks[i].reaction.no <= attached
      BY <1>2 DEF Numbered
    <3>2. ASSUME NEW j \in DOMAIN tasks, i < j,
                 tasks[i].reaction.source = tasks[j].reaction.source
          PROVE  tasks[i].reaction.no < tasks[j].reaction.no
      <4>1. i + k < j + k
        BY <1>1, <3>2
      <4>2. \A a, b \in DOMAIN queue :
               a < b /\ queue[a].reaction.source = queue[b].reaction.source
               => queue[a].reaction.no < queue[b].reaction.no
        BY DEF Numbered
      <4> QED
        BY <1>2, <3>2, <4>1, <4>2
    <3> QED
      BY <3>1, <3>2
  <2> QED
    BY <1>1, <2>1, <2>2 DEF Numbered
<1>5. ASSUME NEW y \in Entries' PROVE y \in Entries
  <2>1. CASE \E i \in DOMAIN tasks : y = tasks[i].reaction
    BY <1>2, <2>1, EntriesAre
  <2>2. CASE \E q \in Promise : \E i \in DOMAIN reactions[q] : y = reactions[q][i]
    BY <2>2, EntriesAre
  <2> QED
    BY <2>1, <2>2, EntriesAre
<1> QED
  BY <1>3, <1>4, <1>5

\* The tasks for x once the first task is taken off.
LEMMA TailEntries ==
    ASSUME TypeInv, NEW tasks \in Seq(TaskSet), Len(queue) = Len(tasks) + 1,
           \A i \in 1 .. Len(tasks) : tasks[i] = queue[i + 1],
           NEW x
    PROVE  /\ Queued(x) = {} => TasksFor(tasks, x) = {} /\ queue[1].reaction.result # x
           /\ InLine(x) /\ queue[1].reaction.result = x => TasksFor(tasks, x) = {}
                                                         /\ Registered(x) = {}
           /\ (\E i : Queued(x) = {i}) /\ queue[1].reaction.result # x
              => \E i : TasksFor(tasks, x) = {i}
<1> DEFINE S == TasksFor(tasks, x)
<1>1. Len(tasks) \in Nat /\ DOMAIN queue = 1 .. Len(tasks) + 1
  BY Elements
<1>2. \A i \in S : i + 1 \in Queued(x)
  BY <1>1 DEF Queued, TasksFor
<1>3. \A i \in Queued(x) : i = 1 \/ (i - 1 \in S /\ i # 1)
  BY <1>1 DEF Queued, TasksFor
<1>4. 1 \in Queued(x) <=> queue[1].reaction.result = x
  BY <1>1 DEF Queued
<1>5. S \subseteq Nat /\ Queued(x) \subseteq Nat
  BY <1>1 DEF Queued, TasksFor
<1> HIDE DEF S
<1>6. ASSUME NEW i, Queued(x) = {i}
      PROVE  IF queue[1].reaction.result = x THEN S = {} ELSE \E j : S = {j}
  <2>1. CASE queue[1].reaction.result = x
    <3>1. i = 1
      BY <1>4, <1>6, <2>1
    <3>2. \A j \in S : j + 1 = 1 /\ j \in 1 .. Len(tasks)
      BY <1>2, <1>6, <3>1 DEF S, TasksFor
    <3> QED
      BY <1>1, <2>1, <3>2
  <2>2. CASE queue[1].reaction.result # x
    <3>1. i - 1 \in S /\ i \in Nat
      BY <1>3, <1>4, <1>5, <1>6, <2>2
    <3>2. \A j \in S : j + 1 = i /\ j \in Nat
      BY <1>2, <1>5, <1>6
    <3>3. \A j \in S : j = i - 1
      BY <3>1, <3>2
    <3>4. S = {i - 1}
      BY <3>1, <3>3
    <3> QED
      BY <2>2, <3>4
  <2> QED
    BY <2>1, <2>2
<1>7. Queued(x) = {} => S = {} /\ queue[1].reaction.result # x
  BY <1>2, <1>4
<1>8. InLine(x) /\ queue[1].reaction.result = x =>
         Registered(x) = {} /\ \E i : Queued(x) = {i}
  BY <1>4 DEF InLine
<1> QED
  BY <1>6, <1>7, <1>8 DEF S

\* What a step keeps of a promise x that exists.
Keeps(x) ==
    /\ x \in 1 .. created /\ created <= created' /\ created' \in Nat
    /\ x \notin resolvable => x \notin resolvable'
    /\ adopted'[x] = adopted[x] /\ finallyOf'[x] = finallyOf[x]
    /\ \A q \in Promise : state[q] \in Settlement => state'[q] = state[q]

\* A reaction still fits the promise it settles.
LEMMA ReactionKept ==
    ASSUME TypeInv, NEW rx \in Reaction, ReactionFits(rx), Keeps(rx.result)
    PROVE  ReactionFits(rx)'
<1>1. Derived(rx.result) => Derived(rx.result)'
  BY DEF TypeInv, Keeps, Derived
<1>2. rx.result \in Promise /\ finallyOf[rx.result] \in {0} \cup Promise
  BY Exist DEF Keeps
<1> DEFINE p == rx.result
<1>3. /\ adopted'[p] = adopted[p] /\ finallyOf'[p] = finallyOf[p]
      /\ finallyOf[p] # 0 /\ state[finallyOf[p]] \in Settlement
         => state'[finallyOf[p]] = state[finallyOf[p]]
  BY <1>2 DEF Keeps
<1>4. CASE rx.kind = "then"
  BY <1>1, <1>3, <1>4 DEF ReactionFits
<1>5. CASE rx.kind = "finally"
  BY <1>1, <1>3, <1>5 DEF ReactionFits
<1>6. CASE rx.kind = "pass"
  BY <1>3, <1>6 DEF ReactionFits
<1>7. rx.kind \in {"then", "finally", "pass"}
  BY DEF Reaction
<1> QED
  BY <1>4, <1>5, <1>6, <1>7

\* A frame still fits the promise it settles.
LEMMA FrameKept ==
    ASSUME TypeInv, NEW f, FrameFits(f), Keeps(f.result)
    PROVE  FrameFits(f)'
<1>1. Derived(f.result) => Derived(f.result)'
  BY DEF TypeInv, Keeps, Derived
<1>2. f.result \in Promise /\ finallyOf[f.result] \in {0} \cup Promise
  BY Exist DEF Keeps
<1> QED
  BY <1>1, <1>2 DEF FrameFits, Keeps

\* What a promise waits for and how it follows it, one promise at a time.
Follows(x) ==
    /\ adopted[x] \in Promise \ {x} /\ finallyOf[x] = 0 /\ state[x] # Pending
       => state[x] = state[adopted[x]]
    /\ finallyOf[x] # 0 /\ state[x] # Pending =>
       /\ state[x] \in {state[finallyOf[x]], Rejected}
       /\ adopted[x] # 0 => /\ state[adopted[x]] # Pending
                            /\ state[adopted[x]] = Rejected => state[x] = Rejected

\* WaitsAndFollows is Follows of every promise.
LEMMA FollowsAll ==
    /\ WaitsAndFollows <=> \A x \in Promise : Follows(x)
    /\ WaitsAndFollows' <=> \A x \in Promise : Follows(x)'
BY DEF WaitsAndFollows, Adopts, Transparent, Follows

\* A promise that is not settled by a step follows as before.
LEMMA FollowsKept ==
    ASSUME TypeInv, Born, NEW x \in Promise, Keeps(x), Follows(x),
           state'[x] = state[x] \/ state'[x] = Pending
    PROVE  Follows(x)'
<1>1. \A q \in 1 .. created : q \in Promise /\ (state[q] = Pending \/ state[q] \in Settlement)
  BY Settlements, BoundsAssumption DEF TypeInv, Born, State, Promise
<1>2. adopted[x] \in 0 .. created /\ finallyOf[x] \in 0 .. created
  BY DEF TypeInv
<1>3. x \in 1 .. created /\ created \in Nat
  BY DEF TypeInv, Keeps
<1> QED
  BY <1>1, <1>2, <1>3, Settlements DEF Follows, Keeps

\* A promise is made.
LEMMA NewPromiseEffect ==
    ASSUME TypeInv, Born, NEW s \in Settlement \cup {Pending}, NewPromise(s)
    PROVE  /\ created' = created + 1 /\ created \in Nat /\ created' \in 0 .. MaxPromises
           /\ created + 1 \in Promise /\ state[created + 1] = Unborn
           /\ adopted[created + 1] = 0 /\ finallyOf[created + 1] = 0
           /\ state' \in [Promise -> State] /\ state'[created + 1] = s
           /\ \A q \in Promise \ {created + 1} : state'[q] = state[q]
           /\ \A q \in Promise : state'[q] = Unborn <=> q > created'
<1>1. /\ created' = created + 1 /\ created \in Nat /\ created' \in 0 .. MaxPromises
      /\ created + 1 \in Promise
  BY BoundsAssumption DEF TypeInv, NewPromise, Promise
<1>2. /\ state' = [state EXCEPT ![created + 1] = s] /\ state \in [Promise -> State]
      /\ s \in State
  BY DEF NewPromise, TypeInv, State
<1>3. /\ state' \in [Promise -> State] /\ state'[created + 1] = s
      /\ \A q \in Promise \ {created + 1} : state'[q] = state[q]
  BY <1>1, <1>2
<1>4. /\ state[created + 1] = Unborn /\ adopted[created + 1] = 0
      /\ finallyOf[created + 1] = 0
  BY <1>1 DEF Born
<1>5. ASSUME NEW q \in Promise PROVE state'[q] = Unborn <=> q > created'
  <2>1. state[q] = Unborn <=> q > created
    BY DEF Born
  <2>2. q \in Nat /\ s # Unborn
    BY Settlements DEF Promise
  <2> QED
    BY <1>1, <1>3, <2>1, <2>2
<1> QED
  BY <1>1, <1>3, <1>4, <1>5

\* Nothing refers to a promise that does not exist.
LEMMA NothingForUnborn ==
    ASSUME TypeInv, Born, NEW x, x \notin 1 .. created
    PROVE  NotInLine(x) /\ Running(x) = {}
<1>1. Queued(x) = {}
  <2>1. ASSUME NEW i \in Queued(x) PROVE FALSE
    <3>1. queue[i].reaction \in Entries /\ queue[i].reaction.result = x
      BY EntriesAre DEF Queued
    <3> QED
      BY <3>1 DEF Born
  <2> QED
    BY <2>1
<1>2. Registered(x) = {}
  <2>1. ASSUME NEW y \in Registered(x) PROVE FALSE
    <3>1. reactions[y[1]][y[2]] \in Entries /\ reactions[y[1]][y[2]].result = x
      BY EntriesAre DEF Registered
    <3> QED
      BY <3>1 DEF Born
  <2> QED
    BY <2>1
<1>3. Running(x) = {}
  BY DEF Running, Handlers, Born
<1> QED
  BY <1>1, <1>2, <1>3 DEF NotInLine

-----------------------------------------------------------------------------
\* new Promise, Promise.resolve and Promise.reject: a promise nobody waits on.
LEMMA NewStep ==
    ASSUME IInv, NEW s \in Settlement \cup {Pending}, NewPromise(s),
           UNCHANGED <<reactions, queue, stack, attached, histories>>,
           \/ resolvable' = resolvable \cup {created + 1}
           \/ resolvable' = resolvable /\ s \in Settlement
    PROVE  IInv'
<1>n. PICK n : n = created + 1
  OBVIOUS
<1>0. /\ TypeInv /\ Born /\ Waiting /\ Numbered /\ OneEntry /\ Fits /\ WaitsAndFollows
      /\ UNCHANGED <<adopted, finallyOf, lastRun>>
  BY DEF IInv, histories
<1>1. /\ created' = n /\ created \in Nat /\ created' \in 0 .. MaxPromises
      /\ n \in Promise /\ state[n] = Unborn /\ adopted[n] = 0 /\ finallyOf[n] = 0
      /\ state' \in [Promise -> State] /\ state'[n] = s
      /\ \A q \in Promise \ {n} : state'[q] = state[q]
      /\ \A q \in Promise : state'[q] = Unborn <=> q > created'
  BY <1>0, <1>n, NewPromiseEffect
<1>2. TypeInv'
  <2>1. resolvable' \subseteq 1 .. created'
    <3>1. resolvable \subseteq 1 .. created /\ resolvable' \subseteq resolvable \cup {n}
      BY <1>0, <1>n DEF TypeInv
    <3>2. 1 .. created \subseteq 1 .. created' /\ n \in 1 .. created'
      BY <1>1, <1>n
    <3> QED
      BY <3>1, <3>2
  <2>2. \A q \in Promise : adopted[q] \in 0 .. created' /\ finallyOf[q] \in 0 .. created'
    BY <1>0, <1>1, <1>n, Exist
  <2>3. /\ adopted \in [Promise -> 0 .. created'] /\ finallyOf \in [Promise -> 0 .. created']
    BY <1>0, <2>2 DEF TypeInv
  <2> QED
    BY <1>0, <1>1, <2>1, <2>3 DEF TypeInv
<1>3. Entries' = Entries /\ Handlers' = Handlers
  BY DEF Entries, Handlers
<1>4. Born'
  <2>1. \A y \in 1 .. created : y \in 1 .. created'
    BY <1>1, <1>n
  <2> QED
    BY <1>0, <1>1, <1>3, <1>n, <2>1 DEF Born, Promise
<1>5. Waiting'
  <2>1. reactions[n] = <<>>
    BY <1>0, <1>1, Settlements DEF Waiting
  <2>2. \A i \in DOMAIN queue : queue[i].reaction.source \in Promise
                                /\ state[queue[i].reaction.source] # Unborn
    BY <1>0, Elements, Settlements DEF Waiting
  <2> QED
    BY <1>0, <1>1, <2>1, <2>2 DEF Waiting
<1>6. Numbered'
  BY <1>0 DEF Numbered
<1>7. OneEntry'
  <2> SUFFICES ASSUME NEW x \in Promise, Derived(x)' PROVE HasEntry(x)'
    BY DEF OneEntry
  <2>1. /\ Registered(x)' = Registered(x) /\ Queued(x)' = Queued(x)
        /\ Running(x)' = Running(x)
    BY DEF Registered, Queued, Running
  <2>2. CASE x = n
    <3>1. NotInLine(x) /\ Running(x) = {}
      BY <1>0, <1>1, <1>n, <2>2, NothingForUnborn
    <3>2. state'[x] # Pending
      BY <1>1, <1>n, <2>2, Settlements DEF Derived
    <3> QED
      BY <2>1, <3>1, <3>2 DEF HasEntry, NotInLine
  <2>3. CASE x # n
    <3>1. Derived(x)
      BY <1>1, <1>n, <2>3 DEF Derived
    <3>2. HasEntry(x)
      BY <1>0, <3>1 DEF OneEntry
    <3> QED
      BY <1>1, <2>1, <2>3, <3>2 DEF HasEntry, InLine, NotInLine
  <2> QED
    BY <2>2, <2>3
<1>8. ASSUME NEW x \in 1 .. created PROVE Keeps(x) /\ state'[x] = state[x]
  <2>1. x \in Promise /\ x # n /\ x \in Nat
    BY <1>0, <1>1, <1>n, Exist
  <2>2. \A q \in Promise : state[q] \in Settlement => q # n
    BY <1>1, Settlements
  <2> QED
    BY <1>0, <1>1, <1>n, <2>1, <2>2 DEF Keeps
<1>9. Fits'
  <2>1. ASSUME NEW rx \in Entries PROVE ReactionFits(rx)'
    BY <1>0, <1>8, ReactionKept, EntryTypes DEF Born, Fits
  <2>2. ASSUME NEW i \in Handlers PROVE FrameFits(stack[i])'
    <3>1. PICK f : f = stack[i]
      OBVIOUS
    <3>2. FrameFits(f)'
      BY <1>0, <1>8, <3>1, FrameKept DEF Born, Fits
    <3> QED
      BY <3>1, <3>2
  <2>3. \A x \in resolvable' : adopted[x] = 0 /\ finallyOf[x] = 0
    BY <1>0, <1>1, <1>n DEF Fits
  <2> QED
    BY <1>0, <1>3, <2>1, <2>2, <2>3 DEF Fits
<1>10. WaitsAndFollows'
  <2> SUFFICES ASSUME NEW x \in Promise PROVE Follows(x)'
    BY FollowsAll
  <2>1. CASE x \in 1 .. created
    BY <1>0, <1>8, <2>1, FollowsAll, FollowsKept
  <2>2. CASE x \notin 1 .. created
    <3>1. adopted[x] = 0 /\ finallyOf[x] = 0
      BY <1>0, <1>1, <2>2 DEF Born, Promise
    <3> QED
      BY <1>0, <3>1 DEF Follows, Promise
  <2> QED
    BY <2>1, <2>2
<1> QED
  BY <1>2, <1>4, <1>5, <1>6, <1>7, <1>9, <1>10 DEF IInv

\* then, catch and finally: a new promise with its reaction.
LEMMA DeriveStep ==
    ASSUME IInv, NEW p \in 1 .. created, NewPromise(Pending), NEW rx, AttachEffect(p, rx),
           rx.result = created + 1,
           UNCHANGED <<stack, resolvable, adopted, lastRun>>,
           \/ rx.kind = "then" /\ UNCHANGED finallyOf
           \/ rx.kind = "finally" /\ finallyOf' = [finallyOf EXCEPT ![created + 1] = p]
    PROVE  IInv'
<1>n. PICK n : n = created + 1
  OBVIOUS
<1>0. /\ TypeInv /\ Born /\ Waiting /\ Numbered /\ OneEntry /\ Fits /\ WaitsAndFollows
  BY DEF IInv
<1>1. /\ created' = n /\ created \in Nat /\ created' \in 0 .. MaxPromises
      /\ n \in Promise /\ state[n] = Unborn /\ adopted[n] = 0 /\ finallyOf[n] = 0
      /\ state' \in [Promise -> State] /\ state'[n] = Pending
      /\ \A q \in Promise \ {n} : state'[q] = state[q]
      /\ \A q \in Promise : state'[q] = Unborn <=> q > created'
  BY <1>0, <1>n, NewPromiseEffect
<1>e. 1 .. created \subseteq Promise \ {n} /\ 1 .. created \subseteq 1 .. created'
      /\ n \in 1 .. created' /\ p \in Promise \ {n}
  BY <1>0, <1>1, <1>n, Exist
<1>f. /\ finallyOf' \in [Promise -> 0 .. created] /\ finallyOf'[n] \in {0, p}
      /\ rx.kind = "then" => finallyOf'[n] = 0
      /\ rx.kind = "finally" => finallyOf'[n] = p
      /\ \A q \in Promise \ {n} : finallyOf'[q] = finallyOf[q]
  <2>1. finallyOf \in [Promise -> 0 .. created] /\ p \in 0 .. created
    BY <1>0, <1>1 DEF TypeInv
  <2> QED
    BY <1>1, <1>n, <2>1
<1>2. TypeInv'
  <2>1. resolvable' \subseteq 1 .. created'
    BY <1>0, <1>1, <1>n DEF TypeInv
  <2>2. \A q \in Promise : adopted[q] \in 0 .. created' /\ finallyOf'[q] \in 0 .. created'
    BY <1>0, <1>1, <1>f, <1>n DEF TypeInv
  <2>3. adopted \in [Promise -> 0 .. created'] /\ finallyOf' \in [Promise -> 0 .. created']
    BY <1>0, <1>f, <2>2 DEF TypeInv
  <2>4. /\ attached' \in 0 .. MaxReactions /\ attached' = attached + 1
        /\ reactions' \in [Promise -> Seq(Reaction)] /\ queue' \in Seq(TaskSet)
    BY DEF AttachEffect
  <2>5. lastRun' \in [Promise -> 0 .. attached']
    <3>1. lastRun \in [Promise -> 0 .. attached] /\ attached \in Nat
      BY <1>0, BoundsAssumption DEF TypeInv
    <3>2. \A q \in Promise : lastRun[q] \in 0 .. attached'
      BY <2>4, <3>1
    <3> QED
      BY <3>1, <3>2
  <2> QED
    BY <1>0, <1>1, <2>1, <2>3, <2>4, <2>5 DEF TypeInv
<1>3. Waiting' /\ Numbered' /\ Entries' \subseteq Entries \cup {rx} /\ Handlers' = Handlers
  <2>1. \A q \in 1 .. created : state'[q] = state[q]
    BY <1>1, <1>e
  <2>2. Waiting' /\ Numbered' /\ Entries' \subseteq Entries \cup {rx}
    BY <1>0, <2>1, AttachKeeps
  <2> QED
    BY <2>2 DEF Handlers
<1>4. Born'
  <2>1. \A y \in Entries' : y.result \in 1 .. created'
    BY <1>0, <1>3, <1>e, <1>n DEF Born
  <2>2. \A i \in Handlers' : stack[i].result \in 1 .. created'
    BY <1>0, <1>3, <1>e DEF Born
  <2>3. \A q \in Promise : q > created' => adopted[q] = 0 /\ finallyOf'[q] = 0
    BY <1>0, <1>1, <1>f, <1>n DEF Born, Promise
  <2> QED
    BY <1>1, <2>1, <2>2, <2>3 DEF Born
<1>5. OneEntry'
  <2> SUFFICES ASSUME NEW x \in Promise, Derived(x)' PROVE HasEntry(x)'
    BY DEF OneEntry
  <2>1. /\ x # n => Registered(x)' = Registered(x) /\ Queued(x)' = Queued(x)
        /\ x = n /\ NotInLine(x) => InLine(x)'
    BY <1>0, <1>e, <1>n, AttachEntries
  <2>r. Running(x)' = Running(x)
    BY DEF Running
  <2>2. CASE x = n
    <3>1. NotInLine(x) /\ Running(x) = {}
      BY <1>0, <1>1, <1>n, <2>2, NothingForUnborn
    <3> QED
      BY <1>1, <2>1, <2>r, <2>2, <3>1, Settlements DEF HasEntry
  <2>3. CASE x # n
    <3>1. Derived(x)
      BY <1>1, <1>n, <2>3 DEF Derived
    <3>2. HasEntry(x)
      BY <1>0, <3>1 DEF OneEntry
    <3> QED
      BY <1>1, <2>1, <2>r, <2>3, <3>2 DEF HasEntry, InLine, NotInLine
  <2> QED
    BY <2>2, <2>3
<1>6. ASSUME NEW x \in 1 .. created PROVE Keeps(x) /\ state'[x] = state[x]
  <2>1. \A q \in Promise : state[q] \in Settlement => q # n
    BY <1>1, Settlements
  <2> QED
    BY <1>1, <1>e, <1>f, <1>n, <2>1 DEF Keeps
<1>7. ReactionFits(rx)'
  <2>1. Derived(n)' /\ adopted'[n] = 0 /\ rx.source = p
    <3>1. n \notin resolvable
      BY <1>0, <1>1, <1>n DEF TypeInv
    <3> QED
      BY <1>1, <1>e, <3>1 DEF Derived, AttachEffect
  <2>2. rx.kind = "then" \/ rx.kind = "finally"
    OBVIOUS
  <2> QED
    BY <1>f, <1>n, <1>1, <2>1, <2>2, Settlements DEF ReactionFits
<1>8. Fits'
  <2>1. ASSUME NEW y \in Entries PROVE ReactionFits(y)'
    BY <1>0, <1>6, ReactionKept, EntryTypes DEF Born, Fits
  <2>2. ASSUME NEW i \in Handlers PROVE FrameFits(stack[i])'
    <3>1. PICK f : f = stack[i]
      OBVIOUS
    <3>2. FrameFits(f)'
      BY <1>0, <1>6, <3>1, FrameKept DEF Born, Fits
    <3> QED
      BY <3>1, <3>2
  <2>3. \A x \in resolvable' : adopted'[x] = 0 /\ finallyOf'[x] = 0
    <3>1. \A x \in resolvable : x \in Promise \ {n}
      BY <1>0, <1>e DEF TypeInv
    <3> QED
      BY <1>0, <1>f, <3>1 DEF Fits
  <2> QED
    BY <1>3, <1>7, <2>1, <2>2, <2>3 DEF Fits
<1>9. WaitsAndFollows'
  <2> SUFFICES ASSUME NEW x \in Promise PROVE Follows(x)'
    BY FollowsAll
  <2>1. CASE x \in 1 .. created
    BY <1>0, <1>6, <2>1, FollowsAll, FollowsKept
  <2>2. CASE x = n
    BY <1>1, <2>2 DEF Follows
  <2>3. CASE x > created'
    <3>1. adopted'[x] = 0 /\ finallyOf'[x] = 0
      BY <1>4, <2>3 DEF Born
    <3> QED
      BY <3>1 DEF Follows, Promise
  <2>4. x \in Nat \ {0}
    BY DEF Promise
  <2> QED
    BY <1>1, <1>n, <2>1, <2>2, <2>3, <2>4
<1> QED
  BY <1>2, <1>3, <1>4, <1>5, <1>8, <1>9 DEF IInv

\* What is the same in every step that creates no promise: who exists and,
\* but for the promise p whose handler returns, what is waited for.
Moves(p) ==
    /\ created' = created /\ resolvable' = resolvable /\ finallyOf' = finallyOf
    /\ attached' \in 0 .. MaxReactions /\ attached <= attached'
    /\ state' \in [Promise -> State]
    /\ \A q \in Promise : state[q] \in Settlement => state'[q] = state[q]
    /\ \A q \in Promise : state'[q] = Unborn <=> state[q] = Unborn
    /\ adopted' \in [Promise -> 0 .. created]
    /\ \A q \in Promise \ {p} : adopted'[q] = adopted[q]
    /\ \A q \in Promise : q = p => q \in 1 .. created
    /\ reactions' \in [Promise -> Seq(Reaction)] /\ queue' \in Seq(TaskSet)

\* The invariant after such a step, from what the entries have become.
LEMMA MoveStep ==
    ASSUME IInv, NEW p, Moves(p), stack' \in Seq(Frame),
           lastRun' \in [Promise -> 0 .. attached'],
           Waiting', Numbered', OneEntry',
           \A rx \in Entries' : \/ rx \in Entries /\ rx.result # p
                                \/ rx.result \in 1 .. created /\ ReactionFits(rx)',
           \A i \in Handlers' :
              \/ i \in Handlers /\ stack'[i] = stack[i] /\ stack[i].result # p
              \/ stack'[i].result \in 1 .. created /\ FrameFits(stack[i])',
           \A x \in Promise : (state'[x] = state[x] /\ x # p) \/ Follows(x)',
           p \notin resolvable
    PROVE  IInv'
<1>0. /\ TypeInv /\ Born /\ Waiting /\ Numbered /\ OneEntry /\ Fits /\ WaitsAndFollows
  BY DEF IInv
<1>1. TypeInv'
  BY <1>0 DEF TypeInv, Moves
<1>2. Born'
  <2>1. \A q \in Promise : q > created => adopted'[q] = 0 /\ finallyOf'[q] = 0
    <3>1. \A q \in Promise : q > created => q # p
      BY <1>0, Exist DEF Moves
    <3> QED
      BY <1>0, <3>1 DEF Born, Moves
  <2>2. \A y \in Entries' : y.result \in 1 .. created
    BY <1>0 DEF Born
  <2>3. \A i \in Handlers' : stack'[i].result \in 1 .. created
    BY <1>0 DEF Born
  <2> QED
    BY <1>0, <2>1, <2>2, <2>3 DEF Born, Moves
<1>3. ASSUME NEW x \in 1 .. created, x # p PROVE Keeps(x)
  <2>1. x \in Promise /\ created \in Nat
    BY <1>0, Exist
  <2> QED
    BY <1>3, <2>1 DEF Keeps, Moves
<1>4. Fits'
  <2>1. ASSUME NEW rx \in Entries' PROVE ReactionFits(rx)'
    <3>1. CASE rx \in Entries /\ rx.result # p
      BY <1>0, <1>3, <3>1, ReactionKept, EntryTypes DEF Born, Fits
    <3> QED
      BY <3>1
  <2>2. ASSUME NEW i \in Handlers' PROVE FrameFits(stack[i])'
    <3>1. CASE i \in Handlers /\ stack'[i] = stack[i] /\ stack[i].result # p
      <4>1. PICK f : f = stack[i]
        OBVIOUS
      <4>2. FrameFits(f)'
        BY <1>0, <1>3, <3>1, <4>1, FrameKept DEF Born, Fits
      <4> QED
        BY <3>1, <4>1, <4>2
    <3> QED
      BY <3>1
  <2>3. \A x \in resolvable' : adopted'[x] = 0 /\ finallyOf'[x] = 0
    <3>1. \A x \in resolvable : x \in Promise /\ x # p
      BY <1>0, Exist DEF TypeInv
    <3> QED
      BY <1>0, <3>1 DEF Fits, Moves
  <2> QED
    BY <2>1, <2>2, <2>3 DEF Fits
<1>5. WaitsAndFollows'
  <2> SUFFICES ASSUME NEW x \in Promise PROVE Follows(x)'
    BY FollowsAll
  <2>1. CASE x \in 1 .. created /\ x # p /\ state'[x] = state[x]
    BY <1>0, <1>3, <2>1, FollowsAll, FollowsKept
  <2>2. CASE x \notin 1 .. created
    <3>1. adopted'[x] = 0 /\ finallyOf'[x] = 0
      BY <1>0, <1>2, <2>2, Exist DEF Born, Moves, Promise
    <3> QED
      BY <3>1 DEF Follows, Promise
  <2> QED
    BY <2>1, <2>2
<1> QED
  BY <1>1, <1>2, <1>4, <1>5 DEF IInv

\* tasks is the queue, or what is left of it without its first task; lastRun'
\* knows of that one only.
Left(tasks, k) ==
    /\ tasks \in Seq(TaskSet) /\ k \in {0, 1} /\ Len(queue) = Len(tasks) + k
    /\ \A i \in 1 .. Len(tasks) : tasks[i] = queue[i + k]
    /\ \A q \in Promise : state[q] = Pending => lastRun'[q] = lastRun[q]
    /\ \A i \in 1 .. Len(tasks) :
          lastRun'[tasks[i].reaction.source] < tasks[i].reaction.no

\* The whole queue is left when no task is taken.
LEMMA QueueLeft ==
    ASSUME TypeInv, Numbered, UNCHANGED lastRun
    PROVE  Left(queue, 0)
<1>1. Len(queue) \in Nat /\ DOMAIN queue = 1 .. Len(queue) /\ queue \in Seq(TaskSet)
  BY Elements DEF TypeInv
<1>2. \A i \in 1 .. Len(queue) : lastRun[queue[i].reaction.source] < queue[i].reaction.no
  BY <1>1 DEF Numbered
<1> QED
  BY <1>1, <1>2 DEF Left

\* What settle_promise does to the whole state.
SettleResult(p, s) ==
    /\ Waiting' /\ Numbered' /\ Entries' \subseteq Entries
    /\ state' \in [Promise -> State]
    /\ reactions' \in [Promise -> Seq(Reaction)] /\ queue' \in Seq(TaskSet)
    /\ \A q \in Promise \ {p} : state'[q] = state[q]
    /\ state'[p] = IF state[p] = Pending THEN s ELSE state[p]

\* settle_promise, whether or not the promise is still pending.
LEMMA SettleStep ==
    ASSUME TypeInv, Born, Waiting, Numbered, NEW p \in Promise, NEW s \in Settlement,
           NEW tasks, NEW k, Left(tasks, k), Settle(tasks, p, s), UNCHANGED attached
    PROVE  SettleResult(p, s)
<1>1. CASE state[p] = Pending
  <2>1. SettleEffect(tasks, p, s)
    BY <1>1, SettleLemma DEF Left
  <2>2. Waiting' /\ Numbered' /\ Entries' \subseteq Entries
    BY <1>1, <2>1, SettleKeeps DEF Left
  <2>3. /\ state \in [Promise -> State] /\ state' = [state EXCEPT ![p] = s]
        /\ state' \in [Promise -> State]
        /\ reactions' \in [Promise -> Seq(Reaction)] /\ queue' \in Seq(TaskSet)
    BY <2>1 DEF SettleEffect, TypeInv
  <2> QED
    BY <1>1, <2>2, <2>3 DEF SettleResult
<1>2. CASE state[p] # Pending
  <2>1. queue' = tasks /\ UNCHANGED <<state, reactions>>
    BY <1>2 DEF Settle
  <2>2. Waiting' /\ Numbered' /\ Entries' \subseteq Entries
    BY <2>1, TakeKeeps DEF Left
  <2> QED
    BY <1>2, <2>1, <2>2 DEF SettleResult, TypeInv, Left
<1> QED
  BY <1>1, <1>2

\* Who is in line after settle_promise.
LEMMA SettleLine ==
    ASSUME TypeInv, Numbered, NEW p \in Promise, NEW s \in Settlement,
           NEW tasks \in Seq(TaskSet), Settle(tasks, p, s), NEW x \in Promise
    PROVE  StaysInLine(x, TasksFor(tasks, x))
<1>1. CASE state[p] = Pending
  BY <1>1, SettleLemma, SettleEntries
<1>2. CASE state[p] # Pending
  BY <1>2, TakeEntries DEF Settle
<1> QED
  BY <1>1, <1>2

\* Nothing is taken off: who is in line stays there.
LEMMA StillInLine ==
    ASSUME TypeInv, NEW x,
           StaysInLine(x, TasksFor(queue, x))
    PROVE  (NotInLine(x) => NotInLine(x)') /\ (InLine(x) => InLine(x)')
<1>1. TasksFor(queue, x) = Queued(x)
  BY Elements DEF Queued, TasksFor
<1> QED
  BY <1>1 DEF StaysInLine, InLine, NotInLine

-----------------------------------------------------------------------------
\* PromiseResolver, called by a script that holds it.
LEMMA ResolverStep ==
    ASSUME IInv, NEW p \in resolvable, UNCHANGED <<created, stack, resolvable, histories>>,
           \/ \E s \in Settlement : Settle(queue, p, s) /\ UNCHANGED attached
           \/ \E v \in 1 .. created : Attach(v, "then", {}, Pending, p) /\ UNCHANGED state
    PROVE  IInv'
<1>0. /\ TypeInv /\ Born /\ Waiting /\ Numbered /\ OneEntry /\ Fits /\ WaitsAndFollows
      /\ UNCHANGED <<adopted, finallyOf, lastRun>>
  BY DEF IInv, histories
<1>1. /\ p \in 1 .. created /\ p \in Promise /\ 0 \notin Promise /\ created \in Nat
      /\ adopted[p] = 0 /\ finallyOf[p] = 0
      /\ stack \in Seq(Frame) /\ adopted \in [Promise -> 0 .. created]
      /\ 0 \notin resolvable /\ attached \in 0 .. MaxReactions
      /\ state \in [Promise -> State]
  BY <1>0, Exist DEF TypeInv, Fits, Promise
<1>2. Handlers' = Handlers /\ \A i \in Handlers : stack'[i] = stack[i] /\ stack[i].result # 0
  <2>1. \A i \in Handlers : stack[i].result \in 1 .. created
    BY <1>0 DEF Born
  <2> QED
    BY <1>1, <2>1 DEF Handlers
<1>3. \A x : Running(x)' = Running(x)
  BY DEF Running
<1>4. ASSUME NEW s \in Settlement, Settle(queue, p, s), UNCHANGED attached
      PROVE  IInv'
  <2>1. SettleResult(p, s)
    BY <1>0, <1>1, <1>4, QueueLeft, SettleStep
  <2>2. OneEntry'
    <3> SUFFICES ASSUME NEW x \in Promise, Derived(x)' PROVE HasEntry(x)'
      BY DEF OneEntry
    <3>1. Derived(x) /\ x # p
      BY DEF Derived
    <3>2. HasEntry(x) /\ state'[x] = state[x]
      BY <1>0, <2>1, <3>1 DEF OneEntry, SettleResult
    <3>3. StaysInLine(x, TasksFor(queue, x))
      <4>1. queue \in Seq(TaskSet)
        BY <1>0 DEF TypeInv
      <4> QED
        BY <1>0, <1>1, <1>4, <4>1, SettleLine
    <3>4. (NotInLine(x) => NotInLine(x)') /\ (InLine(x) => InLine(x)')
      BY <1>0, <3>3, StillInLine
    <3> QED
      BY <1>3, <3>2, <3>4 DEF HasEntry
  <2>3. Moves(0)
    BY <1>0, <1>1, <1>4, <2>1, Settlements DEF Moves, SettleResult, State
  <2>4. ASSUME NEW x \in Promise PROVE (state'[x] = state[x] /\ x # 0) \/ Follows(x)'
    <3>1. CASE x = p
      BY <1>0, <1>1, <3>1 DEF Follows
    <3>2. CASE x # p
      BY <1>1, <2>1, <3>2 DEF SettleResult
    <3> QED
      BY <3>1, <3>2
  <2>5. \A rx \in Entries' : rx \in Entries /\ rx.result # 0
    BY <1>0, <1>1, <2>1 DEF SettleResult, Born
  <2>6. lastRun' \in [Promise -> 0 .. attached'] /\ stack' \in Seq(Frame)
    BY <1>0, <1>1, <1>4 DEF TypeInv
  <2>7. Waiting' /\ Numbered'
    BY <2>1 DEF SettleResult
  <2> QED
    BY <1>1, <1>2, <2>2, <2>3, <2>4, <2>5, <2>6, <2>7, MoveStep
<1>5. ASSUME NEW v \in 1 .. created, Attach(v, "then", {}, Pending, p), UNCHANGED state
      PROVE  IInv'
  <2>1. v \in Promise /\ state[v] # Unborn
    BY <1>0, <1>1, Exist DEF Born
  <2>2. PICK rx : rx = NewReaction(v, "then", {}, Pending, p)
    OBVIOUS
  <2>3. AttachEffect(v, rx)
    BY <1>0, <1>1, <1>5, <2>1, <2>2, AttachLemma
  <2>4. rx.result = p /\ rx.kind = "then" /\ rx.handlers = {}
    BY <2>2 DEF NewReaction
  <2>5. Waiting' /\ Numbered' /\ Entries' \subseteq Entries \cup {rx}
    BY <1>0, <1>5, <2>3, AttachKeeps
  <2>6. OneEntry'
    <3> SUFFICES ASSUME NEW x \in Promise, Derived(x)' PROVE HasEntry(x)'
      BY DEF OneEntry
    <3>1. Derived(x) /\ x # p
      BY DEF Derived
    <3>2. HasEntry(x)
      BY <1>0, <3>1 DEF OneEntry
    <3>3. Registered(x)' = Registered(x) /\ Queued(x)' = Queued(x)
      BY <1>0, <2>1, <2>3, <2>4, <3>1, AttachEntries
    <3> QED
      BY <1>3, <1>5, <3>2, <3>3 DEF HasEntry, InLine, NotInLine
  <2>7. Moves(0)
    BY <1>0, <1>1, <1>5, <2>3 DEF Moves, AttachEffect
  <2>8. ReactionFits(rx)'
    BY <1>0, <1>1, <2>4 DEF ReactionFits
  <2>9. \A y \in Entries' : \/ y \in Entries /\ y.result # 0
                            \/ y.result \in 1 .. created /\ ReactionFits(y)'
    BY <1>0, <1>1, <2>4, <2>5, <2>8 DEF Born
  <2>10. lastRun' \in [Promise -> 0 .. attached'] /\ stack' \in Seq(Frame)
    <3>1. attached' = attached + 1 /\ lastRun \in [Promise -> 0 .. attached] /\ attached \in Nat
      BY <1>0, <2>3, BoundsAssumption DEF AttachEffect, TypeInv
    <3>2. \A q \in Promise : lastRun[q] \in 0 .. attached'
      BY <3>1
    <3> QED
      BY <1>0, <1>1, <3>1, <3>2
  <2>11. \A x \in Promise : state'[x] = state[x] /\ x # 0
    BY <1>1, <1>5
  <2> QED
    BY <1>1, <1>2, <2>5, <2>6, <2>7, <2>9, <2>10, <2>11, MoveStep
<1> QED
  BY <1>4, <1>5

-----------------------------------------------------------------------------
\* The frame of a returning handler was all that would settle its promise.
LEMMA Returning ==
    ASSUME IInv, stack # <<>>, Top.what \in {"then", "finally"}, stack' = Below,
           NEW p, p = Top.result
    PROVE  /\ p \in 1 .. created /\ p \in Promise /\ Derived(p) /\ p \notin resolvable
           /\ state[p] = Pending /\ NotInLine(p) /\ adopted[p] = 0
           /\ Top.what = "then" => finallyOf[p] = 0
           /\ Top.what = "finally" => /\ finallyOf[p] \in Promise
                                      /\ Top.original = state[finallyOf[p]]
                                      /\ Top.original \in Settlement
           /\ stack' \in Seq(Frame)
           /\ \A i \in Handlers' : /\ i \in Handlers /\ stack'[i] = stack[i]
                                   /\ stack[i].result # p
           /\ Running(p)' = {}
           /\ \A rx \in Entries : rx.result # p
<1>0. TypeInv /\ Born /\ Numbered /\ OneEntry /\ Fits
  BY DEF IInv
<1>1. /\ stack' \in Seq(Frame) /\ Len(stack) \in DOMAIN stack
      /\ Handlers' = Handlers \ {Len(stack)}
      /\ \A i \in Handlers' : stack'[i] = stack[i]
      /\ Top = stack[Len(stack)] /\ Len(stack) \in Handlers
  <2>1. /\ stack' \in Seq(Frame) /\ Len(stack) \in Nat \ {0}
        /\ DOMAIN stack = 1 .. Len(stack)
        /\ Top \in Frame /\ Top = stack[Len(stack)]
        /\ Handlers' = Handlers \ {Len(stack)}
        /\ \A i \in Handlers' : stack'[i] = stack[i]
    BY <1>0, PopEffect
  <2>2. Len(stack) \in DOMAIN stack
    BY <2>1
  <2> QED
    BY <2>1, <2>2 DEF Handlers
<1>2. PICK f : f = Top
  OBVIOUS
<1>3. FrameFits(f) /\ f.result = p
  BY <1>0, <1>1, <1>2 DEF Fits
<1>4. /\ p \in 1 .. created /\ Derived(p) /\ p \in Promise /\ p \notin resolvable
  BY <1>0, <1>3, Exist DEF FrameFits, Derived
<1>5. Running(p) = {i \in Handlers : stack[i].result = p}
  BY DEF Running, Handlers
<1>6. /\ state[p] = Pending /\ NotInLine(p) /\ \E i : Running(p) = {i}
  BY <1>0, <1>1, <1>4, <1>5 DEF OneEntry, HasEntry
<1>7. \A i \in Handlers' : i \in Handlers /\ stack'[i] = stack[i] /\ stack[i].result # p
  BY <1>1, <1>5, <1>6
<1>8. Running(p)' = {}
  <2>1. Running(p)' = {i \in Handlers' : stack'[i].result = p}
    BY DEF Running, Handlers
  <2> QED
    BY <1>7, <2>1
<1>9. \A rx \in Entries : rx.result # p
  BY <1>0, <1>6, NotInLineMeans
<1>10. /\ adopted[p] = 0
       /\ Top.what = "then" => finallyOf[p] = 0
       /\ Top.what = "finally" => /\ finallyOf[p] \in Promise
                                  /\ Top.original = state[finallyOf[p]]
                                  /\ Top.original \in Settlement
  BY <1>0, <1>2, <1>3, <1>4, Exist DEF FrameFits
<1> QED
  BY <1>1, <1>4, <1>6, <1>7, <1>8, <1>9, <1>10

\* Popping a frame leaves the handlers of other promises running.
LEMMA RunningElsewhere ==
    ASSUME TypeInv, stack # <<>>, stack' = Below, NEW x, x # Top.result
    PROVE  Running(x)' = Running(x)
<1>1. /\ Handlers' = Handlers \ {Len(stack)} /\ Top = stack[Len(stack)]
      /\ \A i \in Handlers' : stack'[i] = stack[i]
  BY PopEffect
<1>2. Running(x) = {i \in Handlers : stack[i].result = x}
  BY DEF Running, Handlers
<1>3. Running(x)' = {i \in Handlers' : stack'[i].result = x}
  BY DEF Running, Handlers
<1> QED
  BY <1>1, <1>2, <1>3

\* A handler that ends and settles its promise.
LEMMA ReturnSettles ==
    ASSUME IInv, stack # <<>>, Top.what \in {"then", "finally"}, stack' = Below,
           NEW p, p = Top.result, NEW s \in Settlement, Settle(queue, p, s),
           UNCHANGED <<created, resolvable, finallyOf, lastRun, attached>>,
           adopted' \in [Promise -> 0 .. created],
           \A q \in Promise \ {p} : adopted'[q] = adopted[q],
           \/ adopted'[p] \in {0, p} /\ finallyOf[p] = 0
           \/ adopted'[p] = 0 /\ s \in {Rejected, state[finallyOf[p]]}
    PROVE  IInv'
<1>0. /\ TypeInv /\ Born /\ Waiting /\ Numbered /\ OneEntry /\ Fits /\ WaitsAndFollows
  BY DEF IInv
<1>1. /\ p \in 1 .. created /\ p \in Promise /\ Derived(p) /\ p \notin resolvable
      /\ state[p] = Pending /\ NotInLine(p) /\ stack' \in Seq(Frame)
      /\ \A i \in Handlers' : /\ i \in Handlers /\ stack'[i] = stack[i]
                              /\ stack[i].result # p
      /\ Running(p)' = {}
      /\ \A rx \in Entries : rx.result # p
  BY Returning
<1>2. SettleResult(p, s)
  BY <1>0, <1>1, QueueLeft, SettleStep
<1>3. OneEntry'
  <2> SUFFICES ASSUME NEW x \in Promise, Derived(x)' PROVE HasEntry(x)'
    BY DEF OneEntry
  <2>1. Derived(x)
    BY DEF Derived
  <2>2. HasEntry(x)
    BY <1>0, <2>1 DEF OneEntry
  <2>3. (NotInLine(x) => NotInLine(x)') /\ (InLine(x) => InLine(x)')
    <3>1. queue \in Seq(TaskSet)
      BY <1>0 DEF TypeInv
    <3>2. StaysInLine(x, TasksFor(queue, x))
      BY <1>0, <1>1, <3>1, SettleLine
    <3> QED
      BY <1>0, <3>2, StillInLine
  <2>4. CASE x = p
    <3>1. state'[x] # Pending
      BY <1>1, <1>2, <2>4, Settlements DEF SettleResult
    <3> QED
      BY <1>1, <2>3, <2>4, <3>1 DEF HasEntry
  <2>5. CASE x # p
    <3>1. Running(x)' = Running(x) /\ state'[x] = state[x]
      BY <1>0, <1>2, <2>5, RunningElsewhere DEF SettleResult
    <3> QED
      BY <2>2, <2>3, <3>1 DEF HasEntry
  <2> QED
    BY <2>4, <2>5
<1>4. Moves(p)
  <2>1. attached \in 0 .. MaxReactions /\ attached \in Nat
    BY <1>0, BoundsAssumption DEF TypeInv
  <2> QED
    BY <1>0, <1>1, <1>2, <2>1, Settlements DEF Moves, SettleResult, State
<1>5. ASSUME NEW x \in Promise PROVE (state'[x] = state[x] /\ x # p) \/ Follows(x)'
  <2>1. CASE x = p
    <3>1. state'[p] = s /\ finallyOf' = finallyOf
      BY <1>1, <1>2 DEF SettleResult
    <3>2. CASE adopted'[p] \in {0, p} /\ finallyOf[p] = 0
      BY <2>1, <3>1, <3>2 DEF Follows, Promise
    <3>3. CASE adopted'[p] = 0 /\ s = Rejected
      BY <2>1, <3>1, <3>3 DEF Follows, Promise
    <3>4. CASE adopted'[p] = 0 /\ finallyOf[p] # 0 /\ s = state[finallyOf[p]]
      <4>1. finallyOf[p] \in Promise \ {p}
        BY <1>0, <1>1, <3>4, Exist, Settlements
      <4>2. state'[finallyOf[p]] = state[finallyOf[p]]
        BY <1>2, <4>1 DEF SettleResult
      <4> QED
        BY <2>1, <3>1, <3>4, <4>2 DEF Follows, Promise
    <3> QED
      BY <3>2, <3>3, <3>4
  <2>2. CASE x # p
    BY <1>2, <2>2 DEF SettleResult
  <2> QED
    BY <2>1, <2>2
<1>6. \A rx \in Entries' : rx \in Entries /\ rx.result # p
  BY <1>1, <1>2 DEF SettleResult
<1>7. lastRun' \in [Promise -> 0 .. attached']
  BY <1>0 DEF TypeInv
<1>8. Waiting' /\ Numbered'
  BY <1>2 DEF SettleResult
<1> QED
  BY <1>1, <1>3, <1>4, <1>5, <1>6, <1>7, <1>8, MoveStep

\* A handler that ends and leaves its promise to the one it returned.
LEMMA ReturnAttaches ==
    ASSUME IInv, stack # <<>>, Top.what \in {"then", "finally"}, stack' = Below,
           NEW p, p = Top.result, NEW v \in 1 .. created, NEW rx,
           \/ Top.what = "then" /\ rx = NewReaction(v, "then", {}, Pending, p)
           \/ Top.what = "finally" /\ rx = NewReaction(v, "pass", {}, Top.original, p),
           Attach(v, rx.kind, rx.handlers, rx.original, p), UNCHANGED state,
           UNCHANGED <<created, resolvable, finallyOf, lastRun>>,
           adopted' = [adopted EXCEPT ![p] = v]
    PROVE  IInv'
<1>0. /\ TypeInv /\ Born /\ Waiting /\ Numbered /\ OneEntry /\ Fits /\ WaitsAndFollows
  BY DEF IInv
<1>1. /\ p \in 1 .. created /\ p \in Promise /\ Derived(p) /\ p \notin resolvable
      /\ state[p] = Pending /\ NotInLine(p) /\ stack' \in Seq(Frame)
      /\ \A i \in Handlers' : /\ i \in Handlers /\ stack'[i] = stack[i]
                              /\ stack[i].result # p
      /\ Running(p)' = {}
      /\ \A y \in Entries : y.result # p
  BY Returning
<1>f. /\ Top.what = "then" => finallyOf[p] = 0
      /\ Top.what = "finally" => /\ finallyOf[p] \in Promise
                                 /\ Top.original = state[finallyOf[p]]
                                 /\ Top.original \in Settlement
  BY Returning
<1>2. /\ rx = NewReaction(v, rx.kind, rx.handlers, rx.original, p)
      /\ rx.kind \in {"then", "finally", "pass"} /\ rx.handlers = {}
      /\ rx.original \in Settlement \cup {Pending} /\ rx.result = p /\ rx.source = v
      /\ Top.what = "then" => rx.kind = "then"
      /\ Top.what = "finally" => rx.kind = "pass" /\ rx.original = Top.original
  BY <1>f DEF NewReaction
<1>3. v \in Promise /\ state[v] # Unborn /\ 0 \notin Promise
  BY <1>0, Exist DEF Born, Promise
<1>4. AttachEffect(v, rx)
  BY <1>0, <1>1, <1>2, <1>3, AttachLemma
<1>5. Waiting' /\ Numbered' /\ Entries' \subseteq Entries \cup {rx}
  BY <1>0, <1>4, AttachKeeps
<1>6. OneEntry'
  <2> SUFFICES ASSUME NEW x \in Promise, Derived(x)' PROVE HasEntry(x)'
    BY DEF OneEntry
  <2>1. Derived(x)
    BY DEF Derived
  <2>2. HasEntry(x)
    BY <1>0, <2>1 DEF OneEntry
  <2>3. /\ x # p => Registered(x)' = Registered(x) /\ Queued(x)' = Queued(x)
        /\ x = p /\ NotInLine(x) => InLine(x)'
    BY <1>0, <1>2, <1>3, <1>4, AttachEntries
  <2>4. CASE x = p
    BY <1>1, <2>3, <2>4 DEF HasEntry
  <2>5. CASE x # p
    <3>1. Running(x)' = Running(x)
      BY <1>0, <2>5, RunningElsewhere
    <3> QED
      BY <2>2, <2>3, <2>5, <3>1 DEF HasEntry, InLine, NotInLine
  <2> QED
    BY <2>4, <2>5
<1>a. /\ adopted' \in [Promise -> 0 .. created] /\ adopted'[p] = v
      /\ \A q \in Promise \ {p} : adopted'[q] = adopted[q]
  <2>1. adopted \in [Promise -> 0 .. created] /\ v \in 0 .. created
    BY <1>0, Exist DEF TypeInv
  <2> QED
    BY <1>1, <2>1
<1>7. Moves(p)
  <2>1. attached \in Nat /\ state \in [Promise -> State]
    BY <1>0, BoundsAssumption DEF TypeInv
  <2> QED
    BY <1>1, <1>4, <1>a, <2>1 DEF Moves, AttachEffect
<1>8. ReactionFits(rx)'
  <2>1. CASE Top.what = "then"
    BY <1>2, <1>f, <1>a, <2>1 DEF ReactionFits
  <2>2. CASE Top.what = "finally"
    <3>1. finallyOf'[p] # 0 /\ rx.original = state'[finallyOf'[p]]
      BY <1>2, <1>3, <1>f, <2>2
    <3> QED
      BY <1>2, <1>f, <1>a, <2>2, <3>1 DEF ReactionFits
  <2> QED
    BY <2>1, <2>2
<1>9. \A y \in Entries' : \/ y \in Entries /\ y.result # p
                          \/ y.result \in 1 .. created /\ ReactionFits(y)'
  BY <1>1, <1>2, <1>5, <1>8
<1>10. lastRun' \in [Promise -> 0 .. attached']
  <2>1. attached' = attached + 1 /\ lastRun \in [Promise -> 0 .. attached] /\ attached \in Nat
    BY <1>0, <1>4, BoundsAssumption DEF AttachEffect, TypeInv
  <2>2. \A q \in Promise : lastRun[q] \in 0 .. attached'
    BY <2>1
  <2> QED
    BY <2>1, <2>2
<1>11. ASSUME NEW x \in Promise PROVE (state'[x] = state[x] /\ x # p) \/ Follows(x)'
  BY <1>1 DEF Follows
<1> QED
  BY <1>1, <1>5, <1>6, <1>7, <1>9, <1>10, <1>11, MoveStep

-----------------------------------------------------------------------------
\* The head of the queue, when a draining loop takes it off.
LEMMA TheTask ==
    ASSUME IInv, queue # <<>>,
           lastRun' = [lastRun EXCEPT ![NextTask.reaction.source] = NextTask.reaction.no]
    PROVE  /\ NextTask = queue[1] /\ NextTask.reaction \in Entries
           /\ NextTask.state \in Settlement /\ NextTask.reaction \in Reaction
           /\ NextTask.reaction.source \in Promise
           /\ NextTask.reaction.result \in 1 .. created
           /\ NextTask.reaction.result \in Promise
           /\ NextTask.state = state[NextTask.reaction.source]
           /\ ReactionFits(NextTask.reaction)
           /\ Left(Tail(queue), 1) /\ lastRun' \in [Promise -> 0 .. attached]
           /\ 1 \in Queued(NextTask.reaction.result)
<1>0. TypeInv /\ Born /\ Waiting /\ Numbered /\ Fits /\ queue \in Seq(TaskSet)
  BY DEF IInv, TypeInv
<1>1. /\ NextTask = queue[1] /\ 1 \in DOMAIN queue
      /\ Tail(queue) \in Seq(TaskSet) /\ Len(queue) = Len(Tail(queue)) + 1
      /\ \A i \in 1 .. Len(Tail(queue)) : Tail(queue)[i] = queue[i + 1]
  BY <1>0 DEF NextTask
<1>2. PICK task : task = NextTask
  OBVIOUS
<1>3. /\ task = queue[1] /\ task.reaction \in Entries
      /\ task.state \in Settlement /\ task.reaction \in Reaction
      /\ task.reaction.source \in Promise /\ task.reaction.no \in Nat
  BY <1>0, <1>1, <1>2, Elements, EntriesAre
<1>4. /\ task.reaction.result \in 1 .. created /\ task.reaction.result \in Promise
      /\ task.state = state[task.reaction.source] /\ ReactionFits(task.reaction)
  BY <1>0, <1>1, <1>3, Exist DEF Born, Waiting, Fits
<1>5. /\ task.reaction.no <= attached /\ lastRun \in [Promise -> 0 .. attached]
      /\ attached \in Nat
  BY <1>0, <1>1, <1>3, BoundsAssumption DEF Numbered, TypeInv
<1>6. /\ lastRun' \in [Promise -> 0 .. attached]
      /\ lastRun'[task.reaction.source] = task.reaction.no
      /\ \A q \in Promise : q # task.reaction.source => lastRun'[q] = lastRun[q]
  <2>1. lastRun' = [lastRun EXCEPT ![task.reaction.source] = task.reaction.no]
    BY <1>2
  <2>2. task.reaction.no \in 0 .. attached
    BY <1>3, <1>5
  <2> QED
    BY <1>3, <1>5, <2>1, <2>2
<1>7. PICK tasks : tasks = Tail(queue)
  OBVIOUS
<1>8. ASSUME NEW i \in 1 .. Len(tasks)
      PROVE  lastRun'[tasks[i].reaction.source] < tasks[i].reaction.no
  <2>1. i + 1 \in DOMAIN queue /\ 1 < i + 1 /\ tasks[i] = queue[i + 1]
    <3>1. Len(tasks) \in Nat /\ DOMAIN queue = 1 .. Len(tasks) + 1
      BY <1>0, <1>1, <1>7, Elements
    <3> QED
      BY <1>1, <1>7, <3>1
  <2>2. /\ lastRun[queue[i + 1].reaction.source] < queue[i + 1].reaction.no
        /\ task.reaction.source = queue[i + 1].reaction.source
           => task.reaction.no < queue[i + 1].reaction.no
    BY <1>0, <1>1, <1>3, <2>1 DEF Numbered
  <2>3. queue[i + 1].reaction.source \in Promise
    BY <1>0, <2>1, Elements
  <2> QED
    BY <1>6, <2>1, <2>2, <2>3
<1>9. \A q \in Promise : state[q] = Pending => lastRun'[q] = lastRun[q]
  BY <1>3, <1>4, <1>6, Settlements
<1>10. Left(tasks, 1)
  BY <1>1, <1>7, <1>8, <1>9 DEF Left
<1> QED
  BY <1>1, <1>2, <1>3, <1>4, <1>6, <1>7, <1>10 DEF Queued

\* Who is in line after the first task has been run: all but its result.
LEMMA TailLine ==
    ASSUME TypeInv, NEW tasks, Left(tasks, 1), NEW x,
           StaysInLine(x, TasksFor(tasks, x))
    PROVE  /\ queue[1].reaction.result # x =>
                 (NotInLine(x) => NotInLine(x)') /\ (InLine(x) => InLine(x)')
           /\ queue[1].reaction.result = x => ~NotInLine(x) /\ (InLine(x) => NotInLine(x)')
<1>1. /\ Queued(x) = {} => TasksFor(tasks, x) = {} /\ queue[1].reaction.result # x
      /\ InLine(x) /\ queue[1].reaction.result = x => TasksFor(tasks, x) = {}
                                                    /\ Registered(x) = {}
      /\ (\E i : Queued(x) = {i}) /\ queue[1].reaction.result # x
         => \E i : TasksFor(tasks, x) = {i}
  <2>1. /\ tasks \in Seq(TaskSet) /\ Len(queue) = Len(tasks) + 1
        /\ \A i \in 1 .. Len(tasks) : tasks[i] = queue[i + 1]
    BY DEF Left
  <2> QED
    BY <2>1, TailEntries
<1>2. ASSUME NotInLine(x)
      PROVE  queue[1].reaction.result # x /\ NotInLine(x)'
  BY <1>1, <1>2 DEF StaysInLine, NotInLine
<1>3. ASSUME InLine(x), queue[1].reaction.result = x
      PROVE  NotInLine(x)'
  BY <1>1, <1>3 DEF StaysInLine
<1>4. ASSUME InLine(x), queue[1].reaction.result # x
      PROVE  InLine(x)'
  BY <1>1, <1>4 DEF StaysInLine, InLine
<1> QED
  BY <1>2, <1>3, <1>4

\* run_microtask on a reaction with a callable: its handler starts.
LEMMA CallStep ==
    ASSUME IInv, CallHandler
    PROVE  IInv'
<1>0. /\ TypeInv /\ Born /\ Waiting /\ Numbered /\ OneEntry /\ Fits /\ WaitsAndFollows
  BY DEF IInv
<1>1. /\ queue # <<>> /\ RunsHandler(NextTask)
      /\ stack' = Append(stack, HandlerFrame(NextTask.reaction, NextTask.state))
      /\ queue' = Tail(queue)
      /\ lastRun' = [lastRun EXCEPT ![NextTask.reaction.source] = NextTask.reaction.no]
      /\ UNCHANGED <<created, state, reactions, resolvable, attached, adopted, finallyOf>>
  BY DEF CallHandler, Push
<1>2. PICK task, p : task = NextTask /\ p = task.reaction.result
  OBVIOUS
<1>3. /\ task = queue[1] /\ task.reaction \in Entries
      /\ task.state \in Settlement /\ task.reaction \in Reaction
      /\ task.reaction.source \in Promise /\ p \in 1 .. created /\ p \in Promise
      /\ task.state = state[task.reaction.source] /\ ReactionFits(task.reaction)
      /\ Left(Tail(queue), 1) /\ lastRun' \in [Promise -> 0 .. attached]
  BY <1>1, <1>2, TheTask
<1>4. /\ task.reaction.kind \in {"then", "finally"} /\ task.reaction.handlers # {}
  BY <1>1, <1>2, <1>3 DEF RunsHandler, Reaction
<1>5. /\ Derived(p) /\ adopted[p] = 0
      /\ task.reaction.kind = "then" => finallyOf[p] = 0
      /\ task.reaction.kind = "finally" => finallyOf[p] = task.reaction.source
  BY <1>2, <1>3, <1>4 DEF ReactionFits
<1>6. PICK f : f = HandlerFrame(task.reaction, task.state)
  OBVIOUS
<1>7. /\ f \in Frame /\ f.what = task.reaction.kind /\ f.result = p
      /\ f.original = task.state
  BY <1>2, <1>3, <1>4, <1>6 DEF HandlerFrame, Frame, Value
<1>8. FrameFits(f)
  <2>1. finallyOf[p] = task.reaction.source => finallyOf[p] # 0
    BY <1>3 DEF Promise
  <2> QED
    BY <1>3, <1>4, <1>5, <1>7, <2>1 DEF FrameFits
<1>9. FrameFits(f)'
  <2>1. Derived(p)'
    BY <1>1, <1>5 DEF Derived
  <2> QED
    BY <1>1, <1>7, <1>8, <2>1 DEF FrameFits
<1>10. /\ stack' \in Seq(Frame) /\ Len(stack) + 1 \notin Handlers
       /\ Handlers' = Handlers \cup {Len(stack) + 1}
       /\ stack'[Len(stack) + 1] = f
       /\ \A i \in Handlers : stack'[i] = stack[i]
  <2>1. stack' = Append(stack, f)
    BY <1>1, <1>2, <1>6
  <2> QED
    BY <1>0, <1>4, <1>7, <2>1, PushEffect DEF Handlers
<1>11. PICK tasks : tasks = Tail(queue)
  OBVIOUS
<1>12. /\ tasks \in Seq(TaskSet) /\ queue' = tasks /\ Left(tasks, 1)
  BY <1>1, <1>3, <1>11 DEF Left
<1>13. Waiting' /\ Numbered' /\ Entries' \subseteq Entries
  BY <1>0, <1>1, <1>12, TakeKeeps DEF Left
<1>14. OneEntry'
  <2> SUFFICES ASSUME NEW x \in Promise, Derived(x)' PROVE HasEntry(x)'
    BY DEF OneEntry
  <2>1. HasEntry(x)
    BY <1>0, <1>1 DEF OneEntry, Derived
  <2>2. /\ queue[1].reaction.result # x =>
              (NotInLine(x) => NotInLine(x)') /\ (InLine(x) => InLine(x)')
        /\ queue[1].reaction.result = x => ~NotInLine(x) /\ (InLine(x) => NotInLine(x)')
    <3>1. StaysInLine(x, TasksFor(tasks, x))
      BY <1>1, <1>12, TakeEntries
    <3> QED
      BY <1>0, <1>12, <3>1, TailLine
  <2>3. Running(x) = {i \in Handlers : stack[i].result = x}
    BY DEF Running, Handlers
  <2>4. Running(x)' = {i \in Handlers' : stack'[i].result = x}
    BY DEF Running, Handlers
  <2>5. CASE x = p
    <3>1. InLine(x) /\ state[x] = Pending /\ Running(x) = {}
      BY <1>2, <1>3, <2>1, <2>2, <2>5 DEF HasEntry
    <3>2. NotInLine(x)'
      BY <1>2, <1>3, <2>2, <2>5, <3>1
    <3>3. Running(x)' = {Len(stack) + 1}
      BY <1>7, <1>10, <2>3, <2>4, <2>5, <3>1
    <3>4. \E i : Running(x)' = {i}
      BY <3>3
    <3> QED
      BY <1>1, <3>1, <3>2, <3>4 DEF HasEntry
  <2>6. CASE x # p
    <3>1. Running(x)' = Running(x)
      BY <1>7, <1>10, <2>3, <2>4, <2>6
    <3> QED
      BY <1>1, <1>2, <1>3, <2>1, <2>2, <2>6, <3>1 DEF HasEntry
  <2> QED
    BY <2>5, <2>6
<1>15. Moves(0) /\ 0 \notin Promise /\ 0 \notin resolvable
  <2>1. /\ 0 \notin Promise /\ 0 \notin resolvable /\ attached \in 0 .. MaxReactions
        /\ attached \in Nat /\ state \in [Promise -> State]
        /\ adopted \in [Promise -> 0 .. created]
        /\ reactions \in [Promise -> Seq(Reaction)]
    BY <1>0, BoundsAssumption DEF TypeInv, Promise
  <2>2. /\ created' = created /\ resolvable' = resolvable /\ finallyOf' = finallyOf
        /\ attached' = attached /\ state' = state /\ adopted' = adopted
        /\ reactions' = reactions /\ queue' \in Seq(TaskSet)
    BY <1>1, <1>12
  <2>3. \A q \in Promise : q = 0 => q \in 1 .. created
    BY <2>1
  <2> QED
    BY ONLY <2>1, <2>2, <2>3 DEF Moves
<1>16. \A y \in Entries' : y \in Entries /\ y.result # 0
  BY <1>0, <1>13 DEF Born
<1>17. ASSUME NEW i \in Handlers'
       PROVE  \/ i \in Handlers /\ stack'[i] = stack[i] /\ stack[i].result # 0
              \/ stack'[i].result \in 1 .. created /\ FrameFits(stack[i])'
  <2>1. CASE i \in Handlers
    BY <1>0, <1>10, <2>1 DEF Born
  <2>2. CASE i = Len(stack) + 1
    <3>1. FrameFits(stack[i])'
      BY <1>9, <1>10, <2>2
    <3> QED
      BY <1>3, <1>7, <1>10, <2>2, <3>1
  <2> QED
    BY <1>10, <2>1, <2>2
<1>18. \A x \in Promise : state'[x] = state[x] /\ x # 0
  BY <1>1, <1>15
<1> QED
  BY <1>1, <1>3, <1>10, <1>13, <1>14, <1>15, <1>16, <1>17, <1>18, MoveStep

\* run_microtask on a reaction without one: the settlement is passed on.
LEMMA PassStep ==
    ASSUME IInv, PassThrough
    PROVE  IInv'
<1>0. /\ TypeInv /\ Born /\ Waiting /\ Numbered /\ OneEntry /\ Fits /\ WaitsAndFollows
  BY DEF IInv
<1>1. /\ queue # <<>> /\ ~RunsHandler(NextTask)
      /\ Settle(Tail(queue), NextTask.reaction.result, Passed(NextTask))
      /\ lastRun' = [lastRun EXCEPT ![NextTask.reaction.source] = NextTask.reaction.no]
      /\ UNCHANGED <<created, stack, resolvable, attached, adopted, finallyOf>>
  BY DEF PassThrough
<1>2. PICK task, p, s, tasks :
         /\ task = NextTask /\ p = task.reaction.result /\ s = Passed(task)
         /\ tasks = Tail(queue)
  OBVIOUS
<1>3. /\ task = queue[1]
      /\ task.state \in Settlement /\ task.reaction \in Reaction
      /\ task.reaction.source \in Promise /\ p \in 1 .. created /\ p \in Promise
      /\ task.state = state[task.reaction.source] /\ ReactionFits(task.reaction)
      /\ Left(tasks, 1) /\ tasks \in Seq(TaskSet)
      /\ lastRun' \in [Promise -> 0 .. attached]
  BY <1>1, <1>2, TheTask DEF Left
<1>4. task.reaction.kind \in {"then", "finally", "pass"} /\ Settle(tasks, p, s)
  BY <1>1, <1>2, <1>3 DEF Reaction
<1>5. /\ task.reaction.kind = "pass" /\ task.state.how = "fulfilled" =>
            s = task.reaction.original
      /\ ~(task.reaction.kind = "pass" /\ task.state.how = "fulfilled") => s = task.state
      /\ s \in Settlement
  BY <1>2, <1>3 DEF Passed, ReactionFits
<1>6. SettleResult(p, s)
  BY <1>0, <1>1, <1>3, <1>4, <1>5, SettleStep
<1>7. OneEntry'
  <2> SUFFICES ASSUME NEW x \in Promise, Derived(x)' PROVE HasEntry(x)'
    BY DEF OneEntry
  <2>1. HasEntry(x)
    BY <1>0, <1>1 DEF OneEntry, Derived
  <2>2. /\ queue[1].reaction.result # x =>
              (NotInLine(x) => NotInLine(x)') /\ (InLine(x) => InLine(x)')
        /\ queue[1].reaction.result = x => ~NotInLine(x) /\ (InLine(x) => NotInLine(x)')
    <3>1. StaysInLine(x, TasksFor(tasks, x))
      BY <1>0, <1>3, <1>4, <1>5, SettleLine
    <3> QED
      BY <1>0, <1>3, <3>1, TailLine
  <2>3. Running(x)' = Running(x)
    BY <1>1 DEF Running
  <2>4. CASE x = p
    <3>1. InLine(x) /\ state[x] = Pending /\ Running(x) = {}
      BY <1>2, <1>3, <2>1, <2>2, <2>4 DEF HasEntry
    <3>2. NotInLine(x)'
      BY <1>2, <1>3, <2>2, <2>4, <3>1
    <3>3. state'[x] # Pending
      BY <1>5, <1>6, <2>4, <3>1, Settlements DEF SettleResult
    <3> QED
      BY <2>3, <3>1, <3>2, <3>3 DEF HasEntry
  <2>5. CASE x # p
    <3>1. state'[x] = state[x]
      BY <1>6, <2>5 DEF SettleResult
    <3> QED
      BY <1>2, <1>3, <2>1, <2>2, <2>3, <2>5, <3>1 DEF HasEntry
  <2> QED
    BY <2>4, <2>5
<1>8. Moves(0) /\ 0 \notin Promise /\ 0 \notin resolvable
  <2>1. /\ 0 \notin Promise /\ 0 \notin resolvable /\ attached \in 0 .. MaxReactions
        /\ attached \in Nat /\ state \in [Promise -> State]
        /\ adopted \in [Promise -> 0 .. created]
    BY <1>0, BoundsAssumption DEF TypeInv, Promise
  <2>2. \A q \in Promise : /\ state[q] \in Settlement => state'[q] = state[q]
                           /\ state'[q] = Unborn <=> state[q] = Unborn
                           /\ q = 0 => q \in 1 .. created
    BY <1>5, <1>6, <2>1, Settlements DEF SettleResult
  <2> QED
    BY <1>1, <1>6, <2>1, <2>2 DEF Moves, SettleResult
<1>9. \A y \in Entries' : y \in Entries /\ y.result # 0
  BY <1>0, <1>6 DEF Born, SettleResult
<1>10. ASSUME NEW i \in Handlers'
       PROVE  i \in Handlers /\ stack'[i] = stack[i] /\ stack[i].result # 0
  <2>1. i \in Handlers /\ stack'[i] = stack[i]
    BY <1>1 DEF Handlers
  <2> QED
    BY <1>0, <2>1 DEF Born
<1>11. ASSUME state[p] = Pending PROVE Follows(p)'
  <2> DEFINE source == task.reaction.source
  <2>1. /\ state'[p] = s /\ source \in Promise \ {p}
        /\ \A q \in Promise \ {p} : state'[q] = state[q]
        /\ task.state = state[source] /\ state[source] \in Settlement
        /\ adopted' = adopted /\ finallyOf' = finallyOf
    BY <1>1, <1>3, <1>6, <1>11, Settlements DEF SettleResult
  <2> HIDE DEF source
  <2>2. CASE task.reaction.kind = "then"
    <3>1. finallyOf[p] = 0 /\ (adopted[p] # 0 => adopted[p] = source) /\ s = state[source]
      BY <1>2, <1>3, <1>5, <2>1, <2>2 DEF ReactionFits, source
    <3> QED
      BY <2>1, <3>1 DEF Follows, Promise
  <2>3. CASE task.reaction.kind = "finally"
    <3>1. finallyOf[p] = source /\ adopted[p] = 0 /\ s = state[source]
      BY <1>2, <1>3, <1>5, <2>1, <2>3 DEF ReactionFits, source
    <3> QED
      BY <2>1, <3>1 DEF Follows, Promise
  <2>4. CASE task.reaction.kind = "pass"
    <3>1. /\ finallyOf[p] # 0 /\ adopted[p] = source
          /\ task.reaction.original = state[finallyOf[p]]
          /\ task.reaction.original \in Settlement
      BY <1>2, <1>3, <2>4 DEF ReactionFits, source
    <3>2. finallyOf[p] \in Promise \ {p} /\ state'[finallyOf[p]] = state[finallyOf[p]]
      <4>1. finallyOf[p] \in Promise
        BY <1>0, <1>3, <3>1, Exist
      <4>2. finallyOf[p] # p
        BY <1>11, <3>1, Settlements
      <4> QED
        BY <2>1, <4>1, <4>2
    <3>3. \/ s = state[finallyOf[p]] /\ state[source] # Rejected
          \/ s = Rejected
      BY <1>5, <2>1, <2>4, <3>1, Settlements
    <3>4. state'[source] = state[source] /\ state'[source] # Pending
      BY <2>1, Settlements
    <3> QED
      BY <2>1, <3>1, <3>2, <3>3, <3>4 DEF Follows
  <2> QED
    BY <1>4, <2>2, <2>3, <2>4
<1>12. ASSUME NEW x \in Promise PROVE (state'[x] = state[x] /\ x # 0) \/ Follows(x)'
  BY <1>6, <1>8, <1>11 DEF SettleResult
<1>13. stack' \in Seq(Frame) /\ Waiting' /\ Numbered'
  BY <1>0, <1>1, <1>6 DEF TypeInv, SettleResult
<1> QED
  BY <1>1, <1>3, <1>7, <1>8, <1>9, <1>10, <1>12, <1>13, MoveStep

-----------------------------------------------------------------------------
\* The invariant holds when the interpreter starts.
LEMMA InvInit == Init => IInv
<1> SUFFICES ASSUME Init PROVE IInv
  OBVIOUS
<1>1. TypeInv
  BY BoundsAssumption DEF Init, TypeInv, Promise, State, Frame, ProgramFrame, Value
<1>2. /\ \A p \in Promise : reactions[p] = <<>> /\ DOMAIN reactions[p] = {}
      /\ DOMAIN queue = {} /\ Handlers = {}
  BY DEF Init, Handlers, ProgramFrame
<1>3. Born /\ Waiting /\ Numbered
  BY <1>1, <1>2 DEF Init, Born, Entries, Waiting, Numbered, Promise
<1>4. OneEntry /\ Fits
  BY <1>1, <1>2 DEF Init, OneEntry, Derived, Fits, Entries
<1>5. WaitsAndFollows
  BY DEF Init, WaitsAndFollows, Adopts, Transparent
<1> QED
  BY <1>1, <1>3, <1>4, <1>5 DEF IInv

\* Steps that only change frames of programs and drains.
LEMMA StackStep ==
    ASSUME IInv, UNCHANGED <<created, state, reactions, queue, resolvable, attached,
                             histories>>,
           stack' \in Seq(Frame), Handlers' = Handlers,
           \A i \in Handlers : stack'[i] = stack[i]
    PROVE  IInv'
<1>0. /\ TypeInv /\ Born /\ Waiting /\ Numbered /\ OneEntry /\ Fits /\ WaitsAndFollows
      /\ UNCHANGED <<adopted, finallyOf, lastRun>>
  BY DEF IInv, histories
<1>1. TypeInv'
  BY <1>0 DEF TypeInv
<1>00. Entries' = Entries
  BY <1>0 DEF Entries
<1>2. Born'
  BY <1>0, <1>00 DEF Born
<1>3. Waiting' /\ Numbered'
  BY <1>0 DEF Waiting, Numbered
<1>4. OneEntry'
  <2> SUFFICES ASSUME NEW p \in Promise
               PROVE  Registered(p)' = Registered(p) /\ Queued(p)' = Queued(p)
                      /\ Running(p)' = Running(p)
    BY <1>0 DEF OneEntry, HasEntry, Derived, InLine, NotInLine
  <2>1. Registered(p)' = Registered(p) /\ Queued(p)' = Queued(p)
    BY <1>0 DEF Registered, Queued
  <2>2. Running(p) = {i \in Handlers : stack[i].result = p}
    BY DEF Running, Handlers
  <2>3. Running(p)' = {i \in Handlers' : stack'[i].result = p}
    BY DEF Running, Handlers
  <2> QED
    BY <2>1, <2>2, <2>3
<1>5. Fits'
  <2>1. \A rx : ReactionFits(rx)' <=> ReactionFits(rx)
    BY <1>0 DEF ReactionFits, Derived
  <2>2. \A f : FrameFits(f)' <=> FrameFits(f)
    BY <1>0 DEF FrameFits, Derived
  <2> QED
    BY <1>0, <1>00, <2>1, <2>2 DEF Fits
<1>6. WaitsAndFollows'
  BY <1>0 DEF WaitsAndFollows, Adopts, Transparent
<1> QED
  BY <1>1, <1>2, <1>3, <1>4, <1>5, <1>6 DEF IInv

\* await, programs and the end of a draining loop.
LEMMA FramesStep ==
    ASSUME IInv,
           \/ \E p \in 1 .. created : Await(p)
           \/ AwaitEnds \/ StartProgram \/ ProgramEnds \/ ProgramThrows \/ DrainEnds
    PROVE  IInv'
<1>0. /\ TypeInv /\ stack \in Seq(Frame)
      /\ UNCHANGED <<created, state, reactions, queue, resolvable, attached, histories>>
  BY DEF IInv, TypeInv, Await, AwaitEnds, StartProgram, ProgramEnds, ProgramThrows, DrainEnds
<1>1. CASE (\E p \in 1 .. created : Await(p)) \/ StartProgram
  <2>1. PICK f \in Frame : stack' = Append(stack, f) /\ f.what \in {"program", "drain"}
    <3>1. /\ ProgramFrame \in Frame /\ ProgramFrame.what = "program"
          /\ \A p \in 1 .. created : DrainFrame(p) \in Frame /\ DrainFrame(p).what = "drain"
      BY <1>0, BoundsAssumption
         DEF TypeInv, Value, Promise, ProgramFrame, DrainFrame, Frame
    <3> QED
      BY <1>1, <3>1 DEF Await, StartProgram, Push
  <2> QED
    BY <1>0, <2>1, PushEffect, StackStep
<1>2. CASE AwaitEnds \/ ProgramThrows \/ DrainEnds
  <2>1. stack # <<>> /\ stack' = Below /\ Top.what \in {"program", "drain"}
    BY <1>2 DEF AwaitEnds, ProgramThrows, DrainEnds, InUserCode, Draining
  <2>2. stack' \in Seq(Frame) /\ Handlers' = Handlers
    BY <1>0, <2>1, PopEffect DEF Handlers
  <2>3. \A i \in Handlers : stack'[i] = stack[i]
    BY <1>0, <2>1, <2>2, PopEffect
  <2> QED
    BY <1>0, <2>2, <2>3, StackStep
<1>3. CASE ProgramEnds
  <2> DEFINE f == DrainFrame(0)
  <2>0. f.what = "drain"
    BY DEF DrainFrame
  <2>1. /\ stack # <<>> /\ stack' = Append(Below, f) /\ Top.what = "program"
        /\ f \in Frame
    BY <1>3 DEF ProgramEnds, InUserCode, DrainFrame, Frame, Value
  <2> HIDE DEF f
  <2>2. /\ stack' \in Seq(Frame) /\ DOMAIN stack' = 1 .. Len(stack)
        /\ \A i \in 1 .. Len(stack) - 1 : stack'[i] = stack[i]
        /\ stack'[Len(stack)] = f
    BY <1>0, <2>1, ReplaceEffect
  <2>3. /\ Len(stack) \in Nat \ {0} /\ DOMAIN stack = 1 .. Len(stack)
        /\ stack[Len(stack)].what = "program"
    BY <1>0, <2>1, BelowEffect
  <2>4. Handlers' = Handlers /\ \A i \in Handlers : stack'[i] = stack[i]
    <3>1. Handlers = {i \in 1 .. Len(stack) - 1 : stack[i].what \in {"then", "finally"}}
      BY <2>3 DEF Handlers
    <3>2. \A i \in Handlers' : i \in 1 .. Len(stack) - 1
      <4>1. \A i \in Handlers' : i \in 1 .. Len(stack) /\ stack'[i] # f
        BY ONLY <2>0, <2>2 DEF Handlers
      <4> QED
        BY ONLY <2>2, <2>3, <4>1
    <3>3. Handlers' = {i \in 1 .. Len(stack) - 1 : stack'[i].what \in {"then", "finally"}}
      BY <2>2, <2>3, <3>2 DEF Handlers
    <3> QED
      BY <2>2, <3>1, <3>3
  <2> QED
    BY <1>0, <2>2, <2>4, StackStep
<1> QED
  BY <1>1, <1>2, <1>3
-----------------------------------------------------------------------------
\* Every step that makes a promise.
LEMMA CreationStep ==
    ASSUME IInv, \/ PromiseConstructor \/ SettledPromise
                 \/ \E p \in 1 .. created : PromiseThen(p) \/ PromiseFinally(p)
    PROVE  IInv'
<1>0. TypeInv /\ Born
  BY DEF IInv
<1>1. CASE PromiseConstructor
  BY <1>1, NewStep DEF PromiseConstructor
<1>2. CASE SettledPromise
  <2>1. PICK s \in {Fulfilled(v) : v \in 0 .. created} \cup {Rejected} : NewPromise(s)
    BY <1>2 DEF SettledPromise
  <2>2. \A v \in 0 .. created : v \in Value
    BY <1>0, Exist DEF Value
  <2>3. s \in Settlement
    BY <2>1, <2>2, Settlements
  <2> QED
    BY <1>2, <2>1, <2>3, NewStep DEF SettledPromise
<1>3. ASSUME NEW p \in 1 .. created, NEW kind, NEW handlers \in SUBSET {"fulfilled", "rejected"},
             NewPromise(Pending), Attach(p, kind, handlers, Pending, created + 1),
             UNCHANGED <<stack, resolvable, adopted, lastRun>>,
             \/ kind = "then" /\ UNCHANGED finallyOf
             \/ kind = "finally" /\ finallyOf' = [finallyOf EXCEPT ![created + 1] = p]
      PROVE  IInv'
  <2>1. created + 1 \in Promise /\ p \in Promise /\ state[p] # Unborn
    BY <1>0, <1>3, NewPromiseEffect, Exist DEF Born
  <2>2. PICK rx : rx = NewReaction(p, kind, handlers, Pending, created + 1)
    OBVIOUS
  <2>3. AttachEffect(p, rx)
    BY <1>0, <1>3, <2>1, <2>2, AttachLemma
  <2>4. rx.result = created + 1 /\ rx.kind = kind
    BY <2>2 DEF NewReaction
  <2> QED
    BY <1>3, <2>3, <2>4, DeriveStep
<1>4. ASSUME NEW p \in 1 .. created, PromiseThen(p) PROVE IInv'
  BY <1>3, <1>4 DEF PromiseThen, histories
<1>5. ASSUME NEW p \in 1 .. created, PromiseFinally(p) PROVE IInv'
  <2>1. PICK handlers \in {{}, {"fulfilled", "rejected"}} :
           Attach(p, "finally", handlers, Pending, created + 1)
    BY <1>5 DEF PromiseFinally
  <2> QED
    BY <1>3, <1>5, <2>1 DEF PromiseFinally
<1> QED
  BY <1>1, <1>2, <1>4, <1>5

\* Every step of a resolver.
LEMMA ScriptStep ==
    ASSUME IInv, NEW p \in 1 .. created, Resolve(p) \/ Reject(p)
    PROVE  IInv'
<1>0. TypeInv /\ p \in resolvable /\ UNCHANGED <<created, stack, resolvable, histories>>
  BY DEF IInv, Resolve, Reject
<1>1. CASE Reject(p)
  BY <1>0, <1>1, ResolverStep, Settlements DEF Reject
<1>2. CASE Resolve(p)
  <2>1. PICK v \in 0 .. created : ResolveWith(p, v)
    BY <1>2 DEF Resolve
  <2>2. v \in Value /\ (v \in Promise => v \in 1 .. created)
    BY <1>0, Exist DEF Value, Promise
  <2>3. CASE v = p
    BY <1>0, <2>1, <2>3, ResolverStep, Settlements DEF ResolveWith
  <2>4. CASE v # p /\ v \in Promise
    BY <1>0, <2>1, <2>2, <2>4, ResolverStep DEF ResolveWith
  <2>5. CASE v # p /\ v \notin Promise
    BY <1>0, <2>1, <2>2, <2>5, ResolverStep, Settlements DEF ResolveWith
  <2> QED
    BY <2>3, <2>4, <2>5
<1> QED
  BY <1>1, <1>2

\* Every way a handler ends.
LEMMA ReturnStep ==
    ASSUME IInv, ThenReturns \/ HandlerThrows \/ FinallyReturns
    PROVE  IInv'
<1>0. /\ TypeInv /\ stack # <<>> /\ Top.what \in {"then", "finally"} /\ stack' = Below
      /\ UNCHANGED <<created, resolvable, finallyOf, lastRun>>
  BY DEF IInv, ThenReturns, HandlerThrows, FinallyReturns, InUserCode, histories
<1>p. PICK p : p = Top.result
  OBVIOUS
<1>t. /\ p \in 1 .. created /\ p \in Promise /\ adopted[p] = 0
      /\ Top.what = "then" => finallyOf[p] = 0
      /\ Top.what = "finally" => Top.original = state[finallyOf[p]] /\ Top.original \in Settlement
      /\ adopted \in [Promise -> 0 .. created] /\ 0 \in 0 .. created /\ p \in 0 .. created
  <2>1. adopted \in [Promise -> 0 .. created] /\ created \in Nat
    BY <1>0, Exist DEF TypeInv
  <2>2. /\ p \in 1 .. created /\ p \in Promise /\ adopted[p] = 0
        /\ Top.what = "then" => finallyOf[p] = 0
        /\ Top.what = "finally" => Top.original = state[finallyOf[p]] /\ Top.original \in Settlement
    BY <1>0, <1>p, Returning
  <2> QED
    BY <2>1, <2>2
<1>1. CASE HandlerThrows
  <2>1. Settle(queue, p, Rejected) /\ UNCHANGED <<attached, adopted>>
    BY <1>1, <1>p DEF HandlerThrows, histories
  <2> QED
    BY <1>0, <1>p, <1>t, <2>1, ReturnSettles, Settlements
<1>2. CASE ThenReturns
  <2>1. PICK v \in 0 .. created : ResolveWith(p, v) /\ adopted' = [adopted EXCEPT ![p] = v]
    BY <1>2, <1>p DEF ThenReturns
  <2>2. /\ v \in Value /\ (v \in Promise => v \in 1 .. created)
        /\ v \notin Promise => v = 0
    BY <1>0, Exist DEF Value, Promise
  <2>3. /\ adopted' \in [Promise -> 0 .. created] /\ adopted'[p] = v
        /\ \A q \in Promise \ {p} : adopted'[q] = adopted[q]
    BY <1>t, <2>1
  <2>4. finallyOf[p] = 0 /\ Top.what = "then"
    BY <1>2, <1>t DEF ThenReturns
  <2>5. CASE v = p
    <3>1. Settle(queue, p, Rejected) /\ UNCHANGED attached
      BY <2>1, <2>5 DEF ResolveWith
    <3> QED
      BY <1>0, <1>p, <2>3, <2>4, <2>5, <3>1, ReturnSettles, Settlements
  <2>6. CASE v # p /\ v \notin Promise
    <3>1. Settle(queue, p, Fulfilled(v)) /\ UNCHANGED attached
      BY <2>1, <2>6 DEF ResolveWith
    <3>2. Fulfilled(v) \in Settlement
      BY <2>2, Settlements
    <3> QED
      BY <1>0, <1>p, <2>2, <2>3, <2>4, <2>6, <3>1, <3>2, ReturnSettles
  <2>7. CASE v # p /\ v \in Promise
    <3>1. Attach(v, "then", {}, Pending, p) /\ UNCHANGED state
      BY <2>1, <2>7 DEF ResolveWith
    <3>2. PICK rx : rx = NewReaction(v, "then", {}, Pending, p)
      OBVIOUS
    <3>3. rx.kind = "then" /\ rx.handlers = {} /\ rx.original = Pending
      BY <3>2 DEF NewReaction
    <3>4. v \in 1 .. created /\ Attach(v, rx.kind, rx.handlers, rx.original, p)
      BY <2>2, <2>7, <3>1, <3>3
    <3> QED
      BY <1>0, <1>p, <2>1, <2>4, <3>1, <3>2, <3>4, ReturnAttaches
  <2> QED
    BY <2>5, <2>6, <2>7
<1>3. CASE FinallyReturns
  <2>1. PICK v \in 0 .. created :
           /\ adopted' = [adopted EXCEPT ![p] = v]
           /\ v \in Promise => Attach(v, "pass", {}, Top.original, p) /\ UNCHANGED state
           /\ v \notin Promise => Settle(queue, p, Top.original) /\ UNCHANGED attached
    BY <1>3, <1>p DEF FinallyReturns
  <2>2. /\ v \in Promise => v \in 1 .. created
        /\ v \notin Promise => v = 0
    BY <1>0, Exist DEF Promise
  <2>3. /\ adopted' \in [Promise -> 0 .. created] /\ adopted'[p] = v
        /\ \A q \in Promise \ {p} : adopted'[q] = adopted[q]
    BY <1>t, <2>1
  <2>4. Top.what = "finally"
    BY <1>3 DEF FinallyReturns
  <2>5. CASE v \notin Promise
    BY <1>0, <1>p, <1>t, <2>1, <2>2, <2>3, <2>4, <2>5, ReturnSettles
  <2>6. CASE v \in Promise
    <3>1. PICK rx : rx = NewReaction(v, "pass", {}, Top.original, p)
      OBVIOUS
    <3>2. rx.kind = "pass" /\ rx.handlers = {} /\ rx.original = Top.original
      BY <3>1 DEF NewReaction
    <3>3. v \in 1 .. created /\ Attach(v, rx.kind, rx.handlers, rx.original, p)
      BY <2>1, <2>2, <2>6, <3>2
    <3> QED
      BY <1>0, <1>p, <2>1, <2>4, <2>6, <3>1, <3>3, ReturnAttaches
  <2> QED
    BY <2>5, <2>6
<1> QED
  BY <1>1, <1>2, <1>3

\* Every step keeps the invariant.
LEMMA InvNext == IInv /\ [Next]_vars => IInv'
<1> SUFFICES ASSUME IInv, [Next]_vars PROVE IInv'
  OBVIOUS
<1>1. CASE UNCHANGED vars
  <2>1. UNCHANGED <<created, state, reactions, queue, resolvable, attached, histories, stack>>
    BY <1>1 DEF vars, histories
  <2>2. stack' \in Seq(Frame) /\ Handlers' = Handlers
    BY <2>1 DEF Handlers, IInv, TypeInv
  <2> QED
    BY <2>1, <2>2, StackStep
<1>2. CASE Next
  <2>1. \/ PromiseConstructor \/ SettledPromise
        \/ \E p \in 1 .. created : PromiseThen(p) \/ PromiseFinally(p)
        \/ \E p \in 1 .. created : Resolve(p) \/ Reject(p)
        \/ ThenReturns \/ HandlerThrows \/ FinallyReturns
        \/ \E p \in 1 .. created : Await(p)
        \/ AwaitEnds \/ StartProgram \/ ProgramEnds \/ ProgramThrows \/ DrainEnds
        \/ CallHandler \/ PassThrough
    BY <1>2 DEF Next, UserCode, Drain
  <2> QED
    BY <2>1, CreationStep, ScriptStep, ReturnStep, FramesStep, CallStep, PassStep
<1> QED
  BY <1>1, <1>2

\* The inductive invariant holds in every reachable state.
THEOREM Invariance == Spec => []IInv
  BY InvInit, InvNext, PTL DEF Spec

\* Every state is well typed: ids, reactions, tasks and frames stay in range.
THEOREM TypeCorrect == Spec => []TypeInv
<1>1. IInv => TypeInv
  BY DEF IInv
<1> QED
  BY <1>1, Invariance, PTL

\* Adoption and finally: a promise that waits for another (resolve_promise_value,
\* process_finally_reaction) settles after it and the way it did.
THEOREM WaitsAndFollowsCorrect == Spec => []WaitsAndFollows
<1>1. IInv => WaitsAndFollows
  BY DEF IInv
<1> QED
  BY <1>1, Invariance, PTL

\* A promise made by then, catch or finally has exactly one reaction registered,
\* queued or running while it is pending (attach_promise_reaction,
\* settle_promise, run_microtask), and none afterwards.
THEOREM DerivedHasOneObligationCorrect == Spec => []DerivedHasOneObligation
<1>1. IInv => DerivedHasOneObligation
  <2> SUFFICES ASSUME IInv, NEW p \in 1 .. created, p \notin resolvable
               PROVE  Obligations(p) = IF state[p] = Pending THEN 1 ELSE 0
    BY DEF DerivedHasOneObligation
  <2>1. HasEntry(p)
    BY Exist DEF IInv, OneEntry, Derived
  <2>2. \A x : Cardinality({x}) = 1
    BY FS_Singleton
  <2>3. Cardinality({}) = 0
    BY FS_EmptySet
  <2>4. CASE state[p] = Pending
    <3>1. CASE Registered(p) = {} /\ Queued(p) = {} /\ \E i : Running(p) = {i}
      <4>1. PICK i : Running(p) = {i}
        BY <3>1
      <4>2. /\ Cardinality(Registered(p)) = 0 /\ Cardinality(Queued(p)) = 0
            /\ Cardinality(Running(p)) = 1
        BY <2>2, <2>3, <3>1, <4>1
      <4> QED
        BY <2>4, <4>2 DEF Obligations
    <3>2. CASE Registered(p) = {} /\ (\E i : Queued(p) = {i}) /\ Running(p) = {}
      <4>1. PICK i : Queued(p) = {i}
        BY <3>2
      <4>2. /\ Cardinality(Registered(p)) = 0 /\ Cardinality(Queued(p)) = 1
            /\ Cardinality(Running(p)) = 0
        BY <2>2, <2>3, <3>2, <4>1
      <4> QED
        BY <2>4, <4>2 DEF Obligations
    <3>3. CASE (\E r : Registered(p) = {r}) /\ Queued(p) = {} /\ Running(p) = {}
      <4>1. PICK r : Registered(p) = {r}
        BY <3>3
      <4>2. /\ Cardinality(Registered(p)) = 1 /\ Cardinality(Queued(p)) = 0
            /\ Cardinality(Running(p)) = 0
        BY <2>2, <2>3, <3>3, <4>1
      <4> QED
        BY <2>4, <4>2 DEF Obligations
    <3> QED
      BY <2>1, <2>4, <3>1, <3>2, <3>3 DEF HasEntry, InLine, NotInLine
  <2>5. CASE state[p] # Pending
    BY <2>1, <2>3, <2>5 DEF HasEntry, NotInLine, Obligations
  <2> QED
    BY <2>4, <2>5
<1> QED
  BY <1>1, Invariance, PTL

-----------------------------------------------------------------------------
\* Only a promise that is pending, or new, ever gets another state.
LEMMA StateStep ==
    ASSUME IInv, [Next]_vars
    PROVE  \A p \in Promise : state[p] \in Settlement => state'[p] = state[p]
<1>0. TypeInv /\ Born /\ state \in [Promise -> State]
  BY DEF IInv, TypeInv
<1>1. ASSUME NEW tasks, NEW p, NEW s, Settle(tasks, p, s)
      PROVE  \A q \in Promise : state[q] \in Settlement => state'[q] = state[q]
  BY <1>0, <1>1, Settlements DEF Settle
<1>2. ASSUME NEW p, NEW v, ResolveWith(p, v)
      PROVE  \A q \in Promise : state[q] \in Settlement => state'[q] = state[q]
  BY <1>1, <1>2 DEF ResolveWith
<1>3. ASSUME NEW s, NewPromise(s)
      PROVE  \A q \in Promise : state[q] \in Settlement => state'[q] = state[q]
  <2>1. ASSUME NEW q \in Promise, state[q] \in Settlement PROVE q # created + 1
    BY <1>0, <2>1, Settlements, Exist DEF Born
  <2>2. state' = [state EXCEPT ![created + 1] = s]
    BY <1>3 DEF NewPromise
  <2> QED
    BY <1>0, <2>1, <2>2
<1>4. CASE Next
  <2>1. CASE PromiseConstructor \/ SettledPromise
             \/ \E p \in 1 .. created : PromiseThen(p) \/ PromiseFinally(p)
    BY <1>3, <2>1 DEF PromiseConstructor, SettledPromise, PromiseThen, PromiseFinally
  <2>2. CASE \E p \in 1 .. created : Resolve(p) \/ Reject(p)
    BY <1>1, <1>2, <2>2 DEF Resolve, Reject
  <2>3. CASE ThenReturns \/ HandlerThrows
    BY <1>1, <1>2, <2>3 DEF ThenReturns, HandlerThrows
  <2>4. CASE FinallyReturns \/ PassThrough
    BY <1>1, <2>4 DEF FinallyReturns, PassThrough
  <2>5. CASE \/ \E p \in 1 .. created : Await(p)
             \/ AwaitEnds \/ StartProgram \/ ProgramEnds \/ ProgramThrows \/ DrainEnds
             \/ CallHandler
    BY <2>5 DEF Await, AwaitEnds, StartProgram, ProgramEnds, ProgramThrows, DrainEnds,
                CallHandler
  <2> QED
    BY <1>4, <2>1, <2>2, <2>3, <2>4, <2>5 DEF Next, UserCode, Drain
<1>5. CASE UNCHANGED vars
  BY <1>5 DEF vars
<1> QED
  BY <1>4, <1>5

\* A promise settles once, with one settlement, whoever calls its resolvers and
\* however often (settle_promise).
THEOREM SettledForGoodCorrect == Spec => SettledForGood
<1>1. IInv /\ [Next]_vars =>
         [\A p \in Promise : state[p] \in Settlement => state'[p] = state[p]]_vars
  BY StateStep
<1> QED
  BY <1>1, Invariance, PTL DEF Spec, SettledForGood

\* The reactions of one promise run in the order they were attached, also when
\* some of them run inside others (settle_promise, drain_microtasks).
THEOREM ReactionsInOrderCorrect == Spec => ReactionsInOrder
<1>1. ASSUME IInv, [Next]_vars
      PROVE  \A p \in Promise : lastRun'[p] >= lastRun[p]
  <2>1. \A p \in Promise : lastRun[p] \in Nat
    BY <1>1, BoundsAssumption DEF IInv, TypeInv
  <2>2. CASE UNCHANGED lastRun
    BY <2>1, <2>2
  <2>3. CASE CallHandler \/ PassThrough
    <3>1. /\ queue # <<>>
          /\ lastRun' = [lastRun EXCEPT ![NextTask.reaction.source] = NextTask.reaction.no]
      BY <2>3 DEF CallHandler, PassThrough
    <3>2. PICK task : task = NextTask
      OBVIOUS
    <3>3. task = queue[1] /\ task.reaction \in Reaction
      BY <1>1, <3>1, <3>2, TheTask
    <3>4. 1 \in DOMAIN queue
      BY <1>1, <3>1 DEF IInv, TypeInv
    <3>5. lastRun[task.reaction.source] < task.reaction.no /\ task.reaction.no \in Nat
      BY <1>1, <3>3, <3>4, Elements DEF IInv, Numbered
    <3>6. lastRun' = [lastRun EXCEPT ![task.reaction.source] = task.reaction.no]
          /\ lastRun \in [Promise -> Nat]
      <4>1. lastRun \in [Promise -> 0 .. attached]
        BY <1>1 DEF IInv, TypeInv
      <4> QED
        BY <2>1, <3>1, <3>2, <4>1
    <3> QED
      BY <2>1, <3>5, <3>6
  <2>4. CASE Next /\ ~(CallHandler \/ PassThrough)
    <3>1. UNCHANGED lastRun
      BY <2>4
      DEF Next, UserCode, Drain, PromiseConstructor, SettledPromise, PromiseThen,
          PromiseFinally, Resolve, Reject, ThenReturns, HandlerThrows, FinallyReturns,
          Await, AwaitEnds, StartProgram, ProgramEnds, ProgramThrows, DrainEnds, histories
    <3> QED
      BY <2>2, <3>1
  <2>5. CASE UNCHANGED vars
    BY <2>2, <2>5 DEF vars
  <2> QED
    BY <1>1, <2>3, <2>4, <2>5
<1>2. IInv /\ [Next]_vars => [\A p \in Promise : lastRun'[p] >= lastRun[p]]_vars
  BY <1>1
<1> QED
  BY <1>2, Invariance, PTL DEF Spec, ReactionsInOrder

-----------------------------------------------------------------------------
\* Chain(S) is the least set that contains S and all that its members wait for.
LEMMA ChainLeast ==
    ASSUME NEW S \in SUBSET Promise
    PROVE  /\ S \subseteq Chain(S) /\ Chain(S) \subseteq Promise
           /\ \A q \in Chain(S) : WaitsFor(q) \subseteq Chain(S)
           /\ \A C \in SUBSET Promise :
                 S \subseteq C /\ (\A q \in C : WaitsFor(q) \subseteq C) => Chain(S) \subseteq C
<1>1. \A q \in Promise : WaitsFor(q) \subseteq Promise
  BY DEF WaitsFor
<1> QED
  BY <1>1 DEF Chain

\* In a finite set where everyone waits for a member, someone waits for itself.
LEMMA ChainCloses ==
    ASSUME TypeInv, NEW C \in SUBSET Promise, C # {},
           \A p \in C : WaitsFor(p) # {} /\ WaitsFor(p) \subseteq C
    PROVE  \E p \in C : p \in Chain(WaitsFor(p))
<1> SUFFICES ASSUME \A p \in C : p \notin Chain(WaitsFor(p)) PROVE FALSE
  OBVIOUS
<1>1. ASSUME NEW p \in Promise
      PROVE  Chain(WaitsFor(p)) \in FiniteSubsetsOf(Promise)
  <2>1. IsFiniteSet(Promise)
    BY FS_Interval, BoundsAssumption DEF Promise
  <2>2. Chain(WaitsFor(p)) \subseteq Promise
    BY DEF Chain
  <2> QED
    BY <2>1, <2>2, FS_FiniteSubsetsOfFinite
<1> DEFINE R == {Chain(WaitsFor(p)) : p \in C}
<1>2. R \subseteq FiniteSubsetsOf(Promise) /\ R # {}
  BY <1>1
<1>3. PICK X \in R : \A Y \in R : ~ (<<Y, X>> \in StrictSubsetOrdering(Promise))
  BY <1>2, FS_StrictSubsetOrderingWellFounded, WFMin
<1>4. PICK p \in C : X = Chain(WaitsFor(p))
  OBVIOUS
<1>5. PICK q \in C : q \in WaitsFor(p)
  OBVIOUS
<1>6. q \in Chain(WaitsFor(p)) /\ WaitsFor(q) \subseteq Chain(WaitsFor(p))
  BY <1>5, ChainLeast DEF WaitsFor
<1>7. Chain(WaitsFor(q)) \subseteq Chain(WaitsFor(p))
  <2>1. WaitsFor(q) \subseteq Promise /\ WaitsFor(p) \subseteq Promise
    BY DEF WaitsFor
  <2> QED
    BY <1>6, <2>1, ChainLeast
<1>8. Chain(WaitsFor(q)) # Chain(WaitsFor(p))
  BY <1>6
<1>9. Chain(WaitsFor(q)) \in SUBSET Promise /\ Chain(WaitsFor(p)) \in SUBSET Promise
  BY DEF Chain
<1>10. Chain(WaitsFor(q)) \in R
  OBVIOUS
<1> QED
  BY <1>3, <1>4, <1>7, <1>8, <1>9, <1>10 DEF StrictSubsetOrdering

\* await (drain_microtasks_until_promise_settled) gives up on a pending promise
\* only where its chain of waiting leads to a script, to a handler that is
\* running further down the Rust stack, or back to itself.
THEOREM AwaitGivesUpForCauseCorrect == Spec => []AwaitGivesUpForCause
<1>1. IInv => AwaitGivesUpForCause
  <2> SUFFICES ASSUME IInv, Draining, queue = <<>>, Top.result # 0,
                      state[Top.result] = Pending
               PROVE  \E p \in Chain({Top.result}) :
                         p \in resolvable \/ Running(p) # {} \/ p \in Chain(WaitsFor(p))
    BY DEF AwaitGivesUpForCause
  <2>0. TypeInv /\ Born /\ Waiting /\ OneEntry
    BY DEF IInv
  <2>1. PICK x : x = Top.result
    OBVIOUS
  <2>2. x \in Promise /\ state[x] = Pending
    <3>1. Top \in Frame
      BY <2>0, BelowEffect DEF Draining
    <3>2. Top.result \in Value
      BY <3>1 DEF Frame
    <3> QED
      BY <2>1, <3>2 DEF Value
  <2> SUFFICES ASSUME \A p \in Chain({x}) : p \notin resolvable /\ Running(p) = {}
               PROVE  \E p \in Chain({x}) : p \in Chain(WaitsFor(p))
    BY <2>1
  <2>3. /\ x \in Chain({x}) /\ Chain({x}) \in SUBSET Promise
        /\ \A q \in Chain({x}) : WaitsFor(q) \subseteq Chain({x})
        /\ \A C \in SUBSET Promise :
              x \in C /\ (\A q \in C : WaitsFor(q) \subseteq C) => Chain({x}) \subseteq C
    BY <2>2, ChainLeast
  <2>4. \A p \in Chain({x}) : state[p] = Pending
    <3> DEFINE C == {q \in Promise : state[q] = Pending}
    <3>1. \A p \in Promise : WaitsFor(p) \subseteq C
      BY <2>0 DEF WaitsFor, Waiting
    <3>2. C \in SUBSET Promise /\ x \in C
      BY <2>2
    <3> QED
      BY <2>3, <3>1, <3>2
  <2>5. ASSUME NEW p \in Chain({x}) PROVE WaitsFor(p) # {}
    <3>1. p \in Promise /\ state[p] = Pending /\ p \notin resolvable /\ Running(p) = {}
      BY <2>3, <2>4, <2>5
    <3>2. Derived(p)
      <4>1. ~(p > created) /\ p \in Nat \ {0} /\ created \in Nat
        BY <2>0, <3>1, Exist, Settlements DEF Born, Promise
      <4> QED
        BY <3>1, <4>1 DEF Derived
    <3>3. Queued(p) = {}
      BY DEF Queued
    <3>4. PICK r : Registered(p) = {r}
      BY <2>0, <3>1, <3>2, <3>3 DEF OneEntry, HasEntry, InLine
    <3>5. r[1] \in WaitsFor(p)
      BY <3>4 DEF Registered, WaitsFor
    <3> QED
      BY <3>5
  <2> QED
    BY <2>0, <2>3, <2>5, ChainCloses
<1> QED
  BY <1>1, Invariance, PTL
=============================================================================
