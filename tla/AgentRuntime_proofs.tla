------------------------- MODULE AgentRuntime_proofs -------------------------
(***************************************************************************)
(* Proofs about AgentRuntime for any number of workers and broadcasts, any *)
(* report bound and any set of failures.  The inductive invariant says     *)
(* where an envelope may be, which lets the completion counter be compared *)
(* with the set of agents that owe an acknowledgement.                     *)
(***************************************************************************)
EXTENDS AgentRuntime, FiniteSetTheorems, TLAPS

\* A broadcast in progress has a number.
TypeInv == TypeOK /\ (InBroadcast => current \in Broadcast)

\* Where the envelopes and the two kinds of parked threads are.
EnvelopeInv ==
    /\ targets # {} => main = "enqueuing"
    /\ main = "parked" => remaining[current] > 0
    /\ \A a \in Agent :
          /\ pending[a] # NoEnvelope => /\ InBroadcast
                                        /\ pending[a] = current
                                        /\ held[a] = NoEnvelope
                                        /\ a \notin targets
                                        /\ ~closed[a]
          /\ held[a] # NoEnvelope => /\ InBroadcast
                                     /\ held[a] = current
                                     /\ a \notin targets
          /\ held[a] # NoEnvelope <=> worker[a] \in {"holding", "closeAck"}
          /\ closed[a] => worker[a] \in {"closeAck", "unregistering", "exited"}
          /\ worker[a] = "closeAck" => closed[a]
          /\ worker[a] = "parked" => pending[a] = NoEnvelope

\* What has become of every envelope that was addressed to a worker.
DeliveryInv ==
    \A b \in 1 .. current : \A a \in addressees[b] :
        \/ b \in received[a]
        \/ closed[a]
        \/ b = current /\ InBroadcast /\ (a \in targets \/ pending[a] = b)

\* How far a worker is, and whether it is in the registry.
RegistryInv ==
    \A a \in Agent :
        /\ a >= nextAgentId => worker[a] = "unborn"
        /\ worker[a] = "unborn" => started[a] = "empty"
        /\ worker[a] = "spawned" => a \in agents /\ started[a] = "empty"
        /\ started[a] = "ok" /\ ~closed[a] =>
              a \in agents /\ worker[a] \notin {"unregistering", "exited"}

IInv == TypeInv /\ EnvelopeInv /\ CompletionCountsOwing /\ DeliveryInv
                /\ RegistryInv

-----------------------------------------------------------------------------
\* The agents of any instance are finitely many, and so are those owing.
LEMMA AgentsFinite == \A S \in SUBSET Agent : /\ IsFiniteSet(S)
                                             /\ Cardinality(S) \in Nat
<1>1. IsFiniteSet(Agent)
  BY FS_Interval, ConstantsAssumption DEF Agent
<1> QED
  BY <1>1, FS_Subset, FS_CardinalityType

\* The types of the variables hold when the runtime is created.
LEMMA TypeInvInit == Init => TypeInv
BY ConstantsAssumption
   DEF Init, TypeInv, TypeOK, InBroadcast, Agent, Broadcast, NoEnvelope,
       MainPc, WorkerPc

\* acknowledge() saturates at zero and moves the caller's thread nowhere; it
\* may only wake the main thread up.
LEMMA AcknowledgeTyped ==
    ASSUME NEW b, remaining \in [Broadcast -> Nat], main \in MainPc,
           Acknowledge(b, main)
    PROVE  /\ remaining' \in [Broadcast -> Nat]
           /\ main' # main => main = "parked" /\ main' = "waiting"
<1>1. \A n \in Nat : (IF n = 0 THEN 0 ELSE n - 1) \in Nat
  OBVIOUS
<1> QED
  BY <1>1 DEF Acknowledge

\* Every operation of a thread keeps the types of the variables.
LEMMA TypeInvStep == TypeInv /\ [Next]_vars => TypeInv'
<1> SUFFICES ASSUME TypeInv, [Next]_vars PROVE TypeInv'
  OBVIOUS
<1> USE ConstantsAssumption
    DEF TypeInv, TypeOK, InBroadcast, Broadcast, NoEnvelope, MainPc, WorkerPc,
        mailboxVars, workerVars, historyVars
<1>1. CASE StartWorker
  BY <1>1 DEF StartWorker, Agent
<1>2. CASE StartReturns
  BY <1>2 DEF StartReturns
<1>3. CASE BroadcastBegin
  <2>1. Cardinality(agents) \in Nat
    BY AgentsFinite
  <2> QED
    BY <1>3, <2>1 DEF BroadcastBegin
<1>4. CASE Enqueue
  <2> PICK a \in targets : /\ targets' = targets \ {a}
                           /\ EnqueueOpen(a) \/ EnqueueClosed(a)
    BY <1>4 DEF Enqueue
  <2>1. CASE EnqueueOpen(a)
    BY <1>4, <2>1 DEF Enqueue, EnqueueOpen
  <2>2. CASE EnqueueClosed(a)
    <3>1. Acknowledge(current, main)
      BY <2>2 DEF EnqueueClosed
    <3> QED
      BY <1>4, <2>2, <3>1, AcknowledgeTyped DEF Enqueue, EnqueueClosed
  <2> QED
    BY <2>1, <2>2
<1>5. CASE CompletionWait
  BY <1>5 DEF CompletionWait
<1>6. CASE GetReport
  BY <1>6 DEF GetReport
<1>7. ASSUME NEW a \in Agent, Worker(a) PROVE TypeInv'
  <2> USE DEF Goto, SendStarted
  <2>1. CASE BuildFails(a)
    BY <2>1 DEF BuildFails
  <2>2. CASE InstallFails(a)
    BY <2>2 DEF InstallFails
  <2>3. CASE Started(a)
    BY <2>3 DEF Started
  <2>4. CASE Receive(a)
    BY <2>4 DEF Receive
  <2>5. CASE AcknowledgeReceived(a)
    <3>1. Acknowledge(held[a], main)
      BY <2>5 DEF AcknowledgeReceived
    <3> QED
      BY <2>5, <3>1, AcknowledgeTyped DEF AcknowledgeReceived
  <2>6. CASE Report(a)
    BY <2>6 DEF Report, PushReport
  <2>7. CASE ScriptEnds(a)
    BY <2>7 DEF ScriptEnds
  <2>8. CASE ScriptFails(a)
    BY <2>8 DEF ScriptFails, PushReport
  <2>9. CASE Close(a)
    BY <2>9 DEF Close
  <2>10. CASE CloseAcknowledge(a)
    <3>1. Acknowledge(held[a], main)
      BY <2>10 DEF CloseAcknowledge
    <3> QED
      BY <2>10, <3>1, AcknowledgeTyped DEF CloseAcknowledge
  <2>11. CASE Unregister(a)
    BY <2>11 DEF Unregister
  <2>12. CASE Panic(a)
    BY <2>12 DEF Panic
  <2> QED
    BY <1>7, <2>1, <2>2, <2>3, <2>4, <2>5, <2>6, <2>7, <2>8, <2>9, <2>10,
       <2>11, <2>12 DEF Worker
<1>8. CASE UNCHANGED vars
  BY <1>8 DEF vars
<1> QED
  BY <1>1, <1>2, <1>3, <1>4, <1>5, <1>6, <1>7, <1>8 DEF Next, Main

\* Every variable keeps its type: the counter never goes below zero, and an
\* envelope always belongs to a broadcast that was begun.
THEOREM TypeCorrect == Spec => []TypeOK
<1>1. TypeInv => TypeOK
  BY DEF TypeInv
<1> QED
  BY TypeInvInit, TypeInvStep, <1>1, PTL DEF Spec

-----------------------------------------------------------------------------
(* Where the envelopes are.                                                *)
LEMMA OwingFinite ==
    ASSUME TypeOK
    PROVE  IsFiniteSet(Owing) /\ Cardinality(Owing) \in Nat
BY AgentsFinite DEF Owing, TypeOK

\* Every operation keeps what is known of the envelopes on their way.
LEMMA EnvelopeInvStep ==
    ASSUME TypeInv, TypeInv', EnvelopeInv, CompletionCountsOwing,
           RegistryInv, [Next]_vars
    PROVE  EnvelopeInv'
<1> USE ConstantsAssumption
    DEF TypeInv, TypeOK, InBroadcast, Broadcast, NoEnvelope, MainPc, WorkerPc,
        mailboxVars, workerVars, historyVars, EnvelopeInv
<1>1. CASE StartWorker
  <2>1. nextAgentId \in Agent /\ worker[nextAgentId] = "unborn"
    BY <1>1 DEF StartWorker, RegistryInv, Agent
  <2> QED
    BY <1>1, <2>1 DEF StartWorker
<1>2. CASE StartReturns
  BY <1>2 DEF StartReturns
<1>3. CASE BroadcastBegin
  BY <1>3 DEF BroadcastBegin
<1>4. CASE Enqueue
  <2> PICK a \in targets : /\ targets' = targets \ {a}
                           /\ EnqueueOpen(a) \/ EnqueueClosed(a)
    BY <1>4 DEF Enqueue
  <2>1. CASE EnqueueOpen(a)
    BY <1>4, <2>1 DEF Enqueue, EnqueueOpen
  <2>2. CASE EnqueueClosed(a)
    BY <1>4, <2>2 DEF Enqueue, EnqueueClosed, Acknowledge
  <2> QED
    BY <2>1, <2>2
<1>5. CASE CompletionWait
  <2>1. remaining[current] = 0 => Owing = {}
    BY <1>5, OwingFinite, FS_EmptySet
       DEF CompletionWait, CompletionCountsOwing
  <2> QED
    BY <1>5, <2>1 DEF CompletionWait, Owing
<1>6. CASE GetReport
  BY <1>6 DEF GetReport
<1>7. ASSUME NEW a \in Agent, Worker(a) PROVE EnvelopeInv'
  <2> USE DEF Goto, SendStarted
  <2>1. CASE BuildFails(a)
    BY <2>1 DEF BuildFails
  <2>2. CASE InstallFails(a)
    BY <2>2 DEF InstallFails
  <2>3. CASE Started(a)
    BY <2>3 DEF Started
  <2>4. CASE Receive(a)
    BY <2>4 DEF Receive
  <2>5. CASE AcknowledgeReceived(a)
    BY <2>5 DEF AcknowledgeReceived, Acknowledge
  <2>6. CASE Report(a)
    BY <2>6 DEF Report, PushReport
  <2>7. CASE ScriptEnds(a)
    BY <2>7 DEF ScriptEnds
  <2>8. CASE ScriptFails(a)
    BY <2>8 DEF ScriptFails, PushReport
  <2>9. CASE Close(a)
    BY <2>9 DEF Close
  <2>10. CASE CloseAcknowledge(a)
    BY <2>10 DEF CloseAcknowledge, Acknowledge
  <2>11. CASE Unregister(a)
    BY <2>11 DEF Unregister
  <2>12. CASE Panic(a)
    BY <2>12 DEF Panic
  <2> QED
    BY <1>7, <2>1, <2>2, <2>3, <2>4, <2>5, <2>6, <2>7, <2>8, <2>9, <2>10,
       <2>11, <2>12 DEF Worker
<1>8. CASE UNCHANGED vars
  BY <1>8 DEF vars
<1> QED
  BY <1>1, <1>2, <1>3, <1>4, <1>5, <1>6, <1>7, <1>8 DEF Next, Main

-----------------------------------------------------------------------------
(* A running worker is registered.                                         *)
LEMMA RegistryInvStep ==
    ASSUME TypeInv, TypeInv', EnvelopeInv, RegistryInv, [Next]_vars
    PROVE  RegistryInv'
<1> USE ConstantsAssumption
    DEF TypeInv, TypeOK, InBroadcast, Broadcast, NoEnvelope, MainPc, WorkerPc,
        mailboxVars, workerVars, historyVars, RegistryInv
<1>1. CASE StartWorker
  <2>1. nextAgentId \in Agent /\ worker[nextAgentId] = "unborn"
    BY <1>1 DEF StartWorker, Agent
  <2> QED
    BY <1>1, <2>1 DEF StartWorker, Agent
<1>2. CASE StartReturns
  BY <1>2 DEF StartReturns
<1>3. CASE BroadcastBegin
  BY <1>3 DEF BroadcastBegin
<1>4. CASE Enqueue
  <2> PICK a \in targets : /\ targets' = targets \ {a}
                           /\ EnqueueOpen(a) \/ EnqueueClosed(a)
    BY <1>4 DEF Enqueue
  <2>1. CASE EnqueueOpen(a)
    BY <1>4, <2>1 DEF Enqueue, EnqueueOpen
  <2>2. CASE EnqueueClosed(a)
    BY <1>4, <2>2 DEF Enqueue, EnqueueClosed, Acknowledge
  <2> QED
    BY <2>1, <2>2
<1>5. CASE CompletionWait
  BY <1>5 DEF CompletionWait
<1>6. CASE GetReport
  BY <1>6 DEF GetReport
<1>7. ASSUME NEW a \in Agent, Worker(a) PROVE RegistryInv'
  <2> USE DEF Goto, SendStarted
  <2>1. CASE BuildFails(a)
    BY <2>1 DEF BuildFails
  <2>2. CASE InstallFails(a)
    BY <2>2 DEF InstallFails
  <2>3. CASE Started(a)
    BY <2>3 DEF Started
  <2>4. CASE Receive(a)
    BY <2>4 DEF Receive
  <2>5. CASE AcknowledgeReceived(a)
    BY <2>5 DEF AcknowledgeReceived, Acknowledge
  <2>6. CASE Report(a)
    BY <2>6 DEF Report, PushReport
  <2>7. CASE ScriptEnds(a)
    BY <2>7 DEF ScriptEnds
  <2>8. CASE ScriptFails(a)
    BY <2>8 DEF ScriptFails, PushReport
  <2>9. CASE Close(a)
    BY <2>9 DEF Close, EnvelopeInv
  <2>10. CASE CloseAcknowledge(a)
    BY <2>10 DEF CloseAcknowledge, Acknowledge, EnvelopeInv
  <2>11. CASE Unregister(a)
    BY <2>11 DEF Unregister
  <2>12. CASE Panic(a)
    BY <2>12 DEF Panic
  <2> QED
    BY <1>7, <2>1, <2>2, <2>3, <2>4, <2>5, <2>6, <2>7, <2>8, <2>9, <2>10,
       <2>11, <2>12 DEF Worker
<1>8. CASE UNCHANGED vars
  BY <1>8 DEF vars
<1> QED
  BY <1>1, <1>2, <1>3, <1>4, <1>5, <1>6, <1>7, <1>8 DEF Next, Main

-----------------------------------------------------------------------------
(* An addressee has received, has closed, or is still to be served.        *)
LEMMA DeliveryInvStep ==
    ASSUME TypeInv, TypeInv', EnvelopeInv, CompletionCountsOwing, DeliveryInv,
           [Next]_vars
    PROVE  DeliveryInv'
<1> USE ConstantsAssumption
    DEF TypeInv, TypeOK, InBroadcast, Broadcast, NoEnvelope, MainPc, WorkerPc,
        mailboxVars, workerVars, historyVars, DeliveryInv
<1>1. CASE StartWorker
  BY <1>1 DEF StartWorker
<1>2. CASE StartReturns
  BY <1>2 DEF StartReturns
<1>3. CASE BroadcastBegin
  BY <1>3 DEF BroadcastBegin
<1>4. CASE Enqueue
  <2> PICK a \in targets : /\ targets' = targets \ {a}
                           /\ EnqueueOpen(a) \/ EnqueueClosed(a)
    BY <1>4 DEF Enqueue
  <2>1. CASE EnqueueOpen(a)
    BY <1>4, <2>1 DEF Enqueue, EnqueueOpen
  <2>2. CASE EnqueueClosed(a)
    BY <1>4, <2>2 DEF Enqueue, EnqueueClosed, Acknowledge
  <2> QED
    BY <2>1, <2>2
<1>5. CASE CompletionWait
  <2>1. remaining[current] = 0 => Owing = {}
    BY <1>5, OwingFinite, FS_EmptySet
       DEF CompletionWait, CompletionCountsOwing
  <2> QED
    BY <1>5, <2>1 DEF CompletionWait, Owing
<1>6. CASE GetReport
  BY <1>6 DEF GetReport
<1>7. ASSUME NEW a \in Agent, Worker(a) PROVE DeliveryInv'
  <2> USE DEF Goto, SendStarted
  <2>1. CASE BuildFails(a)
    BY <2>1 DEF BuildFails
  <2>2. CASE InstallFails(a)
    BY <2>2 DEF InstallFails
  <2>3. CASE Started(a)
    BY <2>3 DEF Started
  <2>4. CASE Receive(a)
    BY <2>4 DEF Receive
  <2>5. CASE AcknowledgeReceived(a)
    BY <2>5 DEF AcknowledgeReceived, Acknowledge
  <2>6. CASE Report(a)
    BY <2>6 DEF Report, PushReport
  <2>7. CASE ScriptEnds(a)
    BY <2>7 DEF ScriptEnds
  <2>8. CASE ScriptFails(a)
    BY <2>8 DEF ScriptFails, PushReport
  <2>9. CASE Close(a)
    BY <2>9 DEF Close
  <2>10. CASE CloseAcknowledge(a)
    BY <2>10 DEF CloseAcknowledge, Acknowledge
  <2>11. CASE Unregister(a)
    BY <2>11 DEF Unregister
  <2>12. CASE Panic(a)
    BY <2>12 DEF Panic
  <2> QED
    BY <1>7, <2>1, <2>2, <2>3, <2>4, <2>5, <2>6, <2>7, <2>8, <2>9, <2>10,
       <2>11, <2>12 DEF Worker
<1>8. CASE UNCHANGED vars
  BY <1>8 DEF vars
<1> QED
  BY <1>1, <1>2, <1>3, <1>4, <1>5, <1>6, <1>7, <1>8 DEF Next, Main

-----------------------------------------------------------------------------
(* The completion counter.                                                 *)
\* A step that touches neither the counter nor an owing agent is harmless.
LEMMA CountUnchanged ==
    ASSUME CompletionCountsOwing, remaining' = remaining, current' = current,
           Owing' = Owing, InBroadcast' => InBroadcast
    PROVE  CompletionCountsOwing'
BY DEF CompletionCountsOwing

\* acknowledge() on behalf of an agent that owed lowers both sides by one.
LEMMA CountAcknowledged ==
    ASSUME TypeInv, CompletionCountsOwing, InBroadcast, NEW a \in Owing,
           Acknowledge(current, main), current' = current,
           Owing' = Owing \ {a}
    PROVE  CompletionCountsOwing'
<1>1. Cardinality(Owing \ {a}) = Cardinality(Owing) - 1
  BY OwingFinite, FS_RemoveElement DEF TypeInv
<1>2. remaining[current] = Cardinality(Owing) /\ remaining[current] # 0
  <2>1. Cardinality(Owing) # 0
    BY OwingFinite, FS_EmptySet DEF TypeInv
  <2> QED
    BY <2>1 DEF CompletionCountsOwing
<1>3. remaining'[current] = remaining[current] - 1
  BY <1>2 DEF Acknowledge, TypeInv, TypeOK, InBroadcast
<1> QED
  BY <1>1, <1>2, <1>3 DEF CompletionCountsOwing

\* Every operation keeps the completion of a broadcast equal to the agents that owe it.
LEMMA CompletionCountsOwingStep ==
    ASSUME TypeInv, TypeInv', EnvelopeInv, CompletionCountsOwing, [Next]_vars
    PROVE  CompletionCountsOwing'
<1> USE ConstantsAssumption
    DEF TypeInv, TypeOK, InBroadcast, Broadcast, NoEnvelope, MainPc, WorkerPc,
        mailboxVars, workerVars, historyVars
<1>1. CASE StartWorker
  BY <1>1, CountUnchanged DEF StartWorker, Owing
<1>2. CASE StartReturns
  BY <1>2, CountUnchanged DEF StartReturns, Owing
<1>3. CASE BroadcastBegin
  <2>1. Owing' = agents
    BY <1>3 DEF BroadcastBegin, Owing, EnvelopeInv
  <2> QED
    BY <1>3, <2>1 DEF BroadcastBegin, CompletionCountsOwing
<1>4. CASE Enqueue
  <2> PICK a \in targets : /\ targets' = targets \ {a}
                           /\ EnqueueOpen(a) \/ EnqueueClosed(a)
    BY <1>4 DEF Enqueue
  <2>1. CASE EnqueueOpen(a)
    <3>1. Owing' = Owing
      BY <1>4, <2>1 DEF Enqueue, EnqueueOpen, Owing
    <3> QED
      BY <1>4, <2>1, <3>1, CountUnchanged DEF Enqueue, EnqueueOpen
  <2>2. CASE EnqueueClosed(a)
    <3>1. /\ InBroadcast /\ a \in Owing
          /\ Acknowledge(current, main) /\ current' = current
      BY <1>4, <2>2 DEF Enqueue, EnqueueClosed, Owing
    <3>2. Owing' = Owing \ {a}
      BY <1>4, <2>2 DEF Enqueue, EnqueueClosed, Owing, EnvelopeInv
    <3> QED
      BY <3>1, <3>2, CountAcknowledged
  <2> QED
    BY <2>1, <2>2
<1>5. CASE CompletionWait
  BY <1>5, CountUnchanged DEF CompletionWait, Owing
<1>6. CASE GetReport
  BY <1>6, CountUnchanged DEF GetReport, Owing
<1>7. ASSUME NEW a \in Agent, Worker(a) PROVE CompletionCountsOwing'
  <2> USE DEF Goto, SendStarted
  <2>1. CASE BuildFails(a)
    BY <2>1, CountUnchanged DEF BuildFails, Owing
  <2>2. CASE InstallFails(a)
    BY <2>2, CountUnchanged DEF InstallFails, Owing
  <2>3. CASE Started(a)
    BY <2>3, CountUnchanged DEF Started, Owing
  <2>4. CASE Receive(a)
    <3>1. Owing' = Owing
      BY <2>4 DEF Receive, EnvelopeInv, Owing
    <3> QED
      BY <2>4, <3>1, CountUnchanged DEF Receive
  <2>5. CASE AcknowledgeReceived(a)
    <3>1. /\ InBroadcast /\ a \in Owing
          /\ Acknowledge(current, main) /\ current' = current
      BY <2>5 DEF AcknowledgeReceived, EnvelopeInv, Owing
    <3>2. Owing' = Owing \ {a}
      BY <2>5 DEF AcknowledgeReceived, EnvelopeInv, Owing
    <3> QED
      BY <3>1, <3>2, CountAcknowledged
  <2>6. CASE Report(a)
    BY <2>6, CountUnchanged DEF Report, Owing, PushReport
  <2>7. CASE ScriptEnds(a)
    BY <2>7, CountUnchanged DEF ScriptEnds, Owing
  <2>8. CASE ScriptFails(a)
    BY <2>8, CountUnchanged DEF ScriptFails, Owing, PushReport
  <2>9. CASE Close(a)
    <3>1. Owing' = Owing
      BY <2>9 DEF Close, EnvelopeInv, Owing
    <3> QED
      BY <2>9, <3>1, CountUnchanged DEF Close
  <2>10. CASE CloseAcknowledge(a)
    <3>1. /\ InBroadcast /\ a \in Owing
          /\ Acknowledge(current, main) /\ current' = current
      BY <2>10 DEF CloseAcknowledge, EnvelopeInv, Owing
    <3>2. Owing' = Owing \ {a}
      BY <2>10 DEF CloseAcknowledge, EnvelopeInv, Owing
    <3> QED
      BY <3>1, <3>2, CountAcknowledged
  <2>11. CASE Unregister(a)
    BY <2>11, CountUnchanged DEF Unregister, Owing
  <2>12. CASE Panic(a)
    BY <2>12, CountUnchanged DEF Panic, Owing
  <2> QED
    BY <1>7, <2>1, <2>2, <2>3, <2>4, <2>5, <2>6, <2>7, <2>8, <2>9, <2>10,
       <2>11, <2>12 DEF Worker
<1>8. CASE UNCHANGED vars
  BY <1>8, CountUnchanged DEF vars, Owing
<1> QED
  BY <1>1, <1>2, <1>3, <1>4, <1>5, <1>6, <1>7, <1>8 DEF Next, Main

-----------------------------------------------------------------------------
\* The inductive invariant holds at the start.
LEMMA IInvInit == Init => IInv
<1> SUFFICES ASSUME Init PROVE IInv
  OBVIOUS
<1>1. TypeInv
  BY TypeInvInit
<1>2. EnvelopeInv /\ DeliveryInv /\ RegistryInv /\ ~InBroadcast
  BY DEF Init, EnvelopeInv, DeliveryInv, RegistryInv, InBroadcast, NoEnvelope
<1> QED
  BY <1>1, <1>2 DEF IInv, CompletionCountsOwing

\* Every operation keeps the inductive invariant.
LEMMA IInvStep == IInv /\ [Next]_vars => IInv'
BY TypeInvStep, EnvelopeInvStep, CompletionCountsOwingStep, DeliveryInvStep,
   RegistryInvStep DEF IInv

\* The inductive invariant of the agent runtime holds always.
THEOREM Invariance == Spec => []IInv
BY IInvInit, IInvStep, PTL DEF Spec

\* The counter broadcast() waits on is the number of agents still owing.
THEOREM CounterCorrect == Spec => []CompletionCountsOwing
<1>1. IInv => CompletionCountsOwing
  BY DEF IInv
<1> QED
  BY Invariance, <1>1, PTL

\* No envelope outlives the call that created it.
THEOREM NoStaleEnvelopeCorrect == Spec => []NoStaleEnvelope
<1>1. IInv => NoStaleEnvelope
  BY DEF IInv, TypeInv, TypeOK, EnvelopeInv, NoStaleEnvelope, Owing,
         InBroadcast
<1> QED
  BY Invariance, <1>1, PTL

\* broadcast() returns only when each addressee received it or has closed.
THEOREM BarrierSoundCorrect == Spec => []BarrierSound
<1>1. IInv => BarrierSound
  BY DEF IInv, DeliveryInv, BarrierSound
<1> QED
  BY Invariance, <1>1, PTL

\* No thread is parked while what it waits for is there.
THEOREM NoLostWakeupCorrect == Spec => []NoLostWakeup
<1>1. IInv => NoLostWakeup
  BY DEF IInv, EnvelopeInv, NoLostWakeup
<1> QED
  BY Invariance, <1>1, PTL

\* A started worker stays registered until its mailbox is closed.
THEOREM StartedIsRegisteredCorrect == Spec => []StartedIsRegistered
<1>1. IInv => StartedIsRegistered
  BY DEF IInv, RegistryInv, StartedIsRegistered
<1> QED
  BY Invariance, <1>1, PTL

\* enqueue() never overwrites an envelope that still awaits its reader.
THEOREM NoEnvelopeOverwrittenCorrect == Spec => NoEnvelopeOverwritten
<1>1. IInv /\ [Next]_vars =>
          [\A a \in Agent : pending[a] # NoEnvelope =>
              pending'[a] \in {pending[a], NoEnvelope}]_vars
  <2> SUFFICES ASSUME IInv, Next, NEW a \in Agent, pending[a] # NoEnvelope
               PROVE  pending'[a] \in {pending[a], NoEnvelope}
    OBVIOUS
  <2> USE DEF IInv, TypeInv, TypeOK, mailboxVars
  <2>1. CASE Main
    BY <2>1 DEF Main, StartWorker, StartReturns, BroadcastBegin, Enqueue,
                EnqueueOpen, EnqueueClosed, CompletionWait, GetReport,
                EnvelopeInv
  <2>2. ASSUME NEW w \in Agent, Worker(w)
        PROVE  pending'[a] \in {pending[a], NoEnvelope}
    BY <2>2 DEF Worker, BuildFails, InstallFails, Started, Receive,
                AcknowledgeReceived, Report, ScriptEnds, ScriptFails, Close,
                CloseAcknowledge, Unregister, Panic
  <2> QED
    BY <2>1, <2>2 DEF Next
<1> QED
  BY Invariance, <1>1, PTL DEF Spec, NoEnvelopeOverwritten

-----------------------------------------------------------------------------
(* The runtime implements the barrier: BroadcastBegin opens it, the three  *)
(* ways of acknowledging settle it, CompletionWait returns from it.        *)
LEMMA BarrierStep ==
    ASSUME IInv, [Next]_vars
    PROVE  [Barrier!Next]_(Barrier!vars)
<1> USE DEF IInv, TypeInv, TypeOK, EnvelopeInv, InBroadcast, NoEnvelope,
            MainPc, mailboxVars, workerVars, historyVars, Barrier!vars
<1>1. CASE StartWorker
  BY <1>1 DEF StartWorker, Owing
<1>2. CASE StartReturns
  BY <1>2 DEF StartReturns, Owing
<1>3. CASE BroadcastBegin
  <2>1. Owing' = agents /\ agents \in SUBSET Agent
    BY <1>3 DEF BroadcastBegin, Owing
  <2>2. ~InBroadcast /\ InBroadcast'
    BY <1>3 DEF BroadcastBegin
  <2>3. Barrier!Open
    BY <2>1, <2>2 DEF Barrier!Open
  <2> QED
    BY <2>3 DEF Barrier!Next
<1>4. CASE Enqueue
  <2> PICK a \in targets : /\ targets' = targets \ {a}
                           /\ EnqueueOpen(a) \/ EnqueueClosed(a)
    BY <1>4 DEF Enqueue
  <2>1. CASE EnqueueOpen(a)
    <3>1. Owing' = Owing
      BY <1>4, <2>1 DEF Broadcast, Enqueue, EnqueueOpen, Owing
    <3>2. InBroadcast' = InBroadcast
      BY <1>4, <2>1 DEF Enqueue, EnqueueOpen
    <3> QED
      BY <3>1, <3>2
  <2>2. CASE EnqueueClosed(a)
    <3>1. Owing' = Owing \ {a} /\ a \in Owing
      BY <1>4, <2>2 DEF Enqueue, EnqueueClosed, Owing
    <3>2. InBroadcast /\ InBroadcast'
      BY <1>4, <2>2 DEF Enqueue, EnqueueClosed, Acknowledge
    <3>3. Barrier!Settle
      BY <3>1, <3>2 DEF Barrier!Settle
    <3> QED
      BY <3>3 DEF Barrier!Next
  <2> QED
    BY <2>1, <2>2
<1>5. CASE CompletionWait
  <2>1. Owing' = Owing /\ InBroadcast
    BY <1>5 DEF CompletionWait, Owing
  <2>2. CASE remaining[current] = 0
    <3>1. Owing = {}
      BY <2>1, <2>2, OwingFinite, FS_EmptySet DEF CompletionCountsOwing
    <3>2. ~InBroadcast'
      BY <1>5, <2>2 DEF CompletionWait
    <3>3. Barrier!Return
      BY <2>1, <3>1, <3>2 DEF Barrier!Return
    <3> QED
      BY <3>3 DEF Barrier!Next
  <2>3. CASE remaining[current] # 0
    <3>1. InBroadcast'
      BY <1>5, <2>3 DEF CompletionWait
    <3> QED
      BY <2>1, <3>1
  <2> QED
    BY <2>2, <2>3
<1>6. CASE GetReport
  BY <1>6 DEF GetReport, Owing
<1>7. ASSUME NEW a \in Agent, Worker(a)
      PROVE  [Barrier!Next]_(Barrier!vars)
  <2> USE DEF Goto, SendStarted
  <2>1. CASE BuildFails(a)
    BY <2>1 DEF BuildFails, Owing
  <2>2. CASE InstallFails(a)
    BY <2>2 DEF InstallFails, Owing
  <2>3. CASE Started(a)
    BY <2>3 DEF Started, Owing
  <2>4. CASE Receive(a)
    <3>1. Owing' = Owing /\ main' = main
      BY <2>4 DEF Receive, Owing
    <3> QED
      BY <3>1
  <2>5. CASE AcknowledgeReceived(a)
    <3>1. Owing' = Owing \ {a} /\ a \in Owing
      BY <2>5 DEF AcknowledgeReceived, Owing
    <3>2. InBroadcast /\ InBroadcast'
      BY <2>5 DEF AcknowledgeReceived, Acknowledge
    <3>3. Barrier!Settle
      BY <3>1, <3>2 DEF Barrier!Settle
    <3> QED
      BY <3>3 DEF Barrier!Next
  <2>6. CASE Report(a)
    BY <2>6 DEF Report, PushReport, Owing
  <2>7. CASE ScriptEnds(a)
    BY <2>7 DEF ScriptEnds, Owing
  <2>8. CASE ScriptFails(a)
    BY <2>8 DEF ScriptFails, PushReport, Owing
  <2>9. CASE Close(a)
    <3>1. Owing' = Owing /\ main' = main
      BY <2>9 DEF Close, Owing
    <3> QED
      BY <3>1
  <2>10. CASE CloseAcknowledge(a)
    <3>1. Owing' = Owing \ {a} /\ a \in Owing
      BY <2>10 DEF CloseAcknowledge, Owing
    <3>2. InBroadcast /\ InBroadcast'
      BY <2>10 DEF CloseAcknowledge, Acknowledge
    <3>3. Barrier!Settle
      BY <3>1, <3>2 DEF Barrier!Settle
    <3> QED
      BY <3>3 DEF Barrier!Next
  <2>11. CASE Unregister(a)
    BY <2>11 DEF Unregister, Owing
  <2>12. CASE Panic(a)
    BY <2>12 DEF Panic, Owing
  <2> QED
    BY <1>7, <2>1, <2>2, <2>3, <2>4, <2>5, <2>6, <2>7, <2>8, <2>9, <2>10,
       <2>11, <2>12 DEF Worker
<1>8. CASE UNCHANGED vars
  BY <1>8 DEF vars, Owing
<1> QED
  BY <1>1, <1>2, <1>3, <1>4, <1>5, <1>6, <1>7, <1>8 DEF Next, Main

\* The agent runtime implements the barrier, whatever fails in the workers.
THEOREM Refinement == Spec => ImplementsBarrier
<1>1. Init => Barrier!Init
  BY DEF Init, Barrier!Init, InBroadcast, Owing, NoEnvelope
<1>2. IInv /\ [Next]_vars => [Barrier!Next]_(Barrier!vars)
  BY BarrierStep
<1> QED
  BY <1>1, <1>2, Invariance, PTL
     DEF Spec, ImplementsBarrier, Barrier!Spec
=============================================================================
