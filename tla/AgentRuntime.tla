---------------------------- MODULE AgentRuntime ----------------------------
(***************************************************************************)
(* The test262 agents of the runtime (src/engine/runtime/agent.rs): the    *)
(* main thread starts worker threads, broadcasts a SharedArrayBuffer to    *)
(* all registered workers and blocks until each of them has acknowledged,  *)
(* and drains a report queue.  Each worker owns a mailbox with room for    *)
(* one envelope, guarded by a mutex and a condition variable; each         *)
(* broadcast owns a completion counter, guarded the same way.              *)
(*                                                                         *)
(* One action is one critical section.  A thread inside `Condvar::wait` is *)
(* "parked" and moves on only when another thread notifies it.             *)
(***************************************************************************)
EXTENDS Integers, Sequences, FiniteSets

CONSTANTS MaxAgents,      \* bound: workers started during a run
          MaxBroadcasts,  \* bound: broadcasts during a run
          MaxReports,     \* bound: reports a script pushes in its life
          Faults          \* which failures of a worker may happen

FaultKinds == {"build", "install", "script", "panic"}

ASSUME ConstantsAssumption ==
    /\ MaxAgents \in Nat
    /\ MaxBroadcasts \in Nat
    /\ MaxReports \in Nat
    /\ Faults \subseteq FaultKinds

Agent     == 0 .. MaxAgents - 1      \* AgentMailbox::id
Broadcast == 1 .. MaxBroadcasts      \* one BroadcastCompletion each
NoEnvelope == 0                      \* Option::None for an envelope

VARIABLES
    nextAgentId,  \* AgentRuntime::next_agent_id
    agents,       \* AgentRuntimeState::agents (pushed in id order)
    reports,      \* AgentRuntimeState::reports
    pending,      \* AgentMailboxState::pending
    closed,       \* AgentMailboxState::closed
    remaining,    \* BroadcastCompletion::remaining
    started,      \* the started_tx/started_rx channel of each worker
    worker,       \* where each worker thread is
    held,         \* the envelope a worker has taken and not acknowledged
    reported,     \* how many reports each worker has pushed
    main,         \* where the main thread is
    current,      \* number of broadcasts begun
    targets,      \* clone of `agents` still to be enqueued to
    addressees,   \* history: the workers each broadcast was addressed to
    received      \* history: the broadcasts each worker received

mailboxVars == <<pending, closed>>
historyVars == <<addressees, received>>
workerVars  == <<started, worker, held, reported>>
vars == <<nextAgentId, agents, reports, pending, closed, remaining, started,
          worker, held, reported, main, current, targets, addressees, received>>

WorkerPc == {"unborn", "spawned", "script", "parked", "woken", "holding",
             "closing", "closeAck", "unregistering", "exited", "panicked"}
MainPc == {"script", "starting", "enqueuing", "waiting", "parked"}

TypeOK ==
    /\ nextAgentId \in 0 .. MaxAgents
    /\ agents \subseteq Agent
    /\ reports \in Seq([from : Agent, kind : {"report", "error"}])
    /\ pending \in [Agent -> Broadcast \cup {NoEnvelope}]
    /\ closed \in [Agent -> BOOLEAN]
    /\ remaining \in [Broadcast -> Nat]
    /\ started \in [Agent -> {"empty", "ok", "err", "dropped"}]
    /\ worker \in [Agent -> WorkerPc]
    /\ held \in [Agent -> Broadcast \cup {NoEnvelope}]
    /\ reported \in [Agent -> Nat]
    /\ main \in MainPc
    /\ current \in 0 .. MaxBroadcasts
    /\ targets \subseteq Agent
    /\ addressees \in [Broadcast -> SUBSET Agent]
    /\ received \in [Agent -> SUBSET Broadcast]

Init ==
    /\ nextAgentId = 0
    /\ agents = {}
    /\ reports = <<>>
    /\ pending = [a \in Agent |-> NoEnvelope]
    /\ closed = [a \in Agent |-> FALSE]
    /\ remaining = [b \in Broadcast |-> 0]
    /\ started = [a \in Agent |-> "empty"]
    /\ worker = [a \in Agent |-> "unborn"]
    /\ held = [a \in Agent |-> NoEnvelope]
    /\ reported = [a \in Agent |-> 0]
    /\ main = "script"
    /\ current = 0
    /\ targets = {}
    /\ addressees = [b \in Broadcast |-> {}]
    /\ received = [a \in Agent |-> {}]

-----------------------------------------------------------------------------
(* BroadcastCompletion::acknowledge: a saturating decrement that wakes the *)
(* broadcaster when it reaches zero.                                       *)
Acknowledge(b, here) ==
    /\ remaining' = [remaining EXCEPT ![b] = IF @ = 0 THEN 0 ELSE @ - 1]
    /\ main' = IF here = "parked" /\ b = current /\ remaining[b] = 1
               THEN "waiting" ELSE here

(* AgentRuntime::start_worker: the mailbox is registered before the thread *)
(* exists; the caller then blocks on the channel.                          *)
StartWorker ==
    /\ main = "script"
    /\ nextAgentId < MaxAgents
    /\ nextAgentId' = nextAgentId + 1
    /\ agents' = agents \cup {nextAgentId}
    /\ worker' = [worker EXCEPT ![nextAgentId] = "spawned"]
    /\ main' = "starting"
    /\ UNCHANGED <<reports, mailboxVars, remaining, started, held, reported,
                   current, targets, historyVars>>

\* started_rx.recv() yields Ok, Err or a disconnect; the last two throw a
\* TypeError the script may catch, so the script goes on in every case.
StartReturns ==
    /\ main = "starting"
    /\ started[nextAgentId - 1] # "empty"
    /\ main' = "script"
    /\ UNCHANGED <<nextAgentId, agents, reports, mailboxVars, remaining,
                   workerVars, current, targets, historyVars>>

\* Mutant: the counter leaves one addressee out.
BroadcastBeginOneShort ==
    /\ main = "script"
    /\ current < MaxBroadcasts
    /\ current' = current + 1
    /\ targets' = agents
    /\ remaining' = [remaining EXCEPT ![current + 1] = Cardinality(agents) - 1]
    /\ addressees' = [addressees EXCEPT ![current + 1] = agents]
    /\ main' = "enqueuing"
    /\ UNCHANGED <<nextAgentId, agents, reports, mailboxVars, workerVars,
                   received>>

(* AgentRuntime::broadcast, up to the loop: snapshot of the registry.      *)
BroadcastBegin ==
    /\ main = "script"
    /\ current < MaxBroadcasts
    /\ current' = current + 1
    /\ targets' = agents
    /\ remaining' = [remaining EXCEPT ![current + 1] = Cardinality(agents)]
    /\ addressees' = [addressees EXCEPT ![current + 1] = agents]
    /\ main' = "enqueuing"
    /\ UNCHANGED <<nextAgentId, agents, reports, mailboxVars, workerVars,
                   received>>

\* Mutant: no notify_all after the envelope is stored.
EnqueueOpenSilently(a) ==
    /\ ~closed[a]
    /\ pending' = [pending EXCEPT ![a] = current]
    /\ UNCHANGED <<worker, remaining, main>>

(* AgentMailbox::enqueue on the next mailbox of the snapshot.              *)
EnqueueOpen(a) ==
    /\ ~closed[a]
    /\ pending' = [pending EXCEPT ![a] = current]
    /\ worker' = [worker EXCEPT ![a] = IF @ = "parked" THEN "woken" ELSE @]
    /\ UNCHANGED <<remaining, main>>

\* Mutant: a closed mailbox drops the envelope without acknowledging it.
EnqueueClosedDrops(a) ==
    /\ closed[a]
    /\ UNCHANGED <<pending, worker, remaining, main>>

EnqueueClosed(a) ==
    /\ closed[a]
    /\ Acknowledge(current, main)
    /\ UNCHANGED <<pending, worker>>

Enqueue ==
    /\ main = "enqueuing"
    /\ \E a \in targets :
          /\ \A other \in targets : a <= other
          /\ targets' = targets \ {a}
          /\ EnqueueOpen(a) \/ EnqueueClosed(a)
    /\ UNCHANGED <<nextAgentId, agents, reports, closed, started, held,
                   reported, current, historyVars>>

\* Mutant: broadcast() returns without completion.wait().
CompletionNoWait ==
    /\ main = "enqueuing" /\ targets = {}
    /\ main' = "script"
    /\ UNCHANGED <<nextAgentId, agents, reports, mailboxVars, remaining,
                   workerVars, current, targets, historyVars>>

(* BroadcastCompletion::wait: the loop test under the completion's mutex.  *)
CompletionWait ==
    /\ \/ main = "enqueuing" /\ targets = {}
       \/ main = "waiting"
    /\ main' = IF remaining[current] = 0 THEN "script" ELSE "parked"
    /\ UNCHANGED <<nextAgentId, agents, reports, mailboxVars, remaining,
                   workerVars, current, targets, historyVars>>

(* AgentRuntime::pop_report (getReport).                                   *)
GetReport ==
    /\ main = "script"
    /\ reports # <<>>
    /\ reports' = Tail(reports)
    /\ UNCHANGED <<nextAgentId, agents, mailboxVars, remaining, workerVars,
                   main, current, targets, historyVars>>

-----------------------------------------------------------------------------
(* run_worker_agent: the start handshake and its failures.                 *)
Goto(a, pc) == worker' = [worker EXCEPT ![a] = pc]
SendStarted(a, msg) == started' = [started EXCEPT ![a] = msg]

\* Context::builder().build() failed: Err is sent, then the worker leaves
\* the registry; its mailbox is never closed.
BuildFails(a) ==
    /\ "build" \in Faults
    /\ worker[a] = "spawned"
    /\ SendStarted(a, "err")
    /\ Goto(a, "unregistering")
    /\ UNCHANGED <<nextAgentId, agents, reports, mailboxVars, remaining, held,
                   reported, main, current, targets, historyVars>>

\* install_host_globals or install_test262_globals failed.
InstallFails(a) ==
    /\ "install" \in Faults
    /\ worker[a] = "spawned"
    /\ SendStarted(a, "err")
    /\ Goto(a, "closing")
    /\ UNCHANGED <<nextAgentId, agents, reports, mailboxVars, remaining, held,
                   reported, main, current, targets, historyVars>>

Started(a) ==
    /\ worker[a] = "spawned"
    /\ SendStarted(a, "ok")
    /\ Goto(a, "script")
    /\ UNCHANGED <<nextAgentId, agents, reports, mailboxVars, remaining, held,
                   reported, main, current, targets, historyVars>>

(* AgentMailbox::receive, one turn of its loop: take the envelope, give up *)
(* on a closed mailbox (a TypeError in the script), or park.               *)
Receive(a) ==
    /\ worker[a] \in {"script", "woken"}
    /\ held' = [held EXCEPT ![a] = pending[a]]
    /\ pending' = [pending EXCEPT ![a] = NoEnvelope]
    /\ received' = [received EXCEPT ![a] = @ \cup ({pending[a]} \ {NoEnvelope})]
    /\ Goto(a, IF pending[a] # NoEnvelope THEN "holding"
               ELSE IF closed[a] THEN "script" ELSE "parked")
    /\ UNCHANGED <<nextAgentId, agents, reports, closed, remaining, started,
                   reported, main, current, targets, addressees>>

(* host_worker_receive_broadcast after receive(): acknowledge, then run    *)
(* the callback, which is again script and may receive again.              *)
AcknowledgeReceived(a) ==
    /\ worker[a] = "holding"
    /\ Acknowledge(held[a], main)
    /\ held' = [held EXCEPT ![a] = NoEnvelope]
    /\ Goto(a, "script")
    /\ UNCHANGED <<nextAgentId, agents, reports, mailboxVars, started,
                   reported, current, targets, historyVars>>

PushReport(a, kind) ==
    /\ reports' = Append(reports, [from |-> a, kind |-> kind])
    /\ reported' = [reported EXCEPT ![a] = @ + 1]

(* $262.agent.report.                                                      *)
Report(a) ==
    /\ worker[a] = "script"
    /\ reported[a] < MaxReports
    /\ PushReport(a, "report")
    /\ UNCHANGED <<nextAgentId, agents, mailboxVars, remaining, started, held,
                   worker, main, current, targets, historyVars>>

ScriptEnds(a) ==
    /\ worker[a] = "script"
    /\ Goto(a, "closing")
    /\ UNCHANGED <<nextAgentId, agents, reports, mailboxVars, remaining,
                   started, held, reported, main, current, targets,
                   historyVars>>

\* eval or run_jobs returned an error: "worker-error: ..." is reported.
ScriptFails(a) ==
    /\ "script" \in Faults
    /\ worker[a] = "script"
    /\ PushReport(a, "error")
    /\ Goto(a, "closing")
    /\ UNCHANGED <<nextAgentId, agents, mailboxVars, remaining, started, held,
                   main, current, targets, historyVars>>

(* AgentMailbox::close: an envelope still pending is taken under the lock  *)
(* and acknowledged after it is released.                                  *)
Close(a) ==
    /\ worker[a] = "closing"
    /\ closed' = [closed EXCEPT ![a] = TRUE]
    /\ held' = [held EXCEPT ![a] = pending[a]]
    /\ pending' = [pending EXCEPT ![a] = NoEnvelope]
    /\ Goto(a, IF pending[a] # NoEnvelope THEN "closeAck" ELSE "unregistering")
    /\ UNCHANGED <<nextAgentId, agents, reports, remaining, started, reported,
                   main, current, targets, historyVars>>

CloseAcknowledge(a) ==
    /\ worker[a] = "closeAck"
    /\ Acknowledge(held[a], main)
    /\ held' = [held EXCEPT ![a] = NoEnvelope]
    /\ Goto(a, "unregistering")
    /\ UNCHANGED <<nextAgentId, agents, reports, mailboxVars, started,
                   reported, current, targets, historyVars>>

(* AgentRuntime::unregister_agent, the last thing a worker does.           *)
Unregister(a) ==
    /\ worker[a] = "unregistering"
    /\ agents' = agents \ {a}
    /\ Goto(a, "exited")
    /\ UNCHANGED <<nextAgentId, reports, mailboxVars, remaining, started, held,
                   reported, main, current, targets, historyVars>>

\* The thread unwinds while it builds the context or evaluates the script:
\* its end of the channel is dropped, the mailbox stays open and registered.
Panic(a) ==
    /\ "panic" \in Faults
    /\ worker[a] \in {"spawned", "script"}
    /\ SendStarted(a, IF started[a] = "empty" THEN "dropped" ELSE started[a])
    /\ Goto(a, "panicked")
    /\ UNCHANGED <<nextAgentId, agents, reports, mailboxVars, remaining, held,
                   reported, main, current, targets, historyVars>>

-----------------------------------------------------------------------------
Main == StartWorker \/ StartReturns \/ BroadcastBegin \/ Enqueue
        \/ CompletionWait \/ GetReport

Worker(a) ==
    \/ BuildFails(a) \/ InstallFails(a) \/ Started(a)
    \/ Receive(a) \/ AcknowledgeReceived(a) \/ Report(a)
    \/ ScriptEnds(a) \/ ScriptFails(a)
    \/ Close(a) \/ CloseAcknowledge(a) \/ Unregister(a)
    \/ Panic(a)

Next == Main \/ \E a \in Agent : Worker(a)

Spec == Init /\ [][Next]_vars

(* The operating system schedules every runnable thread, a call the main   *)
(* thread has entered runs on, and a worker's script does not compute for  *)
(* ever between two host calls.                                            *)
Fairness ==
    /\ WF_vars(StartReturns \/ Enqueue \/ CompletionWait)
    /\ \A a \in Agent : WF_vars(Worker(a))

FairSpec == Spec /\ Fairness

-----------------------------------------------------------------------------
InBroadcast == main \in {"enqueuing", "waiting", "parked"}

\* The agents whose acknowledgement the current broadcast still misses.
Owing == targets \cup {a \in Agent : pending[a] # NoEnvelope}
                 \cup {a \in Agent : held[a] # NoEnvelope}

\* The completion counter of the broadcast in progress is exactly the number
\* of agents that still owe it an acknowledgement: not yet enqueued to, with
\* the envelope in the mailbox, or between taking it and acknowledging.
\* (enqueue, receive, close and acknowledge keep this across three locks.)
CompletionCountsOwing ==
    InBroadcast => remaining[current] = Cardinality(Owing)

\* Outside broadcast() no envelope is left anywhere: the next broadcast can
\* never find the one-place mailbox occupied.
NoStaleEnvelope == ~InBroadcast => Owing = {}

\* broadcast() is a barrier: once it has returned, every worker that was
\* registered when it began has received that broadcast or has closed.
BarrierSound ==
    \A b \in 1 .. current : (b # current \/ ~InBroadcast) =>
        \A a \in addressees[b] : b \in received[a] \/ closed[a]

\* Nobody sleeps through a notification: a worker parked in receive() has an
\* empty open mailbox, a main thread parked in wait() misses answers.
NoLostWakeup ==
    /\ \A a \in Agent : worker[a] = "parked" =>
                            pending[a] = NoEnvelope /\ ~closed[a]
    /\ main = "parked" => remaining[current] > 0

\* A worker whose start() succeeded stays registered until its mailbox is
\* closed, so a broadcast issued after start() cannot pass it by.
StartedIsRegistered ==
    \A a \in Agent : started[a] = "ok" /\ ~closed[a] => a \in agents

\* `pending = Some(envelope)` in enqueue() never destroys an envelope whose
\* acknowledgement somebody is waiting for.
NoEnvelopeOverwritten ==
    [][\A a \in Agent : pending[a] # NoEnvelope =>
            pending'[a] \in {pending[a], NoEnvelope}]_vars

\* A worker that is gone without close(): its envelope is never acknowledged.
Dead(a) == /\ worker[a] \in {"exited", "panicked"}
           /\ pending[a] # NoEnvelope

\* With failures, a broadcast hangs only on a worker that died unclosed.
BroadcastReturnsOrDead == InBroadcast ~> (~InBroadcast \/ \E a \in Agent : Dead(a))

Barrier == INSTANCE BroadcastBarrier WITH open <- InBroadcast, owing <- Owing

\* The mailboxes and counters implement the barrier, whatever fails in the
\* workers: each step settles one agent, opens, returns or changes nothing.
ImplementsBarrier == Barrier!Spec
=============================================================================
