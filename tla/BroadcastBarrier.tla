-------------------------- MODULE BroadcastBarrier --------------------------
(***************************************************************************)
(* What `$262.agent.broadcast` promises, without mailboxes, locks or       *)
(* condition variables: opening a broadcast fixes the set of agents that   *)
(* owe it an answer, every one of them settles once, and the call returns  *)
(* only when nobody owes anything.  AgentRuntime implements it.            *)
(***************************************************************************)
CONSTANT Agent

VARIABLES open,   \* is a broadcast call in progress?
          owing   \* the agents that have not settled it yet

vars == <<open, owing>>

TypeOK == /\ open \in BOOLEAN
          /\ owing \subseteq Agent

Init == /\ open = FALSE
        /\ owing = {}

\* The set of addressees is fixed when the broadcast opens: an agent that
\* registers later owes nothing.
Open == /\ ~open
        /\ open' = TRUE
        /\ \E S \in SUBSET Agent : owing' = S

\* An agent answers, or is found closed.
Settle == /\ open
          /\ \E a \in owing : owing' = owing \ {a}
          /\ UNCHANGED open

Return == /\ open
          /\ owing = {}
          /\ open' = FALSE
          /\ UNCHANGED owing

Next == Open \/ Settle \/ Return

Spec == Init /\ [][Next]_vars
=============================================================================
