--------------------------- MODULE AgentLifecycle ---------------------------
(***************************************************************************)
(* What src/manager/agent.manager.interface.ts (IAgentManager) promises of *)
(* startAgent and stopAgent, whatever the host: an agent is brought up and *)
(* taken down by one operation at a time, half-way states belong to the    *)
(* operation in progress, and a failure in between strands the agent for   *)
(* good: no later start or stop gets it out of there.                      *)
(***************************************************************************)
CONSTANTS
  Agents,
  MayFail      \* whether operations may fail half-way

VARIABLE phase   \* agent -> where it is in its life

Phases == {"absent", "starting", "running", "stopping", "stuck"}

Init == phase = [a \in Agents |-> "absent"]

Move(a, from, to) ==
  /\ phase[a] \in from
  /\ phase' = [phase EXCEPT ![a] = to]

\* startAgent: the first and the second half.
Start(a) == Move(a, {"absent"}, "starting") \/ Move(a, {"starting"}, "running")

\* stopAgent: in two halves, or in one.
Stop(a) == Move(a, {"running"}, "stopping") \/ Move(a, {"running", "stopping"}, "absent")

\* A start that failed half-way may have been undone.
Undo(a) == MayFail /\ Move(a, {"starting"}, "absent")

\* A failure strands any number of agents between two phases.
Strand(S) ==
  /\ MayFail
  /\ phase' = [a \in Agents |-> IF a \in S THEN "stuck" ELSE phase[a]]

Next ==
  \/ \E a \in Agents : Start(a) \/ Stop(a) \/ Undo(a)
  \/ \E S \in SUBSET Agents : Strand(S)

Spec == Init /\ [][Next]_phase
=============================================================================
