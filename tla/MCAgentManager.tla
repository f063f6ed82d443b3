--------------------------- MODULE MCAgentManager ---------------------------
(* Instances of AgentManager for TLC. *)
EXTENDS AgentManager, TLC

\* Request slots, agents and keys each play the same part everywhere.
Symmetry == Permutations(Calls) \cup Permutations(Agents) \cup Permutations(Keys)

\* A negative ttl, 0 for ever and a short one.
AnyTtl == {-1, 0, 1}
=============================================================================
