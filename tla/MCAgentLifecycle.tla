-------------------------- MODULE MCAgentLifecycle --------------------------
(* Instances of AgentLifecycle for TLC. *)
EXTENDS AgentLifecycle, TLC

\* The agents are interchangeable, and so are the callers.
Symmetry == Permutations(Agents) \cup Permutations(Callers)
=============================================================================
