---------------------------- MODULE MCAgentEvents ----------------------------
(* Instances of AgentEvents for TLC. *)
EXTENDS AgentEvents, TLC

\* The agents are interchangeable, and so are the callers.
Symmetry == Permutations(Agents) \cup Permutations(Callers)
=============================================================================
