------------------------- MODULE MCWorkspaceManager -------------------------
(* Instances of WorkspaceManager for TLC. *)
EXTENDS WorkspaceManager, TLC

\* Callers and names are interchangeable.
Symmetry == Permutations(Callers) \cup Permutations(Workspaces)
=============================================================================
