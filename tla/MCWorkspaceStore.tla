-------------------------- MODULE MCWorkspaceStore --------------------------
(* Instances of WorkspaceStore for TLC. *)
EXTENDS WorkspaceStore, TLC

\* The callers are interchangeable, and so are the workspaces.
Symmetry == Permutations(Callers) \cup Permutations(Workspaces)
=============================================================================
