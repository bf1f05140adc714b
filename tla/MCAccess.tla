------------------------------ MODULE MCAccess ------------------------------
(* Instances of Access for TLC. *)
EXTENDS Access, TLC

CONSTANTS p1, p2, w1, w2

\* A workspace in each of two projects.
Projects2 == {p1, p2}
Workspaces2 == {w1, w2}
\* A list of no projects stands for the caller's scope, which is one of these.
Scopes2 == {Global, Only({p1})}
ProjectOf2 == (w1 :> p1) @@ (w2 :> p2)

\* Ids are interchangeable.
Symmetry == Permutations(TokenIds) \cup Permutations(Agents)
=============================================================================
