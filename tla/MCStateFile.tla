----------------------------- MODULE MCStateFile -----------------------------
(* Instances of StateFile for TLC. *)
EXTENDS StateFile, TLC

\* Inodes, changes, the daemon's threads and commands are interchangeable.
Symmetry == Permutations(Inodes) \cup Permutations(Changes)
                \cup Permutations(Workers) \cup Permutations(Clis)

\* States are told apart by what can still be read: not by the contents of
\* files that are gone, nor by what an idle thread did last.
Modifies(t) == at[t] # "idle" /\ kind[t] = "modify"

View ==
    <<path, tmp, [i \in Inodes |-> IF Unused(i) THEN Blank ELSE data[i]],
      lock, at, [t \in Threads |-> Modifies(t)], fd, copy,
      [t \in Threads |-> Modifies(t) /\ overtaken[t]], crashes>>
=============================================================================
