------------------------------- MODULE MCWatch -------------------------------
(* Instances of Watch for TLC. *)
EXTENDS Watch, TLC

CONSTANTS a1, a2

\* One agent lives to its end, the other only starts.
Agents2 == {a1, a2}
Turns2 == (a1 :> {"starting", "ready", "stopping", "stopped"}) @@ (a2 :> {"starting"})
=============================================================================
