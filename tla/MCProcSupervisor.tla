-------------------------- MODULE MCProcSupervisor --------------------------
(* Instances of ProcSupervisor for TLC. *)
EXTENDS ProcSupervisor
=============================================================================
