---------------------------- MODULE AgentReports ----------------------------
(***************************************************************************)
(* What the daemon tells of its agents, as a watch of them sees it: the    *)
(* task of an agent tries to write its status to the row in state.json and *)
(* then broadcasts it (agent_supervisor.rs spawn); requests add rows,      *)
(* change them and remove them, and broadcast nothing.                     *)
(*                                                                         *)
(* Module Watch builds the watches on it; module AgentEvents shows that    *)
(* the tasks, the requests and the processes of AgentLifecycle do no more  *)
(* than this.                                                              *)
(***************************************************************************)
EXTENDS Naturals

CONSTANTS
    Agents,
    Turns,    \* bound: per agent, the statuses that it takes
    Written,  \* the statuses that requests write to rows
    None

Status == {"starting", "ready", "busy", "error", "stopping", "stopped"}
ASSUME ReportsAssumption == Written \subseteq Status /\ None \notin Status

VARIABLES
    task,    \* per agent: the status its task took last
    due,     \* per agent: a status that is taken and not yet broadcast
    row,     \* per agent: its status in state.json, None without a row
    silent   \* history, per agent: its row changed and no broadcast followed

reportVars == <<task, due, row, silent>>

ReportsTypeOK ==
    /\ task \in [Agents -> Status \cup {None}]
    /\ due \in [Agents -> Status \cup {None}]
    /\ row \in [Agents -> Status \cup {None}]
    /\ silent \in [Agents -> BOOLEAN]

ReportsInit ==
    /\ task = [a \in Agents |-> None]
    /\ due = [a \in Agents |-> None]
    /\ row = [a \in Agents |-> None]
    /\ silent = [a \in Agents |-> FALSE]

HasRow(a) == row[a] # None

\* The statuses a task takes one after the other; it ends with the last.
Follows == [s \in Status |-> CASE s = "starting" -> {"ready", "error"}
                               [] s = "ready" -> {"busy", "stopping", "error"}
                               [] s = "busy" -> {"stopping", "error"}
                               [] s = "stopping" -> {"stopped"}
                               [] OTHER -> {}]

\* update_agent_state: without a row there is nothing to change, and a store
\* that cannot be read or written is no reason not to broadcast.
SetStatus(a, s) ==
    /\ due[a] = None
    /\ task' = [task EXCEPT ![a] = s]
    /\ due' = [due EXCEPT ![a] = s]
    /\ row' \in {row, IF HasRow(a) THEN [row EXCEPT ![a] = s] ELSE row}
    /\ UNCHANGED silent

Spawn(a) == task[a] = None /\ SetStatus(a, "starting")
Proceed(a) == task[a] # None /\ \E s \in Follows[task[a]] \cap Turns[a] : SetStatus(a, s)

\* event_tx.send, after the write of the row.
Broadcast(a) ==
    /\ due[a] # None
    /\ due' = [due EXCEPT ![a] = None]
    /\ silent' = [silent EXCEPT ![a] = FALSE]
    /\ UNCHANGED <<task, row>>

\* What requests do to the rows, without a word to the watches: spawn_agent
\* adds one, after the task has begun; stop_agent writes to one; restart_agent
\* removes one and destroy_workspace several; and a copy of state.json that was
\* loaded before is saved over all of them.
ChangeRows ==
    /\ row' \in [Agents -> Status \cup {None}]
    /\ \A a \in Agents :
          row'[a] # row[a] => task[a] # None /\ row'[a] \in Written \cup {None}
    /\ silent' = [a \in Agents |-> silent[a] \/ row'[a] # row[a]]
    /\ UNCHANGED <<task, due>>

ReportsNext == (\E a \in Agents : Spawn(a) \/ Proceed(a) \/ Broadcast(a)) \/ ChangeRows

Reports == ReportsInit /\ [][ReportsNext]_reportVars
=============================================================================
