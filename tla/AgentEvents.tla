----------------------------- MODULE AgentEvents -----------------------------
(***************************************************************************)
(* AgentLifecycle with its broadcasts apart from the status writes: the    *)
(* supervisor calls update_agent_state, which takes the lock of            *)
(* state.json, and then event_tx.send, and in between other tasks and      *)
(* requests go on.  In exchange the daemon does not exit: a watch does not *)
(* outlive it.  This is what a watch takes for granted about agents        *)
(* (AgentReports).                                                         *)
(*                                                                         *)
(* A history of the requests is kept as well: which of them add a row      *)
(* while another holds ports that it has read before.                      *)
(***************************************************************************)
EXTENDS AgentLifecycle

VARIABLES
    due,     \* per agent: a status that is taken and not yet broadcast
    silent,  \* history, per agent: its row changed and no broadcast followed
    missed,  \* history, per caller: rows added since it read the ports in use
    overlap  \* history: pairs of agents, the row of one added in between the
             \* other's request reading the ports and adding its row

eventVars == <<vars, due, silent, missed, overlap>>

EventInit ==
    /\ Init
    /\ due = [a \in Agents |-> None]
    /\ silent = [a \in Agents |-> FALSE]
    /\ missed = [c \in Callers |-> {}]
    /\ overlap = {}

\* event_tx.send
Broadcast(a) ==
    /\ due[a] # None
    /\ due' = [due EXCEPT ![a] = None]
    /\ silent' = [silent EXCEPT ![a] = FALSE]
    /\ UNCHANGED <<vars, missed, overlap>>

\* Fault: the broadcast is left to a task of its own.
BadAfterSend == TRUE
\* Who has written a status goes on when it is broadcast: the task, and the
\* request that called spawn, which writes the first.
AfterSend ==
    /\ \A a \in Agents : due[a] # None => pc'[a] = pc[a]
    /\ \A c \in Callers : call[c].at = "add" /\ due[call[c].agent] # None => call'[c] = call[c]

\* The request has read the ports in use, and has not added its row yet.
Holds(k) == k.at \in {"call", "mcp_sleep", "add"}

Added == {a \in Agents : row[a] = None /\ row'[a] # None}

\* What is added to the rows, the requests that hold ports have missed; and a
\* row overlaps those that its own request has missed.
Overlaps ==
    /\ missed' = [c \in Callers |-> IF Holds(call[c]) /\ Holds(call'[c])
                                       THEN missed[c] \cup Added ELSE {}]
    /\ overlap' = overlap \cup UNION {{{call[c].agent, b} : b \in missed[c]} :
                      c \in {d \in Callers : call[d].at = "add" /\ call[d].agent \in Added}}

\* A step of the lifecycle.  What it tells is due, what else it does to a row
\* is silent.
LifecycleStep ==
    /\ Next
    /\ UNCHANGED exits
    /\ AfterSend
    /\ Overlaps
    /\ due' = [a \in Agents |-> IF announced'[a] # announced[a] THEN announced'[a] ELSE due[a]]
    /\ silent' = [a \in Agents |->
                    silent[a] \/ (announced'[a] = announced[a] /\ row'[a] # row[a])]

EventNext == LifecycleStep \/ \E a \in Agents : Broadcast(a)

EventSpec == EventInit /\ [][EventNext]_eventVars

-----------------------------------------------------------------------------
\* "Each agent gets its own port" (tools_agent.rs:177) is kept by no lock: a port
\* is taken from a store that is read some steps before the row is added.  Two
\* rows share a port only if one was added in between those steps of the other's
\* request.  (Saving a stale copy, and Manager::down, whose agents keep their
\* rows and no longer count, break even that: a property of ModifyOps.)
PortsSharedOnlyByOverlap ==
    \A a, b \in Agents : a # b /\ HasRow(a) /\ HasRow(b) /\ opts[a].port = opts[b].port
                          => {a, b} \in overlap

\* What a watch takes for granted of the agents, of a task that takes any turn
\* and of requests that write any status.
R == INSTANCE AgentReports WITH task <- announced,
                                Turns <- [a \in Agents |-> Status],
                                Written <- Status

\* Tasks, requests and processes together do to the rows, and tell of them, only
\* what a watch expects: a task writes its statuses in order and broadcasts each
\* before the next; a row is only ever of an agent that has been announced, also
\* when a copy of state.json that was loaded before is saved; and nobody but the
\* agent's task broadcasts.
ImplementsReports == R!Reports
=============================================================================
