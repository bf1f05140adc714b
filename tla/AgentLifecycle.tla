--------------------------- MODULE AgentLifecycle ---------------------------
(***************************************************************************)
(* The life of an A2A agent: the rows of state.json that describe it, the  *)
(* map of AgentSupervisor, the task the supervisor spawns for it, the      *)
(* child process of that task, and the request handlers (gRPC, MCP, REST,  *)
(* GUI) that run concurrently with all of these.                           *)
(*                                                                         *)
(* Grain of atomicity.  state::modify holds SAVE_LOCK over load, change    *)
(* and save, so each call is one step; state::load reads a file that is    *)
(* only ever replaced by rename, so it is one step too (module StateFile   *)
(* models the file below this grain).  A handler is cut at every such      *)
(* call.  A broadcast that follows a status write with no await between    *)
(* them belongs to the step of the write (module AgentEvents parts them).  *)
(*                                                                         *)
(* The operators named Bad... are faults: variants of the definition below *)
(* them with a bug the code could plausibly have.  No action uses one; they *)
(* are there to show that the properties notice.                           *)
(***************************************************************************)
EXTENDS Integers, FiniteSets

CONSTANTS
    Agents,       \* agent ids: each spawn takes one that was never used
    Workspaces,   \* workspace names
    Callers,      \* concurrent requests
    Ports,        \* ACP_PORT_BASE .. ACP_PORT_MAX
    Ops,          \* the operations the callers of this instance issue
    Prompts,      \* whether a spawn carries an initial prompt
    MaxExits,     \* bound on the number of daemon exits
    None          \* "no value"

\* Operations that change state.json under its lock only ...
ModifyOps == {"spawn", "mcp_spawn", "stop", "mcp_stop", "restart",
              "mcp_restart", "destroy"}
\* ... and those that load it, edit the copy and save the whole copy back.
SaveOps == {"create", "up", "down", "delete", "mcp_destroy", "mgr_destroy"}
OpNames == ModifyOps \cup SaveOps

Status == {"starting", "ready", "busy", "error", "stopping", "stopped"}
WsState == {"absent", "inactive", "active"}

ASSUME PortsAssumption == Ports \subseteq Nat
ASSUME OpsAssumption == Ops \subseteq OpNames
ASSUME PromptsAssumption == Prompts \subseteq BOOLEAN
ASSUME MaxExitsAssumption == MaxExits \in Nat
ASSUME NoneAssumption ==
    /\ None \notin Agents
    /\ None \notin Workspaces
    /\ None \notin Ports
    /\ None \notin Status
    /\ None \notin WsState

VARIABLES
    ws,          \* state.json: "absent", "inactive" or "active"
    row,         \* state.json: the status in the agent's row, None without one
    opts,        \* ManagedAgent: workspace, port and prompt given to spawn
    sup,         \* keys of AgentSupervisor.agents
    pc,          \* where the supervisor's task for the agent is
    permit,      \* stop_signal holds a permit (Notify::notify_one)
    child,       \* the OS process of the agent
    announced,   \* the last status broadcast for the agent
    call,        \* per caller: the handler's position and locals
    exits,       \* daemon exits so far
    forgotten,   \* history: agents whose task vanished with a daemon process
    unwritten,   \* history: agents whose row did not get their last status
    late         \* history: agents started for a workspace that is gone, or
                 \* whose agents a destroy has signalled and which goes next

vars == <<ws, row, opts, sup, pc, permit, child, announced, call, exits,
          forgotten, unwritten, late>>

taskVars == <<opts, call, ws, exits, forgotten, late>>
callVars == <<exits, forgotten, unwritten, late>>

TaskPc == {"unborn", "spawn", "health", "card", "prompt", "run",
           "kill_failed", "grace", "reaped", "unmap", "done"}
ChildState == {"none", "booting", "serving", "exited"}
CallPc == {"idle", "call", "add", "write_stopping", "remove", "alloc",
           "drop_ws", "mcp_sleep", "save", "save_then_spawn",
           "save_then_remove"}

\* state.json as the other parts of the daemon see it.
Store == [ws: [Workspaces -> WsState], row: [Agents -> Status \cup {None}]]

Call == [at: CallPc,
         agent: Agents \cup {None},     \* the agent spawned, or stopped
         old: Agents \cup {None},       \* the agent a restart replaces
         ws: Workspaces \cup {None},
         port: Ports \cup {None},
         used: SUBSET Ports,            \* ports taken in the loaded store
         store: Store \cup {None},      \* the copy to be saved
         to: WsState \cup {None},       \* what the copy makes of workspace ws
         prompted: BOOLEAN]

Opts == [ws: Workspaces, port: Ports, prompt: BOOLEAN]
ASSUME OptsAssumption == None \notin Opts

IdleCall == [at |-> "idle", agent |-> None, old |-> None, ws |-> None,
             port |-> None, used |-> {}, store |-> None, to |-> None,
             prompted |-> FALSE]

TypeOK ==
    /\ ws \in [Workspaces -> WsState]
    /\ row \in [Agents -> Status \cup {None}]
    /\ opts \in [Agents -> Opts \cup {None}]
    /\ sup \in SUBSET Agents
    /\ pc \in [Agents -> TaskPc]
    /\ permit \in [Agents -> BOOLEAN]
    /\ child \in [Agents -> ChildState]
    /\ announced \in [Agents -> Status \cup {None}]
    /\ call \in [Callers -> Call]
    /\ exits \in Nat
    /\ forgotten \in SUBSET Agents
    /\ unwritten \in SUBSET Agents
    /\ late \in SUBSET Agents

Init ==
    /\ ws \in [Workspaces -> {"absent", "active"}]
    /\ row = [a \in Agents |-> None]
    /\ opts = [a \in Agents |-> None]
    /\ sup = {}
    /\ pc = [a \in Agents |-> "unborn"]
    /\ permit = [a \in Agents |-> FALSE]
    /\ child = [a \in Agents |-> "none"]
    /\ announced = [a \in Agents |-> None]
    /\ call = [c \in Callers |-> IdleCall]
    /\ exits = 0
    /\ forgotten = {}
    /\ unwritten = {}
    /\ late = {}

-----------------------------------------------------------------------------
(* The store and the ports *)

HasRow(a) == row[a] # None

\* Agents of workspace w that have a row, and that the supervisor manages.
RowsOf(w) == {a \in Agents : HasRow(a) /\ opts[a].ws = w}
ManagedIn(w) == {a \in sup : opts[a].ws = w}

\* The rows without those of workspace w.
DropRows(r, w) ==
    [a \in Agents |-> IF r[a] # None /\ opts[a].ws = w THEN None ELSE r[a]]

Alive(a) == child[a] \in {"booting", "serving"}

\* Fault: an agent that failed no longer reserves its port.
BadUsedPorts == {opts[a].port : a \in {b \in Agents :
                     row[b] \notin {None, "error"} /\ ws[opts[b].ws] = "active"}}

\* allocate_agent_port: ports in the rows of active workspaces are taken.
UsedPorts == {opts[a].port : a \in {b \in Agents :
                  HasRow(b) /\ ws[opts[b].ws] = "active"}}

\* is_port_available: a bind succeeds unless a process listens there.
Available(p) == \A a \in Agents : child[a] = "serving" => opts[a].port # p

\* p is what allocate_agent_port returns for a store where `used` is taken.
Allocates(used, p) ==
    /\ p \in Ports \ used
    /\ Available(p)
    /\ \A q \in Ports : q < p => q \in used \/ ~Available(q)

\* Without a row there is nothing to change.
WriteStatus(a, s) == row' = IF HasRow(a) THEN [row EXCEPT ![a] = s] ELSE row

\* update_agent_state.  When state.json cannot be read or written that is
\* logged and the task goes on: the row keeps the status it had.
SetStatus(a, s) ==
    \/ WriteStatus(a, s) /\ unwritten' = unwritten \ {a}
    \/ HasRow(a) /\ row' = row /\ unwritten' = unwritten \cup {a}

Announce(a, s) == announced' = [announced EXCEPT ![a] = s]

\* stop_signal.notify_one for those of S that are in the map.
Signal(S) == permit' = [a \in Agents |-> permit[a] \/ a \in S \cap sup]

-----------------------------------------------------------------------------
(* Request handlers.  A handler begins on an idle caller. *)

Begin(c, op) == call[c].at = "idle" /\ op \in Ops
Finish(c) == call' = [call EXCEPT ![c] = IdleCall]

\* spawn_agent: load, find the workspace, allocate a port from that snapshot.
\* Only the MCP tool insists on an active workspace.
SpawnLoad(c, w) ==
    /\ \/ Begin(c, "spawn") /\ ws[w] # "absent"
       \/ Begin(c, "mcp_spawn") /\ ws[w] = "active"
    /\ \E p \in Ports, prompted \in Prompts :
         /\ Allocates(UsedPorts, p)
         /\ call' = [call EXCEPT ![c] = [IdleCall EXCEPT
                        !.at = "call", !.ws = w, !.port = p,
                        !.prompted = prompted]]
    /\ UNCHANGED <<ws, row, opts, sup, pc, permit, child, announced>>
    /\ UNCHANGED callVars

\* A destroy of w has signalled the agents it found, or w is gone.
BeingDestroyed(w) ==
    ws[w] = "absent" \/ \E c \in Callers : call[c].at = "drop_ws" /\ call[c].ws = w

\* AgentSupervisor::spawn: a fresh id enters the map, the task is started.
\* Its update_agent_state finds no row: the handler adds the row afterwards.
SpawnCall(c) ==
    /\ call[c].at = "call"
    /\ \E a \in Agents :
         /\ pc[a] = "unborn"
         /\ opts' = [opts EXCEPT ![a] = [ws |-> call[c].ws,
                                         port |-> call[c].port,
                                         prompt |-> call[c].prompted]]
         /\ sup' = sup \cup {a}
         /\ pc' = [pc EXCEPT ![a] = "spawn"]
         /\ Announce(a, "starting")
         /\ call' = [call EXCEPT ![c].at = "add", ![c].agent = a]
         /\ late' = IF BeingDestroyed(call[c].ws) THEN late \cup {a} ELSE late
    /\ UNCHANGED <<ws, row, permit, child, exits, forgotten, unwritten>>

\* modify(add_agent): nothing is added to a workspace that is gone.  The MCP
\* restart removes the old row under the same lock.
SpawnAdd(c) ==
    /\ call[c].at = "add"
    /\ row' = [a \in Agents |->
                 IF a = call[c].agent /\ ws[call[c].ws] # "absent"
                   THEN "starting"
                   ELSE IF a = call[c].old THEN None ELSE row[a]]
    /\ Finish(c)
    /\ UNCHANGED <<ws, opts, sup, pc, permit, child, announced>>
    /\ UNCHANGED callVars

\* stop_agent (gRPC): load, find the row, signal the supervisor ...
StopSignal(c, a) ==
    /\ Begin(c, "stop")
    /\ HasRow(a)
    /\ Signal({a})
    /\ call' = [call EXCEPT ![c] = [IdleCall EXCEPT
                   !.at = "write_stopping", !.agent = a]]
    /\ UNCHANGED <<ws, row, opts, sup, pc, child, announced>>
    /\ UNCHANGED callVars

\* ... then modify(update_agent_status(Stopping)), whatever the row now says.
StopWrite(c) ==
    /\ call[c].at = "write_stopping"
    /\ WriteStatus(call[c].agent, "stopping")
    /\ Finish(c)
    /\ UNCHANGED <<ws, opts, sup, pc, permit, child, announced>>
    /\ UNCHANGED callVars

\* agent_stop (MCP) and the agents window only signal.
McpStop(c, a) ==
    /\ Begin(c, "mcp_stop")
    /\ HasRow(a)
    /\ Signal({a})
    /\ UNCHANGED <<ws, row, opts, sup, pc, child, announced, call>>
    /\ UNCHANGED callVars

\* restart_agent (gRPC): signal, remove the row, load and allocate, spawn.
RestartSignal(c, a) ==
    /\ Begin(c, "restart")
    /\ HasRow(a)
    /\ Signal({a})
    /\ call' = [call EXCEPT ![c] = [IdleCall EXCEPT
                   !.at = "remove", !.agent = a, !.ws = opts[a].ws]]
    /\ UNCHANGED <<ws, row, opts, sup, pc, child, announced>>
    /\ UNCHANGED callVars

RestartRemove(c) ==
    /\ call[c].at = "remove"
    /\ row' = [row EXCEPT ![call[c].agent] = None]
    /\ call' = [call EXCEPT ![c].at = "alloc"]
    /\ UNCHANGED <<ws, opts, sup, pc, permit, child, announced>>
    /\ UNCHANGED callVars

\* No free port: the request fails, with the old agent already gone.
RestartAlloc(c) ==
    /\ call[c].at = "alloc"
    /\ IF \E p \in Ports : Allocates(UsedPorts, p)
         THEN \E p \in Ports :
                /\ Allocates(UsedPorts, p)
                /\ call' = [call EXCEPT ![c].at = "call", ![c].port = p]
         ELSE Finish(c)
    /\ UNCHANGED <<ws, row, opts, sup, pc, permit, child, announced>>
    /\ UNCHANGED callVars

\* agent_restart (MCP): load, signal, sleep 500 ms, allocate from the store
\* loaded before the sleep; the row is replaced after the spawn (SpawnAdd).
McpRestartSignal(c, a) ==
    /\ Begin(c, "mcp_restart")
    /\ HasRow(a)
    /\ Signal({a})
    /\ call' = [call EXCEPT ![c] = [IdleCall EXCEPT
                   !.at = "mcp_sleep", !.old = a, !.ws = opts[a].ws,
                   !.used = UsedPorts]]
    /\ UNCHANGED <<ws, row, opts, sup, pc, child, announced>>
    /\ UNCHANGED callVars

McpRestartAlloc(c) ==
    /\ call[c].at = "mcp_sleep"
    /\ IF \E p \in Ports : Allocates(call[c].used, p)
         THEN \E p \in Ports :
                /\ Allocates(call[c].used, p)
                /\ call' = [call EXCEPT ![c].at = "call", ![c].port = p]
         ELSE Finish(c)
    /\ UNCHANGED <<ws, row, opts, sup, pc, permit, child, announced>>
    /\ UNCHANGED callVars

\* Fault: the agents are looked up in the rows, as workspace_destroy does.
BadDestroySignal(c, w) ==
    /\ Begin(c, "destroy")
    /\ ws[w] # "absent"
    /\ Signal(RowsOf(w))
    /\ call' = [call EXCEPT ![c] = [IdleCall EXCEPT !.at = "drop_ws",
                                                    !.ws = w]]
    /\ late' = late \ ManagedIn(w)
    /\ UNCHANGED <<ws, row, opts, sup, pc, child, announced>>
    /\ UNCHANGED <<exits, forgotten, unwritten>>

\* destroy_workspace (gRPC): signal what the supervisor manages for it ...
DestroySignal(c, w) ==
    /\ Begin(c, "destroy")
    /\ ws[w] # "absent"
    /\ Signal(ManagedIn(w))
    /\ call' = [call EXCEPT ![c] = [IdleCall EXCEPT !.at = "drop_ws",
                                                    !.ws = w]]
    /\ late' = late \ ManagedIn(w)
    /\ UNCHANGED <<ws, row, opts, sup, pc, child, announced>>
    /\ UNCHANGED <<exits, forgotten, unwritten>>

\* ... then modify(remove), which drops the workspace and all its rows.
DestroyRemove(c) ==
    /\ call[c].at = "drop_ws"
    /\ ws' = [ws EXCEPT ![call[c].ws] = "absent"]
    /\ row' = DropRows(row, call[c].ws)
    /\ Finish(c)
    /\ UNCHANGED <<opts, sup, pc, permit, child, announced>>
    /\ UNCHANGED callVars

-----------------------------------------------------------------------------
(* Handlers that load state.json, work on the copy and save all of it.     *)

Hold(c, w, at, to) ==
    call' = [call EXCEPT ![c] = [IdleCall EXCEPT
                !.at = at, !.ws = w, !.to = to,
                !.store = [ws |-> ws, row |-> row]]]

\* create_workspace (gRPC) spawns an agent of auto_agents after the save.
CreateLoad(c, w) ==
    /\ Begin(c, "create") /\ Hold(c, w, "save_then_spawn", "active")
    /\ UNCHANGED <<ws, row, opts, sup, pc, permit, child, announced>>
    /\ UNCHANGED callVars

\* create_workspace and start_workspace (REST), Manager::up.
UpLoad(c, w) ==
    /\ Begin(c, "up") /\ Hold(c, w, "save", "active")
    /\ UNCHANGED <<ws, row, opts, sup, pc, permit, child, announced>>
    /\ UNCHANGED callVars

\* Manager::down; Manager::destroy goes on and removes the workspace.
DownLoad(c, w) ==
    /\ ws[w] # "absent"
    /\ \/ Begin(c, "down") /\ Hold(c, w, "save", "inactive")
       \/ Begin(c, "mgr_destroy") /\ Hold(c, w, "save_then_remove", "inactive")
    /\ UNCHANGED <<ws, row, opts, sup, pc, permit, child, announced>>
    /\ UNCHANGED callVars

\* delete_workspace (REST) signals nobody.
DeleteLoad(c, w) ==
    /\ Begin(c, "delete") /\ ws[w] # "absent"
    /\ Hold(c, w, "save", "absent")
    /\ UNCHANGED <<ws, row, opts, sup, pc, permit, child, announced>>
    /\ UNCHANGED callVars

\* workspace_destroy (MCP) signals the agents that have a row.
McpDestroyLoad(c, w) ==
    /\ Begin(c, "mcp_destroy") /\ ws[w] # "absent"
    /\ Signal(RowsOf(w))
    /\ Hold(c, w, "save", "absent")
    /\ UNCHANGED <<ws, row, opts, sup, pc, child, announced>>
    /\ UNCHANGED callVars

\* The copy as it is saved: set_active, set_inactive or remove was applied.
\* What others wrote to the file since the load is lost.
Edited(c) ==
    LET w == call[c].ws
        s == call[c].store
    IN  [ws  |-> [s.ws EXCEPT ![w] = call[c].to],
         row |-> IF call[c].to = "absent" THEN DropRows(s.row, w) ELSE s.row]

\* Where the handler goes on once it has tried to save.
AfterSave(c) ==
    call' = [call EXCEPT ![c] =
          CASE call[c].at = "save" -> IdleCall
            [] call[c].at = "save_then_spawn" ->
                 [IdleCall EXCEPT !.at = "alloc", !.ws = call[c].ws]
            [] call[c].at = "save_then_remove" ->
                 [call[c] EXCEPT !.at = "save", !.to = "absent",
                                 !.store = Edited(c)]]

Save(c) ==
    /\ call[c].at \in {"save", "save_then_spawn", "save_then_remove"}
    /\ ws' = Edited(c).ws
    /\ row' = Edited(c).row
    /\ AfterSave(c)
    /\ UNCHANGED <<opts, sup, pc, permit, child, announced>>
    /\ UNCHANGED callVars

\* state.json cannot be read or written: a request ends there with an error,
\* and what it did before stays.  Only Manager::destroy goes on, with its copy.
StoreFails(c) ==
    /\ call[c].at \in {"add", "write_stopping", "remove", "alloc", "drop_ws",
                      "save", "save_then_spawn", "save_then_remove"}
    /\ IF call[c].at = "save_then_remove" THEN AfterSave(c) ELSE Finish(c)
    /\ UNCHANGED <<ws, row, opts, sup, pc, permit, child, announced>>
    /\ UNCHANGED callVars

-----------------------------------------------------------------------------
(* The task AgentSupervisor::spawn starts for agent a. *)

Goto(a, from, to) == pc[a] = from /\ pc' = [pc EXCEPT ![a] = to]

\* spawn_agent_process fails: error, and out of the map.
SpawnFail(a) ==
    /\ Goto(a, "spawn", "unmap")
    /\ SetStatus(a, "error") /\ Announce(a, "error")
    /\ UNCHANGED <<sup, permit, child>> /\ UNCHANGED taskVars

SpawnOk(a) ==
    /\ Goto(a, "spawn", "health")
    /\ child' = [child EXCEPT ![a] = "booting"]
    /\ UNCHANGED <<row, sup, permit, announced, unwritten>> /\ UNCHANGED taskVars

\* Fault: the map entry goes without the process being stopped.
BadHealthFail(a) ==
    /\ Goto(a, "health", "unmap")
    /\ SetStatus(a, "error") /\ Announce(a, "error")
    /\ UNCHANGED <<sup, permit, child>> /\ UNCHANGED taskVars

\* Fault: the attempts are not counted, only a stop ends the wait.
BadHealthFailOnStop(a) ==
    /\ permit[a]
    /\ Goto(a, "health", "kill_failed")
    /\ permit' = [permit EXCEPT ![a] = FALSE]
    /\ SetStatus(a, "error") /\ Announce(a, "error")
    /\ UNCHANGED <<sup, child>> /\ UNCHANGED taskVars

\* wait_for_health gives up: stop signalled, or the attempts are exhausted.
\* Both are reported as an error.
HealthFail(a) ==
    /\ Goto(a, "health", "kill_failed")
    /\ permit' \in {permit, [permit EXCEPT ![a] = FALSE]}
    /\ SetStatus(a, "error") /\ Announce(a, "error")
    /\ UNCHANGED <<sup, child>> /\ UNCHANGED taskVars

\* Fault: a stop that comes with the last probe is consumed and forgotten.
BadHealthOk(a) ==
    /\ Goto(a, "health", "card")
    /\ \E b \in Agents : child[b] = "serving" /\ opts[b].port = opts[a].port
    /\ permit' = [permit EXCEPT ![a] = FALSE]
    /\ UNCHANGED <<row, sup, child, announced, unwritten>> /\ UNCHANGED taskVars

\* The probe asks the port, so any process serving it answers.
HealthOk(a) ==
    /\ Goto(a, "health", "card")
    /\ \E b \in Agents : child[b] = "serving" /\ opts[b].port = opts[a].port
    /\ UNCHANGED <<row, sup, permit, child, announced, unwritten>>
    /\ UNCHANGED taskVars

Ready(a) ==
    /\ pc[a] = "card"
    /\ Goto(a, "card", IF opts[a].prompt THEN "prompt" ELSE "run")
    /\ SetStatus(a, "ready") /\ Announce(a, "ready")
    /\ UNCHANGED <<sup, permit, child>> /\ UNCHANGED taskVars

\* send_initial_prompt: up to 300 s in which no stop is observed.  Whatever
\* answered the health check may have answered, and may be gone by now.
PromptOk(a) ==
    /\ Goto(a, "prompt", "run")
    /\ SetStatus(a, "busy") /\ Announce(a, "busy")
    /\ UNCHANGED <<sup, permit, child>> /\ UNCHANGED taskVars

\* Fault: a prompt that was not accepted marks the agent as failed.
BadPromptFail(a) ==
    /\ Goto(a, "prompt", "run")
    /\ SetStatus(a, "error") /\ Announce(a, "error")
    /\ UNCHANGED <<sup, permit, child>> /\ UNCHANGED taskVars

\* The prompt was not accepted: that is logged, and nothing else.
PromptFail(a) ==
    /\ Goto(a, "prompt", "run")
    /\ UNCHANGED <<row, sup, permit, child, announced, unwritten>>
    /\ UNCHANGED taskVars

\* Fault: the exit is broadcast and not recorded.
BadExitSeen(a) ==
    /\ child[a] = "exited"
    /\ Goto(a, "run", "unmap")
    /\ Announce(a, "error")
    /\ UNCHANGED <<row, sup, permit, child, unwritten>> /\ UNCHANGED taskVars

\* select!: child.wait() returns ...
ExitSeen(a) ==
    /\ child[a] = "exited"
    /\ Goto(a, "run", "unmap")
    /\ SetStatus(a, "error") /\ Announce(a, "error")
    /\ UNCHANGED <<sup, permit, child>> /\ UNCHANGED taskVars

\* ... or the stop signal is consumed.
StopSeen(a) ==
    /\ permit[a]
    /\ Goto(a, "run", "grace")
    /\ permit' = [permit EXCEPT ![a] = FALSE]
    /\ SetStatus(a, "stopping") /\ Announce(a, "stopping")
    /\ UNCHANGED <<sup, child>> /\ UNCHANGED taskVars

\* Fault: no SIGKILL for a process that ignores SIGTERM.
BadTerminate(a) ==
    /\ Goto(a, "grace", "reaped") \/ Goto(a, "kill_failed", "unmap")
    /\ child' \in {child, [child EXCEPT ![a] = "exited"]}
    /\ UNCHANGED <<row, sup, permit, announced, unwritten>> /\ UNCHANGED taskVars

\* graceful_stop: SIGTERM, then SIGKILL when the grace period is over.
Terminate(a) ==
    /\ Goto(a, "grace", "reaped") \/ Goto(a, "kill_failed", "unmap")
    /\ child' = [child EXCEPT ![a] = "exited"]
    /\ UNCHANGED <<row, sup, permit, announced, unwritten>> /\ UNCHANGED taskVars

Stopped(a) ==
    /\ Goto(a, "reaped", "unmap")
    /\ SetStatus(a, "stopped") /\ Announce(a, "stopped")
    /\ UNCHANGED <<sup, permit, child>> /\ UNCHANGED taskVars

Unmap(a) ==
    /\ Goto(a, "unmap", "done")
    /\ sup' = sup \ {a}
    /\ UNCHANGED <<row, permit, child, announced, unwritten>> /\ UNCHANGED taskVars

-----------------------------------------------------------------------------
(* The processes, and the daemon itself *)

\* The agent listens on its port, which the kernel gives to one process.
ChildServe(a) ==
    /\ child[a] = "booting"
    /\ Available(opts[a].port)
    /\ child' = [child EXCEPT ![a] = "serving"]
    /\ UNCHANGED <<row, sup, pc, permit, announced, unwritten>> /\ UNCHANGED taskVars

\* It exits on its own: a crash, or a port it could not bind.
ChildExit(a) ==
    /\ Alive(a)
    /\ child' = [child EXCEPT ![a] = "exited"]
    /\ UNCHANGED <<row, sup, pc, permit, announced, unwritten>> /\ UNCHANGED taskVars

\* DaemonCmd::Restart and handle_signal end in process::exit: the map, the
\* tasks and the requests are gone, state.json is as it was.  Nobody stops
\* the agents; whether their processes die too is up to the service manager.
DaemonExit ==
    /\ exits < MaxExits
    /\ exits' = exits + 1
    /\ forgotten' = forgotten \cup sup
    /\ sup' = {}
    /\ pc' = [a \in Agents |-> IF pc[a] = "unborn" THEN "unborn" ELSE "done"]
    /\ permit' = [a \in Agents |-> FALSE]
    /\ \E dead \in SUBSET {a \in Agents : Alive(a)} :
         child' = [a \in Agents |-> IF a \in dead THEN "exited" ELSE child[a]]
    /\ call' = [c \in Callers |-> IdleCall]
    /\ UNCHANGED <<ws, row, opts, announced, unwritten, late>>

-----------------------------------------------------------------------------
TaskStep(a) ==
    \/ SpawnFail(a) \/ SpawnOk(a) \/ HealthFail(a) \/ HealthOk(a)
    \/ Ready(a) \/ PromptOk(a) \/ PromptFail(a) \/ ExitSeen(a)
    \/ StopSeen(a) \/ Terminate(a) \/ Stopped(a) \/ Unmap(a)

\* The steps a request takes once it was accepted.
CallStep(c) ==
    \/ SpawnCall(c) \/ SpawnAdd(c) \/ StopWrite(c) \/ RestartRemove(c)
    \/ RestartAlloc(c) \/ McpRestartAlloc(c) \/ DestroyRemove(c) \/ Save(c)
    \/ StoreFails(c)

Request(c) ==
    \/ \E a \in Agents : \/ StopSignal(c, a) \/ McpStop(c, a)
                         \/ RestartSignal(c, a) \/ McpRestartSignal(c, a)
    \/ \E w \in Workspaces :
         \/ SpawnLoad(c, w) \/ DestroySignal(c, w) \/ CreateLoad(c, w)
         \/ UpLoad(c, w) \/ DownLoad(c, w) \/ DeleteLoad(c, w)
         \/ McpDestroyLoad(c, w)

Next ==
    \/ \E c \in Callers : Request(c) \/ CallStep(c)
    \/ \E a \in Agents : TaskStep(a) \/ ChildServe(a) \/ ChildExit(a)
    \/ DaemonExit

Spec == Init /\ [][Next]_vars

\* The runtime polls every task that is ready and every wait in a task is
\* bounded (health: 30 attempts, prompt: 300 s, grace: 5 s then SIGKILL);
\* a request runs to its end.  Nothing obliges anybody to make a request, or
\* a process to listen or to exit.
Fairness ==
    /\ \A a \in Agents : WF_vars(TaskStep(a))
    /\ \A c \in Callers : WF_vars(CallStep(c))

FairSpec == Spec /\ Fairness

-----------------------------------------------------------------------------
(* Safety *)

\* Every agent process that is alive can be reached by a stop: its agent is
\* in the supervisor's map, unless the daemon that started it has exited.
\* The task removes the map entry only after the process is dead.
NoUnmanagedProcess ==
    \A a \in Agents : Alive(a) => a \in sup \cup forgotten

\* A row says ready or busy only while a task that will correct it is there:
\* the agent is still managed (or its daemon has exited), or the row could not
\* be written when the task last tried, which it does not try again.  The
\* handler that adds the row, and the ones that stop, remove or replace it,
\* run concurrently with the task.  Saving a stale copy of state.json breaks
\* this, so it is a property of ModifyOps.
ReadyIsManaged ==
    \A a \in Agents :
        row[a] \in {"ready", "busy"} => a \in sup \cup forgotten \cup unwritten

\* What the supervisor broadcasts about an agent follows the AgentStatus
\* machine: a status is only ever followed by one of its successors, and
\* error and stopped are final.
NextStatus == {<<None, "starting">>, <<"starting", "ready">>,
               <<"starting", "error">>, <<"ready", "busy">>,
               <<"ready", "stopping">>, <<"ready", "error">>,
               <<"busy", "stopping">>, <<"busy", "error">>,
               <<"stopping", "stopped">>}

BroadcastOrder ==
    [][\A a \in Agents : announced'[a] # announced[a]
          => <<announced[a], announced'[a]>> \in NextStatus]_vars

\* The final broadcast is not early: by then the process is dead.
StoppedIsDead ==
    \A a \in Agents : announced[a] = "stopped" => child[a] = "exited"

-----------------------------------------------------------------------------
(* Liveness, under FairSpec *)

\* A stop that reaches the supervisor is honoured from any point of the
\* task, health check and initial prompt included: the process dies.
StopHonoured ==
    \A a \in Agents : permit[a] /\ a \in sup
                         ~> a \in forgotten \/ (a \notin sup /\ ~Alive(a))

\* A ready agent whose process dies does not stay ready, unless the task
\* could not write the row when it tried: nobody tries again.
CrashNoticed ==
    \A a \in Agents : row[a] \in {"ready", "busy"} /\ child[a] = "exited"
                         ~> row[a] \notin {"ready", "busy"} \/ a \in unwritten

\* An agent that is starting gets an answer: ready or error.
SpawnResolves ==
    \A a \in Agents : announced[a] = "starting"
                         ~> announced[a] # "starting" \/ a \in forgotten

\* destroy_workspace (gRPC): "Stop all agents in this workspace"
\* (grpc/workspace.rs:230).  Once a workspace is gone its agents go, except
\* those started after the signals by a request that overlaps the destroy:
\* they run on, without a row, and nothing stops them.
DestroyStopsAgents ==
    \A w \in Workspaces : ws[w] = "absent"
                             ~> ws[w] # "absent" \/ ManagedIn(w) \subseteq late
=============================================================================
