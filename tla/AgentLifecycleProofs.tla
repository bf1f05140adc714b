------------------------ MODULE AgentLifecycleProofs ------------------------
(***************************************************************************)
(* Theorems about AgentLifecycle, for any number of agents, workspaces,    *)
(* requests, ports and daemon exits.                                       *)
(*                                                                         *)
(* The invariant has four parts.  TypeOK needs LocalsOK: a handler goes   *)
(* on with what it stored in its locals some steps ago, so they must have  *)
(* kept their shape.  The safety properties need TaskInv, which says for   *)
(* each position of a supervisor task what the map, the process and the    *)
(* last broadcast look like.  The rows of state.json are only as good as   *)
(* their writers: RowInv holds as long as nobody saves a stale copy.       *)
(* Which rows may share a port takes PortInv, which follows a port from    *)
(* the store it is allocated from to the row that is added some steps      *)
(* later, and the rows that were added meanwhile.                          *)
(***************************************************************************)
EXTENDS AgentEvents, TLAPS

SavePc == {"save", "save_then_spawn", "save_then_remove"}

\* Rows exist, in the file and in every copy of it, for spawned agents only.
RowsSpawned(r) == \A a \in Agents : r[a] # None => opts[a] \in Opts

\* What a handler stored for its later steps is what those steps expect.
LocalOK(r) ==
    /\ r.at \in {"call", "remove", "alloc", "mcp_sleep"} \cup SavePc
         => r.ws \in Workspaces
    /\ r.at = "call" => r.port \in Ports
    /\ r.at = "add" => r.agent \in Agents /\ opts[r.agent] \in Opts
    /\ r.at \in SavePc => /\ r.store \in Store
                          /\ r.to \in WsState
                          /\ RowsSpawned(r.store.row)

LocalsOK == RowsSpawned(row) /\ \A c \in Callers : LocalOK(call[c])

\* The task owns the map entry from the spawn to its last step ...
Mapped(a) == pc[a] \notin {"unborn", "done"} => a \in sup

\* ... a process is alive only while the task can still stop it ...
Owned(a) ==
    Alive(a) => \/ pc[a] \in {"health", "card", "prompt", "run",
                              "kill_failed", "grace"}
                \/ a \in forgotten

\* ... and the position of the task determines what was last broadcast.
Told(a) ==
    /\ pc[a] = "unborn" => announced[a] = None
    /\ pc[a] \in {"spawn", "health", "card"} => announced[a] = "starting"
    /\ pc[a] = "prompt" => announced[a] = "ready"
    /\ pc[a] = "run" => announced[a] \in {"ready", "busy"}
    /\ pc[a] = "kill_failed" => announced[a] = "error"
    /\ pc[a] \in {"grace", "reaped"} => announced[a] = "stopping"
    /\ pc[a] = "reaped" => child[a] = "exited"
    /\ announced[a] = "stopped" => child[a] = "exited"

TaskInv == \A a \in Agents : Mapped(a) /\ Owned(a) /\ Told(a)

\* A row says ready or busy only while the task is where it will notice.
RowInv ==
    /\ \A a \in Agents : row[a] \in {"ready", "busy"}
                            => pc[a] \in {"prompt", "run"} \/ a \in forgotten \cup unwritten
    /\ \A c \in Callers : call[c].at \notin SavePc

-----------------------------------------------------------------------------
(* Types *)

\* Initially the variables and the handlers' locals have their types.
LEMMA InitTypes == Init => TypeOK /\ LocalsOK
<1> SUFFICES ASSUME Init PROVE TypeOK /\ LocalsOK
  OBVIOUS
<1>1. IdleCall \in Call
  BY DEF IdleCall, Call, CallPc
<1>2. TypeOK
  BY <1>1 DEF Init, TypeOK, WsState, TaskPc, ChildState
<1>3. LocalsOK
  BY DEF Init, LocalsOK, LocalOK, RowsSpawned, IdleCall, SavePc
<1> QED
  BY <1>2, <1>3

\* The steps of a supervisor task leave the handlers' locals alone.
LEMMA TaskTypes ==
    ASSUME TypeOK, LocalsOK, NEW a \in Agents, TaskStep(a)
    PROVE  TypeOK' /\ LocalsOK'
<1>1. row' \in [Agents -> Status \cup {None}] /\ RowsSpawned(row')
  BY DEF TypeOK, LocalsOK, RowsSpawned, TaskStep, SpawnFail, SpawnOk,
     HealthFail, HealthOk,
     Ready, PromptOk, PromptFail, ExitSeen, StopSeen, Terminate, Stopped, Unmap,
     SetStatus, WriteStatus, HasRow, Status
<1>2. announced' \in [Agents -> Status \cup {None}]
  BY DEF TypeOK, TaskStep, SpawnFail, SpawnOk, HealthFail, HealthOk,
     Ready, PromptOk, PromptFail, ExitSeen, StopSeen, Terminate, Stopped, Unmap,
     Announce, Status
<1>3. pc' \in [Agents -> TaskPc] /\ child' \in [Agents -> ChildState]
  BY DEF TypeOK, TaskStep, SpawnFail, SpawnOk, HealthFail, HealthOk,
     Ready, PromptOk, PromptFail, ExitSeen, StopSeen, Terminate, Stopped, Unmap,
     Goto, TaskPc, ChildState
<1>4. permit' \in [Agents -> BOOLEAN] /\ sup' \in SUBSET Agents
  BY DEF TypeOK, TaskStep, SpawnFail, SpawnOk, HealthFail, HealthOk,
     Ready, PromptOk, PromptFail, ExitSeen, StopSeen, Terminate, Stopped, Unmap
<1>5. UNCHANGED taskVars
  BY DEF TaskStep, SpawnFail, SpawnOk, HealthFail, HealthOk,
     Ready, PromptOk, PromptFail, ExitSeen, StopSeen, Terminate, Stopped, Unmap
<1>6. unwritten' \in SUBSET Agents
  BY DEF TypeOK, TaskStep, SpawnFail, SpawnOk, HealthFail, HealthOk,
     Ready, PromptOk, PromptFail, ExitSeen, StopSeen, Terminate, Stopped, Unmap, SetStatus
<1> QED
  BY <1>1, <1>2, <1>3, <1>4, <1>5, <1>6 DEF TypeOK, LocalsOK, LocalOK, RowsSpawned, taskVars


\* What a handler stores is fit for its next step.
LEMMA HandlerLocals ==
    ASSUME TypeOK, LocalsOK, NEW c \in Callers,
           Request(c) \/ CallStep(c), ~SpawnCall(c)
    PROVE  \E r \in Call : LocalOK(r) /\ call' = [call EXCEPT ![c] = r]
<1> USE DEF SavePc
<1> DEFINE Fits(r) == r \in Call /\ LocalOK(r)
<1> DEFINE Goal == \E r \in Call : LocalOK(r) /\ call' = [call EXCEPT ![c] = r]
<1>1. Fits(IdleCall)
  BY DEF IdleCall, Call, CallPc, LocalOK
<1>2. Fits(call[c])
  BY DEF TypeOK, LocalsOK
<1>3. [ws |-> ws, row |-> row] \in Store /\ RowsSpawned(row)
  BY DEF TypeOK, LocalsOK, Store
<1>4. ASSUME NEW a \in Agents, HasRow(a) PROVE opts[a].ws \in Workspaces
  BY <1>4 DEF HasRow, LocalsOK, RowsSpawned, Opts
<1>5. UsedPorts \subseteq Ports
  BY DEF UsedPorts, HasRow, LocalsOK, RowsSpawned, Opts
<1>6. Finish(c) => Goal
  BY <1>1 DEF Finish
<1>7. ASSUME NEW w \in Workspaces, SpawnLoad(c, w) PROVE Goal
  <2>1. PICK p \in Ports, q \in BOOLEAN :
          call' = [call EXCEPT ![c] = [IdleCall EXCEPT
                     !.at = "call", !.ws = w, !.port = p, !.prompted = q]]
    BY <1>7, PromptsAssumption DEF SpawnLoad
  <2>2. Fits([IdleCall EXCEPT !.at = "call", !.ws = w, !.port = p,
                              !.prompted = q])
    BY DEF IdleCall, Call, CallPc, LocalOK
  <2> QED
    BY <2>1, <2>2
<1>8. SpawnAdd(c) \/ StopWrite(c) \/ DestroyRemove(c) => Goal
  BY <1>6 DEF SpawnAdd, StopWrite, DestroyRemove
<1>9. ASSUME NEW a \in Agents, StopSignal(c, a) PROVE Goal
  <2>1. Fits([IdleCall EXCEPT !.at = "write_stopping", !.agent = a])
    BY DEF IdleCall, Call, CallPc, LocalOK
  <2> QED
    BY <2>1, <1>9 DEF StopSignal
<1>10. ASSUME NEW a \in Agents, McpStop(c, a) PROVE Goal
  BY <1>2, <1>10 DEF McpStop, TypeOK
<1>11. ASSUME NEW a \in Agents, RestartSignal(c, a) PROVE Goal
  <2>1. Fits([IdleCall EXCEPT !.at = "remove", !.agent = a,
                              !.ws = opts[a].ws])
    BY <1>4, <1>11 DEF RestartSignal, IdleCall, Call, CallPc, LocalOK
  <2> QED
    BY <2>1, <1>11 DEF RestartSignal
<1>12. ASSUME NEW a \in Agents, McpRestartSignal(c, a) PROVE Goal
  <2>1. Fits([IdleCall EXCEPT !.at = "mcp_sleep", !.old = a,
                              !.ws = opts[a].ws, !.used = UsedPorts])
    BY <1>4, <1>5, <1>12 DEF McpRestartSignal, IdleCall, Call, CallPc, LocalOK
  <2> QED
    BY <2>1, <1>12 DEF McpRestartSignal
<1>13. CASE RestartRemove(c)
  <2>1. Fits([call[c] EXCEPT !.at = "alloc"])
    BY <1>2, <1>13 DEF RestartRemove, Call, CallPc, LocalOK
  <2>2. call' = [call EXCEPT ![c] = [call[c] EXCEPT !.at = "alloc"]]
    BY <1>13 DEF RestartRemove, TypeOK
  <2> QED
    BY <2>1, <2>2
<1>14. CASE RestartAlloc(c) \/ McpRestartAlloc(c)
  <2>1. ASSUME NEW p \in Ports,
               call' = [call EXCEPT ![c].at = "call", ![c].port = p]
        PROVE  Goal
    <3>1. Fits([call[c] EXCEPT !.at = "call", !.port = p])
      BY <1>2, <1>14 DEF RestartAlloc, McpRestartAlloc, Call, CallPc, LocalOK
    <3>2. call' = [call EXCEPT ![c] = [call[c] EXCEPT !.at = "call", !.port = p]]
      BY <2>1 DEF TypeOK
    <3> QED
      BY <3>1, <3>2
  <2> QED
    BY <2>1, <1>6, <1>14 DEF RestartAlloc, McpRestartAlloc
<1>15. ASSUME NEW w \in Workspaces, DestroySignal(c, w) PROVE Goal
  <2>1. Fits([IdleCall EXCEPT !.at = "drop_ws", !.ws = w])
    BY DEF IdleCall, Call, CallPc, LocalOK
  <2> QED
    BY <2>1, <1>15 DEF DestroySignal
<1>16. ASSUME NEW w \in Workspaces, NEW at \in SavePc, NEW to \in WsState,
              Hold(c, w, at, to)
       PROVE  Goal
  <2>1. Fits([IdleCall EXCEPT !.at = at, !.ws = w, !.to = to,
                              !.store = [ws |-> ws, row |-> row]])
    BY <1>3 DEF IdleCall, Call, CallPc, LocalOK
  <2> QED
    BY <2>1, <1>16 DEF Hold
<1>17. ASSUME NEW w \in Workspaces,
              \/ CreateLoad(c, w) \/ UpLoad(c, w) \/ DownLoad(c, w)
              \/ DeleteLoad(c, w) \/ McpDestroyLoad(c, w)
       PROVE  Goal
  BY <1>16, <1>17
     DEF CreateLoad, UpLoad, DownLoad, DeleteLoad, McpDestroyLoad, WsState
<1>18. CASE AfterSave(c) /\ call[c].at \in SavePc
  <2>1. call[c].at \in SavePc
    BY <1>18
  <2>2. Edited(c) \in Store /\ RowsSpawned(Edited(c).row)
    BY <1>2, <2>1 DEF Edited, DropRows, Store, LocalOK, RowsSpawned
  <2>3. CASE call[c].at = "save"
    BY <1>1, <1>18, <2>3 DEF AfterSave
  <2>4. CASE call[c].at = "save_then_spawn"
    <3>1. Fits([IdleCall EXCEPT !.at = "alloc", !.ws = call[c].ws])
      BY <1>2, <2>4 DEF IdleCall, Call, CallPc, LocalOK
    <3> QED
      BY <3>1, <1>18, <2>4 DEF AfterSave
  <2>5. CASE call[c].at = "save_then_remove"
    <3>1. Fits([call[c] EXCEPT !.at = "save", !.to = "absent",
                               !.store = Edited(c)])
      BY <1>2, <2>2, <2>5 DEF Call, CallPc, LocalOK, WsState
    <3> QED
      BY <3>1, <1>18, <2>5 DEF AfterSave
  <2> QED
    BY <2>1, <2>3, <2>4, <2>5
<1>19. Save(c) \/ StoreFails(c) => Goal
  BY <1>6, <1>18 DEF Save, StoreFails
<1> QED
  BY <1>7, <1>8, <1>9, <1>10, <1>11, <1>12, <1>13, <1>14, <1>15, <1>17, <1>19
     DEF Request, CallStep

\* The rows and workspaces a handler writes are rows and workspaces.
LEMMA HandlerStore ==
    ASSUME TypeOK, LocalsOK, NEW c \in Callers,
           Request(c) \/ CallStep(c), ~SpawnCall(c)
    PROVE  [ws |-> ws', row |-> row'] \in Store /\ RowsSpawned(row')
<1>1. ws \in [Workspaces -> WsState] /\ row \in [Agents -> Status \cup {None}]
  BY DEF TypeOK
<1>2. CASE Save(c)
  <2>1. call[c].store \in Store /\ call[c].to \in WsState
        /\ RowsSpawned(call[c].store.row)
    BY <1>2 DEF Save, LocalsOK, LocalOK, SavePc
  <2> QED
    BY <2>1, <1>2 DEF Save, Edited, DropRows, Store, RowsSpawned
<1>3. CASE DestroyRemove(c)
  BY <1>1, <1>3 DEF DestroyRemove, DropRows, LocalsOK, RowsSpawned, Store, WsState
<1>4. CASE SpawnAdd(c)
  BY <1>1, <1>4 DEF SpawnAdd, LocalsOK, LocalOK, RowsSpawned, Store, Status
<1>5. CASE StopWrite(c)
  BY <1>1, <1>5 DEF StopWrite, WriteStatus, HasRow, LocalsOK, RowsSpawned, Store, Status
<1>6. CASE RestartRemove(c)
  BY <1>1, <1>6 DEF RestartRemove, LocalsOK, RowsSpawned, Store
<1>7. CASE Request(c) \/ RestartAlloc(c) \/ McpRestartAlloc(c) \/ StoreFails(c)
  <2>1. UNCHANGED <<ws, row>>
    BY <1>7 DEF Request, SpawnLoad, StopSignal, McpStop, RestartSignal,
       McpRestartSignal, DestroySignal, CreateLoad, UpLoad, DownLoad,
       DeleteLoad, McpDestroyLoad, RestartAlloc, McpRestartAlloc, StoreFails
  <2> QED
    BY <1>1, <2>1 DEF LocalsOK, RowsSpawned, Store
<1> QED
  BY <1>2, <1>3, <1>4, <1>5, <1>6, <1>7 DEF CallStep

\* A handler only signals a task; it does nothing else to it.
LEMMA HandlerFrame ==
    ASSUME NEW c \in Callers, Request(c) \/ CallStep(c), ~SpawnCall(c)
    PROVE  /\ UNCHANGED <<opts, sup, pc, child, announced, exits, forgotten, unwritten>>
           /\ late' \subseteq late
           /\ permit \in [Agents -> BOOLEAN] => permit' \in [Agents -> BOOLEAN]
<1>1. CASE Request(c)
  BY <1>1 DEF Request, SpawnLoad, StopSignal, McpStop, RestartSignal,
     McpRestartSignal, DestroySignal, CreateLoad, UpLoad, DownLoad,
     DeleteLoad, McpDestroyLoad, Signal, callVars
<1>2. CASE CallStep(c)
  BY <1>2 DEF CallStep, SpawnAdd, StopWrite, RestartRemove, RestartAlloc,
     McpRestartAlloc, DestroyRemove, Save, StoreFails, callVars
<1> QED
  BY <1>1, <1>2

\* The steps of the handlers keep them, the one that spawns apart.
LEMMA HandlerTypes ==
    ASSUME TypeOK, LocalsOK, NEW c \in Callers,
           Request(c) \/ CallStep(c), ~SpawnCall(c)
    PROVE  TypeOK' /\ LocalsOK'
<1>1. PICK r \in Call : LocalOK(r) /\ call' = [call EXCEPT ![c] = r]
  BY HandlerLocals
<1>2. [ws |-> ws', row |-> row'] \in Store /\ RowsSpawned(row')
  BY HandlerStore
<1>3. ws' \in [Workspaces -> WsState] /\ row' \in [Agents -> Status \cup {None}]
  BY <1>2 DEF Store
<1>4. UNCHANGED <<opts, sup, pc, child, announced, exits, forgotten, unwritten>>
      /\ permit' \in [Agents -> BOOLEAN] /\ late' \subseteq late
  BY HandlerFrame DEF TypeOK
<1>5. TypeOK'
  BY <1>1, <1>3, <1>4 DEF TypeOK
<1>6. \A d \in Callers : LocalOK(call[d])'
  BY <1>1, <1>4 DEF LocalsOK, LocalOK, RowsSpawned, TypeOK
<1> QED
  BY <1>2, <1>4, <1>5, <1>6 DEF LocalsOK, RowsSpawned

\* A spawn adds an agent to those that have options.
LEMMA SpawnCallTypes ==
    ASSUME TypeOK, LocalsOK, NEW c \in Callers, SpawnCall(c)
    PROVE  TypeOK' /\ LocalsOK'
<1>1. call[c] \in Call /\ call[c].ws \in Workspaces /\ call[c].port \in Ports
  BY DEF SpawnCall, LocalsOK, LocalOK, TypeOK
<1> DEFINE o == [ws |-> call[c].ws, port |-> call[c].port,
                 prompt |-> call[c].prompted]
<1>2. o \in Opts
  BY <1>1 DEF Opts, Call
<1>3. PICK a \in Agents :
        /\ opts' = [opts EXCEPT ![a] = o]
        /\ sup' = sup \cup {a}
        /\ pc' = [pc EXCEPT ![a] = "spawn"]
        /\ Announce(a, "starting")
        /\ call' = [call EXCEPT ![c].at = "add", ![c].agent = a]
        /\ late' \subseteq late \cup {a}
  BY DEF SpawnCall
<1> HIDE DEF o
<1>4. UNCHANGED <<ws, row, permit, child, exits, forgotten, unwritten>>
  BY DEF SpawnCall
<1>5. \A b \in Agents : opts[b] \in Opts => opts'[b] \in Opts
  BY <1>2, <1>3 DEF TypeOK
<1> DEFINE r == [call[c] EXCEPT !.at = "add", !.agent = a]
<1>6. r \in Call /\ r.at = "add" /\ r.agent = a
  BY <1>1 DEF Call, CallPc
<1>7. call' = [call EXCEPT ![c] = r]
  BY <1>3 DEF TypeOK
<1> HIDE DEF r
<1>8. opts' \in [Agents -> Opts \cup {None}] /\ opts'[a] \in Opts
  BY <1>2, <1>3 DEF TypeOK
<1>9. TypeOK'
  <2>1. sup' \in SUBSET Agents /\ pc' \in [Agents -> TaskPc]
    BY <1>3 DEF TypeOK, TaskPc
  <2>2. announced' \in [Agents -> Status \cup {None}]
    BY <1>3 DEF TypeOK, Announce, Status
  <2>3. call' \in [Callers -> Call] /\ late' \in SUBSET Agents
    BY <1>3, <1>6, <1>7 DEF TypeOK
  <2> QED
    BY <1>4, <1>8, <2>1, <2>2, <2>3 DEF TypeOK
<1>10. \A d \in Callers : LocalOK(call[d])'
  BY <1>5, <1>6, <1>7, <1>8 DEF LocalsOK, LocalOK, RowsSpawned, TypeOK, SavePc
<1> QED
  BY <1>4, <1>5, <1>9, <1>10 DEF LocalsOK, RowsSpawned

\* Processes come and go, the daemon with all its requests.
LEMMA EnvironmentTypes ==
    ASSUME TypeOK, LocalsOK,
           DaemonExit \/ \E a \in Agents : ChildServe(a) \/ ChildExit(a)
    PROVE  TypeOK' /\ LocalsOK'
<1>1. CASE DaemonExit
  <2>1. IdleCall \in Call /\ LocalOK(IdleCall)'
    BY DEF IdleCall, Call, CallPc, LocalOK, SavePc
  <2>2. TypeOK'
    BY <1>1, <2>1 DEF DaemonExit, TypeOK, TaskPc, ChildState
  <2> QED
    BY <1>1, <2>1, <2>2 DEF DaemonExit, LocalsOK, RowsSpawned
<1>2. ASSUME NEW a \in Agents, ChildServe(a) \/ ChildExit(a)
      PROVE  TypeOK' /\ LocalsOK'
  <2>1. TypeOK'
    BY <1>2 DEF ChildServe, ChildExit, TypeOK, ChildState, taskVars
  <2> QED
    BY <1>2, <2>1 DEF ChildServe, ChildExit, LocalsOK, LocalOK, RowsSpawned,
       taskVars
<1> QED
  BY <1>1, <1>2

\* So does every step.
LEMMA StepTypes == TypeOK /\ LocalsOK /\ [Next]_vars => TypeOK' /\ LocalsOK'
<1> SUFFICES ASSUME TypeOK, LocalsOK, [Next]_vars PROVE TypeOK' /\ LocalsOK'
  OBVIOUS
<1>1. ASSUME NEW c \in Callers, Request(c) \/ CallStep(c)
      PROVE  TypeOK' /\ LocalsOK'
  BY <1>1, SpawnCallTypes, HandlerTypes
<1>2. ASSUME NEW a \in Agents, TaskStep(a) PROVE TypeOK' /\ LocalsOK'
  BY <1>2, TaskTypes
<1>3. CASE UNCHANGED vars
  BY <1>3 DEF vars, TypeOK, LocalsOK, LocalOK, RowsSpawned
<1> QED
  BY <1>1, <1>2, <1>3, EnvironmentTypes DEF Next

\* The variables keep their types: a handler that goes on with what it
\* stored before a wait finds a value it can use.
THEOREM TypeCorrect == Spec => []TypeOK
<1>1. TypeOK /\ LocalsOK /\ [Next]_vars => (TypeOK /\ LocalsOK)'
  BY StepTypes
<1> QED
  BY InitTypes, <1>1, PTL DEF Spec

-----------------------------------------------------------------------------
(* The task and its process *)

\* Initially no task has a process, an entry or an announcement.
LEMMA InitTask == Init => TaskInv
  BY NoneAssumption DEF Init, TaskInv, Mapped, Owned, Told, Alive, Status

\* What a step does to one agent only is checked for that agent only.
LEMMA OtherAgents ==
    ASSUME TypeOK, TaskInv, NEW a \in Agents,
           sup \ {a} \subseteq sup', UNCHANGED forgotten,
           \A b \in Agents \ {a} : /\ pc'[b] = pc[b]
                                   /\ child'[b] = child[b]
                                   /\ announced'[b] = announced[b],
           (Mapped(a) /\ Owned(a) /\ Told(a))'
    PROVE  TaskInv'
  BY DEF TaskInv, Mapped, Owned, Told, Alive

\* A task keeps its process, its entry and what it announced in line.
LEMMA TaskKeepsTaskInv ==
    ASSUME TypeOK, TaskInv, NEW a \in Agents, TaskStep(a)
    PROVE  TaskInv'
<1> USE DEF Goto, Announce, Mapped, Owned, Told, Alive, taskVars
<1>1. Mapped(a) /\ Owned(a) /\ Told(a)
  BY DEF TaskInv
<1>2. CASE SpawnFail(a) \/ HealthFail(a)
  BY <1>1, <1>2, OtherAgents DEF SpawnFail, HealthFail, TypeOK
<1>3. CASE SpawnOk(a) \/ HealthOk(a)
  BY <1>1, <1>3, OtherAgents DEF SpawnOk, HealthOk, TypeOK
<1>4. CASE Ready(a) \/ PromptOk(a) \/ PromptFail(a)
  BY <1>1, <1>4, OtherAgents DEF Ready, PromptOk, PromptFail, TypeOK
<1>5. CASE ExitSeen(a) \/ StopSeen(a)
  BY <1>1, <1>5, OtherAgents DEF ExitSeen, StopSeen, TypeOK
<1>6. CASE Terminate(a)
  BY <1>1, <1>6, OtherAgents DEF Terminate, TypeOK
<1>7. CASE Stopped(a)
  BY <1>1, <1>7, OtherAgents DEF Stopped, TypeOK
<1>8. CASE Unmap(a)
  BY <1>1, <1>8, OtherAgents DEF Unmap, TypeOK
<1> QED
  BY <1>2, <1>3, <1>4, <1>5, <1>6, <1>7, <1>8 DEF TaskStep

\* So does the start of a new one ...
LEMMA SpawnCallKeepsTaskInv ==
    ASSUME TypeOK, TaskInv, NEW c \in Callers, SpawnCall(c)
    PROVE  TaskInv'
<1>1. PICK a \in Agents : /\ pc[a] = "unborn"
                         /\ sup' = sup \cup {a}
                         /\ pc' = [pc EXCEPT ![a] = "spawn"]
                         /\ Announce(a, "starting")
  BY DEF SpawnCall
<1>2. UNCHANGED <<child, forgotten>>
  BY DEF SpawnCall
<1>3. (Mapped(a) /\ Owned(a) /\ Told(a))'
  BY <1>1, <1>2 DEF TaskInv, Mapped, Owned, Told, Alive, Announce, TypeOK
<1> QED
  BY <1>1, <1>2, <1>3, OtherAgents DEF Announce, TypeOK

\* ... and what happens to processes and to the daemon.
LEMMA EnvironmentKeepsTaskInv ==
    ASSUME TypeOK, TaskInv,
           DaemonExit \/ \E a \in Agents : ChildServe(a) \/ ChildExit(a)
    PROVE  TaskInv'
<1> USE DEF Mapped, Owned, Told, Alive
<1>1. CASE DaemonExit
  BY <1>1 DEF DaemonExit, TaskInv, TypeOK
<1>2. ASSUME NEW a \in Agents, ChildServe(a) \/ ChildExit(a) PROVE TaskInv'
  BY <1>2, OtherAgents DEF ChildServe, ChildExit, TaskInv, TypeOK, taskVars
<1> QED
  BY <1>1, <1>2

\* Hence every step does.
LEMMA StepTask == TypeOK /\ TaskInv /\ [Next]_vars => TaskInv'
<1> SUFFICES ASSUME TypeOK, TaskInv, [Next]_vars PROVE TaskInv'
  OBVIOUS
<1> USE DEF TaskInv, Mapped, Owned, Told, Alive
<1>1. ASSUME NEW c \in Callers, Request(c) \/ CallStep(c), ~SpawnCall(c)
      PROVE  TaskInv'
  BY <1>1, HandlerFrame
<1>2. CASE UNCHANGED vars
  BY <1>2 DEF vars
<1> QED
  BY <1>1, <1>2, SpawnCallKeepsTaskInv, TaskKeepsTaskInv,
     EnvironmentKeepsTaskInv DEF Next

\* Types and tasks are as they should be in every behaviour.
LEMMA Invariant == Spec => [](TypeOK /\ LocalsOK /\ TaskInv)
<1>1. Init => TypeOK /\ LocalsOK /\ TaskInv
  BY InitTypes, InitTask
<1>2. TypeOK /\ LocalsOK /\ TaskInv /\ [Next]_vars
        => (TypeOK /\ LocalsOK /\ TaskInv)'
  BY StepTypes, StepTask
<1> QED
  BY <1>1, <1>2, PTL DEF Spec

\* No process outlives the supervisor's map entry that could stop it, in any
\* interleaving of requests, crashes and daemon exits.
THEOREM ProcessesManaged == Spec => []NoUnmanagedProcess
<1>1. TaskInv => NoUnmanagedProcess
  BY DEF TaskInv, Mapped, Owned, NoUnmanagedProcess
<1> QED
  BY <1>1, Invariant, PTL

\* "stopped" is broadcast after the process is dead, never before.
THEOREM StoppedAreDead == Spec => []StoppedIsDead
<1>1. TaskInv => StoppedIsDead
  BY DEF TaskInv, Told, StoppedIsDead
<1> QED
  BY <1>1, Invariant, PTL

\* The broadcasts about an agent follow the AgentStatus machine.
THEOREM BroadcastsOrdered == Spec => BroadcastOrder
<1> DEFINE Ordered == \A a \in Agents : announced'[a] # announced[a]
                        => <<announced[a], announced'[a]>> \in NextStatus
<1>1. TypeOK /\ TaskInv /\ [Next]_vars => [Ordered]_vars
  <2> SUFFICES ASSUME TypeOK, TaskInv, Next, NEW b \in Agents,
                      announced'[b] # announced[b]
               PROVE  <<announced[b], announced'[b]>> \in NextStatus
    OBVIOUS
  <2> USE DEF Told, NextStatus, Announce, Goto, TypeOK, TaskInv
  <2>1. ASSUME NEW c \in Callers, Request(c) \/ CallStep(c)
        PROVE  <<announced[b], announced'[b]>> \in NextStatus
    BY <2>1, HandlerFrame DEF SpawnCall
  <2>2. ASSUME NEW a \in Agents, TaskStep(a)
        PROVE  <<announced[b], announced'[b]>> \in NextStatus
    BY <2>2 DEF TaskStep, SpawnFail, SpawnOk, HealthFail, HealthOk, Ready,
       PromptOk, PromptFail, ExitSeen, StopSeen, Terminate, Stopped, Unmap
  <2>3. ~DaemonExit /\ ~\E a \in Agents : ChildServe(a) \/ ChildExit(a)
    BY DEF DaemonExit, ChildServe, ChildExit
  <2> QED
    BY <2>1, <2>2, <2>3 DEF Next
<1> QED
  BY <1>1, Invariant, PTL DEF Spec, BroadcastOrder

-----------------------------------------------------------------------------
(* The rows of state.json *)

\* Initially there are no rows.
LEMMA InitRows == Init => RowInv
  BY NoneAssumption DEF Init, RowInv, IdleCall, SavePc, Status

\* A handler that modifies the file under the lock writes no status but
\* starting and stopping, and begins no save.
LEMMA HandlerRows ==
    ASSUME Ops \subseteq ModifyOps, TypeOK, RowInv,
           NEW c \in Callers, Request(c) \/ CallStep(c)
    PROVE  /\ \A a \in Agents : row'[a] \in {"ready", "busy"} => row'[a] = row[a]
           /\ \A d \in Callers : call'[d].at \notin SavePc
<1> USE DEF SavePc, IdleCall
<1>1. call \in [Callers -> Call]
      /\ \A d \in Callers : call[d].at \notin SavePc
  BY DEF TypeOK, RowInv
<1>2. /\ "create" \notin Ops /\ "up" \notin Ops /\ "down" \notin Ops
      /\ "delete" \notin Ops /\ "mcp_destroy" \notin Ops
      /\ "mgr_destroy" \notin Ops
  BY DEF ModifyOps
<1>3. CASE Request(c)
  <2>1. UNCHANGED row
    BY <1>3 DEF Request, SpawnLoad, StopSignal, McpStop, RestartSignal,
       McpRestartSignal, DestroySignal, CreateLoad, UpLoad, DownLoad,
       DeleteLoad, McpDestroyLoad
  <2>2. ASSUME NEW w \in Workspaces
        PROVE  /\ ~CreateLoad(c, w) /\ ~UpLoad(c, w) /\ ~DownLoad(c, w)
               /\ ~DeleteLoad(c, w) /\ ~McpDestroyLoad(c, w)
    BY <1>2 DEF CreateLoad, UpLoad, DownLoad, DeleteLoad, McpDestroyLoad, Begin
  <2>3. ASSUME NEW w \in Workspaces, SpawnLoad(c, w) \/ DestroySignal(c, w)
        PROVE  \A d \in Callers : call'[d].at \notin SavePc
    BY <1>1, <2>3 DEF SpawnLoad, DestroySignal
  <2>4. ASSUME NEW a \in Agents,
               \/ StopSignal(c, a) \/ McpStop(c, a)
               \/ RestartSignal(c, a) \/ McpRestartSignal(c, a)
        PROVE  \A d \in Callers : call'[d].at \notin SavePc
    BY <1>1, <2>4 DEF StopSignal, McpStop, RestartSignal, McpRestartSignal
  <2> QED
    BY <1>3, <2>1, <2>2, <2>3, <2>4 DEF Request
<1>4. CASE CallStep(c)
  <2>1. ~Save(c)
    BY <1>1 DEF Save
  <2>2. \A d \in Callers : call'[d].at \notin SavePc
    BY <1>1, <1>4, <2>1 DEF CallStep, SpawnCall, SpawnAdd, StopWrite,
       RestartRemove, RestartAlloc, McpRestartAlloc, DestroyRemove, StoreFails, Finish, Call
  <2>3. \A a \in Agents : row'[a] \in {"ready", "busy"} => row'[a] = row[a]
    BY <1>4, <2>1, NoneAssumption DEF CallStep, SpawnCall, SpawnAdd, StopWrite,
       RestartRemove, RestartAlloc, McpRestartAlloc, DestroyRemove, StoreFails, DropRows,
       WriteStatus, HasRow, TypeOK, Status
  <2> QED
    BY <2>2, <2>3
<1> QED
  BY <1>3, <1>4

\* The task writes what it announces, and ready or busy where it watches on.
LEMMA TaskRows ==
    ASSUME TypeOK, RowInv, NEW a \in Agents, TaskStep(a)
    PROVE  RowInv'
<1> USE DEF Goto, SetStatus, WriteStatus, HasRow, RowInv, TypeOK, taskVars
<1>1. UNCHANGED <<call, forgotten>>
  BY DEF TaskStep, SpawnFail, SpawnOk, HealthFail, HealthOk, Ready, PromptOk,
     PromptFail, ExitSeen, StopSeen, Terminate, Stopped, Unmap
<1>2. \A b \in Agents \ {a} : /\ row'[b] = row[b] /\ pc'[b] = pc[b]
                              /\ b \in unwritten' <=> b \in unwritten
  BY DEF TaskStep, SpawnFail, SpawnOk, HealthFail, HealthOk, Ready, PromptOk,
     PromptFail, ExitSeen, StopSeen, Terminate, Stopped, Unmap
<1>3. row'[a] \in {"ready", "busy"} => pc'[a] \in {"prompt", "run"} \/ a \in forgotten \cup unwritten'
  <2>1. CASE SpawnFail(a) \/ SpawnOk(a) \/ HealthFail(a) \/ HealthOk(a)
    BY <2>1, NoneAssumption DEF SpawnFail, SpawnOk, HealthFail, HealthOk, Status
  <2>2. CASE Ready(a) \/ PromptOk(a) \/ PromptFail(a)
    BY <2>2 DEF Ready, PromptOk, PromptFail
  <2>3. CASE ExitSeen(a) \/ StopSeen(a) \/ Stopped(a)
    BY <2>3, NoneAssumption DEF ExitSeen, StopSeen, Stopped, Status
  <2>4. CASE Terminate(a) \/ Unmap(a)
    BY <2>4 DEF Terminate, Unmap
  <2> QED
    BY <2>1, <2>2, <2>3, <2>4 DEF TaskStep
<1> QED
  BY <1>1, <1>2, <1>3

\* Without saves of stale copies, every step keeps the rows true.
LEMMA StepRows ==
    ASSUME Ops \subseteq ModifyOps
    PROVE  TypeOK /\ TaskInv /\ RowInv /\ [Next]_vars => RowInv'
<1> SUFFICES ASSUME TypeOK, TaskInv, RowInv, [Next]_vars PROVE RowInv'
  OBVIOUS
<1>1. ASSUME NEW c \in Callers, Request(c) \/ CallStep(c) PROVE RowInv'
  <2>1. CASE SpawnCall(c)
    \* The agent was never spawned, so what its row says is nobody's task yet.
    <3>1. PICK a \in Agents : pc[a] = "unborn" /\ pc' = [pc EXCEPT ![a] = "spawn"]
      BY <2>1 DEF SpawnCall
    <3>2. UNCHANGED <<row, forgotten, unwritten>>
      BY <2>1 DEF SpawnCall
    <3> QED
      BY <3>1, <3>2, <1>1, HandlerRows DEF RowInv, TypeOK
  <2>2. CASE ~SpawnCall(c)
    BY <1>1, <2>2, HandlerRows, HandlerFrame DEF RowInv
  <2> QED
    BY <2>1, <2>2
<1>2. ASSUME NEW a \in Agents, TaskStep(a) PROVE RowInv'
  BY <1>2, TaskRows
<1>3. ASSUME NEW a \in Agents, ChildServe(a) \/ ChildExit(a) PROVE RowInv'
  BY <1>3 DEF ChildServe, ChildExit, taskVars, RowInv
<1>4. CASE DaemonExit
  <2>1. \A a \in Agents : pc[a] \in {"prompt", "run"} => a \in forgotten'
    BY <1>4 DEF DaemonExit, TaskInv, Mapped
  <2> QED
    BY <1>4, <2>1 DEF DaemonExit, RowInv, IdleCall, SavePc
<1>5. CASE UNCHANGED vars
  BY <1>5 DEF vars, RowInv
<1> QED
  BY <1>1, <1>2, <1>3, <1>4, <1>5 DEF Next

\* As long as every request writes state.json under its lock, a row says ready
\* or busy for an agent that nobody watches only if the write that was to
\* correct it failed.
THEOREM ReadyRowsManaged ==
    ASSUME Ops \subseteq ModifyOps
    PROVE  Spec => []ReadyIsManaged
<1>1. TypeOK /\ TaskInv /\ RowInv /\ [Next]_vars => RowInv'
  BY StepRows
<1>2. TaskInv /\ RowInv => ReadyIsManaged
  BY DEF TaskInv, Mapped, RowInv, ReadyIsManaged
<1> QED
  BY InitRows, Invariant, <1>1, <1>2, PTL DEF Spec

-----------------------------------------------------------------------------
(* What a watch takes for granted (AgentEvents) *)

\* What is known of a spawned agent has been announced.
Spoken == \A a \in Agents : opts[a] # None => announced[a] # None

EventTypes == due \in [Agents -> Status \cup {None}] /\ silent \in [Agents -> BOOLEAN]

\* A step tells at most one status of one agent, which follows the one before
\* and which the agent's row, if there is one that can be written, says too.
Tells(a, s) ==
    /\ announced' = [announced EXCEPT ![a] = s]
    /\ <<announced[a], s>> \in NextStatus
    /\ row' \in {row, IF HasRow(a) THEN [row EXCEPT ![a] = s] ELSE row}
    /\ pc'[a] # pc[a]

\* Splitting the broadcasts off leaves the lifecycle as it was.
LEMMA EventsAreLifecycle == EventSpec => Spec
<1>1. EventInit => Init
  BY DEF EventInit
<1>2. [EventNext]_eventVars => [Next]_vars
  BY DEF EventNext, LifecycleStep, Broadcast, eventVars
<1> QED BY <1>1, <1>2, PTL DEF EventSpec, Spec

\* Every step of the lifecycle tells one status or none.
LEMMA StepTells ==
    ASSUME TypeOK, LocalsOK, TaskInv, Spoken, Next
    PROVE  \/ UNCHANGED announced
           \/ \E a \in Agents, s \in Status : Tells(a, s)
<1> USE DEF Told, NextStatus, Announce, SetStatus, WriteStatus, Goto, TypeOK, TaskInv, Tells
<1>1. ASSUME NEW c \in Callers, SpawnCall(c)
      PROVE  \E a \in Agents : Tells(a, "starting")
  <2>1. PICK a \in Agents : /\ pc[a] = "unborn" /\ pc' = [pc EXCEPT ![a] = "spawn"]
                           /\ Announce(a, "starting")
    BY <1>1 DEF SpawnCall
  <2>2. announced[a] = None /\ ~HasRow(a) /\ row' = row
    BY <1>1, <2>1, OptsAssumption DEF SpawnCall, Spoken, LocalsOK, RowsSpawned, HasRow
  <2> QED BY <2>1, <2>2
<1>2. ASSUME NEW c \in Callers, Request(c) \/ CallStep(c), ~SpawnCall(c)
      PROVE  UNCHANGED announced
  BY <1>2, HandlerFrame
<1>3. ASSUME NEW a \in Agents, TaskStep(a)
      PROVE  UNCHANGED announced \/ \E s \in Status : Tells(a, s)
  <2>1. CASE SpawnFail(a) \/ HealthFail(a) \/ ExitSeen(a)
    <3>1. Tells(a, "error")
      BY <2>1 DEF SpawnFail, HealthFail, ExitSeen
    <3> QED BY <3>1 DEF Status
  <2>2. CASE Ready(a)
    <3>1. Tells(a, "ready")
      BY <2>2 DEF Ready
    <3> QED BY <3>1 DEF Status
  <2>3. CASE PromptOk(a)
    <3>1. Tells(a, "busy")
      BY <2>3 DEF PromptOk
    <3> QED BY <3>1 DEF Status
  <2>4. CASE StopSeen(a)
    <3>1. Tells(a, "stopping")
      BY <2>4 DEF StopSeen
    <3> QED BY <3>1 DEF Status
  <2>5. CASE Stopped(a)
    <3>1. Tells(a, "stopped")
      BY <2>5 DEF Stopped
    <3> QED BY <3>1 DEF Status
  <2>6. CASE SpawnOk(a) \/ HealthOk(a) \/ PromptFail(a) \/ Terminate(a) \/ Unmap(a)
    BY <2>6 DEF SpawnOk, HealthOk, PromptFail, Terminate, Unmap
  <2> QED BY <1>3, <2>1, <2>2, <2>3, <2>4, <2>5, <2>6 DEF TaskStep
<1>4. ASSUME DaemonExit \/ \E a \in Agents : ChildServe(a) \/ ChildExit(a)
      PROVE  UNCHANGED announced
  BY <1>4 DEF DaemonExit, ChildServe, ChildExit
<1>5. "starting" \in Status
  BY DEF Status
<1> HIDE DEF Told, NextStatus, Announce, SetStatus, WriteStatus, Goto, TypeOK, TaskInv, Tells
<1> QED BY <1>1, <1>2, <1>3, <1>4, <1>5 DEF Next

\* A status once announced is only replaced by another.
LEMMA StepSpoken ==
    TypeOK /\ LocalsOK /\ TaskInv /\ Spoken /\ [Next]_vars => Spoken'
<1> SUFFICES ASSUME TypeOK, LocalsOK, TaskInv, Spoken, [Next]_vars PROVE Spoken'
  OBVIOUS
<1>1. CASE UNCHANGED vars
  BY <1>1 DEF vars, Spoken
<1>2. CASE Next
  <2>1. \A a \in Agents : announced[a] # None => announced'[a] # None
    BY <1>2, StepTells, NoneAssumption DEF Tells, TypeOK
  <2>2. CASE \E c \in Callers : SpawnCall(c)
    <3>1. PICK a \in Agents : /\ \A b \in Agents : b # a => opts'[b] = opts[b]
                             /\ announced'[a] = "starting"
      BY <2>2 DEF SpawnCall, Announce, TypeOK
    <3>2. "starting" # None
      BY NoneAssumption DEF Status
    <3> QED BY <2>1, <3>1, <3>2 DEF Spoken
  <2>3. CASE ~\E c \in Callers : SpawnCall(c)
    <3>1. opts' = opts
      <4>1. ASSUME NEW a \in Agents, TaskStep(a) PROVE opts' = opts
        BY <4>1 DEF TaskStep, SpawnFail, SpawnOk, HealthFail, HealthOk, Ready, PromptOk,
           PromptFail, ExitSeen, StopSeen, Terminate, Stopped, Unmap, taskVars
      <4>2. ASSUME DaemonExit \/ \E a \in Agents : ChildServe(a) \/ ChildExit(a)
            PROVE  opts' = opts
        BY <4>2 DEF DaemonExit, ChildServe, ChildExit, taskVars
      <4> QED BY <1>2, <2>3, <4>1, <4>2, HandlerFrame DEF Next
    <3> QED BY <2>1, <3>1 DEF Spoken
  <2> QED BY <2>2, <2>3
<1> QED BY <1>1, <1>2

\* What is due and what is silent keep their types.
LEMMA StepEventTypes ==
    TypeOK /\ TypeOK' /\ EventTypes /\ [EventNext]_eventVars => EventTypes'
<1> SUFFICES ASSUME TypeOK, TypeOK', EventTypes, [EventNext]_eventVars PROVE EventTypes'
  OBVIOUS
<1>1. CASE LifecycleStep
  <2>1. announced' \in [Agents -> Status \cup {None}]
    BY DEF TypeOK
  <2> QED BY <1>1, <2>1 DEF LifecycleStep, EventTypes
<1>2. ASSUME NEW a \in Agents, Broadcast(a) PROVE EventTypes'
  BY <1>2 DEF Broadcast, EventTypes
<1>3. CASE UNCHANGED eventVars
  BY <1>3 DEF eventVars, EventTypes
<1> QED BY <1>1, <1>2, <1>3 DEF EventNext

\* All of it together.
EventInv == TypeOK /\ LocalsOK /\ TaskInv /\ Spoken /\ EventTypes

LEMMA EventInvariance == EventSpec => []EventInv
<1>1. EventInit => Spoken /\ EventTypes
  BY DEF EventInit, Init, Spoken, EventTypes
<1>2. [EventNext]_eventVars => [Next]_vars
  BY DEF EventNext, LifecycleStep, Broadcast, eventVars
<1>3. TypeOK /\ LocalsOK /\ TaskInv /\ Spoken /\ [EventNext]_eventVars => Spoken'
  BY <1>2, StepSpoken
<1> QED BY <1>1, <1>3, EventsAreLifecycle, Invariant, StepEventTypes, PTL DEF EventSpec, EventInv

\* The statuses of a task follow each other as a watch expects.
LEMMA FollowsNext ==
    ASSUME NEW s, NEW t, <<s, t>> \in NextStatus, s # None
    PROVE  t \in R!Follows[s] \cap Status
BY DEF NextStatus, R!Follows, R!Status, Status

\* What tells is a status that the agent's task writes.
LEMMA TellsReports ==
    ASSUME EventInv, NEW a \in Agents, NEW s \in Status, Tells(a, s), LifecycleStep
    PROVE  R!Spawn(a) \/ R!Proceed(a)
<1>1. due[a] = None
  BY DEF LifecycleStep, AfterSend, Tells
<1>2. <<announced[a], s>> \in NextStatus
  BY DEF Tells
<1>3. announced'[a] = s /\ s # announced[a] /\ \A b \in Agents : b # a => announced'[b] = announced[b]
  BY <1>2, NoneAssumption DEF Tells, NextStatus, EventInv, TypeOK, Status
<1>4. due' = [due EXCEPT ![a] = s]
  BY <1>3 DEF LifecycleStep, EventInv, EventTypes
<1>5. \A b \in Agents : b # a => row'[b] = row[b]
  BY DEF Tells, EventInv, TypeOK
<1>6. silent' = silent
  <2>1. \A b \in Agents : (announced'[b] = announced[b] /\ row'[b] # row[b]) = FALSE
    BY <1>3, <1>5
  <2> QED BY <2>1 DEF LifecycleStep, EventInv, EventTypes
<1>7. R!SetStatus(a, s)
  BY <1>1, <1>4, <1>6 DEF R!SetStatus, R!HasRow, Tells, HasRow
<1>8. CASE announced[a] = None
  <2>1. s = "starting"
    BY <1>2, <1>8, NoneAssumption DEF NextStatus, Status
  <2> QED BY <1>7, <1>8, <2>1 DEF R!Spawn
<1>9. CASE announced[a] # None
  <2>1. s \in R!Follows[announced[a]] \cap [b \in Agents |-> Status][a]
    BY <1>2, <1>9, FollowsNext
  <2> QED BY <1>7, <1>9, <2>1 DEF R!Proceed
<1> QED BY <1>8, <1>9

\* What tells nothing changes rows of announced agents at most.
LEMMA SilentReports ==
    ASSUME EventInv, EventInv', UNCHANGED announced, LifecycleStep
    PROVE  R!ChangeRows
<1>1. row' \in [Agents -> Status \cup {None}]
  BY DEF EventInv, TypeOK
<1>2. due' = due
  BY DEF LifecycleStep, EventInv, EventTypes
<1>3. silent' = [a \in Agents |-> silent[a] \/ row'[a] # row[a]]
  BY DEF LifecycleStep
<1>4. ASSUME NEW a \in Agents, row'[a] # row[a]
      PROVE  announced[a] # None
  <2>1. CASE row[a] # None
    BY <2>1, OptsAssumption DEF EventInv, Spoken, LocalsOK, RowsSpawned
  <2>2. CASE row'[a] # None
    <3>1. opts'[a] # None
      BY <2>2, OptsAssumption DEF EventInv, LocalsOK, RowsSpawned
    <3> QED BY <3>1 DEF EventInv, Spoken
  <2> QED BY <1>4, <2>1, <2>2
<1> QED BY <1>1, <1>2, <1>3, <1>4 DEF R!ChangeRows, R!Status, Status

\* For any agents, workspaces, requests and ports: what the daemon tells of its
\* agents is what a watch takes for granted, though the requests that change the
\* rows run between a task's write and its broadcast, and though some of them
\* save a copy of state.json that they loaded many steps before.
THEOREM EventsReport == EventSpec => ImplementsReports
<1>1. EventInit => R!ReportsInit
  BY DEF EventInit, Init, R!ReportsInit
<1>2. EventInv /\ EventInv' /\ [EventNext]_eventVars => [R!ReportsNext]_(R!reportVars)
  <2> SUFFICES ASSUME EventInv, EventInv', [EventNext]_eventVars
               PROVE  R!ReportsNext \/ UNCHANGED R!reportVars
    OBVIOUS
  <2>1. CASE LifecycleStep
    <3>1. CASE UNCHANGED announced
      BY <2>1, <3>1, SilentReports DEF R!ReportsNext
    <3>2. ASSUME NEW a \in Agents, NEW s \in Status, Tells(a, s)
          PROVE  R!ReportsNext
      BY <2>1, <3>2, TellsReports DEF R!ReportsNext
    <3> QED BY <2>1, <3>1, <3>2, StepTells DEF LifecycleStep, EventInv
  <2>2. ASSUME NEW a \in Agents, Broadcast(a)
        PROVE  R!ReportsNext
    <3>1. R!Broadcast(a)
      BY <2>2 DEF Broadcast, R!Broadcast, vars
    <3> QED BY <3>1 DEF R!ReportsNext
  <2>3. CASE UNCHANGED eventVars
    BY <2>3 DEF eventVars, vars, R!reportVars
  <2> QED BY <2>1, <2>2, <2>3 DEF EventNext
<1> QED BY <1>1, <1>2, EventInvariance, PTL DEF EventSpec, ImplementsReports, R!Reports

-----------------------------------------------------------------------------
(* The ports in the rows, with requests that overlap (AgentEvents) *)

\* A request that holds a port knows of every row with that port, but for the
\* rows that were added since it read the ports in use.
PortLocal(c) ==
    /\ call[c].at = "call" =>
         \A a \in Agents : HasRow(a) /\ opts[a].port = call[c].port => a \in missed[c]
    /\ call[c].at = "mcp_sleep" =>
         \A a \in Agents : HasRow(a) => opts[a].port \in call[c].used \/ a \in missed[c]
    /\ call[c].at = "add" =>
         /\ pc[call[c].agent] # "unborn" /\ opts[call[c].agent].ws = call[c].ws
         /\ \A a \in Agents : HasRow(a) /\ opts[a].port = opts[call[c].agent].port
                                => a \in missed[c] \cup {call[c].agent}

\* Every row is of an active workspace: allocate_agent_port counts them all.
RowsActive ==
    /\ \A w \in Workspaces : ws[w] # "inactive"
    /\ \A a \in Agents : HasRow(a) => ws[opts[a].ws] = "active" /\ pc[a] # "unborn"

PortInv == RowsActive /\ PortsSharedOnlyByOverlap /\ \A c \in Callers : PortLocal(c)

\* Initially there are no rows.
LEMMA InitPorts == EventInit => PortInv
  BY NoneAssumption DEF EventInit, Init, PortInv, RowsActive, PortsSharedOnlyByOverlap,
     PortLocal, HasRow, IdleCall

\* A step of the lifecycle whose steps are all of them but the daemon's exit.
LEMMA StepKinds ==
    ASSUME TypeOK, LifecycleStep
    PROVE  \/ \E c \in Callers : Request(c) \/ CallStep(c)
           \/ \E a \in Agents : TaskStep(a) \/ ChildServe(a) \/ ChildExit(a)
  BY DEF LifecycleStep, Next, DaemonExit, TypeOK

\* An agent that was spawned keeps its options.
LEMMA OptsStay ==
    ASSUME TypeOK, LifecycleStep, NEW a \in Agents, pc[a] # "unborn"
    PROVE  pc'[a] # "unborn" /\ opts'[a] = opts[a]
<1>1. ASSUME NEW c \in Callers, Request(c) \/ CallStep(c), ~SpawnCall(c)
      PROVE  pc'[a] # "unborn" /\ opts'[a] = opts[a]
  BY <1>1, HandlerFrame
<1>2. ASSUME NEW c \in Callers, SpawnCall(c)
      PROVE  pc'[a] # "unborn" /\ opts'[a] = opts[a]
  BY <1>2 DEF SpawnCall, TypeOK
<1>3. ASSUME NEW b \in Agents, TaskStep(b) \/ ChildServe(b) \/ ChildExit(b)
      PROVE  pc'[a] # "unborn" /\ opts'[a] = opts[a]
  BY <1>3 DEF TaskStep, SpawnFail, SpawnOk, HealthFail, HealthOk, Ready, PromptOk, PromptFail,
     ExitSeen, StopSeen, Terminate, Stopped, Unmap, ChildServe, ChildExit, Goto, TypeOK, taskVars
<1> QED BY <1>1, <1>2, <1>3, StepKinds

\* Tasks and processes touch neither requests nor workspaces, and no more of a
\* row than its status.
LEMMA TaskFrame ==
    ASSUME TypeOK, NEW a \in Agents, TaskStep(a) \/ ChildServe(a) \/ ChildExit(a)
    PROVE  UNCHANGED <<ws, call>> /\ \A b \in Agents : HasRow(b)' <=> HasRow(b)
<1>1. UNCHANGED <<ws, call>>
  BY DEF TaskStep, SpawnFail, SpawnOk, HealthFail, HealthOk, Ready, PromptOk, PromptFail,
     ExitSeen, StopSeen, Terminate, Stopped, Unmap, ChildServe, ChildExit, taskVars
<1>2. \A b \in Agents : HasRow(b)' <=> HasRow(b)
  BY NoneAssumption DEF TaskStep, SpawnFail, SpawnOk, HealthFail, HealthOk, Ready, PromptOk,
     PromptFail, ExitSeen, StopSeen, Terminate, Stopped, Unmap, ChildServe, ChildExit,
     SetStatus, WriteStatus, HasRow, TypeOK, Status
<1> QED BY <1>1, <1>2

\* Rows are added by spawns; a workspace goes with its rows.
LEMMA HandlerRowsFrame ==
    ASSUME Ops \subseteq ModifyOps, TypeOK, RowInv,
           NEW c \in Callers, Request(c) \/ CallStep(c)
    PROVE  \/ SpawnAdd(c)
           \/ DestroyRemove(c)
           \/ UNCHANGED ws /\ \A a \in Agents : HasRow(a)' => HasRow(a)
<1>1. CASE Request(c)
  BY <1>1 DEF Request, SpawnLoad, StopSignal, McpStop, RestartSignal, McpRestartSignal,
     DestroySignal, CreateLoad, UpLoad, DownLoad, DeleteLoad, McpDestroyLoad, HasRow
<1>2. CASE StopWrite(c) \/ RestartRemove(c)
  BY <1>2, NoneAssumption DEF StopWrite, RestartRemove, WriteStatus, HasRow, TypeOK, Status
<1>3. CASE SpawnCall(c) \/ RestartAlloc(c) \/ McpRestartAlloc(c) \/ StoreFails(c)
  BY <1>3 DEF SpawnCall, RestartAlloc, McpRestartAlloc, StoreFails, HasRow
<1>4. ~Save(c)
  BY DEF Save, RowInv, SavePc
<1> QED BY <1>1, <1>2, <1>3, <1>4 DEF CallStep

\* The row a spawn adds is of an active workspace, like all others.
LEMMA RowsStayActive ==
    ASSUME Ops \subseteq ModifyOps, TypeOK, LocalsOK, RowInv, PortInv, LifecycleStep
    PROVE  RowsActive'
<1>1. \A a \in Agents : HasRow(a) => opts[a].ws \in Workspaces
  BY DEF LocalsOK, RowsSpawned, HasRow, Opts
<1>2. \A a \in Agents : pc[a] # "unborn" => pc'[a] # "unborn" /\ opts'[a] = opts[a]
  BY OptsStay
<1>3. ASSUME UNCHANGED ws, \A a \in Agents : HasRow(a)' => HasRow(a)
      PROVE  RowsActive'
  BY <1>2, <1>3 DEF PortInv, RowsActive
<1>4. ASSUME NEW c \in Callers, SpawnAdd(c) PROVE RowsActive'
  <2>1. /\ call[c].agent \in Agents /\ opts[call[c].agent].ws = call[c].ws
        /\ pc[call[c].agent] # "unborn" /\ call[c].ws \in Workspaces
    BY <1>4 DEF SpawnAdd, LocalsOK, LocalOK, PortInv, PortLocal, Opts
  <2>2. ws' = ws /\ \A a \in Agents : HasRow(a)' =>
          HasRow(a) \/ (a = call[c].agent /\ ws[call[c].ws] # "absent")
    BY <1>4 DEF SpawnAdd, HasRow
  <2>3. ws[call[c].ws] # "absent" => ws[call[c].ws] = "active"
    BY <2>1 DEF PortInv, RowsActive, TypeOK, WsState
  <2> QED BY <1>2, <2>1, <2>2, <2>3 DEF PortInv, RowsActive
<1>5. ASSUME NEW c \in Callers, DestroyRemove(c) PROVE RowsActive'
  <2>1. \A w \in Workspaces : ws'[w] = IF w = call[c].ws THEN "absent" ELSE ws[w]
    BY <1>5 DEF DestroyRemove, TypeOK
  <2>2. \A a \in Agents : HasRow(a)' => HasRow(a) /\ opts[a].ws # call[c].ws
    BY <1>5 DEF DestroyRemove, DropRows, HasRow
  <2> QED BY <1>1, <1>2, <2>1, <2>2 DEF PortInv, RowsActive
<1> QED BY <1>3, <1>4, <1>5, StepKinds, TaskFrame, HandlerRowsFrame

\* A request that does not move misses what is added.
LEMMA LocalStays ==
    ASSUME TypeOK, LocalsOK, PortInv, LifecycleStep, NEW c \in Callers, call'[c] = call[c]
    PROVE  PortLocal(c)'
<1>1. \A a \in Agents : HasRow(a)' => HasRow(a) \/ a \in Added
  BY DEF HasRow, Added
<1>2. Holds(call[c]) => missed'[c] = missed[c] \cup Added
  BY DEF LifecycleStep, Overlaps
<1>3. \A a \in Agents : pc[a] # "unborn" => pc'[a] # "unborn" /\ opts'[a] = opts[a]
  BY OptsStay
<1>4. \A a \in Agents : HasRow(a) => opts'[a] = opts[a]
  BY <1>3 DEF PortInv, RowsActive
<1>5. PortLocal(c) /\ (call[c].at = "add" => call[c].agent \in Agents)
  BY DEF PortInv, LocalsOK, LocalOK
<1> QED BY <1>1, <1>2, <1>3, <1>4, <1>5 DEF PortLocal, Holds

\* A request that moves on, short of adding the row, knows of the rows with the
\* port that it takes, or has missed them.
LEMMA LocalMoves ==
    ASSUME Ops \subseteq ModifyOps, TypeOK, LocalsOK, RowInv, PortInv, LifecycleStep,
           NEW c \in Callers, Request(c) \/ CallStep(c), ~SpawnAdd(c), ~DestroyRemove(c)
    PROVE  PortLocal(c)'
<1> USE DEF IdleCall
<1>1. \A a \in Agents : HasRow(a) => opts[a].port \in UsedPorts
  BY DEF PortInv, RowsActive, UsedPorts
<1>2. \A a \in Agents : HasRow(a)' => HasRow(a)
  BY HandlerRowsFrame
<1>3. \A a \in Agents : HasRow(a) => opts'[a] = opts[a]
  BY OptsStay DEF PortInv, RowsActive
<1>4. call[c] \in Call /\ PortLocal(c)
  BY DEF TypeOK, PortInv
<1>5. ASSUME call'[c].at \notin {"call", "mcp_sleep", "add"} PROVE PortLocal(c)'
  BY <1>5 DEF PortLocal
<1>6. ASSUME NEW p, NEW used, Allocates(used, p), call'[c].at = "call", call'[c].port = p,
             \A a \in Agents : HasRow(a) => opts[a].port \in used \/ a \in missed'[c]
      PROVE  PortLocal(c)'
  <2>1. p \notin used
    BY <1>6 DEF Allocates
  <2> QED BY <1>2, <1>3, <1>6, <2>1 DEF PortLocal
<1>7. ASSUME NEW a \in Agents, StopSignal(c, a) \/ RestartSignal(c, a) PROVE PortLocal(c)'
  BY <1>5, <1>7 DEF StopSignal, RestartSignal, TypeOK
<1>8. ASSUME NEW a \in Agents, McpStop(c, a) PROVE PortLocal(c)'
  BY <1>8, LocalStays DEF McpStop
<1>9. ASSUME NEW a \in Agents, McpRestartSignal(c, a) PROVE PortLocal(c)'
  <2>1. call'[c].at = "mcp_sleep" /\ call'[c].used = UsedPorts
    BY <1>9 DEF McpRestartSignal, TypeOK
  <2> QED BY <1>1, <1>2, <1>3, <2>1 DEF PortLocal
<1>10. ASSUME NEW w \in Workspaces, SpawnLoad(c, w) PROVE PortLocal(c)'
  <2>1. \E p \in Ports : Allocates(UsedPorts, p) /\ call'[c].at = "call" /\ call'[c].port = p
    BY <1>10 DEF SpawnLoad, TypeOK
  <2> QED BY <1>1, <1>6, <2>1
<1>11. ASSUME NEW w \in Workspaces, DestroySignal(c, w) PROVE PortLocal(c)'
  BY <1>5, <1>11 DEF DestroySignal, TypeOK
<1>12. ASSUME NEW w \in Workspaces
       PROVE  /\ ~CreateLoad(c, w) /\ ~UpLoad(c, w) /\ ~DownLoad(c, w)
              /\ ~DeleteLoad(c, w) /\ ~McpDestroyLoad(c, w)
  BY DEF CreateLoad, UpLoad, DownLoad, DeleteLoad, McpDestroyLoad, Begin, ModifyOps
<1>13. Finish(c) => PortLocal(c)'
  BY <1>5 DEF Finish, TypeOK
<1>14. CASE SpawnCall(c)
  <2>1. PICK a \in Agents :
          /\ pc[a] = "unborn"
          /\ opts' = [opts EXCEPT ![a] = [ws |-> call[c].ws, port |-> call[c].port,
                                          prompt |-> call[c].prompted]]
          /\ pc' = [pc EXCEPT ![a] = "spawn"]
          /\ call' = [call EXCEPT ![c].at = "add", ![c].agent = a]
    BY <1>14 DEF SpawnCall
  <2>2. /\ call'[c].at = "add" /\ call'[c].agent = a /\ call'[c].ws = call[c].ws
        /\ opts'[a].ws = call[c].ws /\ opts'[a].port = call[c].port /\ pc'[a] # "unborn"
    BY <1>4, <2>1 DEF TypeOK, Call
  <2>3. call[c].at = "call" /\ missed[c] \subseteq missed'[c]
    BY <1>14, <2>2 DEF SpawnCall, LifecycleStep, Overlaps, Holds
  <2> QED BY <1>2, <1>3, <1>4, <2>2, <2>3 DEF PortLocal
<1>15. CASE StopWrite(c)
  BY <1>13, <1>15 DEF StopWrite
<1>16. CASE RestartRemove(c)
  <2>1. call'[c].at = "alloc"
    BY <1>4, <1>16 DEF RestartRemove, TypeOK, Call
  <2> QED BY <1>5, <2>1
<1>17. CASE RestartAlloc(c)
  <2>1. ASSUME ~Finish(c)
        PROVE  \E p \in Ports : Allocates(UsedPorts, p) /\ call'[c].at = "call" /\ call'[c].port = p
    BY <1>4, <1>17, <2>1 DEF RestartAlloc, TypeOK, Call
  <2> QED BY <1>1, <1>6, <1>13, <2>1
<1>18. CASE McpRestartAlloc(c)
  <2>1. ASSUME ~Finish(c)
        PROVE  \E p \in Ports : Allocates(call[c].used, p) /\ call'[c].at = "call" /\ call'[c].port = p
    BY <1>4, <1>18, <2>1 DEF McpRestartAlloc, TypeOK, Call
  <2>2. call'[c].at = "call" => missed[c] \subseteq missed'[c]
    BY <1>18 DEF McpRestartAlloc, LifecycleStep, Overlaps, Holds
  <2>3. \A a \in Agents : HasRow(a) => opts[a].port \in call[c].used \/ a \in missed[c]
    BY <1>4, <1>18 DEF PortLocal, McpRestartAlloc
  <2> QED BY <1>6, <1>13, <2>1, <2>2, <2>3
<1>19. ~Save(c)
  BY DEF Save, RowInv, SavePc
<1>20. CASE StoreFails(c)
  BY <1>13, <1>20 DEF StoreFails, RowInv, SavePc
<1> QED BY <1>7, <1>8, <1>9, <1>10, <1>11, <1>12, <1>14, <1>15, <1>16, <1>17, <1>18, <1>19,
        <1>20 DEF Request, CallStep

\* A request only moves itself.
LEMMA OthersStay ==
    ASSUME TypeOK, LocalsOK, NEW c \in Callers, Request(c) \/ CallStep(c)
    PROVE  \A d \in Callers \ {c} : call'[d] = call[d]
<1>1. CASE SpawnCall(c)
  BY <1>1 DEF SpawnCall, TypeOK
<1>2. CASE ~SpawnCall(c)
  BY <1>2, HandlerLocals DEF TypeOK
<1> QED BY <1>1, <1>2

\* So what requests hold stays right.
LEMMA LocalsStay ==
    ASSUME Ops \subseteq ModifyOps, TypeOK, LocalsOK, RowInv, PortInv, LifecycleStep,
           NEW c \in Callers
    PROVE  PortLocal(c)'
<1>1. ASSUME NEW d \in Callers, Request(d) \/ CallStep(d)
      PROVE  PortLocal(c)'
  <2>1. CASE c # d
    BY <1>1, <2>1, OthersStay, LocalStays
  <2>2. CASE c = d /\ (SpawnAdd(d) \/ DestroyRemove(d))
    BY <2>2 DEF SpawnAdd, DestroyRemove, Finish, PortLocal, IdleCall, TypeOK
  <2> QED BY <1>1, <2>1, <2>2, LocalMoves
<1>2. ASSUME NEW a \in Agents, TaskStep(a) \/ ChildServe(a) \/ ChildExit(a)
      PROVE  PortLocal(c)'
  BY <1>2, TaskFrame, LocalStays
<1> QED BY <1>1, <1>2, StepKinds

\* Two rows that share a port overlap: they did before, or one is added now by a
\* request that has missed the other.
LEMMA SharedStay ==
    ASSUME Ops \subseteq ModifyOps, TypeOK, LocalsOK, RowInv, PortInv, LifecycleStep
    PROVE  PortsSharedOnlyByOverlap'
<1>1. \A a \in Agents : HasRow(a) => opts'[a] = opts[a]
  BY OptsStay DEF PortInv, RowsActive
<1>2. overlap \subseteq overlap'
  BY DEF LifecycleStep, Overlaps
<1>3. ASSUME \A a \in Agents : HasRow(a)' => HasRow(a)
      PROVE  PortsSharedOnlyByOverlap'
  BY <1>1, <1>2, <1>3 DEF PortInv, PortsSharedOnlyByOverlap
<1>4. ASSUME NEW c \in Callers, SpawnAdd(c), ~HasRow(call[c].agent), row'[call[c].agent] # None
      PROVE  PortsSharedOnlyByOverlap'
  <2> DEFINE b == call[c].agent
  <2>1. b \in Agents /\ opts' = opts /\ call[c].at = "add"
    BY <1>4 DEF SpawnAdd, LocalsOK, LocalOK
  <2>2. b \in Added
    BY <1>4, <2>1 DEF Added, HasRow
  <2>3. \A a \in missed[c] : {b, a} \in overlap'
    BY <2>1, <2>2 DEF LifecycleStep, Overlaps
  <2>4. \A a \in Agents : HasRow(a)' => HasRow(a) \/ a = b
    BY <1>4 DEF SpawnAdd, HasRow
  <2>5. \A a \in Agents : HasRow(a) /\ opts[a].port = opts[b].port => a \in missed[c] \/ a = b
    BY <2>1 DEF PortInv, PortLocal
  <2> HIDE DEF b
  <2>6. \A a \in Agents \ {b} : HasRow(a)' /\ opts[a].port = opts[b].port => {a, b} \in overlap'
    <3> SUFFICES ASSUME NEW a \in Agents \ {b}, HasRow(a)', opts[a].port = opts[b].port
                 PROVE  {a, b} \in overlap'
      OBVIOUS
    <3>1. {b, a} \in overlap'
      BY <2>3, <2>4, <2>5
    <3>2. {b, a} = {a, b}
      OBVIOUS
    <3> QED BY <3>1, <3>2
  <2> SUFFICES ASSUME NEW x \in Agents, NEW y \in Agents, x # y, HasRow(x)', HasRow(y)',
                      opts[x].port = opts[y].port
               PROVE  {x, y} \in overlap'
    BY <2>1 DEF PortsSharedOnlyByOverlap
  <2>7. CASE x = b
    <3>1. {y, b} \in overlap' /\ {y, b} = {x, y}
      BY <2>6, <2>7
    <3> QED BY <3>1
  <2>8. CASE y = b
    BY <2>6, <2>8
  <2>9. CASE x # b /\ y # b
    BY <1>2, <2>4, <2>9 DEF PortInv, PortsSharedOnlyByOverlap
  <2> QED BY <2>7, <2>8, <2>9
<1>5. ASSUME NEW c \in Callers, SpawnAdd(c), HasRow(call[c].agent) \/ row'[call[c].agent] = None
      PROVE  PortsSharedOnlyByOverlap'
  <2>1. \A a \in Agents : HasRow(a)' => HasRow(a)
    BY <1>5 DEF SpawnAdd, HasRow
  <2> QED BY <1>3, <2>1
<1>6. ASSUME NEW c \in Callers, DestroyRemove(c) PROVE PortsSharedOnlyByOverlap'
  <2>1. \A a \in Agents : HasRow(a)' => HasRow(a)
    BY <1>6 DEF DestroyRemove, DropRows, HasRow
  <2> QED BY <1>3, <2>1
<1> QED BY <1>3, <1>4, <1>5, <1>6, StepKinds, TaskFrame, HandlerRowsFrame

\* For any agents, requests, workspaces and ports, as long as every request
\* writes state.json under its lock: two rows share a port only if one was added
\* while the other's request went from reading the ports in use to its own row,
\* whether or not that request slept in between.
THEOREM PortsOverlap ==
    ASSUME Ops \subseteq ModifyOps
    PROVE  EventSpec => []PortsSharedOnlyByOverlap
<1>1. EventInit => RowInv
  BY InitRows DEF EventInit
<1>2. [EventNext]_eventVars => [Next]_vars
  BY DEF EventNext, LifecycleStep, Broadcast, eventVars
<1>3. TypeOK /\ TaskInv /\ RowInv /\ [EventNext]_eventVars => RowInv'
  BY <1>2, StepRows
<1>4. TypeOK /\ LocalsOK /\ RowInv /\ PortInv /\ [EventNext]_eventVars => PortInv'
  <2> SUFFICES ASSUME TypeOK, LocalsOK, RowInv, PortInv, [EventNext]_eventVars PROVE PortInv'
    OBVIOUS
  <2>1. CASE LifecycleStep
    BY <2>1, RowsStayActive, SharedStay, LocalsStay DEF PortInv
  <2>2. CASE UNCHANGED <<vars, missed, overlap>>
    BY <2>2 DEF vars, PortInv, RowsActive, PortsSharedOnlyByOverlap, PortLocal, HasRow
  <2> QED BY <2>1, <2>2 DEF EventNext, Broadcast, eventVars
<1>5. PortInv => PortsSharedOnlyByOverlap
  BY DEF PortInv
<1> QED BY InitPorts, <1>1, <1>3, <1>4, <1>5, EventsAreLifecycle, Invariant, PTL DEF EventSpec
=============================================================================
