--------------------------- MODULE ProcSupervisor ---------------------------
(***************************************************************************)
(* The supervisors of the processes that belong to a workspace.  There are *)
(* two of them, for ACP agents and for bezalel servers, and they are the   *)
(* same program: a map from workspaces to stop signals, a task per entry   *)
(* that restarts its process when it exits, and a loop that compares the   *)
(* map with state.json every five seconds.                                 *)
(*                                                                         *)
(* The map has a mutex, and each of its uses is a step: start looks into   *)
(* the map and inserts into it under two separate acquisitions.  "active"  *)
(* stands for all that makes a workspace have a process: being active, a   *)
(* port and, as the supervisor may be, an enabled ACP section or a         *)
(* headless mark and a token.  How that is stored is module                *)
(* WorkspaceStore's matter; here only the steps that change it appear.     *)
(*                                                                         *)
(* The operators named Bad... are faults, used by no action.               *)
(***************************************************************************)
EXTENDS Integers

CONSTANTS
    Workspaces,   \* workspace names
    Callers,      \* threads that serve requests and windows
    Sync,         \* the thread of the sync loop
    MaxTasks,     \* bound on the tasks there are at the same time
    MaxRequests,  \* bound on the requests
    None          \* no task, no workspace

Threads == Callers \cup {Sync}

\* A task is freshly made, with its Notify, by every start; the number of one
\* that is gone is used again.
Tasks == 1 .. MaxTasks

ASSUME BoundsAssumption == MaxTasks \in Nat /\ MaxRequests \in Nat
ASSUME SyncAssumption == Sync \notin Callers
ASSUME NoneAssumption == None \notin Workspaces /\ None \notin Tasks

VARIABLES
    active,    \* state.json: the workspaces that are to have a process
    procs,     \* the map: the task whose stop signal is the entry
    pc,        \* where a task is
    owner,     \* the workspace it was started for
    permit,    \* its stop signal holds a permit
    child,     \* its process
    at,        \* where a thread is
    ws,        \* the workspace a thread works on
    starts,    \* sync: workspaces still to start
    stops,     \* sync: workspaces still to stop
    requests   \* requests so far

vars == <<active, procs, pc, owner, permit, child, at, ws, starts, stops,
          requests>>

taskVars == <<pc, owner, permit, child>>
syncVars == <<starts, stops>>

TaskPc == {"none", "spawn", "run", "delay", "grace", "end"}

\* "start" and "insert" are the two halves of Supervisor::start; a Manager
\* saves after it ("..._save").
ThreadAt == {"idle", "start", "insert", "start_save", "insert_save", "save",
             "stop", "list", "walk"}

TypeOK ==
    /\ active \in SUBSET Workspaces
    /\ procs \in [Workspaces -> Tasks \cup {None}]
    /\ pc \in [Tasks -> TaskPc]
    /\ owner \in [Tasks -> Workspaces \cup {None}]
    /\ permit \in [Tasks -> BOOLEAN]
    /\ child \in [Tasks -> {"none", "alive", "exited"}]
    /\ at \in [Threads -> ThreadAt]
    /\ ws \in [Threads -> Workspaces \cup {None}]
    /\ starts \in SUBSET Workspaces
    /\ stops \in SUBSET Workspaces
    /\ requests \in 0 .. MaxRequests

Init ==
    /\ active \in SUBSET Workspaces
    /\ procs = [w \in Workspaces |-> None]
    /\ pc = [t \in Tasks |-> "none"]
    /\ owner = [t \in Tasks |-> None]
    /\ permit = [t \in Tasks |-> FALSE]
    /\ child = [t \in Tasks |-> "none"]
    /\ at = [h \in Threads |-> "idle"]
    /\ ws = [h \in Threads |-> None]
    /\ starts = {}
    /\ stops = {}
    /\ requests = 0

-----------------------------------------------------------------------------
(* The map *)

Running == {w \in Workspaces : procs[w] # None}

Fresh(t) == pc[t] = "none" /\ \A u \in Tasks : u < t => pc[u] # "none"

\* Supervisor::stop: notify_one on the entry, if there is one.
Notify(w) ==
    permit' = IF procs[w] = None THEN permit
              ELSE [permit EXCEPT ![procs[w]] = TRUE]

\* A thread moves on for workspace w, or is done with its workspace.
MoveFor(h, w, from, to) ==
    /\ at[h] = from
    /\ at' = [at EXCEPT ![h] = to]
    /\ ws' = [ws EXCEPT ![h] = IF to \in {"idle", "list", "walk"} THEN None
                               ELSE w]

Move(h, from, to) == MoveFor(h, ws[h], from, to)

\* Supervisor::start, first half: an entry means "already running".
Look(h, from, insert, done) ==
    /\ IF ws[h] \in Running THEN Move(h, from, done)
                            ELSE Move(h, from, insert)
    /\ UNCHANGED <<active, procs, requests>>
    /\ UNCHANGED taskVars /\ UNCHANGED syncVars

\* Second half: the entry is inserted, over one that appeared meanwhile.
Insert(h, from, done) ==
    /\ Move(h, from, done)
    /\ \E t \in Tasks :
         /\ Fresh(t)
         /\ procs' = [procs EXCEPT ![ws[h]] = t]
         /\ pc' = [pc EXCEPT ![t] = "spawn"]
         /\ owner' = [owner EXCEPT ![t] = ws[h]]
    /\ UNCHANGED <<active, permit, child, requests>> /\ UNCHANGED syncVars

-----------------------------------------------------------------------------
(* Requests that take a workspace up or down *)

\* A request is accepted while the bound allows.
Accept(c, w, next) ==
    /\ requests < MaxRequests
    /\ requests' = requests + 1
    /\ MoveFor(c, w, "idle", next)
    /\ UNCHANGED procs /\ UNCHANGED taskVars /\ UNCHANGED syncVars

\* create_workspace and start_workspace (REST) save and then start the ACP
\* agent; the gRPC handler and the command line start nothing.
UpThenStart(c, w) ==
    /\ active' = active \cup {w}
    /\ Accept(c, w, "start") \/ Accept(c, w, "idle")

\* Manager::up, and provision_bezalel wherever it is called: the process is
\* started first, state.json saved afterwards.
StartThenUp(c, w) == Accept(c, w, "start_save") /\ UNCHANGED active

\* Manager::down saves and then stops; delete_workspace (REST), the MCP and
\* gRPC destroy and the command line stop nothing.
Down(c, w) ==
    /\ active' = active \ {w}
    /\ Accept(c, w, "stop") \/ Accept(c, w, "idle")

\* The save may fail: then the process is started for nothing.
SaveUp(c) ==
    /\ Move(c, "save", "idle")
    /\ active' \in {active, active \cup {ws[c]}}
    /\ UNCHANGED <<procs, requests>>
    /\ UNCHANGED taskVars /\ UNCHANGED syncVars

\* Fault: stop takes the entry out of the map, before the task has ended.
BadStopIt(c) ==
    /\ Move(c, "stop", "idle")
    /\ Notify(ws[c])
    /\ procs' = [procs EXCEPT ![ws[c]] = None]
    /\ UNCHANGED <<active, pc, owner, child, requests>>
    /\ UNCHANGED syncVars

StopIt(c) ==
    /\ Move(c, "stop", "idle")
    /\ Notify(ws[c])
    /\ UNCHANGED <<active, procs, pc, owner, child, requests>>
    /\ UNCHANGED syncVars

-----------------------------------------------------------------------------
(* sync_workspaces, again and again *)

\* It loads the store ...
SyncLoad ==
    /\ Move(Sync, "idle", "list")
    /\ starts' = active
    /\ stops' = Workspaces \ active
    /\ UNCHANGED <<active, procs, requests>> /\ UNCHANGED taskVars

\* Fault: orphans are not looked for.
BadSyncList ==
    /\ Move(Sync, "list", "walk")
    /\ starts' = starts \ Running
    /\ stops' = {}
    /\ UNCHANGED <<active, procs, requests>> /\ UNCHANGED taskVars

\* ... and lists the map.  What is active and not running is to be started,
\* what is running and not active to be stopped.
SyncList ==
    /\ Move(Sync, "list", "walk")
    /\ starts' = starts \ Running
    /\ stops' = stops \cap Running
    /\ UNCHANGED <<active, procs, requests>> /\ UNCHANGED taskVars

SyncStart(w) ==
    /\ w \in starts
    /\ MoveFor(Sync, w, "walk", "start")
    /\ starts' = starts \ {w}
    /\ UNCHANGED <<active, procs, stops, requests>> /\ UNCHANGED taskVars

\* Orphans are stopped when all is started.
SyncStop(w) ==
    /\ starts = {} /\ w \in stops
    /\ at[Sync] = "walk"
    /\ Notify(w)
    /\ stops' = stops \ {w}
    /\ UNCHANGED <<active, procs, pc, owner, child, at, ws, starts, requests>>

SyncEnd ==
    /\ starts = {} /\ stops = {}
    /\ Move(Sync, "walk", "idle")
    /\ UNCHANGED <<active, procs, starts, stops, requests>>
    /\ UNCHANGED taskVars

-----------------------------------------------------------------------------
(* The task of an entry *)

Goto(t, from, to) == pc[t] = from /\ pc' = [pc EXCEPT ![t] = to]

\* Fault: the delay is a plain sleep, which no signal ends.
BadPauseOrEnd(t, from) ==
    /\ Goto(t, from, "delay")
    /\ child' = [child EXCEPT ![t] = "none"]
    /\ UNCHANGED permit

\* A select! on the stop signal and the restart delay: a permit that is there
\* already wins, one that comes during the delay ends it.
PauseOrEnd(t, from) ==
    /\ Goto(t, from, IF permit[t] THEN "end" ELSE "delay")
    /\ permit' = [permit EXCEPT ![t] = FALSE]
    /\ child' = [child EXCEPT ![t] = "none"]

SpawnFail(t) ==
    /\ PauseOrEnd(t, "spawn")
    /\ UNCHANGED <<procs, owner>>

SpawnOk(t) ==
    /\ Goto(t, "spawn", "run")
    /\ child' = [child EXCEPT ![t] = "alive"]
    /\ UNCHANGED <<procs, owner, permit>>

\* select! on child.wait() and the stop signal: either, if both are ready.
ExitSeen(t) ==
    /\ child[t] = "exited"
    /\ PauseOrEnd(t, "run")
    /\ UNCHANGED <<procs, owner>>

\* Fault: the branch of the stop signal goes where the task has no step.
BadStopSeen(t) ==
    /\ permit[t]
    /\ Goto(t, "run", "stopping")
    /\ permit' = [permit EXCEPT ![t] = FALSE]
    /\ UNCHANGED <<procs, owner, child>>

StopSeen(t) ==
    /\ permit[t]
    /\ Goto(t, "run", "grace")
    /\ permit' = [permit EXCEPT ![t] = FALSE]
    /\ UNCHANGED <<procs, owner, child>>

\* graceful_stop: SIGTERM, and SIGKILL after the grace period.
Terminate(t) ==
    /\ Goto(t, "grace", "end")
    /\ child' = [child EXCEPT ![t] = "none"]
    /\ UNCHANGED <<procs, owner, permit>>

DelayStop(t) ==
    /\ permit[t]
    /\ Goto(t, "delay", "end")
    /\ permit' = [permit EXCEPT ![t] = FALSE]
    /\ UNCHANGED <<procs, owner, child>>

\* The delay is over, perhaps at the moment the signal comes.
DelayOver(t) ==
    /\ Goto(t, "delay", "spawn")
    /\ UNCHANGED <<procs, owner, permit, child>>

\* Fault: a task that breaks out of its loop leaves its entry behind.
BadEnd(t) ==
    /\ Goto(t, "end", "none")
    /\ UNCHANGED procs
    /\ owner' = [owner EXCEPT ![t] = None]
    /\ permit' = [permit EXCEPT ![t] = FALSE]
    /\ UNCHANGED child

\* The entry of the workspace is removed, whosever it is.
End(t) ==
    /\ Goto(t, "end", "none")
    /\ procs' = [procs EXCEPT ![owner[t]] = None]
    /\ owner' = [owner EXCEPT ![t] = None]
    /\ permit' = [permit EXCEPT ![t] = FALSE]
    /\ UNCHANGED child

\* The process exits on its own.
ChildExit(t) ==
    /\ child[t] = "alive"
    /\ child' = [child EXCEPT ![t] = "exited"]
    /\ UNCHANGED <<procs, pc, owner, permit>>

-----------------------------------------------------------------------------
Request(c) ==
    \E w \in Workspaces : UpThenStart(c, w) \/ StartThenUp(c, w) \/ Down(c, w)

CallerStep(c) ==
    \/ Look(c, "start", "insert", "idle") \/ Insert(c, "insert", "idle")
    \/ Look(c, "start_save", "insert_save", "save")
    \/ Insert(c, "insert_save", "save")
    \/ SaveUp(c) \/ StopIt(c)

SyncStep ==
    \/ SyncLoad \/ SyncList \/ SyncEnd
    \/ \E w \in Workspaces : SyncStart(w) \/ SyncStop(w)
    \/ Look(Sync, "start", "insert", "walk") \/ Insert(Sync, "insert", "walk")

TaskStep(t) ==
    /\ \/ SpawnFail(t) \/ SpawnOk(t) \/ ExitSeen(t) \/ StopSeen(t)
       \/ Terminate(t) \/ DelayStop(t) \/ DelayOver(t) \/ End(t)
    /\ UNCHANGED <<active, at, ws, starts, stops, requests>>

Exit(t) ==
    ChildExit(t) /\ UNCHANGED <<active, at, ws, starts, stops, requests>>

Next ==
    \/ \E c \in Callers : Request(c) \/ CallerStep(c)
    \/ SyncStep
    \/ \E t \in Tasks : TaskStep(t) \/ Exit(t)

Spec == Init /\ [][Next]_vars

\* Threads and tasks are scheduled; the sync loop runs as long as the daemon
\* does.  Nobody has to make a request, and no process has to exit.
Fairness ==
    /\ \A c \in Callers : WF_vars(CallerStep(c))
    /\ WF_vars(SyncStep)
    /\ \A t \in Tasks : WF_vars(TaskStep(t))

FairSpec == Spec /\ Fairness

-----------------------------------------------------------------------------
(* Properties *)

\* The tasks started for w that are still there.
TasksOf(w) == {t \in Tasks : pc[t] # "none" /\ owner[t] = w}

\* "Already running" is true: the entry of a workspace is that of a task of
\* this workspace that is still there.  This holds although two starts may
\* insert over each other and although a task removes whatever entry it
\* finds when it ends; an entry without a task would block every later start.
EntryHasTask == \A w \in Running : procs[w] \in TasksOf(w)

\* A task that no entry leads to: no stop reaches it.
Orphan(t) == pc[t] # "none" /\ procs[owner[t]] # t

\* A task loses its entry in two ways only: a start that had looked before the
\* entry was there inserts over it, or a task that lost its own that way ends,
\* and takes away the entry of its workspace.  Stops, crashes, restarts and the
\* sync loop never take an entry from a task that is still there.
LostToOverlap ==
    [][\A t \in Tasks :
          ~Orphan(t) /\ Orphan(t)' =>
             \/ \E h \in Threads : /\ at[h] \in {"insert", "insert_save"} /\ at'[h] # at[h]
                                   /\ ws[h] = owner[t] /\ ws[h] \in Running
             \/ \E u \in Tasks : /\ Orphan(u) /\ pc[u] = "end" /\ pc'[u] = "none"
                                 /\ owner[u] = owner[t]]_vars

\* A stop is honoured, whatever the process does and wherever the task is in
\* its loop of restarts: the task ends.
StopHonoured == \A t \in Tasks : permit[t] ~> pc[t] = "none"

\* The sync loop converges: a workspace that stays active has a task in the
\* end, one that stays inactive has no entry, whatever the order of requests,
\* stale lists and crashes before.
Converges ==
    \A w \in Workspaces :
        /\ <>[](w \in active) => <>[](TasksOf(w) # {})
        /\ <>[](w \notin active) => <>[](procs[w] = None)
=============================================================================
