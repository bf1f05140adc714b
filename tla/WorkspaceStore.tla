--------------------------- MODULE WorkspaceStore ---------------------------
(***************************************************************************)
(* The workspaces of state.json and those who change them: the command     *)
(* line tool, the daemon's windows, the REST, gRPC and MCP handlers and    *)
(* the ACP supervisor.  Nearly all of them load the file into a Store of   *)
(* their own, change that and save all of it, so what is saved was         *)
(* computed from a file that others may have replaced meanwhile.  A        *)
(* command line process even shares no lock with the daemon.               *)
(*                                                                         *)
(* A load, a save and a modify are one step each (module StateFile; a      *)
(* modify that a command line save overtakes leaves the file as a          *)
(* SaveSession and then the modify would).  Only what is allocated is kept *)
(* of a workspace: the tag index, the ACP and the bezalel port; 0 stands   *)
(* for None (tag_index 0 does in the code).                                *)
(* The operators named Bad... are faults, used by no action.               *)
(***************************************************************************)
EXTENDS Integers

CONSTANTS
    Workspaces,    \* workspace names
    Callers,       \* commands and requests that run at the same time
    Tags,          \* tag indices, from TAG_OFFSET up
    AcpPorts,      \* ACP_PORT_BASE .. ACP_PORT_MAX
    BezalelPorts,  \* BEZALEL_PORT_BASE .. BEZALEL_PORT_MAX
    Absent         \* the name is not in the store

ASSUME NumbersAssumption == /\ Tags \subseteq Nat \ {0}
                            /\ AcpPorts \subseteq Nat \ {0}
                            /\ BezalelPorts \subseteq Nat \ {0}

VARIABLES
    file,      \* the store in state.json
    at,        \* per caller: what it is doing
    target,    \* per caller: the workspace it is destroying
    held,      \* per caller: the Store it loaded
    supervised, \* workspaces whose project has an ACP agent
    task,      \* per workspace: the port its ACP task was started with, or 0
    stopping   \* workspaces whose ACP task has been told to stop

vars == <<file, at, target, held, supervised, task, stopping>>

WorkspaceState == [active: BOOLEAN, headless: BOOLEAN, tag: Tags \cup {0},
                   acp: AcpPorts \cup {0}, bezalel: BezalelPorts \cup {0}]

ASSUME AbsentAssumption == Absent \notin WorkspaceState

Store == [Workspaces -> WorkspaceState \cup {Absent}]

Default == [active |-> FALSE, headless |-> FALSE, tag |-> 0, acp |-> 0,
            bezalel |-> 0]

\* A request ends with its save; a Manager lives on with its Store.
\* Manager::destroy has two halves.
CallerAt == {"idle", "request", "manager", "destroying"}

TypeOK ==
    /\ file \in Store
    /\ at \in [Callers -> CallerAt]
    /\ target \in [Callers -> Workspaces \cup {Absent}]
    /\ held \in [Callers -> Store]
    /\ supervised \in SUBSET Workspaces
    /\ task \in [Workspaces -> AcpPorts \cup {0}]
    /\ stopping \in SUBSET Workspaces

Nothing == [w \in Workspaces |-> Absent]

Init ==
    /\ file = Nothing
    /\ at = [c \in Callers |-> "idle"]
    /\ target = [c \in Callers |-> Absent]
    /\ held = [c \in Callers |-> Nothing]
    /\ supervised \in SUBSET Workspaces
    /\ task = [w \in Workspaces |-> 0]
    /\ stopping = {}

-----------------------------------------------------------------------------
(* What Store computes *)

Active(st) == {w \in Workspaces : st[w] # Absent /\ st[w].active}

\* The value that w has in st already, 0 for none.
Has(st, w, field) == IF st[w] = Absent THEN 0 ELSE st[w][field]

\* The values of that field in use, by the active workspaces only.
InUse(st, field) == {st[v][field] : v \in Active(st)}

Lowest(S, n) == n \in S /\ \A m \in S : n <= m

\* Fault: the last index in use is taken for free.
BadAllocatesTag(st, w, n) ==
    IF Has(st, w, "tag") # 0 THEN n = Has(st, w, "tag")
    ELSE n \in Tags /\ \A m \in InUse(st, "tag") : m <= n

\* n is what the allocation returns: the value w has, or the lowest free one.
AllocatesTag(st, w, n) ==
    IF Has(st, w, "tag") # 0 THEN n = Has(st, w, "tag")
    ELSE Lowest(Tags \ InUse(st, "tag"), n)

\* Fault: ports of headless workspaces are not looked at.
BadAllocatesAcp(st, w, n) ==
    IF Has(st, w, "acp") # 0 THEN n = Has(st, w, "acp")
    ELSE n \in AcpPorts
         /\ \A v \in Active(st) : st[v].headless \/ st[v].acp # n

\* 0 when the range is exhausted: the workspace goes without.
AllocatesAcp(st, w, n) ==
    IF Has(st, w, "acp") # 0 THEN n = Has(st, w, "acp")
    ELSE \/ Lowest(AcpPorts \ InUse(st, "acp"), n)
         \/ n = 0 /\ AcpPorts \subseteq InUse(st, "acp")

\* Fault: only the bind is tried, an instance that is down loses its port.
BadAllocatesBezalel(st, w, n) ==
    IF Has(st, w, "bezalel") # 0 THEN n = Has(st, w, "bezalel")
    ELSE n \in BezalelPorts \cup {0}

\* A port that is free in st may still be bound by anybody: it is skipped.
AllocatesBezalel(st, w, n) ==
    IF Has(st, w, "bezalel") # 0 THEN n = Has(st, w, "bezalel")
    ELSE n \in (BezalelPorts \ InUse(st, "bezalel")) \cup {0}

\* set_active keeps headless and the bezalel port of an existing entry.
SetActive(st, w, t, p) ==
    LET old == IF st[w] = Absent THEN Default ELSE st[w]
    IN  [st EXCEPT ![w] = [active |-> TRUE, headless |-> old.headless,
                           tag |-> t, acp |-> p, bezalel |-> old.bezalel]]

\* provision_bezalel: without a port it does not even mark w as headless.
Provision(st, w, b) ==
    IF b = 0 THEN st
    ELSE [st EXCEPT ![w] = [@ EXCEPT !.headless = TRUE, !.bezalel = b]]

\* Fault: the ports of an inactive workspace are kept for the next start.
BadSetInactive(st, w) ==
    IF st[w] = Absent THEN st
    ELSE [st EXCEPT ![w] = [@ EXCEPT !.active = FALSE, !.tag = 0]]

SetInactive(st, w) == IF st[w] = Absent THEN st ELSE [st EXCEPT ![w] = Default]

Remove(st, w) == [st EXCEPT ![w] = Absent]

\* The tag, the ACP port and the bezalel port of a workspace that comes up.
Allocates(st, w, headless, t, p, b) ==
    /\ AllocatesTag(st, w, t)
    /\ AllocatesAcp(st, w, p)
    /\ IF headless THEN AllocatesBezalel(st, w, b) ELSE b = 0

BroughtUp(st, w, t, p, b) == Provision(SetActive(st, w, t, p), w, b)

-----------------------------------------------------------------------------
(* The ACP supervisor, as far as it touches the store *)

\* Supervisor::start: nothing happens when w has a task.
StartTask(w, p) ==
    task' = IF w \in supervised /\ task[w] = 0 /\ p # 0
              THEN [task EXCEPT ![w] = p] ELSE task

\* Supervisor::stop leaves a permit for the task.
StopTask(w) ==
    stopping' = IF task[w] # 0 THEN stopping \cup {w} ELSE stopping

\* update_state_acp, by modify, each time the process was (re)started.
AcpReport(w) ==
    /\ task[w] # 0
    /\ file[w] # Absent
    /\ file' = [file EXCEPT ![w] = [@ EXCEPT !.acp = task[w]]]
    /\ UNCHANGED <<at, target, held, supervised, task, stopping>>

\* The task sees the signal and leaves the map.
AcpEnd(w) ==
    /\ task[w] # 0
    /\ w \in stopping
    /\ task' = [task EXCEPT ![w] = 0]
    /\ stopping' = stopping \ {w}
    /\ UNCHANGED <<file, at, target, held, supervised>>

\* sync_workspaces: starts what is active, stops what is not.
AcpSync(w) ==
    /\ IF w \in Active(file)
         THEN StartTask(w, file[w].acp) /\ UNCHANGED stopping
         ELSE StopTask(w) /\ UNCHANGED task
    /\ UNCHANGED <<file, at, target, held, supervised>>

-----------------------------------------------------------------------------
(* Commands and requests *)

Load(c, kind) ==
    /\ at[c] = "idle"
    /\ held' = [held EXCEPT ![c] = file]
    /\ at' = [at EXCEPT ![c] = kind]
    /\ UNCHANGED <<file, target, supervised, task, stopping>>

\* The caller is done, or gives up: its Store is dropped.
Drop(c) ==
    /\ at[c] \in {"request", "manager"}
    /\ at' = [at EXCEPT ![c] = "idle"]
    /\ held' = [held EXCEPT ![c] = Nothing]
    /\ UNCHANGED <<file, target, supervised, task, stopping>>

\* save: what a request made of its copy replaces the file ...
SaveAndEnd(c, new) ==
    /\ at[c] = "request"
    /\ file' = new
    /\ at' = [at EXCEPT ![c] = "idle"]
    /\ held' = [held EXCEPT ![c] = Nothing]
    /\ UNCHANGED <<target, supervised>>

\* ... and what a Manager did, which goes on with the same copy.
SaveAndKeep(c, new) ==
    /\ file' = new
    /\ held' = [held EXCEPT ![c] = new]
    /\ UNCHANGED supervised

\* create_workspace (REST) refuses a name it finds in its copy.
Create(c, w) ==
    /\ held[c][w] = Absent
    /\ \E headless \in BOOLEAN, t \in Tags,
          p \in AcpPorts \cup {0}, b \in BezalelPorts \cup {0} :
         /\ Allocates(held[c], w, headless, t, p, b)
         /\ SaveAndEnd(c, BroughtUp(held[c], w, t, p, b))
         /\ StartTask(w, p)
    /\ UNCHANGED stopping

\* start_workspace (REST): headless is what the entry says, and set_inactive
\* has cleared that.
Start(c, w) ==
    /\ held[c][w] # Absent
    /\ ~held[c][w].active
    /\ \E t \in Tags, p \in AcpPorts \cup {0}, b \in BezalelPorts \cup {0} :
         /\ Allocates(held[c], w, held[c][w].headless, t, p, b)
         /\ SaveAndEnd(c, BroughtUp(held[c], w, t, p, b))
         /\ StartTask(w, p)
    /\ UNCHANGED stopping

\* create_workspace (gRPC) looks at nothing and starts nothing.
GrpcCreate(c, w) ==
    /\ \E t \in Tags, p \in AcpPorts \cup {0} :
         /\ Allocates(held[c], w, FALSE, t, p, 0)
         /\ SaveAndEnd(c, BroughtUp(held[c], w, t, p, 0))
    /\ UNCHANGED <<task, stopping>>

\* delete_workspace (REST), workspace_destroy (MCP).
Delete(c, w) ==
    /\ held[c][w] # Absent
    /\ SaveAndEnd(c, Remove(held[c], w))
    /\ UNCHANGED <<task, stopping>>

\* save_session_id changes nothing that is modelled, and saves everything.
SaveSession(c, w) ==
    /\ held[c][w] # Absent
    /\ SaveAndEnd(c, held[c])
    /\ UNCHANGED <<task, stopping>>

\* destroy_workspace (gRPC) is the one that works under the lock.
GrpcDestroy(w) ==
    /\ file[w] # Absent
    /\ file' = Remove(file, w)
    /\ UNCHANGED <<at, target, held, supervised, task, stopping>>

\* Manager::up.  In the daemon the ACP agent is started before the save; in
\* a command line process there is no supervisor, so it is not.
Up(c, w) ==
    /\ at[c] = "manager"
    /\ \E headless \in BOOLEAN, t \in Tags,
          p \in AcpPorts \cup {0}, b \in BezalelPorts \cup {0} :
         /\ Allocates(held[c], w, headless, t, p, b)
         /\ SaveAndKeep(c, BroughtUp(held[c], w, t, p, b))
         /\ StartTask(w, p) \/ UNCHANGED task
    /\ UNCHANGED <<at, target, stopping>>

\* Manager::down, and the first half of Manager::destroy.
Down(c, w) ==
    /\ at[c] = "manager"
    /\ SaveAndKeep(c, SetInactive(held[c], w))
    /\ \/ UNCHANGED <<at, target>>
       \/ /\ at' = [at EXCEPT ![c] = "destroying"]
          /\ target' = [target EXCEPT ![c] = w]
    /\ StopTask(w) \/ UNCHANGED stopping
    /\ UNCHANGED task

\* The rest of Manager::destroy, after the tag and the worktree are gone.
DestroyRemove(c, w) ==
    /\ at[c] = "destroying"
    /\ w = target[c]
    /\ SaveAndKeep(c, Remove(held[c], w))
    /\ at' = [at EXCEPT ![c] = "manager"]
    /\ target' = [target EXCEPT ![c] = Absent]
    /\ UNCHANGED <<task, stopping>>

-----------------------------------------------------------------------------
RequestStep(c, w) ==
    \/ Create(c, w) \/ Start(c, w) \/ GrpcCreate(c, w) \/ Delete(c, w)
    \/ SaveSession(c, w)

ManagerStep(c, w) == Up(c, w) \/ Down(c, w) \/ DestroyRemove(c, w)

SupervisorStep(w) == AcpReport(w) \/ AcpEnd(w) \/ AcpSync(w)

Next ==
    \/ \E c \in Callers : \/ \E kind \in {"request", "manager"} : Load(c, kind)
                          \/ Drop(c)
                          \/ \E w \in Workspaces : \/ RequestStep(c, w)
                                                   \/ ManagerStep(c, w)
    \/ \E w \in Workspaces : GrpcDestroy(w) \/ SupervisorStep(w)

Spec == Init /\ [][Next]_vars

-----------------------------------------------------------------------------
(* Properties *)

\* No two active workspaces have the same value, among those in S.
Distinct(st, field, S) ==
    \A v, w \in Active(st) \cap S :
        v # w /\ st[v][field] # 0 => st[v][field] # st[w][field]

\* The file never gives a window manager tag to two active workspaces, in
\* whatever order stale copies are saved over each other.
TagsDistinct == Distinct(file, "tag", Workspaces)

\* The same for the ports of bezalel servers.
BezalelPortsDistinct == Distinct(file, "bezalel", Workspaces)

\* ACP ports are only shared when an ACP agent is running: update_state_acp
\* puts the port back into a workspace that was taken down, from where the
\* next start takes it without looking whether it is free.
UnsupervisedAcpDistinct == Distinct(file, "acp", Workspaces \ supervised)

\* An inactive workspace holds no tag and no bezalel port: they are given
\* back the moment it goes down.
InactiveHoldsNothing ==
    \A w \in Workspaces : file[w] # Absent /\ ~file[w].active
        => file[w].tag = 0 /\ file[w].bezalel = 0 /\ ~file[w].headless

\* "[active] --destroy--> [removed]" (docs/workspace-system/lifecycle.md:8) is
\* the only way out of the store: a workspace disappears in a step that
\* removes this workspace.
OnlyDestroyRemoves ==
    [][\A w \in Workspaces : file[w] # Absent /\ file'[w] = Absent
          => \/ GrpcDestroy(w)
             \/ \E c \in Callers : Delete(c, w) \/ DestroyRemove(c, w)]_vars
=============================================================================
