---------------------------- MODULE DaemonProofs ----------------------------
(***************************************************************************)
(* Proofs about the daemon process: its supervisors (ProcSupervisor) and   *)
(* the socket by which it is found (Daemon).                               *)
(*                                                                         *)
(* ProcSupervisor: type correctness, and that an entry of the map always   *)
(* belongs to a task that is there.  The map and the tasks change in steps *)
(* of their own, so the invariant also says which thread works on a        *)
(* workspace and which task has one.                                       *)
(*                                                                         *)
(* Daemon: type correctness, and that a daemon which listens can be found. *)
(***************************************************************************)
EXTENDS ProcSupervisor, Daemon, TLAPS

Busy == {"start", "insert", "start_save", "insert_save", "save", "stop"}

\* A thread between two halves of a call knows its workspace, and so does a
\* task that is there.
BusyHasWorkspace == \A h \in Threads : at[h] \in Busy => ws[h] \in Workspaces
TaskHasWorkspace == \A t \in Tasks : pc[t] # "none" => owner[t] \in Workspaces

Inv == TypeOK /\ BusyHasWorkspace /\ TaskHasWorkspace /\ EntryHasTask

USE BoundsAssumption, SyncAssumption, NoneAssumption

-----------------------------------------------------------------------------
\* The initial states satisfy the invariant.
LEMMA InitInv == Init => Inv
BY DEF Init, Inv, TypeOK, BusyHasWorkspace, TaskHasWorkspace, EntryHasTask,
       Running, Busy, TaskPc, ThreadAt

\* What moving on leaves of the threads.
LEMMA MoveForType ==
    ASSUME TypeOK, BusyHasWorkspace, NEW h \in Threads, NEW w \in Workspaces,
           NEW from, NEW to \in ThreadAt, MoveFor(h, w, from, to)
    PROVE  /\ at' \in [Threads -> ThreadAt]
           /\ ws' \in [Threads -> Workspaces \cup {None}]
           /\ BusyHasWorkspace'
BY DEF MoveFor, TypeOK, BusyHasWorkspace, Busy, ThreadAt

\* The same for a step that goes on with the workspace the thread has, or that
\* goes where none is needed.
LEMMA MoveType ==
    ASSUME TypeOK, BusyHasWorkspace, NEW h \in Threads,
           NEW from, NEW to \in ThreadAt, Move(h, from, to),
           from \in Busy \/ to \notin Busy
    PROVE  /\ at' \in [Threads -> ThreadAt]
           /\ ws' \in [Threads -> Workspaces \cup {None}]
           /\ BusyHasWorkspace'
BY DEF Move, MoveFor, TypeOK, BusyHasWorkspace, Busy, ThreadAt

\* Where the map and the tasks do not change, what relates them is kept.
LEMMA MapKept ==
    ASSUME Inv, UNCHANGED <<procs, pc, owner>>
    PROVE  TaskHasWorkspace' /\ EntryHasTask'
BY DEF Inv, TaskHasWorkspace, EntryHasTask, Running, TasksOf

\* A stop signal leaves permits what they are.
LEMMA NotifyType ==
    ASSUME TypeOK, NEW w \in Workspaces, Notify(w)
    PROVE  permit' \in [Tasks -> BOOLEAN]
BY DEF TypeOK, Notify

-----------------------------------------------------------------------------
(* The threads *)

\* The first half of start only moves the thread.
LEMMA LookStep ==
    ASSUME Inv, NEW h \in Threads, NEW from \in Busy,
           NEW insert \in ThreadAt, NEW done \in ThreadAt,
           Look(h, from, insert, done)
    PROVE  Inv'
<1>1. /\ at' \in [Threads -> ThreadAt]
      /\ ws' \in [Threads -> Workspaces \cup {None}]
      /\ BusyHasWorkspace'
  BY MoveType DEF Inv, Look
<1>2. TypeOK'
  BY <1>1 DEF Inv, TypeOK, Look, taskVars, syncVars
<1>3. TaskHasWorkspace' /\ EntryHasTask'
  BY MapKept DEF Look, taskVars
<1> QED BY <1>1, <1>2, <1>3 DEF Inv

\* The second half puts a task that was in no entry into one.
LEMMA InsertStep ==
    ASSUME Inv, NEW h \in Threads, NEW from \in Busy, NEW done \in ThreadAt,
           Insert(h, from, done)
    PROVE  Inv'
<1>1. ws[h] \in Workspaces
  BY DEF Inv, BusyHasWorkspace, Insert, Move, MoveFor
<1>2. PICK t \in Tasks :
        /\ Fresh(t)
        /\ procs' = [procs EXCEPT ![ws[h]] = t]
        /\ pc' = [pc EXCEPT ![t] = "spawn"]
        /\ owner' = [owner EXCEPT ![t] = ws[h]]
  BY DEF Insert
<1>3. /\ at' \in [Threads -> ThreadAt]
      /\ ws' \in [Threads -> Workspaces \cup {None}]
      /\ BusyHasWorkspace'
  BY MoveType DEF Inv, Insert
<1>4. TypeOK'
  BY <1>1, <1>2, <1>3 DEF Inv, TypeOK, Insert, syncVars, TaskPc
<1>5. TaskHasWorkspace'
  BY <1>1, <1>2 DEF Inv, TypeOK, TaskHasWorkspace
<1>6. EntryHasTask'
  \* t was in no entry: only tasks that are there are.
  <2> SUFFICES ASSUME NEW w \in Workspaces, procs'[w] # None
               PROVE  procs'[w] \in TasksOf(w)'
    BY DEF EntryHasTask, Running
  <2>1. CASE w = ws[h]
    BY <1>1, <1>2, <2>1 DEF Inv, TypeOK, TasksOf
  <2>2. CASE w # ws[h]
    <3>1. procs'[w] = procs[w] /\ procs[w] \in TasksOf(w)
      BY <1>2, <2>2 DEF Inv, TypeOK, EntryHasTask, Running
    <3> QED BY <1>2, <3>1 DEF Inv, TypeOK, TasksOf, Fresh
  <2> QED BY <2>1, <2>2
<1> QED BY <1>3, <1>4, <1>5, <1>6 DEF Inv

\* Taking a workspace up or down does not touch the map.
LEMMA RequestStep ==
    ASSUME Inv, NEW c \in Callers, Request(c)
    PROVE  Inv'
<1>1. PICK w \in Workspaces, next \in ThreadAt :
        /\ Accept(c, w, next)
        /\ active' \in {active, active \cup {w}, active \ {w}}
  BY DEF Request, UpThenStart, StartThenUp, Down, ThreadAt
<1>2. /\ at' \in [Threads -> ThreadAt]
      /\ ws' \in [Threads -> Workspaces \cup {None}]
      /\ BusyHasWorkspace'
  BY <1>1, MoveForType DEF Inv, Accept, Threads
<1>3. requests' \in 0 .. MaxRequests
  BY <1>1 DEF Inv, TypeOK, Accept
<1>4. TypeOK'
  BY <1>1, <1>2, <1>3 DEF Inv, TypeOK, Accept, taskVars, syncVars
<1>5. TaskHasWorkspace' /\ EntryHasTask'
  BY <1>1, MapKept DEF Accept, taskVars
<1> QED BY <1>2, <1>4, <1>5 DEF Inv

\* The steps of a request keep the invariant ...
LEMMA CallerInv ==
    ASSUME Inv, NEW c \in Callers, CallerStep(c)
    PROVE  Inv'
<1> c \in Threads
  BY DEF Threads
<1>1. CASE Look(c, "start", "insert", "idle")
  BY <1>1, LookStep DEF Busy, ThreadAt
<1>2. CASE Look(c, "start_save", "insert_save", "save")
  BY <1>2, LookStep DEF Busy, ThreadAt
<1>3. CASE Insert(c, "insert", "idle")
  BY <1>3, InsertStep DEF Busy, ThreadAt
<1>4. CASE Insert(c, "insert_save", "save")
  BY <1>4, InsertStep DEF Busy, ThreadAt
<1>5. CASE SaveUp(c)
  <2>1. ws[c] \in Workspaces
    BY <1>5 DEF Inv, BusyHasWorkspace, Busy, SaveUp, Move, MoveFor
  <2>2. /\ at' \in [Threads -> ThreadAt]
        /\ ws' \in [Threads -> Workspaces \cup {None}]
        /\ BusyHasWorkspace'
    BY <1>5, MoveType DEF Inv, SaveUp, Busy, ThreadAt
  <2>3. TypeOK'
    BY <1>5, <2>1, <2>2 DEF Inv, TypeOK, SaveUp, taskVars, syncVars
  <2> QED BY <1>5, <2>2, <2>3, MapKept DEF Inv, SaveUp, taskVars
<1>6. CASE StopIt(c)
  <2>1. ws[c] \in Workspaces
    BY <1>6 DEF Inv, BusyHasWorkspace, Busy, StopIt, Move, MoveFor
  <2>2. /\ at' \in [Threads -> ThreadAt]
        /\ ws' \in [Threads -> Workspaces \cup {None}]
        /\ BusyHasWorkspace'
    BY <1>6, MoveType DEF Inv, StopIt, Busy, ThreadAt
  <2>3. permit' \in [Tasks -> BOOLEAN]
    BY <1>6, <2>1, NotifyType DEF Inv, StopIt
  <2>4. TypeOK'
    BY <1>6, <2>2, <2>3 DEF Inv, TypeOK, StopIt, syncVars
  <2> QED BY <1>6, <2>2, <2>4, MapKept DEF Inv, StopIt
<1> QED BY <1>1, <1>2, <1>3, <1>4, <1>5, <1>6 DEF CallerStep

\* ... and so do those of the sync loop, whatever it has listed.
LEMMA SyncInv ==
    ASSUME Inv, SyncStep
    PROVE  Inv'
<1> Sync \in Threads
  BY DEF Threads
<1>1. CASE SyncLoad \/ SyncList \/ SyncEnd
  <2>1. PICK from, to \in {"idle", "list", "walk"} : Move(Sync, from, to)
    BY <1>1 DEF SyncLoad, SyncList, SyncEnd
  <2>2. /\ at' \in [Threads -> ThreadAt]
        /\ ws' \in [Threads -> Workspaces \cup {None}]
        /\ BusyHasWorkspace'
    BY <2>1, MoveType DEF Inv, Busy, ThreadAt
  <2>3. starts' \in SUBSET Workspaces /\ stops' \in SUBSET Workspaces
    BY <1>1 DEF Inv, TypeOK, SyncLoad, SyncList, SyncEnd
  <2>4. UNCHANGED <<active, procs, requests>> /\ UNCHANGED taskVars
    BY <1>1 DEF SyncLoad, SyncList, SyncEnd
  <2>5. TypeOK'
    BY <2>2, <2>3, <2>4 DEF Inv, TypeOK, taskVars
  <2> QED BY <2>2, <2>4, <2>5, MapKept DEF Inv, taskVars
<1>2. CASE \E w \in Workspaces : SyncStart(w)
  <2>1. PICK w \in Workspaces : SyncStart(w)
    BY <1>2
  <2>2. /\ at' \in [Threads -> ThreadAt]
        /\ ws' \in [Threads -> Workspaces \cup {None}]
        /\ BusyHasWorkspace'
    BY <2>1, MoveForType DEF Inv, SyncStart, ThreadAt
  <2>3. TypeOK'
    BY <2>1, <2>2 DEF Inv, TypeOK, SyncStart, taskVars
  <2> QED BY <2>1, <2>2, <2>3, MapKept DEF Inv, SyncStart, taskVars
<1>3. CASE \E w \in Workspaces : SyncStop(w)
  <2>1. PICK w \in Workspaces : SyncStop(w)
    BY <1>3
  <2>2. permit' \in [Tasks -> BOOLEAN]
    BY <2>1, NotifyType DEF Inv, SyncStop
  <2>3. TypeOK' /\ BusyHasWorkspace'
    BY <2>1, <2>2 DEF Inv, TypeOK, BusyHasWorkspace, SyncStop
  <2> QED BY <2>1, <2>3, MapKept DEF Inv, SyncStop
<1>4. CASE Look(Sync, "start", "insert", "walk")
  BY <1>4, LookStep DEF Busy, ThreadAt
<1>5. CASE Insert(Sync, "insert", "walk")
  BY <1>5, InsertStep DEF Busy, ThreadAt
<1> QED BY <1>1, <1>2, <1>3, <1>4, <1>5 DEF SyncStep

-----------------------------------------------------------------------------
(* The tasks *)

\* A step of a task that goes on with its loop.
LEMMA LoopStep ==
    ASSUME Inv, NEW t \in Tasks,
           UNCHANGED <<active, at, ws, starts, stops, requests>>,
           UNCHANGED <<procs, owner>>,
           NEW next \in TaskPc \ {"none"}, pc[t] # "none",
           pc' = [pc EXCEPT ![t] = next],
           permit' \in [Tasks -> BOOLEAN],
           child' \in [Tasks -> {"none", "alive", "exited"}]
    PROVE  Inv'
<1>1. TypeOK' /\ BusyHasWorkspace'
  BY DEF Inv, TypeOK, BusyHasWorkspace
<1>2. TaskHasWorkspace'
  BY DEF Inv, TypeOK, TaskHasWorkspace
<1>3. EntryHasTask'
  BY DEF Inv, TypeOK, EntryHasTask, Running, TasksOf
<1> QED BY <1>1, <1>2, <1>3 DEF Inv

\* The steps of a task: only the last one changes the map.
LEMMA TaskInv ==
    ASSUME Inv, NEW t \in Tasks, TaskStep(t)
    PROVE  Inv'
<1> UNCHANGED <<active, at, ws, starts, stops, requests>>
  BY DEF TaskStep
<1>1. CASE SpawnFail(t)
  <2> DEFINE next == IF permit[t] THEN "end" ELSE "delay"
  <2>1. /\ permit' \in [Tasks -> BOOLEAN]
        /\ child' \in [Tasks -> {"none", "alive", "exited"}]
    BY <1>1 DEF Inv, TypeOK, SpawnFail, PauseOrEnd
  <2>2. /\ pc[t] # "none" /\ pc' = [pc EXCEPT ![t] = next]
        /\ next \in TaskPc \ {"none"} /\ UNCHANGED <<procs, owner>>
    BY <1>1 DEF SpawnFail, PauseOrEnd, Goto, TaskPc
  <2> HIDE DEF next
  <2> QED BY <2>1, <2>2, LoopStep
<1>2. CASE SpawnOk(t)
  BY <1>2, LoopStep DEF Inv, TypeOK, SpawnOk, Goto, TaskPc
<1>3. CASE ExitSeen(t)
  <2> DEFINE next == IF permit[t] THEN "end" ELSE "delay"
  <2>1. /\ permit' \in [Tasks -> BOOLEAN]
        /\ child' \in [Tasks -> {"none", "alive", "exited"}]
    BY <1>3 DEF Inv, TypeOK, ExitSeen, PauseOrEnd
  <2>2. /\ pc[t] # "none" /\ pc' = [pc EXCEPT ![t] = next]
        /\ next \in TaskPc \ {"none"} /\ UNCHANGED <<procs, owner>>
    BY <1>3 DEF ExitSeen, PauseOrEnd, Goto, TaskPc
  <2> HIDE DEF next
  <2> QED BY <2>1, <2>2, LoopStep
<1>4. CASE StopSeen(t)
  BY <1>4, LoopStep DEF Inv, TypeOK, StopSeen, Goto, TaskPc
<1>5. CASE Terminate(t)
  BY <1>5, LoopStep DEF Inv, TypeOK, Terminate, Goto, TaskPc
<1>6. CASE DelayStop(t)
  BY <1>6, LoopStep DEF Inv, TypeOK, DelayStop, Goto, TaskPc
<1>7. CASE DelayOver(t)
  BY <1>7, LoopStep DEF Inv, TypeOK, DelayOver, Goto, TaskPc
<1>8. CASE End(t)
  <2>1. owner[t] \in Workspaces
    BY <1>8 DEF Inv, TaskHasWorkspace, End, Goto
  <2>2. /\ pc' = [pc EXCEPT ![t] = "none"]
        /\ procs' = [procs EXCEPT ![owner[t]] = None]
        /\ owner' = [owner EXCEPT ![t] = None]
    BY <1>8 DEF End, Goto
  <2>3. TypeOK' /\ BusyHasWorkspace'
    BY <1>8, <2>1, <2>2 DEF Inv, TypeOK, BusyHasWorkspace, End, TaskPc
  <2>4. TaskHasWorkspace'
    BY <2>2 DEF Inv, TypeOK, TaskHasWorkspace
  <2>5. EntryHasTask'
    \* The only entry that could be t's is gone.
    <3> SUFFICES ASSUME NEW w \in Workspaces, procs'[w] # None
                 PROVE  procs'[w] \in TasksOf(w)'
      BY DEF EntryHasTask, Running
    <3>1. w # owner[t] /\ procs'[w] = procs[w]
      BY <2>1, <2>2 DEF Inv, TypeOK
    <3>2. procs[w] \in TasksOf(w)
      BY <3>1 DEF Inv, EntryHasTask, Running
    <3> QED BY <2>2, <3>1, <3>2 DEF Inv, TypeOK, TasksOf
  <2> QED BY <2>3, <2>4, <2>5 DEF Inv
<1> QED BY <1>1, <1>2, <1>3, <1>4, <1>5, <1>6, <1>7, <1>8 DEF TaskStep

\* A process that exits changes nothing the invariant is about.
LEMMA ExitInv ==
    ASSUME Inv, NEW t \in Tasks, Exit(t)
    PROVE  Inv'
<1>1. TypeOK' /\ BusyHasWorkspace'
  BY DEF Inv, TypeOK, BusyHasWorkspace, Exit, ChildExit
<1> QED BY <1>1, MapKept DEF Inv, Exit, ChildExit

-----------------------------------------------------------------------------
\* The invariant is inductive.
LEMMA NextInv == Inv /\ [Next]_vars => Inv'
<1> SUFFICES ASSUME Inv, [Next]_vars PROVE Inv'
  OBVIOUS
<1>1. CASE \E c \in Callers : Request(c) \/ CallerStep(c)
  BY <1>1, RequestStep, CallerInv
<1>2. CASE SyncStep
  BY <1>2, SyncInv
<1>3. CASE \E t \in Tasks : TaskStep(t) \/ Exit(t)
  BY <1>3, TaskInv, ExitInv
<1>4. CASE UNCHANGED vars
  <2>1. TypeOK' /\ BusyHasWorkspace'
    BY <1>4 DEF Inv, TypeOK, BusyHasWorkspace, vars
  <2> QED BY <1>4, <2>1, MapKept DEF Inv, vars
<1> QED BY <1>1, <1>2, <1>3, <1>4 DEF Next

\* It holds in every behaviour.
LEMMA Invariance == Spec => []Inv
BY InitInv, NextInv, PTL DEF Spec

\* Every variable keeps its type, for any workspaces, threads and bounds.
THEOREM TypeCorrect == Spec => []TypeOK
<1>1. Inv => TypeOK
  BY DEF Inv
<1> QED BY <1>1, Invariance, PTL

\* "Already running" is never said of a workspace whose task is gone.
THEOREM EntriesHaveTasks == Spec => []EntryHasTask
<1>1. Inv => EntryHasTask
  BY DEF Inv
<1> QED BY <1>1, Invariance, PTL

-----------------------------------------------------------------------------
\* A task loses its entry only to a start that overlaps another, or to the end
\* of a task that lost its own: of any number of starts, stops and crashes, in
\* any order, those that do not overlap leave every task where a stop finds it.
THEOREM EntriesLostToOverlap == Spec => LostToOverlap
<1> DEFINE Lost(t) ==
             \/ \E h \in Threads : /\ at[h] \in {"insert", "insert_save"} /\ at'[h] # at[h]
                                   /\ ws[h] = owner[t] /\ ws[h] \in Running
             \/ \E u \in Tasks : /\ Orphan(u) /\ pc[u] = "end" /\ pc'[u] = "none"
                                 /\ owner[u] = owner[t]
           Kept == \A t \in Tasks : ~Orphan(t) /\ Orphan(t)' => Lost(t)
<1>1. Inv /\ [Next]_vars => [Kept]_vars
  <2> SUFFICES ASSUME Inv, Next, NEW t \in Tasks, ~Orphan(t), Orphan(t)'
               PROVE  Lost(t)
    OBVIOUS
  <2>1. ASSUME NEW h \in Threads, NEW from \in {"insert", "insert_save"}, NEW done,
               done # from, Insert(h, from, done)
        PROVE  Lost(t)
    <3>1. PICK u \in Tasks : /\ Fresh(u) /\ procs' = [procs EXCEPT ![ws[h]] = u]
                            /\ pc' = [pc EXCEPT ![u] = "spawn"]
                            /\ owner' = [owner EXCEPT ![u] = ws[h]]
      BY <2>1 DEF Insert
    <3>2. ws[h] \in Workspaces /\ at[h] = from /\ at'[h] # at[h]
      BY <2>1 DEF Inv, TypeOK, BusyHasWorkspace, Busy, Insert, Move, MoveFor
    <3>3. t # u
      BY <3>1, <3>2 DEF Inv, TypeOK, Orphan
    <3>4. pc[t] # "none" /\ owner[t] \in Workspaces /\ procs[owner[t]] = t
      BY <3>1, <3>3 DEF Inv, TypeOK, TaskHasWorkspace, Orphan
    <3>5. ws[h] = owner[t]
      BY <3>1, <3>2, <3>3, <3>4 DEF Inv, TypeOK, Orphan
    <3>6. ws[h] \in Running
      BY <3>4, <3>5 DEF Running, Tasks
    <3> QED BY <2>1, <3>2, <3>5, <3>6
  <2>2. ASSUME NEW u \in Tasks, End(u)
        PROVE  Lost(t)
    <3>1. /\ pc[u] = "end" /\ pc' = [pc EXCEPT ![u] = "none"]
          /\ procs' = [procs EXCEPT ![owner[u]] = None]
          /\ owner' = [owner EXCEPT ![u] = None]
      BY <2>2 DEF End, Goto
    <3>2. t # u /\ owner[u] \in Workspaces
      BY <3>1 DEF Inv, TypeOK, TaskHasWorkspace, Orphan
    <3>3. pc[t] # "none" /\ owner[t] \in Workspaces /\ procs[owner[t]] = t
      BY <3>1, <3>2 DEF Inv, TypeOK, TaskHasWorkspace, Orphan
    <3>4. owner[u] = owner[t]
      BY <3>1, <3>2, <3>3 DEF Inv, TypeOK, Orphan
    <3>5. Orphan(u) /\ pc'[u] = "none"
      BY <3>1, <3>2, <3>3, <3>4 DEF Inv, TypeOK, Orphan
    <3> QED BY <3>1, <3>4, <3>5
  <2>3. ~UNCHANGED procs \/ ~\A u \in Tasks : pc'[u] # "none" => pc[u] # "none" /\ owner'[u] = owner[u]
    BY DEF Orphan
  <2>4. ASSUME UNCHANGED <<procs, owner>>, \A u \in Tasks : pc'[u] # "none" => pc[u] # "none"
        PROVE  FALSE
    BY <2>3, <2>4
  <2>5. ASSUME NEW c \in Callers, Request(c) \/ CallerStep(c)
        PROVE  Lost(t)
    <3>1. CASE Insert(c, "insert", "idle") \/ Insert(c, "insert_save", "save")
      BY <2>1, <3>1 DEF Threads
    <3>2. CASE ~(Insert(c, "insert", "idle") \/ Insert(c, "insert_save", "save"))
      <4>1. UNCHANGED <<procs, owner, pc>>
        BY <2>5, <3>2 DEF Request, UpThenStart, StartThenUp, Down, Accept, CallerStep, Look,
           SaveUp, StopIt, taskVars
      <4> QED BY <2>4, <4>1
    <3> QED BY <3>1, <3>2
  <2>6. CASE SyncStep
    <3>1. CASE Insert(Sync, "insert", "walk")
      BY <2>1, <3>1 DEF Threads
    <3>2. CASE ~Insert(Sync, "insert", "walk")
      <4>1. UNCHANGED <<procs, owner, pc>>
        BY <2>6, <3>2 DEF SyncStep, SyncLoad, SyncList, SyncEnd, SyncStart, SyncStop, Look,
           taskVars
      <4> QED BY <2>4, <4>1
    <3> QED BY <3>1, <3>2
  <2>7. ASSUME NEW u \in Tasks, TaskStep(u) \/ Exit(u), ~End(u)
        PROVE  Lost(t)
    <3>1. UNCHANGED <<procs, owner>>
      BY <2>7 DEF TaskStep, SpawnFail, SpawnOk, ExitSeen, StopSeen, Terminate, DelayStop,
         DelayOver, Exit, ChildExit
    <3>2. \A v \in Tasks : pc'[v] # "none" => pc[v] # "none"
      BY <2>7 DEF Inv, TypeOK, TaskStep, SpawnFail, SpawnOk, ExitSeen, StopSeen, Terminate,
         DelayStop, DelayOver, Exit, ChildExit, PauseOrEnd, Goto
    <3> QED BY <2>4, <3>1, <3>2
  <2> HIDE DEF Lost
  <2> QED BY <2>2, <2>5, <2>6, <2>7 DEF Next
<1> QED BY <1>1, Invariance, PTL DEF Spec, LostToOverlap

-----------------------------------------------------------------------------
(* The socket of the daemon *)

USE NobodyAssumption

\* As long as no daemon has come up beside another, there is at most one that is
\* up, and the name of a listener is that of a daemon that is.
OneUp == \A d, e \in Daemons : daemon[d] = "up" /\ daemon[e] = "up" => d = e
NamedIsUp == path \in Daemons => daemon[path] = "up"

FoundInv ==
    /\ DaemonTypeOK
    /\ ~raced => OneUp /\ NamedIsUp
    /\ NotDeaf

\* Nothing is running and nothing has a name at first.
LEMMA DaemonInitInv == DaemonInit => FoundInv
<1>1. Idle \in Cli
  BY DEF Idle, Cli, Cmd
<1>2. DaemonInit => DaemonTypeOK
  <2> SUFFICES ASSUME DaemonInit PROVE DaemonTypeOK
    OBVIOUS
  <2>1. cli \in [Clis -> Cli]
    BY <1>1 DEF DaemonInit
  <2>2. queue \in [Daemons -> Seq(Cmd)]
    BY DEF DaemonInit
  <2> QED BY <2>1, <2>2 DEF DaemonInit, DaemonTypeOK
<1> QED BY <1>2 DEF DaemonInit, FoundInv, OneUp, NamedIsUp, NotDeaf

\* Who answers has the name.
LEMMA AnswersNamed ==
    ASSUME DaemonTypeOK, IsRunning
    PROVE  path \in Daemons
BY DEF IsRunning, Answers, DaemonTypeOK

\* The steps of a command keep to the types of a command.
LEMMA CliTypes ==
    ASSUME DaemonTypeOK, NEW c \in Clis,
           Send(c) \/ Restart(c) \/ Start(c) \/ CliNext(c)
    PROVE  cli' \in [Clis -> Cli]
<1>1. cli[c] \in Cli /\ Idle \in Cli
  BY DEF DaemonTypeOK, Cli, Idle, Cmd
<1>2. ASSUME NEW next \in Cli, cli' = [cli EXCEPT ![c] = next]
      PROVE  cli' \in [Clis -> Cli]
  BY <1>2 DEF DaemonTypeOK
<1>3. CASE Send(c) \/ Start(c)
  <2>1. [Idle EXCEPT !.at = "send"] \in Cli /\ [Idle EXCEPT !.at = "check"] \in Cli
    BY DEF Idle, Cli, Cmd
  <2> QED BY <1>2, <1>3, <2>1 DEF Send, Start, CliStep
<1>4. CASE Restart(c)
  <2>1. \A place \in {"send", "sleep"} : [Idle EXCEPT !.cmd = "restart", !.at = place] \in Cli
    BY DEF Idle, Cli, Cmd
  <2> QED BY <1>2, <1>4, <2>1 DEF Restart, CliStep
<1>5. CASE Deliver(c)
  <2>1. \A d \in Daemons \cup {Nobody} : [cli[c] EXCEPT !.at = "sleep", !.old = d] \in Cli
    BY <1>1 DEF Cli
  <2>2. \A d \in Daemons \cup {Nobody} : AfterSend(c, d) \in Cli
    BY <1>1, <2>1 DEF AfterSend
  <2> QED BY <1>2, <1>5, <2>2 DEF Deliver, CliStep
<1>6. CASE Wake(c) \/ Launch(c)
  <2>1. [cli[c] EXCEPT !.at = "check", !.old = Nobody] \in Cli
    BY <1>1 DEF Cli
  <2> QED BY <1>1, <1>2, <1>6, <2>1 DEF Wake, Launch, CliStep
<1> QED BY <1>3, <1>4, <1>5, <1>6 DEF CliNext

\* A command takes no name and starts no daemon that is up.
LEMMA CliKeeps ==
    ASSUME FoundInv, NEW c \in Clis,
           Send(c) \/ Restart(c) \/ Start(c) \/ CliNext(c)
    PROVE  FoundInv'
<1>1. /\ UNCHANGED <<listening, stalled, path, raced>>
      /\ daemon' \in [Daemons -> {"none", "new", "up", "leaving"}]
      /\ \A d \in Daemons : daemon[d] # "none" => daemon'[d] = daemon[d]
      /\ \A d \in Daemons : daemon'[d] = "up" => daemon[d] = "up"
  BY DEF Send, Restart, Start, CliNext, Deliver, Wake, Launch, CliStep, FoundInv, DaemonTypeOK
<1>2. queue' \in [Daemons -> Seq(Cmd)]
  <2>1. cli[c].cmd \in Cmd
    <3>1. cli[c] \in Cli
      BY DEF FoundInv, DaemonTypeOK
    <3> QED BY <3>1 DEF Cli
  <2>2. ASSUME NEW d \in Daemons, queue' = [queue EXCEPT ![d] = Append(@, cli[c].cmd)]
        PROVE  queue' \in [Daemons -> Seq(Cmd)]
    BY <2>1, <2>2 DEF FoundInv, DaemonTypeOK
  <2>3. CASE UNCHANGED queue
    BY <2>3 DEF FoundInv, DaemonTypeOK
  <2> QED BY <2>2, <2>3 DEF Send, Restart, Start, CliNext, Deliver, Wake, Launch, CliStep
<1>3. troubled' \in BOOLEAN
  BY DEF Send, Restart, Start, CliNext, Deliver, Wake, Launch, CliStep, FoundInv, DaemonTypeOK
<1>4. DaemonTypeOK'
  BY <1>1, <1>2, <1>3, CliTypes DEF FoundInv, DaemonTypeOK
<1> QED BY <1>1, <1>4 DEF FoundInv, OneUp, NamedIsUp, NotDeaf, DaemonTypeOK

\* What a process leaves when it ends: its name, dead, and everything of the
\* others.
LEMMA DeadKeeps ==
    ASSUME FoundInv, NEW d \in Daemons, Dead(d, path), UNCHANGED raced,
           troubled' \in BOOLEAN, daemon[d] # "none"
    PROVE  FoundInv'
<1>1. /\ daemon' = [daemon EXCEPT ![d] = "none"]
      /\ listening' = [listening EXCEPT ![d] = FALSE]
      /\ path' = (IF path = d THEN "stale" ELSE path)
  BY DEF Dead, Left
<1>2. cli' \in [Clis -> Cli]
  <2>1. \A c \in Clis : cli[c] \in Cli
    BY DEF FoundInv, DaemonTypeOK
  <2>2. \A x \in Cli : [x EXCEPT !.old = Nobody] \in Cli
    BY DEF Cli
  <2> QED BY <2>1, <2>2 DEF Dead
<1>3. queue' \in [Daemons -> Seq(Cmd)] /\ stalled' \in [Daemons -> BOOLEAN]
  BY DEF Dead, FoundInv, DaemonTypeOK
<1>4. DaemonTypeOK'
  BY <1>1, <1>2, <1>3 DEF FoundInv, DaemonTypeOK
<1>5. ~raced => OneUp' /\ NamedIsUp'
  BY <1>1 DEF FoundInv, OneUp, NamedIsUp, DaemonTypeOK
<1>6. ASSUME ~raced, NEW e \in Daemons, daemon'[e] = "up" /\ listening'[e]
      PROVE  path' \in {e, Nobody}
  <2>1. e # d /\ daemon[e] = "up" /\ listening[e]
    BY <1>1, <1>6 DEF FoundInv, DaemonTypeOK
  <2>2. path \in {e, Nobody}
    BY <1>6, <2>1 DEF FoundInv, NotDeaf
  <2> QED BY <1>1, <2>1, <2>2
<1> QED BY <1>4, <1>5, <1>6 DEF FoundInv, NotDeaf

\* A daemon comes up.  If nothing answers and nothing has raced, none is up: one
\* that is up beside it sets raced.
LEMMA BootKeeps ==
    ASSUME FoundInv, NEW d \in Daemons, Boot(d)
    PROVE  FoundInv'
<1>1. /\ daemon[d] = "new" /\ daemon' = [daemon EXCEPT ![d] = Booted]
      /\ Booted \in {"none", "up"}
      /\ UNCHANGED <<listening, stalled, queue, path, cli, troubled>>
  BY DEF Boot, Booted
<1>2. DaemonTypeOK'
  <2>1. raced' \in BOOLEAN
    BY DEF Boot, FoundInv, DaemonTypeOK
  <2>2. ~listening[d]
    BY <1>1 DEF FoundInv, DaemonTypeOK
  <2> QED BY <1>1, <2>1, <2>2 DEF FoundInv, DaemonTypeOK
<1>3. ASSUME ~raced'
      PROVE  OneUp' /\ NamedIsUp' /\ NotDeaf'
  <2>1. ~raced /\ OneUp /\ NamedIsUp
    BY <1>3 DEF Boot, FoundInv
  <2>2. CASE IsRunning
    BY <1>1, <2>1, <2>2 DEF Booted, FoundInv, OneUp, NamedIsUp, NotDeaf, DaemonTypeOK
  <2>3. CASE ~IsRunning
    <3>1. \A e \in Daemons : daemon[e] # "up"
      BY <1>3, <2>3 DEF Boot, IsRunning
    <3>2. path \notin Daemons /\ ~listening[d]
      BY <1>1, <2>1, <3>1 DEF NamedIsUp, FoundInv, DaemonTypeOK
    <3>3. \A e \in Daemons : daemon'[e] = "up" => e = d
      BY <1>1, <3>1 DEF FoundInv, DaemonTypeOK
    <3> QED BY <1>1, <3>2, <3>3 DEF OneUp, NamedIsUp, NotDeaf
  <2> QED BY <2>2, <2>3
<1> QED BY <1>2, <1>3 DEF FoundInv, NotDeaf

\* A listener takes the name.  The only one that is up takes it, or raced is set.
LEMMA BindKeeps ==
    ASSUME FoundInv, NEW d \in Daemons, Bind(d)
    PROVE  FoundInv'
<1>1. /\ daemon[d] \in {"up", "leaving"} /\ path' = d
      /\ listening' = [listening EXCEPT ![d] = TRUE]
      /\ UNCHANGED <<daemon, stalled, queue, cli, troubled>>
  BY DEF Bind
<1>2. DaemonTypeOK'
  <2>1. raced' \in BOOLEAN
    BY DEF Bind, FoundInv, DaemonTypeOK
  <2> QED BY <1>1, <2>1 DEF FoundInv, DaemonTypeOK
<1>3. ASSUME ~raced'
      PROVE  OneUp' /\ NamedIsUp' /\ NotDeaf'
  <2>1. ~raced /\ OneUp /\ daemon[d] = "up"
    BY <1>1, <1>3 DEF Bind, FoundInv
  <2> QED BY <1>1, <2>1 DEF OneUp, NamedIsUp, NotDeaf
<1> QED BY <1>2, <1>3 DEF FoundInv, NotDeaf

\* The main thread takes a command; a restart takes the name away.
LEMMA ProcessKeeps ==
    ASSUME FoundInv, NEW d \in Daemons, Process(d)
    PROVE  FoundInv'
<1>1. /\ daemon[d] = "up" /\ queue' = [queue EXCEPT ![d] = Tail(@)]
      /\ \/ daemon' = [daemon EXCEPT ![d] = "leaving"] /\ path' = Nobody
         \/ UNCHANGED <<daemon, path>>
      /\ UNCHANGED <<listening, stalled, cli, raced, troubled>>
  BY DEF Process
<1>2. queue' \in [Daemons -> Seq(Cmd)]
  <2>1. queue[d] \in Seq(Cmd) /\ queue[d] # <<>>
    BY DEF Process, FoundInv, DaemonTypeOK
  <2>2. Tail(queue[d]) \in Seq(Cmd)
    BY <2>1
  <2> QED BY <1>1, <2>2 DEF FoundInv, DaemonTypeOK
<1>3. DaemonTypeOK'
  BY <1>1, <1>2 DEF FoundInv, DaemonTypeOK
<1> QED BY <1>1, <1>3 DEF FoundInv, OneUp, NamedIsUp, NotDeaf, DaemonTypeOK

\* Every step keeps the invariant.
LEMMA DaemonNextInv == FoundInv /\ [DaemonNext]_daemonVars => FoundInv'
<1> SUFFICES ASSUME FoundInv, [DaemonNext]_daemonVars PROVE FoundInv'
  OBVIOUS
<1>1. ASSUME NEW c \in Clis, Send(c) \/ Restart(c) \/ Start(c) \/ CliNext(c)
      PROVE  FoundInv'
  BY <1>1, CliKeeps
<1>2. ASSUME NEW d \in Daemons, Boot(d) \/ Bind(d) \/ Process(d)
      PROVE  FoundInv'
  BY <1>2, BootKeeps, BindKeeps, ProcessKeeps
<1>3. ASSUME NEW d \in Daemons, Unbind(d) \/ Stall(d) \/ Recover(d)
      PROVE  FoundInv'
  <2>1. /\ UNCHANGED <<daemon, queue, path, cli, raced, troubled>>
        /\ stalled' \in [Daemons -> BOOLEAN] /\ listening' \in [Daemons -> BOOLEAN]
        /\ \A e \in Daemons : listening'[e] => listening[e]
        /\ path \in Daemons => listening'[path]
    BY <1>3 DEF Unbind, Vanished, Stall, Recover, FoundInv, DaemonTypeOK
  <2> QED BY <2>1 DEF FoundInv, DaemonTypeOK, OneUp, NamedIsUp, NotDeaf
<1>4. ASSUME NEW d \in Daemons, ProcessExit(d) \/ Killed(d)
      PROVE  FoundInv'
  BY <1>4, DeadKeeps DEF ProcessExit, Killed, FoundInv, DaemonTypeOK
<1>5. CASE Unlink
  BY <1>5 DEF Unlink, FoundInv, DaemonTypeOK, OneUp, NamedIsUp, NotDeaf
<1>6. CASE UNCHANGED daemonVars
  BY <1>6 DEF daemonVars, FoundInv, DaemonTypeOK, OneUp, NamedIsUp, NotDeaf
<1> QED BY <1>1, <1>2, <1>3, <1>4, <1>5, <1>6 DEF DaemonNext, DaemonStep

\* The invariant holds throughout.
LEMMA DaemonInvariance == DaemonSpec => []FoundInv
BY DaemonInitInv, DaemonNextInv, PTL DEF DaemonSpec

\* Type correctness of the daemon's life: a socket that is bound is that of a
\* process that is there, and a name that is not dead has its listener.
THEOREM DaemonTypeCorrect == DaemonSpec => []DaemonTypeOK
<1>1. FoundInv => DaemonTypeOK
  BY DEF FoundInv
<1> QED BY <1>1, DaemonInvariance, PTL

\* A daemon that is up and listens has the name, or the name is gone and it will
\* notice, however many processes and commands there are, as long as none has
\* come up beside one that could not answer.
THEOREM ListenersNotDeaf == DaemonSpec => []NotDeaf
<1>1. FoundInv => NotDeaf
  BY DEF FoundInv
<1> QED BY <1>1, DaemonInvariance, PTL
=============================================================================
