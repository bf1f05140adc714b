------------------------ MODULE WorkspaceStoreProofs ------------------------
(***************************************************************************)
(* Theorems about WorkspaceStore, for any number of workspaces, callers    *)
(* and ports.                                                              *)
(*                                                                         *)
(* A save writes a store that was computed from a copy of the file, so the *)
(* file can only be as good as the copies.  The invariant therefore says   *)
(* the same, Sound, of the file and of every copy that a caller holds: a   *)
(* load copies a sound store, every change makes a sound store out of a    *)
(* sound one, and a save, however late, puts a sound store into the file.  *)
(***************************************************************************)
EXTENDS WorkspaceStore, TLAPS

\* What an inactive workspace holds is free for the next one: nothing, but
\* the ACP port that the supervisor of its own agent may have put back.
Released(st, w) ==
    st[w] # Absent /\ ~st[w].active
        => /\ st[w].tag = 0 /\ st[w].bezalel = 0 /\ ~st[w].headless
           /\ w \notin supervised => st[w].acp = 0

Sound(st) ==
    /\ Distinct(st, "tag", Workspaces)
    /\ Distinct(st, "bezalel", Workspaces)
    /\ Distinct(st, "acp", Workspaces \ supervised)
    /\ \A w \in Workspaces : Released(st, w)

Inv ==
    /\ TypeOK
    /\ Sound(file)
    /\ \A c \in Callers : Sound(held[c])
    /\ \A w \in Workspaces : task[w] # 0 => w \in supervised

-----------------------------------------------------------------------------
(* What the operations make of a sound store *)

\* The empty store is sound.
LEMMA NothingSound == Nothing \in Store /\ Sound(Nothing)
  BY DEF Nothing, Store, Sound, Distinct, Active, Released

\* Removing a workspace gives values back and shares none.
LEMMA RemoveSound ==
    ASSUME NEW st \in Store, Sound(st), NEW w \in Workspaces
    PROVE  Remove(st, w) \in Store /\ Sound(Remove(st, w))
  BY AbsentAssumption DEF Remove, Store, Sound, Distinct, Active, Released

\* Neither does taking one down.
LEMMA SetInactiveSound ==
    ASSUME NEW st \in Store, Sound(st), NEW w \in Workspaces
    PROVE  SetInactive(st, w) \in Store /\ Sound(SetInactive(st, w))
<1>1. Default \in WorkspaceState /\ ~Default.active
  BY DEF Default, WorkspaceState
<1> QED
  BY AbsentAssumption, <1>1
  DEF SetInactive, Store, Sound, Distinct, Active, Released, Default

\* The allocations return what w has itself or what no active workspace has.
LEMMA AllocatedIsFree ==
    ASSUME NEW st \in Store, Sound(st), NEW w \in Workspaces,
           NEW headless \in BOOLEAN, NEW t \in Tags,
           NEW p \in AcpPorts \cup {0}, NEW b \in BezalelPorts \cup {0},
           Allocates(st, w, headless, t, p, b),
           NEW v \in Active(st) \ {w}
    PROVE  /\ st[v].tag # t
           /\ b # 0 => st[v].bezalel # b
           /\ p # 0 /\ w \notin supervised /\ v \notin supervised
                => st[v].acp # p
<1>1. v \in Workspaces /\ st[v] \in WorkspaceState /\ st[v] # Absent
  BY DEF Active, Store
<1>2. CASE st[w] = Absent
  <2>1. st[v].tag # t
    BY <1>1, <1>2 DEF Allocates, AllocatesTag, Has, InUse, Lowest
  <2>2. b # 0 => st[v].bezalel # b
    BY <1>1, <1>2 DEF Allocates, AllocatesBezalel, Has, InUse
  <2>3. p # 0 => st[v].acp # p
    BY <1>1, <1>2 DEF Allocates, AllocatesAcp, Has, InUse, Lowest
  <2> QED
    BY <2>1, <2>2, <2>3
<1>3. CASE st[w] # Absent
  <2>1. st[w] \in WorkspaceState
    BY <1>3 DEF Store
  <2>2. st[v].tag # t
    <3>1. CASE st[w].tag = 0
      BY <1>1, <1>3, <3>1 DEF Allocates, AllocatesTag, Has, InUse, Lowest
    <3>2. CASE st[w].tag # 0
      <4>1. w \in Active(st) /\ t = st[w].tag
        BY <1>3, <3>2 DEF Allocates, AllocatesTag, Has, Sound, Released, Active
      <4> QED
        BY <1>1, <3>2, <4>1 DEF Sound, Distinct
    <3> QED
      BY <3>1, <3>2
  <2>3. b # 0 => st[v].bezalel # b
    <3>1. CASE st[w].bezalel = 0
      BY <1>1, <1>3, <3>1 DEF Allocates, AllocatesBezalel, Has, InUse
    <3>2. CASE st[w].bezalel # 0 /\ b # 0
      <4>1. w \in Active(st) /\ b = st[w].bezalel
        BY <1>3, <3>2
           DEF Allocates, AllocatesBezalel, Has, Sound, Released, Active
      <4> QED
        BY <1>1, <3>2, <4>1 DEF Sound, Distinct
    <3> QED
      BY <3>1, <3>2
  <2>4. ASSUME p # 0, w \notin supervised, v \notin supervised
        PROVE  st[v].acp # p
    <3>1. CASE st[w].acp = 0
      BY <1>1, <1>3, <2>4, <3>1
         DEF Allocates, AllocatesAcp, Has, InUse, Lowest
    <3>2. CASE st[w].acp # 0
      <4>1. w \in Active(st) /\ p = st[w].acp
        BY <1>3, <2>4, <3>2
           DEF Allocates, AllocatesAcp, Has, Sound, Released, Active
      <4> QED
        BY <1>1, <2>4, <3>2, <4>1 DEF Sound, Distinct
    <3> QED
      BY <3>1, <3>2
  <2> QED
    BY <2>2, <2>3, <2>4
<1> QED
  BY <1>2, <1>3

\* A workspace that comes up takes what is free in the same store.
LEMMA BroughtUpSound ==
    ASSUME NEW st \in Store, Sound(st), NEW w \in Workspaces,
           NEW headless \in BOOLEAN, NEW t \in Tags,
           NEW p \in AcpPorts \cup {0}, NEW b \in BezalelPorts \cup {0},
           Allocates(st, w, headless, t, p, b)
    PROVE  /\ BroughtUp(st, w, t, p, b) \in Store
           /\ Sound(BroughtUp(st, w, t, p, b))
<1> DEFINE new == BroughtUp(st, w, t, p, b)
<1> DEFINE bez == IF b # 0 THEN b ELSE IF st[w] = Absent THEN 0 ELSE st[w].bezalel
<1> DEFINE old == IF st[w] = Absent THEN Default ELSE st[w]
<1> DEFINE rec == [active |-> TRUE, headless |-> old.headless, tag |-> t,
                   acp |-> p, bezalel |-> old.bezalel]
<1>1. old \in WorkspaceState /\ rec \in WorkspaceState
  BY DEF Default, Store, WorkspaceState
<1>2. SetActive(st, w, t, p) = [st EXCEPT ![w] = rec]
  BY DEF SetActive
<1>3. /\ new[w] \in WorkspaceState /\ new[w] # Absent /\ new[w].active
      /\ new[w].tag = t /\ new[w].acp = p /\ new[w].bezalel = bez
  <2>1. CASE b = 0
    <3>1. new[w] = rec
      BY <1>2, <2>1 DEF BroughtUp, Provision, Store
    <3>2. old.bezalel = bez
      BY <2>1 DEF Default
    <3>3. rec.active /\ rec.tag = t /\ rec.acp = p /\ rec.bezalel = old.bezalel
      OBVIOUS
    <3> HIDE DEF new, old, bez, rec
    <3> QED
      BY AbsentAssumption, <1>1, <3>1, <3>2, <3>3
  <2>2. CASE b # 0
    <3>1. new[w] = [rec EXCEPT !.headless = TRUE, !.bezalel = b]
      BY <1>2, <2>2 DEF BroughtUp, Provision, Store
    <3>2. new[w] \in WorkspaceState
      BY <1>1, <3>1 DEF WorkspaceState
    <3> QED
      BY AbsentAssumption, <2>2, <3>1, <3>2
  <2> QED
    BY <2>1, <2>2
<1>4. new \in Store /\ \A v \in Workspaces \ {w} : new[v] = st[v]
  BY <1>2, <1>3 DEF BroughtUp, Provision, Store
<1> HIDE DEF new
<1>5. Active(new) = Active(st) \cup {w}
  BY <1>3, <1>4 DEF Active
<1>6. ASSUME NEW v \in Active(st) \ {w}
      PROVE  /\ new[v].tag # t
             /\ bez # 0 => new[v].bezalel # bez
             /\ p # 0 /\ w \notin supervised /\ v \notin supervised
                  => new[v].acp # p
  <2>1. new[v] = st[v]
    BY <1>4 DEF Active
  <2>2. ASSUME b = 0, bez # 0 PROVE st[v].bezalel # bez
    <3>1. w \in Active(st) /\ bez = st[w].bezalel
      BY <2>2 DEF Sound, Released, Active
    <3> QED
      BY <2>2, <3>1 DEF Sound, Distinct, Active
  <2> QED
    BY <2>1, <2>2, AllocatedIsFree
<1>7. Distinct(new, "tag", Workspaces)
  BY <1>3, <1>4, <1>5, <1>6 DEF Distinct, Sound, Active
<1>8. Distinct(new, "bezalel", Workspaces)
  BY <1>3, <1>4, <1>5, <1>6 DEF Distinct, Sound, Active
<1>9. Distinct(new, "acp", Workspaces \ supervised)
  BY <1>3, <1>4, <1>5, <1>6 DEF Distinct, Sound, Active
<1>10. \A v \in Workspaces : Released(new, v)
  BY <1>3, <1>4 DEF Sound, Released
<1> QED
  BY <1>4, <1>7, <1>8, <1>9, <1>10 DEF Sound, new

-----------------------------------------------------------------------------
(* The invariant *)

\* Initially the file and the copies are empty.
LEMMA InitInv == Init => Inv
  BY NothingSound DEF Init, Inv, TypeOK, CallerAt

\* A caller's step makes the file, or its copy, sound again.
LEMMA SaveAndEndInv ==
    ASSUME Inv, NEW c \in Callers, NEW new \in Store, Sound(new),
           SaveAndEnd(c, new), UNCHANGED stopping,
           \/ task' = task
           \/ \E w \in Workspaces, p \in AcpPorts \cup {0} : StartTask(w, p)
    PROVE  Inv'
<1>1. TypeOK'
  BY NothingSound DEF SaveAndEnd, StartTask, Inv, TypeOK, CallerAt
<1>2. Sound(file') /\ \A d \in Callers : Sound(held'[d])
  BY NothingSound DEF SaveAndEnd, Inv, TypeOK
<1>3. \A w \in Workspaces : task'[w] # 0 => w \in supervised
  BY DEF StartTask, Inv, TypeOK
<1> QED
  BY <1>1, <1>2, <1>3 DEF SaveAndEnd, Inv, Sound, Distinct, Released, Active

\* A Manager's save puts a sound store into the file.
LEMMA SaveAndKeepInv ==
    ASSUME Inv, NEW c \in Callers, NEW new \in Store, Sound(new),
           SaveAndKeep(c, new),
           at' \in [Callers -> CallerAt],
           target' \in [Callers -> Workspaces \cup {Absent}],
           stopping' \in SUBSET Workspaces,
           \/ task' = task
           \/ \E w \in Workspaces, p \in AcpPorts \cup {0} : StartTask(w, p)
    PROVE  Inv'
<1>1. TypeOK'
  BY DEF SaveAndKeep, StartTask, Inv, TypeOK
<1>2. Sound(file') /\ \A d \in Callers : Sound(held'[d])
  BY DEF SaveAndKeep, Inv, TypeOK
<1>3. \A w \in Workspaces : task'[w] # 0 => w \in supervised
  BY DEF StartTask, Inv, TypeOK
<1> QED
  BY <1>1, <1>2, <1>3 DEF SaveAndKeep, Inv, Sound, Distinct, Released, Active

\* The requests keep the invariant ...
LEMMA RequestInv ==
    ASSUME Inv, NEW c \in Callers, NEW w \in Workspaces, RequestStep(c, w)
    PROVE  Inv'
<1>1. held[c] \in Store /\ Sound(held[c])
  BY DEF Inv, TypeOK
<1>2. CASE Create(c, w) \/ Start(c, w) \/ GrpcCreate(c, w)
  <2>1. PICK headless \in BOOLEAN, t \in Tags,
             p \in AcpPorts \cup {0}, b \in BezalelPorts \cup {0} :
          /\ Allocates(held[c], w, headless, t, p, b)
          /\ SaveAndEnd(c, BroughtUp(held[c], w, t, p, b))
          /\ StartTask(w, p) \/ UNCHANGED task
    BY <1>1, <1>2 DEF Create, Start, GrpcCreate, Store, WorkspaceState
  <2>2. UNCHANGED stopping
    BY <1>2 DEF Create, Start, GrpcCreate
  <2> QED
    BY <1>1, <2>1, <2>2, BroughtUpSound, SaveAndEndInv
<1>3. CASE Delete(c, w)
  BY <1>1, <1>3, RemoveSound, SaveAndEndInv DEF Delete
<1>4. CASE SaveSession(c, w)
  BY <1>1, <1>4, SaveAndEndInv DEF SaveSession
<1> QED
  BY <1>2, <1>3, <1>4 DEF RequestStep

\* ... and so do the steps of a Manager.
LEMMA ManagerInv ==
    ASSUME Inv, NEW c \in Callers, NEW w \in Workspaces, ManagerStep(c, w)
    PROVE  Inv'
<1>1. held[c] \in Store /\ Sound(held[c])
  BY DEF Inv, TypeOK
<1>2. CASE Up(c, w)
  <2>1. PICK headless \in BOOLEAN, t \in Tags,
             p \in AcpPorts \cup {0}, b \in BezalelPorts \cup {0} :
          /\ Allocates(held[c], w, headless, t, p, b)
          /\ SaveAndKeep(c, BroughtUp(held[c], w, t, p, b))
          /\ StartTask(w, p) \/ UNCHANGED task
    BY <1>2 DEF Up
  <2>2. UNCHANGED <<at, target, stopping>>
    BY <1>2 DEF Up
  <2> QED
    BY <1>1, <2>1, <2>2, BroughtUpSound, SaveAndKeepInv DEF Inv, TypeOK
<1>3. CASE Down(c, w)
  <2>1. SaveAndKeep(c, SetInactive(held[c], w)) /\ UNCHANGED task
    BY <1>3 DEF Down
  <2>2. /\ at' \in [Callers -> CallerAt]
        /\ target' \in [Callers -> Workspaces \cup {Absent}]
        /\ stopping' \in SUBSET Workspaces
    BY <1>3 DEF Down, StopTask, Inv, TypeOK, CallerAt
  <2> QED
    BY <1>1, <2>1, <2>2, SetInactiveSound, SaveAndKeepInv
<1>4. CASE DestroyRemove(c, w)
  <2>1. SaveAndKeep(c, Remove(held[c], w)) /\ UNCHANGED <<task, stopping>>
    BY <1>4 DEF DestroyRemove
  <2>2. /\ at' \in [Callers -> CallerAt]
        /\ target' \in [Callers -> Workspaces \cup {Absent}]
    BY <1>4 DEF DestroyRemove, Inv, TypeOK, CallerAt
  <2> QED
    BY <1>1, <2>1, <2>2, RemoveSound, SaveAndKeepInv DEF Inv, TypeOK
<1> QED
  BY <1>2, <1>3, <1>4 DEF ManagerStep

\* The supervisor puts back the port of a supervised workspace only.
LEMMA SupervisorInv ==
    ASSUME Inv, NEW w \in Workspaces, SupervisorStep(w)
    PROVE  Inv'
<1>1. CASE AcpReport(w)
  <2> DEFINE rec == [file[w] EXCEPT !.acp = task[w]]
  <2>1. /\ rec \in WorkspaceState /\ rec.active = file[w].active
        /\ rec.tag = file[w].tag /\ rec.bezalel = file[w].bezalel
        /\ rec.headless = file[w].headless /\ w \in supervised
    BY <1>1 DEF AcpReport, Inv, TypeOK, Store, WorkspaceState
  <2>2. file' = [file EXCEPT ![w] = rec]
    BY <1>1 DEF AcpReport
  <2> HIDE DEF rec
  <2>3. file' \in Store
    BY <2>1, <2>2 DEF Inv, TypeOK, Store
  <2>4. Active(file') = Active(file)
    BY <2>1, <2>2, <1>1, AbsentAssumption DEF Active, AcpReport, Inv, TypeOK, Store
  <2>5. Sound(file')
    BY <2>1, <2>2, <2>4, <1>1
    DEF AcpReport, Inv, TypeOK, Store, Sound, Distinct, Released, Active
  <2> QED
    BY <1>1, <2>3, <2>5 DEF AcpReport, Inv, TypeOK, Sound, Distinct, Released, Active
<1>2. CASE AcpEnd(w) \/ AcpSync(w)
  <2>1. TypeOK' /\ \A v \in Workspaces : task'[v] # 0 => v \in supervised
    BY <1>2 DEF AcpEnd, AcpSync, StartTask, StopTask, Inv, TypeOK, Active,
                Store, WorkspaceState
  <2>2. UNCHANGED <<file, held, supervised>>
    BY <1>2 DEF AcpEnd, AcpSync
  <2> QED
    BY <2>1, <2>2 DEF Inv, Sound, Distinct, Released, Active
<1> QED
  BY <1>1, <1>2 DEF SupervisorStep

\* The invariant is inductive.
LEMMA StepInv == Inv /\ [Next]_vars => Inv'
<1> SUFFICES ASSUME Inv, [Next]_vars PROVE Inv'
  OBVIOUS
<1> USE DEF Sound, Distinct, Released, Active
<1>1. ASSUME NEW c \in Callers, NEW kind \in {"request", "manager"}, Load(c, kind)
      PROVE  Inv'
  BY <1>1 DEF Load, Inv, TypeOK, CallerAt
<1>2. ASSUME NEW c \in Callers, Drop(c) PROVE Inv'
  BY <1>2, NothingSound DEF Drop, Inv, TypeOK, CallerAt
<1>3. ASSUME NEW w \in Workspaces, GrpcDestroy(w) PROVE Inv'
  <2>1. file' \in Store /\ Sound(file')
    BY <1>3, RemoveSound DEF GrpcDestroy, Inv, TypeOK
  <2> QED
    BY <1>3, <2>1 DEF GrpcDestroy, Inv, TypeOK
<1>4. CASE UNCHANGED vars
  BY <1>4 DEF vars, Inv, TypeOK
<1> QED
  BY <1>1, <1>2, <1>3, <1>4, RequestInv, ManagerInv, SupervisorInv DEF Next

\* It holds in every behaviour.
LEMMA InvAlways == Spec => []Inv
  BY InitInv, StepInv, PTL DEF Spec

\* The variables keep their types.
THEOREM TypeCorrect == Spec => []TypeOK
<1>1. Inv => TypeOK
  BY DEF Inv
<1> QED
  BY <1>1, InvAlways, PTL

\* Two active workspaces never have the same tag, for any number of callers
\* that save stale copies.
THEOREM TagsStayDistinct == Spec => []TagsDistinct
<1>1. Inv => TagsDistinct
  BY DEF Inv, Sound, TagsDistinct
<1> QED
  BY <1>1, InvAlways, PTL

\* Two active workspaces never have the same bezalel port.
THEOREM BezalelPortsStayDistinct == Spec => []BezalelPortsDistinct
<1>1. Inv => BezalelPortsDistinct
  BY DEF Inv, Sound, BezalelPortsDistinct
<1> QED
  BY <1>1, InvAlways, PTL

\* Without an ACP agent two active workspaces never have the same ACP port.
THEOREM AcpPortsStayDistinct == Spec => []UnsupervisedAcpDistinct
<1>1. Inv => UnsupervisedAcpDistinct
  BY DEF Inv, Sound, UnsupervisedAcpDistinct
<1> QED
  BY <1>1, InvAlways, PTL

\* A workspace that is taken down gives everything back.
THEOREM InactiveIsReleased == Spec => []InactiveHoldsNothing
<1>1. Inv => InactiveHoldsNothing
  BY DEF Inv, Sound, Released, InactiveHoldsNothing
<1> QED
  BY <1>1, InvAlways, PTL
=============================================================================
