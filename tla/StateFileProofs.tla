--------------------------- MODULE StateFileProofs ---------------------------
(***************************************************************************)
(* Theorems about StateFile as state.rs uses it (Guarded), for any number  *)
(* of threads, commands, changes, files and crashes.                       *)
(*                                                                         *)
(* The argument: whoever is between the creation of its temporary file and *)
(* the rename holds the lock of its process, so it is alone with the       *)
(* temporary name of that process (LockInv); a file is therefore complete  *)
(* before it becomes the file, and nobody writes to it from then on        *)
(* (FileInv).                                                              *)
(***************************************************************************)
EXTENDS StateFile, TLAPS

\* A thread that writes, or is in the middle of a modify, holds the lock.
Writing(t) == at[t] \in {"create", "fill", "rename"}

LockInv ==
    \A t \in Threads :
        Writing(t) \/ (at[t] = "read" /\ kind[t] = "modify")
            => lock[ProcOf(t)] = t

\* The temporary files are distinct from each other and from the file.
NamesInv ==
    /\ \A n \in TmpNames : tmp[n] # None => tmp[n] # path
    /\ \A m, n \in TmpNames : m # n /\ tmp[m] # None => tmp[m] # tmp[n]

\* The file is complete, and so is what anybody reads; what is open for
\* reading is no temporary file; a temporary file has one writer.
FileInv ==
    /\ path # None => data[path] \in Stores
    /\ \A t \in Threads : at[t] = "read" /\ fd[t] # None =>
          data[fd[t]] \in Stores /\ \A n \in TmpNames : tmp[n] # fd[t]
    /\ \A t \in Threads : at[t] = "fill" =>
          fd[t] # None /\ fd[t] = tmp[TmpOf(t)] /\ data[fd[t]] = Blank
    /\ \A t \in Threads : at[t] = "rename" =>
          tmp[TmpOf(t)] # None /\ data[tmp[TmpOf(t)]] = copy[t]

\* A modify has read what the file still says.
ModifyInv ==
    \A t \in Threads :
        /\ at[t] = "have" => kind[t] = "save"
        /\ kind[t] = "modify" /\ ~overtaken[t] =>
              /\ at[t] = "read" => fd[t] = path
              /\ Writing(t) => Content \subseteq copy[t]

Inv == TypeOK /\ LockInv /\ NamesInv /\ FileInv /\ ModifyInv
-----------------------------------------------------------------------------
(* Facts about the definitions *)

\* Stores is written for TLC; this is what it is.
LEMMA StoresAreSubsets == Stores = SUBSET Changes
  BY DEF Stores

\* Guarded, each process has a temporary name of its own.
LEMMA Names ==
    ASSUME Guarded, NEW t \in Threads
    PROVE  /\ TmpNames = Procs
           /\ ProcOf(t) \in Procs
           /\ TmpOf(t) = ProcOf(t)
  BY DEF TmpNames, TmpOf, ProcOf, Procs, Threads

\* Two threads of a process are never both writing.
LEMMA OneWriter ==
    ASSUME LockInv, NEW t \in Threads, NEW u \in Threads, t # u,
           Writing(t), Writing(u) \/ (at[u] = "read" /\ kind[u] = "modify")
    PROVE  ProcOf(t) # ProcOf(u)
  BY DEF LockInv

\* Who takes the lock takes it from nobody.
LEMMA AcquireLock ==
    ASSUME Guarded, TypeOK, LockInv, NEW t \in Threads, Acquire(t)
    PROVE  /\ lock' \in [Procs -> Threads \cup {None}]
           /\ lock'[ProcOf(t)] = t
           /\ \A u \in Threads : lock[ProcOf(u)] = u => lock'[ProcOf(u)] = u
<1>1. lock' = [lock EXCEPT ![ProcOf(t)] = t] /\ lock[ProcOf(t)] = None
  BY DEF Acquire
<1>2. \A u \in Threads : ProcOf(u) \in Procs
  BY Names
<1> QED
  BY <1>1, <1>2, DistinctAssumption DEF TypeOK

\* What the file contains is complete.
LEMMA ContentIsStore ==
    ASSUME TypeOK, FileInv
    PROVE  Content \in Stores
  BY DEF TypeOK, FileInv, Content, Read, Stores

\* Initially there is no file, and nobody has one open.
LEMMA InitInv == Init => Inv
<1> SUFFICES ASSUME Init PROVE Inv
  OBVIOUS
<1>1. TypeOK
  BY DEF Init, TypeOK, At, Stores
<1> QED
  BY <1>1 DEF Init, Inv, LockInv, NamesInv, FileInv, ModifyInv, Writing

-----------------------------------------------------------------------------
(* Every step preserves the invariant *)

\* Opening gives a thread the file of that moment.
LEMMA OpenInv ==
    ASSUME Guarded, Inv, NEW t \in Threads, LoadOpen(t) \/ ModifyOpen(t)
    PROVE  Inv'
<1> DEFINE Kept ==
             \A u \in Threads : lock[ProcOf(u)] = u => lock'[ProcOf(u)] = u
<1>0. Kept /\ lock' \in [Procs -> Threads \cup {None}]
  <2>1. CASE LoadOpen(t)
    BY <2>1 DEF LoadOpen, Inv, TypeOK
  <2>2. CASE ModifyOpen(t)
    BY <2>2, AcquireLock DEF ModifyOpen, Inv
  <2> QED
    BY <2>1, <2>2
<1> DEFINE OvertakenOK == overtaken' \in [Threads -> BOOLEAN]
<1>a. OvertakenOK
  BY DEF LoadOpen, ModifyOpen, Inv, TypeOK
<1> HIDE DEF OvertakenOK
<1>1. TypeOK'
  <2>1. /\ at' \in [Threads -> At]
        /\ kind' \in [Threads -> {"save", "modify"}]
        /\ fd' \in [Threads -> Inodes \cup {None}]
        /\ UNCHANGED <<path, tmp, data, copy, crashes>>
    BY DEF LoadOpen, ModifyOpen, Open, Goto, Inv, TypeOK, At
  <2> QED
    BY <1>0, <1>a, <2>1 DEF OvertakenOK, Inv, TypeOK
<1>2. LockInv'
  <2>1. CASE LoadOpen(t)
    BY <1>0, <2>1 DEF LoadOpen, Open, Goto, Inv, TypeOK, LockInv, Writing
  <2>2. CASE ModifyOpen(t)
    BY <1>0, <2>2, AcquireLock
    DEF ModifyOpen, Open, Goto, Inv, TypeOK, LockInv, Writing
  <2> QED
    BY <2>1, <2>2
<1>3. NamesInv'
  BY DEF LoadOpen, ModifyOpen, Open, Inv, NamesInv
<1>4. FileInv'
  BY DEF LoadOpen, ModifyOpen, Open, Goto, Inv, TypeOK, NamesInv, FileInv
<1>5. ModifyInv'
  BY DEF LoadOpen, ModifyOpen, Open, Goto, Inv, TypeOK, ModifyInv, Writing,
         Content, Read
<1> QED
  BY <1>1, <1>2, <1>3, <1>4, <1>5 DEF Inv

\* What a load reads parses, so it never fails here.
LEMMA ReadIsStore ==
    ASSUME Inv, NEW t \in Threads, at[t] = "read"
    PROVE  Read(fd[t]) \in Stores
  BY DEF Inv, TypeOK, FileInv, Read, Stores

\* What was opened is a complete store, so the copy is one.
LEMMA LoadReadInv ==
    ASSUME Guarded, Inv, NEW t \in Threads, LoadRead(t)
    PROVE  Inv'
<1>1. Read(fd[t]) \in Stores
  BY ReadIsStore DEF LoadRead
<1>2. TypeOK'
  BY <1>1 DEF LoadRead, Goto, Inv, TypeOK, At, Stores
<1>3. LockInv' /\ NamesInv'
  BY <1>1 DEF LoadRead, Goto, Inv, TypeOK, LockInv, NamesInv, Writing
<1>4. FileInv'
  BY <1>1 DEF LoadRead, Goto, Inv, TypeOK, FileInv
<1>5. ModifyInv'
  BY <1>1 DEF LoadRead, Goto, Inv, TypeOK, ModifyInv, Writing, Content, Read
<1> QED
  BY <1>2, <1>3, <1>4, <1>5 DEF Inv

\* A save begins when nobody else in the process is in one.
LEMMA SaveBeginInv ==
    ASSUME Guarded, Inv, NEW t \in Threads, SaveBegin(t)
    PROVE  Inv'
<1>1. TypeOK'
  <2>1. copy' \in [Threads -> Stores] /\ at' \in [Threads -> At]
    BY StoresAreSubsets DEF SaveBegin, Goto, Inv, TypeOK, At
  <2>2. lock' \in [Procs -> Threads \cup {None}]
    BY AcquireLock DEF SaveBegin, Inv
  <2> QED
    BY <2>1, <2>2 DEF SaveBegin, Inv, TypeOK
<1>2. LockInv' /\ NamesInv'
  BY AcquireLock DEF SaveBegin, Goto, Inv, TypeOK, LockInv, NamesInv, Writing
<1>3. FileInv'
  BY DEF SaveBegin, Goto, Inv, TypeOK, FileInv
<1>4. ModifyInv'
  BY DEF SaveBegin, Goto, Inv, TypeOK, ModifyInv, Writing, Content, Read
<1> QED
  BY <1>1, <1>2, <1>3, <1>4 DEF Inv

\* The temporary file is nobody else's.
LEMMA CreateInv ==
    ASSUME Guarded, Inv, NEW t \in Threads, Create(t)
    PROVE  Inv'
<1>1. PICK i \in Inodes :
        /\ IF tmp[TmpOf(t)] = None THEN Unused(i) ELSE i = tmp[TmpOf(t)]
        /\ tmp' = [tmp EXCEPT ![TmpOf(t)] = i]
        /\ data' = [data EXCEPT ![i] = Blank]
        /\ fd' = [fd EXCEPT ![t] = i]
  BY DEF Create
<1>2. TmpOf(t) \in TmpNames /\ TmpOf(t) = ProcOf(t) /\ at[t] = "create"
  BY Names DEF Create
<1>3. i # path /\ i # None
  BY <1>1, <1>2, DistinctAssumption DEF Unused, Inv, NamesInv
<1>4. \A n \in TmpNames : n # TmpOf(t) => tmp[n] # i
  BY <1>1, <1>2, <1>3 DEF Unused, Inv, NamesInv
<1>5. \A u \in Threads : at[u] = "read" => fd[u] # i
  BY <1>1, <1>2, <1>3 DEF Unused, Inv, FileInv
<1>6. \A u \in Threads : u # t /\ Writing(u) =>
          TmpOf(u) # TmpOf(t) /\ TmpOf(u) \in TmpNames
  BY <1>2, Names, OneWriter DEF Writing, Inv
<1>7. TypeOK'
  BY <1>1, <1>2 DEF Create, Goto, Inv, TypeOK, At
<1>8. LockInv' /\ NamesInv'
  BY <1>1, <1>2, <1>3, <1>4
  DEF Create, Goto, Inv, TypeOK, LockInv, NamesInv, Writing
<1>9. FileInv'
  BY <1>1, <1>2, <1>3, <1>4, <1>5, <1>6
  DEF Create, Goto, Inv, TypeOK, FileInv, Writing
<1>10. ModifyInv'
  BY <1>1, <1>2, <1>3 DEF Create, Goto, Inv, TypeOK, ModifyInv, Writing, Content, Read
<1> QED
  BY <1>7, <1>8, <1>9, <1>10 DEF Inv

\* It is filled by the thread that truncated it.
LEMMA FillInv ==
    ASSUME Guarded, Inv, NEW t \in Threads, Fill(t)
    PROVE  Inv'
<1>1. /\ fd[t] # None /\ fd[t] = tmp[TmpOf(t)] /\ fd[t] # path
      /\ fd[t] \in Inodes
      /\ data' = [data EXCEPT ![fd[t]] = copy[t]]
      /\ TmpOf(t) \in TmpNames
  <2>1. /\ at[t] = "fill" /\ fd[t] # None /\ fd[t] = tmp[TmpOf(t)]
        /\ data[fd[t]] = Blank /\ TmpOf(t) \in TmpNames
    BY Names DEF Fill, Inv, FileInv
  <2>2. fd[t] # path /\ fd[t] \in Inodes
    BY <2>1 DEF Inv, NamesInv, TypeOK
  <2>3. data' = [data EXCEPT ![fd[t]] = copy[t]]
    BY <2>1 DEF Fill
  <2> QED
    BY <2>1, <2>2, <2>3
<1>2. \A u \in Threads : at[u] = "read" => fd[u] # fd[t]
  BY <1>1 DEF Inv, FileInv
<1>3. \A u \in Threads : u # t /\ Writing(u) => TmpOf(u) # TmpOf(t)
  BY Names, OneWriter DEF Fill, Writing, Inv
<1>4. \A u \in Threads : u # t /\ Writing(u) => tmp[TmpOf(u)] # fd[t]
  BY <1>1, <1>3, Names DEF Inv, NamesInv
<1>5. TypeOK'
  BY <1>1 DEF Fill, Goto, Inv, TypeOK, At
<1>6. LockInv' /\ NamesInv'
  BY DEF Fill, Goto, Inv, TypeOK, LockInv, NamesInv, Writing
<1>7. FileInv'
  BY <1>1, <1>2, <1>4 DEF Fill, Goto, Inv, TypeOK, FileInv, Writing
<1>8. ModifyInv'
  BY <1>1 DEF Fill, Goto, Inv, TypeOK, ModifyInv, Writing, Content, Read
<1> QED
  BY <1>5, <1>6, <1>7, <1>8 DEF Inv

\* What Return and Release do to the invariant, wherever the thread was.
LEMMA Released ==
    ASSUME TypeOK, LockInv, NEW t \in Threads, Return(t), Release(t),
           UNCHANGED kind
    PROVE  /\ at' \in [Threads -> At] /\ copy' \in [Threads -> Stores]
           /\ fd' \in [Threads -> Inodes \cup {None}]
           /\ lock' \in [Procs -> Threads \cup {None}]
           /\ LockInv'
  BY DEF TypeOK, Return, Release, Goto, At, Stores, LockInv, Writing, ProcOf,
         Procs, Threads

\* Giving up releases the lock and leaves a temporary file behind.
LEMMA FailInv ==
    ASSUME Guarded, Inv, NEW t \in Threads, Fail(t)
    PROVE  Inv'
<1>1. TypeOK' /\ LockInv'
  BY Released DEF Fail, Inv, TypeOK
<1>2. NamesInv' /\ FileInv'
  BY DEF Fail, Return, Goto, Inv, TypeOK, NamesInv, FileInv
<1>3. ModifyInv'
  BY DEF Fail, Return, Goto, Inv, TypeOK, ModifyInv, Writing, Content, Read
<1> QED
  BY <1>1, <1>2, <1>3 DEF Inv

\* The file that gets the name is complete.
LEMMA RenameInv ==
    ASSUME Guarded, Inv, NEW t \in Threads, Rename(t)
    PROVE  Inv'
<1>1. /\ tmp[TmpOf(t)] # None /\ data[tmp[TmpOf(t)]] = copy[t]
      /\ TmpOf(t) \in TmpNames
      /\ path' = tmp[TmpOf(t)]
      /\ tmp' = [tmp EXCEPT ![TmpOf(t)] = None]
      /\ overtaken' = [u \in Threads |-> overtaken[u] \/ ProcOf(u) # ProcOf(t)]
      /\ UNCHANGED <<data, kind, crashes>>
  BY Names DEF Rename, Inv, FileInv
<1>2. /\ at'[t] # "read" /\ ~Writing(t)'
      /\ at'[t] = "have" => kind[t] = "save"
      /\ at' \in [Threads -> At] /\ fd' \in [Threads -> Inodes \cup {None}]
      /\ copy' \in [Threads -> Stores]
      /\ lock' \in [Procs -> Threads \cup {None}]
      /\ \A u \in Threads \ {t} : at'[u] = at[u] /\ fd'[u] = fd[u]
                                     /\ copy'[u] = copy[u]
  BY <1>1 DEF Rename, Return, Release, Goto, Inv, TypeOK, At, Stores, Writing
<1>3. TypeOK'
  BY <1>1, <1>2 DEF Inv, TypeOK
<1>4. LockInv'
  BY <1>1, <1>2, Names DEF Rename, Release, Inv, TypeOK, LockInv, Writing
<1>5. NamesInv'
  BY <1>1 DEF Inv, TypeOK, NamesInv
<1>6. \A u \in Threads : u # t /\ Writing(u) =>
          TmpOf(u) # TmpOf(t) /\ TmpOf(u) \in TmpNames
  BY Names, OneWriter DEF Rename, Writing, Inv
<1>7. FileInv'
  BY <1>1, <1>2, <1>6 DEF Inv, TypeOK, FileInv, NamesInv, Writing
<1>8. \A u \in Threads : u # t /\ (Writing(u) \/ (at[u] = "read" /\ kind[u] = "modify"))
          => overtaken'[u]
  BY <1>1, OneWriter DEF Rename, Writing, Inv
<1>9. ModifyInv'
  BY <1>1, <1>2, <1>8 DEF Inv, TypeOK, ModifyInv, Writing
<1> QED
  BY <1>3, <1>4, <1>5, <1>7, <1>9 DEF Inv

\* A crash leaves no more behind than failures do.
LEMMA CrashInv ==
    ASSUME Guarded, Inv, NEW p \in Procs, Crash(p)
    PROVE  Inv'
<1>1. TypeOK'
  <2>1. /\ at' \in [Threads -> At] /\ fd' \in [Threads -> Inodes \cup {None}]
        /\ lock' \in [Procs -> Threads \cup {None}]
    BY DEF Crash, Inv, TypeOK, At
  <2>2. copy' \in [Threads -> Stores]
    BY StoresAreSubsets DEF Crash, Inv, TypeOK
  <2> QED
    BY <2>1, <2>2 DEF Crash, Inv, TypeOK
<1>2. LockInv' /\ NamesInv'
  BY Names DEF Crash, Inv, TypeOK, LockInv, NamesInv, Writing
<1>3. FileInv'
  BY DEF Crash, Inv, TypeOK, FileInv
<1>4. ModifyInv'
  BY DEF Crash, Inv, TypeOK, ModifyInv, Writing, Content, Read
<1> QED
  BY <1>1, <1>2, <1>3, <1>4 DEF Inv

\* The invariant is inductive.
LEMMA StepInv == ASSUME Guarded PROVE Inv /\ [Next]_vars => Inv'
<1> SUFFICES ASSUME Inv, [Next]_vars PROVE Inv'
  OBVIOUS
<1>1. ASSUME NEW t \in Threads,
             \/ LoadOpen(t) \/ ModifyOpen(t) \/ LoadRead(t) \/ SaveBegin(t)
             \/ Create(t) \/ Fill(t) \/ Rename(t) \/ Fail(t)
      PROVE  Inv'
  BY <1>1, OpenInv, LoadReadInv, SaveBeginInv, CreateInv, FillInv, RenameInv,
     FailInv
<1>2. ASSUME NEW p \in Procs, Crash(p) PROVE Inv'
  BY <1>2, CrashInv
<1>3. CASE UNCHANGED vars
  BY <1>3 DEF vars, Inv, TypeOK, LockInv, NamesInv, FileInv, ModifyInv,
              Writing, Content, Read
<1> QED
  BY <1>1, <1>2, <1>3 DEF Next

\* It holds in every behaviour.
LEMMA InvAlways == ASSUME Guarded PROVE Spec => []Inv
  BY InitInv, StepInv, PTL DEF Spec

\* The variables keep their types.
THEOREM TypeCorrect == ASSUME Guarded PROVE Spec => []TypeOK
<1>1. Inv => TypeOK
  BY DEF Inv
<1> QED
  BY <1>1, InvAlways, PTL

\* state.json is never read half written.
THEOREM LoadsAreComplete == ASSUME Guarded PROVE Spec => []LoadsComplete
<1>1. Inv => LoadsComplete
  BY ReadIsStore DEF LoadsComplete
<1> QED
  BY <1>1, InvAlways, PTL

\* A modify loses no change of another thread of the daemon.
THEOREM ModifyIsAtomic == ASSUME Guarded PROVE Spec => []ModifyLosesNothing
<1>1. Inv => ModifyLosesNothing
  BY DEF Inv, ModifyInv, ModifyLosesNothing, Writing
<1> QED
  BY <1>1, InvAlways, PTL

-----------------------------------------------------------------------------
(* Refinement *)

\* Initial states are initial states of the abstract store.
LEMMA InitRefines == Init => Atomic!Init
  BY DEF Init, Atomic!Init, Content, Read, Copies

\* What a thread's copy is, for each place the thread can be.
LEMMA CopiesOf ==
    ASSUME Inv, NEW t \in Threads
    PROVE  /\ at[t] = "idle" => Copies[t] = None
           /\ at[t] = "read" => Copies[t] = Read(fd[t])
           /\ at[t] \notin {"idle", "read"} => Copies[t] = copy[t]
           /\ at[t] # "idle" => Copies[t] # None
  BY ReadIsStore, DistinctAssumption DEF Copies, Inv, TypeOK

\* A load, or the load of a modify, takes effect when the file is opened.
LEMMA OpenRefines ==
    ASSUME Guarded, Inv, NEW t \in Threads, LoadOpen(t) \/ ModifyOpen(t)
    PROVE  Atomic!Load(t)
<1>1. Copies[t] = None
  BY CopiesOf DEF LoadOpen, ModifyOpen
<1>2. Copies' = [Copies EXCEPT ![t] = Content]
  BY DEF LoadOpen, ModifyOpen, Open, Goto, Inv, TypeOK, Copies, Content, Read
<1>3. Content' = Content
  BY DEF LoadOpen, ModifyOpen, Open, Content, Read
<1> QED
  BY <1>1, <1>2, <1>3 DEF Atomic!Load

\* Reading it changes nothing, or is the change of a modify.
LEMMA ReadRefines ==
    ASSUME Guarded, Inv, NEW t \in Threads, LoadRead(t)
    PROVE  Atomic!Change(t) \/ UNCHANGED <<Content, Copies>>
<1>1. Read(fd[t]) \in Stores /\ Copies[t] = Read(fd[t]) /\ Copies[t] # None
  BY ReadIsStore, CopiesOf DEF LoadRead
<1>2. Content' = Content
  BY DEF LoadRead, Content, Read
<1>3. CASE kind[t] = "modify"
  <2>1. PICK c \in Changes : copy' = [copy EXCEPT ![t] = Read(fd[t]) \cup {c}]
    BY <1>1, <1>3 DEF LoadRead
  <2>2. Copies' = [Copies EXCEPT ![t] = @ \cup {c}]
    BY <1>1, <1>3, <2>1 DEF LoadRead, Goto, Inv, TypeOK, Copies, Read
  <2> QED
    BY <1>1, <1>2, <2>2 DEF Atomic!Change
<1>4. CASE kind[t] # "modify"
  <2>1. Copies' = Copies
    BY <1>1, <1>4 DEF LoadRead, Goto, Inv, TypeOK, Copies, Read
  <2> QED
    BY <1>2, <2>1
<1> QED
  BY <1>3, <1>4

\* To begin a save is to change the copy.
LEMMA SaveBeginRefines ==
    ASSUME Guarded, Inv, NEW t \in Threads, SaveBegin(t)
    PROVE  Atomic!Change(t)
<1>1. Copies[t] = copy[t] /\ Copies[t] # None
  BY CopiesOf DEF SaveBegin
<1>2. PICK c \in Changes : copy' = [copy EXCEPT ![t] = @ \cup {c}]
  BY DEF SaveBegin
<1>3. Copies' = [Copies EXCEPT ![t] = @ \cup {c}]
  BY <1>1, <1>2 DEF SaveBegin, Goto, Inv, TypeOK, Copies, Read
<1>4. Content' = Content
  BY DEF SaveBegin, Content, Read
<1> QED
  BY <1>1, <1>3, <1>4 DEF Atomic!Change

\* Nobody sees what happens to a temporary file.
LEMMA WriteRefines ==
    ASSUME Guarded, Inv, NEW t \in Threads, Create(t) \/ Fill(t)
    PROVE  UNCHANGED <<Content, Copies>>
<1>1. PICK i \in Inodes :
        /\ i # path
        /\ \A u \in Threads : at[u] = "read" => fd[u] # i
        /\ \A j \in Inodes : j # i => data'[j] = data[j]
  <2>1. CASE Create(t)
    <3>1. PICK i \in Inodes :
            /\ IF tmp[TmpOf(t)] = None THEN Unused(i) ELSE i = tmp[TmpOf(t)]
            /\ data' = [data EXCEPT ![i] = Blank]
      BY <2>1 DEF Create
    <3>2. i # path /\ \A u \in Threads : at[u] = "read" => fd[u] # i
      BY <3>1, Names, DistinctAssumption DEF Unused, Inv, NamesInv, FileInv
    <3> QED
      BY <3>1, <3>2 DEF Inv, TypeOK
  <2>2. CASE Fill(t)
    <3>1. fd[t] # None /\ fd[t] = tmp[TmpOf(t)] /\ TmpOf(t) \in TmpNames
      BY <2>2, Names DEF Fill, Inv, FileInv
    <3>2. /\ fd[t] \in Inodes /\ fd[t] # path
          /\ \A u \in Threads : at[u] = "read" => fd[u] # fd[t]
      BY <3>1 DEF Inv, TypeOK, NamesInv, FileInv
    <3>3. \A j \in Inodes : j # fd[t] => data'[j] = data[j]
      BY <2>2 DEF Fill, Inv, TypeOK
    <3> QED
      BY <3>2, <3>3
  <2> QED
    BY <2>1, <2>2
<1>2. path' = path /\ copy' = copy
  BY DEF Create, Fill
<1>3. \A u \in Threads : /\ at'[u] = "idle" <=> at[u] = "idle"
                         /\ at'[u] = "read" <=> at[u] = "read"
                         /\ at[u] = "read" => fd'[u] = fd[u]
  BY DEF Create, Fill, Goto, Inv, TypeOK
<1>4. \A u \in Threads : at[u] = "read" => Read(fd[u])' = Read(fd[u])
  BY <1>1, <1>3 DEF Read, Inv, TypeOK
<1> QED
  BY <1>1, <1>2, <1>3, <1>4 DEF Content, Read, Copies, Inv, TypeOK

\* A save takes effect when the temporary file is renamed.
LEMMA RenameRefines ==
    ASSUME Guarded, Inv, NEW t \in Threads, Rename(t)
    PROVE  Atomic!Save(t)
<1>1. /\ tmp[TmpOf(t)] # None /\ data[tmp[TmpOf(t)]] = copy[t]
      /\ path' = tmp[TmpOf(t)] /\ data' = data
  BY DEF Rename, Inv, FileInv
<1>2. Copies[t] = copy[t] /\ Copies[t] # None
  BY CopiesOf DEF Rename
<1>3. Content' = Copies[t]
  BY <1>1, <1>2 DEF Content, Read
<1>4. CASE Return(t)
  <2>1. Copies' = [Copies EXCEPT ![t] = None]
    BY <1>1, <1>4 DEF Return, Goto, Inv, TypeOK, Copies, Read
  <2> QED
    BY <1>2, <1>3, <2>1 DEF Atomic!Save
<1>5. CASE ~Return(t)
  <2>1. Goto(t, "have") /\ UNCHANGED <<copy, fd>>
    BY <1>1, <1>5 DEF Rename
  <2>2. Copies' = Copies
    BY <1>1, <2>1 DEF Rename, Goto, Inv, TypeOK, Copies, Read
  <2> QED
    BY <1>2, <1>3, <2>2 DEF Atomic!Save
<1> QED
  BY <1>4, <1>5

\* A failure or a crash loses copies, and nothing else.
LEMMA LossRefines ==
    ASSUME Guarded, Inv, NEW T \in SUBSET Threads,
           /\ at' = [t \in Threads |-> IF t \in T THEN "idle" ELSE at[t]]
           /\ \A t \in Threads \ T : fd'[t] = fd[t] /\ copy'[t] = copy[t]
           /\ UNCHANGED <<path, data>>
    PROVE  Atomic!Forget(T)
<1>1. Content' = Content
  BY DEF Content, Read
<1>2. Copies' = [t \in Threads |-> IF t \in T THEN None ELSE Copies[t]]
  BY DEF Copies, Read
<1> QED
  BY <1>1, <1>2 DEF Atomic!Forget

\* Every step is a step of the abstract store, or none.
LEMMA StepRefines ==
    ASSUME Guarded, Inv, [Next]_vars
    PROVE  [Atomic!Next]_Atomic!vars
<1>1. ASSUME NEW t \in Threads,
             \/ LoadOpen(t) \/ ModifyOpen(t) \/ LoadRead(t) \/ SaveBegin(t)
             \/ Create(t) \/ Fill(t) \/ Rename(t)
      PROVE  [Atomic!Next]_Atomic!vars
  <2>1. \/ Atomic!Load(t) \/ Atomic!Change(t) \/ Atomic!Save(t)
        \/ UNCHANGED <<Content, Copies>>
    BY <1>1, OpenRefines, ReadRefines, SaveBeginRefines, WriteRefines,
       RenameRefines
  <2> QED
    BY <2>1 DEF Atomic!Next, Atomic!vars
<1>2. ASSUME NEW t \in Threads, Fail(t) PROVE Atomic!Next
  <2>1. Atomic!Forget({t})
    BY <1>2, LossRefines DEF Fail, Return, Goto, Inv, TypeOK
  <2> QED
    BY <2>1 DEF Atomic!Next
<1>3. ASSUME NEW p \in Procs, Crash(p) PROVE Atomic!Next
  <2>1. Atomic!Forget({t \in Threads : ProcOf(t) = p})
    BY <1>3, LossRefines DEF Crash
  <2> QED
    BY <2>1 DEF Atomic!Next
<1>4. CASE UNCHANGED vars
  BY <1>4 DEF vars, Atomic!vars, Content, Copies, Read
<1> QED
  BY <1>1, <1>2, <1>3, <1>4 DEF Next

\* Loads and saves of state.json are those of a store that is replaced as a
\* whole, which is how the other modules treat it.
THEOREM Refinement == ASSUME Guarded PROVE Spec => ImplementsAtomicStore
  BY InitRefines, InvAlways, StepRefines, PTL
  DEF Spec, ImplementsAtomicStore, Atomic!Spec
=============================================================================
