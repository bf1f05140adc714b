------------------------------ MODULE StateFile ------------------------------
(***************************************************************************)
(* How a configuration file is read and replaced: a load opens the file    *)
(* and reads it; a save writes a temporary file and renames it.  The file  *)
(* system is modelled to the inode, because a thread that has opened a     *)
(* file goes on with that file after its name has moved.                   *)
(*                                                                         *)
(* Guarded is TRUE for state.json (state.rs): SAVE_LOCK, a mutex per       *)
(* process, is held over a save and over the load and save of a modify,    *)
(* and the temporary file has the process id in its name.  It is FALSE for *)
(* the project files (interop.rs): no lock, one temporary name.            *)
(*                                                                         *)
(* The operators named Bad... are faults, used by no action.               *)
(***************************************************************************)
EXTENDS Integers

CONSTANTS
    Daemon,      \* the daemon's process
    Workers,     \* its threads
    Clis,        \* command line processes, which have one thread each
    Changes,     \* the changes that are made to a store
    Inodes,      \* the files on the disk, named or not
    Guarded,     \* state.json or a project file
    MaxCrashes,  \* bound on the number of processes that end in the middle
    None,        \* no file, no thread
    Blank,       \* the contents of a file that was just truncated
    Torn         \* contents that are a mixture

Procs == {Daemon} \cup Clis
Threads == Workers \cup Clis
ProcOf(t) == IF t \in Workers THEN Daemon ELSE t

\* A store is the set of the changes it contains.  Neither Blank nor Torn
\* parses, but what is written to a Blank file next is all it contains.
Stores == {S : S \in SUBSET Changes}

\* The temporary names: the process id makes them distinct.
TmpNames == IF Guarded THEN Procs ELSE {"tmp"}

ASSUME GuardedAssumption == Guarded \in BOOLEAN
ASSUME MaxCrashesAssumption == MaxCrashes \in Nat
ASSUME ProcsAssumption == Daemon \notin Clis /\ Workers \cap Clis = {}
ASSUME DistinctAssumption ==
    /\ None \notin Inodes /\ None \notin Threads /\ None \notin Stores
    /\ Torn \notin Stores /\ Blank \notin Stores /\ Torn # Blank

VARIABLES
    path,       \* the inode of the file, None before the first save
    tmp,        \* the inodes of the temporary files
    data,       \* contents of the inodes
    lock,       \* per process: the thread that holds SAVE_LOCK
    at,         \* per thread: where it is
    kind,       \* per thread: in a modify, or in a load ... save
    fd,         \* per thread: the file it has open
    copy,       \* per thread: its Store
    overtaken,  \* history: another process saved since this modify loaded
    crashes     \* how many processes have ended

vars == <<path, tmp, data, lock, at, kind, fd, copy, overtaken, crashes>>

At == {"idle", "read", "have", "create", "fill", "rename"}

TypeOK ==
    /\ path \in Inodes \cup {None}
    /\ tmp \in [TmpNames -> Inodes \cup {None}]
    /\ data \in [Inodes -> Stores \cup {Blank, Torn}]
    /\ lock \in [Procs -> Threads \cup {None}]
    /\ at \in [Threads -> At]
    /\ kind \in [Threads -> {"save", "modify"}]
    /\ fd \in [Threads -> Inodes \cup {None}]
    /\ copy \in [Threads -> Stores]
    /\ overtaken \in [Threads -> BOOLEAN]
    /\ crashes \in Nat

Init ==
    /\ path = None
    /\ tmp = [n \in TmpNames |-> None]
    /\ data = [i \in Inodes |-> Blank]
    /\ lock = [p \in Procs |-> None]
    /\ at = [t \in Threads |-> "idle"]
    /\ kind = [t \in Threads |-> "save"]
    /\ fd = [t \in Threads |-> None]
    /\ copy = [t \in Threads |-> {}]
    /\ overtaken = [t \in Threads |-> FALSE]
    /\ crashes = 0

-----------------------------------------------------------------------------
\* What a read of inode i returns; load takes a missing file for an empty
\* store.
Read(i) == IF i = None THEN {} ELSE data[i]

Content == Read(path)

\* Fault: the temporary name is the daemon's, whoever writes.
BadTmpOf(t) == Daemon

TmpOf(t) == IF Guarded THEN ProcOf(t) ELSE "tmp"

\* Fault: the lock belongs to the process, so its threads may share it.
BadAcquire(t) ==
    /\ lock[ProcOf(t)] \in {None, ProcOf(t)}
    /\ lock' = [lock EXCEPT ![ProcOf(t)] = ProcOf(t)]

\* A guarded thread waits for the lock of its process.
Acquire(t) ==
    IF Guarded
      THEN /\ lock[ProcOf(t)] = None
           /\ lock' = [lock EXCEPT ![ProcOf(t)] = t]
      ELSE UNCHANGED lock

Release(t) == lock' = [p \in Procs |-> IF lock[p] = t THEN None ELSE lock[p]]

\* An inode that has no name and that nobody has open.
Unused(i) ==
    /\ i # path
    /\ \A n \in TmpNames : tmp[n] # i
    /\ \A t \in Threads : fd[t] # i

Goto(t, where) == at' = [at EXCEPT ![t] = where]

\* The call returns, and the thread forgets its Store.
Return(t) ==
    /\ Goto(t, "idle")
    /\ copy' = [copy EXCEPT ![t] = {}]
    /\ fd' = [fd EXCEPT ![t] = None]

Open(t, k) ==
    /\ Goto(t, "read")
    /\ kind' = [kind EXCEPT ![t] = k]
    /\ fd' = [fd EXCEPT ![t] = path]
    /\ UNCHANGED <<path, tmp, data, copy, crashes>>

\* load: the file is opened, without a lock ...
LoadOpen(t) ==
    /\ at[t] = "idle"
    /\ Open(t, "save")
    /\ UNCHANGED <<lock, overtaken>>

\* modify: ... or under the lock.  Only the daemon calls it, and only for
\* state.json.
ModifyOpen(t) ==
    /\ at[t] = "idle"
    /\ Guarded /\ t \in Workers
    /\ Acquire(t)
    /\ Open(t, "modify")
    /\ overtaken' = [overtaken EXCEPT ![t] = FALSE]

\* It is read.  A modify applies its change at once; what does not parse is
\* an error.
LoadRead(t) ==
    /\ at[t] = "read"
    /\ IF Read(fd[t]) \notin Stores
         THEN Return(t) /\ Release(t)
         ELSE /\ IF kind[t] = "modify"
                   THEN /\ \E c \in Changes :
                             copy' = [copy EXCEPT ![t] = Read(fd[t]) \cup {c}]
                        /\ Goto(t, "create")
                   ELSE /\ copy' = [copy EXCEPT ![t] = Read(fd[t])]
                        /\ Goto(t, "have")
              /\ fd' = [fd EXCEPT ![t] = None]
              /\ UNCHANGED lock
    /\ UNCHANGED <<path, tmp, data, kind, overtaken, crashes>>

\* The caller of load changes its copy, and calls save.
SaveBegin(t) ==
    /\ at[t] = "have"
    /\ Acquire(t)
    /\ \E c \in Changes : copy' = [copy EXCEPT ![t] = @ \cup {c}]
    /\ Goto(t, "create")
    /\ UNCHANGED <<path, tmp, data, kind, fd, overtaken, crashes>>

\* fs::write, first half: the temporary file is created, or truncated.
Create(t) ==
    /\ at[t] = "create"
    /\ \E i \in Inodes :
         /\ IF tmp[TmpOf(t)] = None THEN Unused(i) ELSE i = tmp[TmpOf(t)]
         /\ tmp' = [tmp EXCEPT ![TmpOf(t)] = i]
         /\ data' = [data EXCEPT ![i] = Blank]
         /\ fd' = [fd EXCEPT ![t] = i]
    /\ Goto(t, "fill")
    /\ UNCHANGED <<path, lock, kind, copy, overtaken, crashes>>

\* fs::write, second half.  Into a file that others write to as well, the
\* result is a mixture.
Fill(t) ==
    /\ at[t] = "fill"
    /\ \E d \in {copy[t]} \cup (IF data[fd[t]] = Blank THEN {} ELSE {Torn}) :
         data' = [data EXCEPT ![fd[t]] = d]
    /\ fd' = [fd EXCEPT ![t] = None]
    /\ Goto(t, "rename")
    /\ UNCHANGED <<path, tmp, lock, kind, copy, overtaken, crashes>>

\* fs::rename.  A request is done then, a Manager keeps its Store.  The name
\* is gone if another thread has renamed it already.
Rename(t) ==
    /\ at[t] = "rename"
    /\ IF tmp[TmpOf(t)] = None
         THEN Return(t) /\ UNCHANGED <<path, tmp, overtaken>>
         ELSE /\ path' = tmp[TmpOf(t)]
              /\ tmp' = [tmp EXCEPT ![TmpOf(t)] = None]
              /\ overtaken' = [u \in Threads |-> overtaken[u]
                                                   \/ ProcOf(u) # ProcOf(t)]
              /\ \/ Return(t)
                 \/ kind[t] = "save" /\ Goto(t, "have") /\ UNCHANGED <<copy, fd>>
    /\ Release(t)
    /\ UNCHANGED <<data, kind, crashes>>

\* An operation on the disk fails, or the caller drops its copy.
Fail(t) ==
    /\ at[t] # "idle"
    /\ Return(t)
    /\ Release(t)
    /\ UNCHANGED <<path, tmp, data, kind, overtaken, crashes>>

\* A process ends wherever its threads are; its files stay.
Crash(p) ==
    LET gone(t) == ProcOf(t) = p
    IN  /\ crashes < MaxCrashes
        /\ crashes' = crashes + 1
        /\ lock' = [lock EXCEPT ![p] = None]
        /\ at' = [t \in Threads |-> IF gone(t) THEN "idle" ELSE at[t]]
        /\ fd' = [t \in Threads |-> IF gone(t) THEN None ELSE fd[t]]
        /\ copy' = [t \in Threads |-> IF gone(t) THEN {} ELSE copy[t]]
        /\ UNCHANGED <<path, tmp, data, kind, overtaken>>

Next ==
    \/ \E t \in Threads : \/ LoadOpen(t) \/ ModifyOpen(t) \/ LoadRead(t)
                          \/ SaveBegin(t) \/ Create(t) \/ Fill(t)
                          \/ Rename(t) \/ Fail(t)
    \/ \E p \in Procs : Crash(p)

Spec == Init /\ [][Next]_vars

-----------------------------------------------------------------------------
(* Properties *)

\* Whoever has opened the file reads a store that somebody saved, whatever
\* is renamed, written or left behind by a crash meanwhile: what state::save
\* is to do ("atomic write", PROJECT_INTEROP_PLAN.md:109), with Guarded TRUE.
\* A project file does not have it, although :90 says the same of it and
\* docs/specs/project-interop/rfc-0005-api.md:157-159 asks for it: with Guarded
\* FALSE two saves share the temporary file, and one renames what the other has
\* only begun to write.
LoadsComplete ==
    \A t \in Threads : at[t] = "read" => Read(fd[t]) \in Stores

\* What a modify is about to save contains all that is in the file: no thread
\* of the same process got in between.  SAVE_LOCK does not keep out another
\* process.
ModifyLosesNothing ==
    \A t \in Threads :
        kind[t] = "modify" /\ at[t] \in {"create", "fill", "rename"}
            /\ ~overtaken[t]  => Content \subseteq copy[t]

\* To its users the file is a store that is loaded and replaced as a whole:
\* a load takes effect when it opens the file, a save when it renames.
Copies == [t \in Threads |-> CASE at[t] = "idle" -> None
                              [] at[t] = "read" -> Read(fd[t])
                              [] OTHER -> copy[t]]

Atomic == INSTANCE AtomicStore WITH store <- Content, copy <- Copies

ImplementsAtomicStore == Atomic!Spec
=============================================================================
