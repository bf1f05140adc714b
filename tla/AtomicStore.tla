----------------------------- MODULE AtomicStore -----------------------------
(***************************************************************************)
(* What state.json promises its users, and what the other modules take for *)
(* granted: a store that is loaded and replaced as a whole.  A store is    *)
(* the set of the changes it contains.                                     *)
(***************************************************************************)
CONSTANTS
    Threads,   \* those who load and save
    Changes,   \* the changes they make
    None       \* no copy

VARIABLES
    store,     \* the store
    copy       \* per thread: the Store it works on, or None

vars == <<store, copy>>

Init ==
    /\ store = {}
    /\ copy = [t \in Threads |-> None]

Load(t) ==
    /\ copy[t] = None
    /\ copy' = [copy EXCEPT ![t] = store]
    /\ UNCHANGED store

Change(t) ==
    /\ copy[t] # None
    /\ \E c \in Changes : copy' = [copy EXCEPT ![t] = @ \cup {c}]
    /\ UNCHANGED store

\* The whole copy replaces the store; the thread keeps it or drops it.
Save(t) ==
    /\ copy[t] # None
    /\ store' = copy[t]
    /\ copy' \in {copy, [copy EXCEPT ![t] = None]}

\* Copies are lost: a thread is done or fails, or its process ends.
Forget(T) ==
    /\ copy' = [t \in Threads |-> IF t \in T THEN None ELSE copy[t]]
    /\ UNCHANGED store

Next ==
    \/ \E t \in Threads : Load(t) \/ Change(t) \/ Save(t)
    \/ \E T \in SUBSET Threads : Forget(T)

Spec == Init /\ [][Next]_vars
=============================================================================
