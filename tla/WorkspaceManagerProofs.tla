----------------------- MODULE WorkspaceManagerProofs -----------------------
(***************************************************************************)
(* Theorems about WorkspaceManager, for any number of workspaces, projects *)
(* and callers.                                                            *)
(*                                                                         *)
(* A command works with what it read when it began.  As long as nobody has *)
(* interfered it is alone, so what it read is still so (InStep): its copy  *)
(* of the store is the store, its project is the project's file, and each  *)
(* position in the command says what is already there or already gone.     *)
(***************************************************************************)
EXTENDS WorkspaceManager, TLAPS

\* What a command has at hand where it needs it.
Reads(k) == k.at = "load" /\ k.copy = None
Good(k) ==
    /\ k \in Call
    /\ k.at \notin {"load", "delete"} \/ Reads(k) => k.ws \in Workspaces
    /\ k.at \in {"tree", "tag", "save", "untag", "untree", "delete"} \/ Reads(k)
           => k.project \in Project
    /\ k.at \notin {"tree", "load", "delete"} => k.copy \in Store

\* What a command believes of a store s, project files ps and worktrees ts.
Agrees(k, s, ps, ts) ==
    /\ k.copy # None => k.copy = s
    /\ k.at \in {"tree", "tag", "save"} \/ Reads(k) => ps[k.project.name] = k.project.kind
    /\ k.at \in {"tag", "save"} /\ k.project.kind = "branch"
           => ts[<<k.project.name, k.ws>>] # "absent"
    /\ k.at \in {"untag", "untree"} => k.ws \notin ActiveNames(s)
    /\ k.at = "delete" => \A w \in ActiveNames(s) : s[w].project # k.project.name
InStep(k) == Agrees(k, store, projects, tree)

Alone == \A c, d \in Callers : call[c] # None /\ call[d] # None => c = d

\* Usable, of the same.
UsableIn(s, ps, ts) ==
    \A w \in ActiveNames(s) :
        /\ ps[s[w].project] # "none"
        /\ ps[s[w].project] = "branch" => ts[<<s[w].project, w>>] # "absent"
AllUsable == UsableIn(store, projects, tree)

Inv ==
    /\ TypeOK
    /\ \A c \in Callers : call[c] # None => Good(call[c])
    /\ ~disturbed => /\ Alone
                     /\ AllUsable
                     /\ \A c \in Callers : call[c] # None => InStep(call[c])

-----------------------------------------------------------------------------
(* Steps that only begin, continue or end a command *)

\* A command goes on, or ends (next = None), and may change all there is.
LEMMA StepKeeps ==
    ASSUME Inv, NEW c \in Callers, call[c] # None, NEW next,
           next = None \/ Good(next), Proceed(c, next),
           store' \in Store, projects' \in [Projects -> Kind \cup {"none"}],
           tree' \in [Tag -> {"absent", "clean", "dirty"}], tags' \subseteq Tag,
           disturbed' \in BOOLEAN,
           ~disturbed' => /\ ~disturbed
                          /\ UsableIn(store', projects', tree')
                          /\ next = None \/ Agrees(next, store', projects', tree')
    PROVE  Inv'
<1>1. TypeOK'
  BY DEF Inv, TypeOK, Proceed, Good, Reads
<1>2. \A d \in Callers : d # c => call'[d] = call[d]
  BY DEF Inv, TypeOK, Proceed
<1>3. call'[c] = next
  BY DEF Inv, TypeOK, Proceed
<1>4. \A d \in Callers : call'[d] # None => Good(call'[d])
  BY <1>2, <1>3 DEF Inv
<1>5. ASSUME ~disturbed'
      PROVE  /\ Alone' /\ AllUsable'
             /\ \A d \in Callers : call'[d] # None => InStep(call[d])'
  <2>1. \A d \in Callers : call'[d] # None => d = c
    BY <1>2, <1>5 DEF Inv, Alone
  <2>2. Alone'
    BY <2>1 DEF Alone
  <2>3. AllUsable'
    BY <1>5 DEF AllUsable, UsableIn, ActiveNames, Names
  <2>4. \A d \in Callers : call'[d] # None => InStep(call[d])'
    BY <1>3, <1>5, <2>1 DEF InStep, Agrees, ActiveNames, Names, Reads
  <2> QED
    BY <2>2, <2>3, <2>4
<1> QED
  BY <1>1, <1>4, <1>5 DEF Inv, Good, Reads

LEMMA ProceedKeeps ==
    ASSUME Inv, NEW c \in Callers, call[c] # None, NEW next,
           next = None \/ Good(next),
           ~disturbed => next = None \/ InStep(next),
           Proceed(c, next), tags' \subseteq Tag,
           UNCHANGED <<store, projects, tree, disturbed>>
    PROVE  Inv'
<1>1. /\ store' \in Store /\ projects' \in [Projects -> Kind \cup {"none"}]
      /\ tree' \in [Tag -> {"absent", "clean", "dirty"}]
      /\ disturbed' \in BOOLEAN
  BY DEF Inv, TypeOK
<1>2. ~disturbed' => /\ ~disturbed
                     /\ UsableIn(store', projects', tree')
                     /\ next = None \/ Agrees(next, store', projects', tree')
  BY DEF Inv, AllUsable, InStep
<1> QED
  BY <1>1, <1>2, StepKeeps

LEMMA BeginKeeps ==
    ASSUME Inv, NEW c \in Callers, NEW next, Good(next),
           ~disturbed => InStep(next),
           Begin(c, next)
    PROVE  Inv'
<1>1. TypeOK'
  BY DEF Inv, TypeOK, Begin, Good, Reads
<1>2. \A d \in Callers : d # c => call'[d] = call[d]
  BY DEF Inv, TypeOK, Begin
<1>3. call'[c] = next
  BY DEF Inv, TypeOK, Begin
<1>4. \A d \in Callers : call'[d] # None => Good(call'[d])
  BY <1>2, <1>3 DEF Inv
<1>5. ASSUME ~disturbed'
      PROVE  /\ Alone' /\ AllUsable'
             /\ \A d \in Callers : call'[d] # None => InStep(call[d])'
  <2>1. ~disturbed /\ \A d \in Callers : call[d] = None
    BY <1>5 DEF Begin, Busy
  <2>2. Alone'
    BY <1>2, <1>3, <2>1 DEF Inv, Alone
  <2>3. AllUsable'
    BY <2>1 DEF Inv, Begin, AllUsable, ActiveNames, Names, UsableIn
  <2>4. \A d \in Callers : call'[d] # None => InStep(call[d])'
    BY <1>2, <1>3, <2>1 DEF Begin, InStep, Agrees, ActiveNames, Names, HasActive, Reads
  <2> QED
    BY <2>2, <2>3, <2>4
<1> QED
  BY <1>1, <1>4, <1>5 DEF Inv, Good, Reads

\* What resolve_workspace gives is a project.
LEMMA Resolved ==
    ASSUME TypeOK, NEW s \in Store, NEW w \in Workspaces, Resolves(s, w)
    PROVE  /\ Resolve(s, w) \in Project
           /\ projects[Resolve(s, w).name] = Resolve(s, w).kind
  BY DEF TypeOK, Resolves, Names, Resolve, Load, Project, Store, Entry, Kind

LEMMA InitInv == Init => Inv
  BY DEF Init, Inv, TypeOK, Store, Alone, AllUsable, UsableIn, ActiveNames, Names

-----------------------------------------------------------------------------
(* Beginning *)

LEMMA TakeDownKeeps ==
    ASSUME Inv, NEW c \in Callers, NEW w \in Workspaces, NEW manage \in BOOLEAN,
           NEW keep \in BOOLEAN, NEW then \in {"end", "forget"},
           TakeDown(c, w, manage, keep, then)
    PROVE  Inv'
<1> DEFINE next == [Blank EXCEPT !.at = "down", !.ws = w, !.manage = manage, !.keep = keep,
                                 !.then = then, !.copy = store]
<1>1. Good(next)
  BY DEF Good, Reads, Call, Blank, Inv, TypeOK
<1>2. InStep(next)
  BY DEF InStep, Agrees, Blank, Reads
<1>3. Begin(c, next)
  BY DEF TakeDown
<1> HIDE DEF next
<1> QED
  BY <1>1, <1>2, <1>3, BeginKeeps

LEMMA BringUpKeeps ==
    ASSUME Inv, NEW c \in Callers, NEW w \in Workspaces, NEW manage \in BOOLEAN,
           BringUp(c, w, manage)
    PROVE  Inv'
<1> DEFINE next == [Blank EXCEPT !.ws = w, !.manage = manage, !.copy = store,
                                 !.project = Resolve(store, w)]
<1>1. Resolve(store, w) \in Project /\ projects[Resolve(store, w).name] = Resolve(store, w).kind
  BY Resolved DEF Inv, TypeOK, BringUp
<1>2. Good(next)
  BY <1>1 DEF Good, Reads, Call, Blank, Inv, TypeOK
<1>3. InStep(next)
  BY <1>1 DEF InStep, Agrees, Blank, Reads
<1>4. Begin(c, next)
  BY DEF BringUp
<1> HIDE DEF next
<1> QED
  BY <1>2, <1>3, <1>4, BeginKeeps

LEMMA CreateKeeps ==
    ASSUME Inv, NEW c \in Callers, NEW w \in Workspaces, NEW p \in Projects,
           NEW manage \in BOOLEAN, Create(c, w, p, manage)
    PROVE  Inv'
<1> DEFINE next == [Blank EXCEPT !.ws = w, !.manage = manage, !.project = Load(p),
                                 !.copy = store]
<1>1. Load(p) \in Project /\ Load(p).name = p /\ Load(p).kind = projects[p]
  BY DEF Load, Project, Create, Inv, TypeOK
<1>2. Good(next)
  BY <1>1 DEF Good, Reads, Call, Blank, Inv, TypeOK
<1>3. InStep(next)
  BY <1>1 DEF InStep, Agrees, Blank, Reads
<1>4. Begin(c, next)
  BY DEF Create
<1> HIDE DEF next
<1> QED
  BY <1>2, <1>3, <1>4, BeginKeeps

LEMMA AllKeep ==
    ASSUME Inv, NEW c \in Callers, NEW manage \in BOOLEAN, NEW keep \in BOOLEAN,
           UpAll(c) \/ DownAll(c, manage, keep)
    PROVE  Inv'
<1>1. ActiveNames(store) \subseteq Workspaces /\ Names(store) \subseteq Workspaces
  BY DEF ActiveNames, Names
<1>2. CASE UpAll(c)
  <2> DEFINE next == [Blank EXCEPT !.at = "load", !.todo = ActiveNames(store), !.copy = store]
  <2>1. Good(next)
    BY <1>1, NoneAssumption DEF Good, Reads, Call, Blank, Inv, TypeOK
  <2>2. InStep(next)
    BY NoneAssumption DEF InStep, Agrees, Blank, Reads, Inv, TypeOK
  <2>3. Begin(c, next)
    BY <1>2 DEF UpAll
  <2> HIDE DEF next
  <2> QED
    BY <2>1, <2>2, <2>3, BeginKeeps
<1>3. CASE DownAll(c, manage, keep)
  <2>1. PICK w \in Names(store) :
            Begin(c, [Blank EXCEPT !.at = "down", !.ws = w, !.todo = Names(store) \ {w},
                                   !.manage = manage, !.keep = keep, !.copy = store])
    BY <1>3 DEF DownAll
  <2> DEFINE next == [Blank EXCEPT !.at = "down", !.ws = w, !.todo = Names(store) \ {w},
                                   !.manage = manage, !.keep = keep, !.copy = store]
  <2>2. Good(next)
    BY <1>1 DEF Good, Reads, Call, Blank, Inv, TypeOK
  <2>3. InStep(next)
    BY DEF InStep, Agrees, Blank, Reads
  <2>4. Begin(c, next)
    BY <2>1
  <2> HIDE DEF next
  <2> QED
    BY <2>2, <2>3, <2>4, BeginKeeps
<1> QED
  BY <1>2, <1>3

LEMMA CheckFirstKeeps ==
    ASSUME Inv, NEW c \in Callers, NEW w \in Workspaces, CheckFirst(c, w)
    PROVE  Inv'
<1> DEFINE next == [Blank EXCEPT !.at = "check", !.ws = w, !.keep = FALSE, !.then = "forget",
                                 !.copy = store]
<1>1. Good(next)
  BY DEF Good, Reads, Call, Blank, Inv, TypeOK
<1>2. InStep(next)
  BY DEF InStep, Agrees, Blank, Reads
<1>3. Begin(c, next)
  BY DEF CheckFirst
<1> HIDE DEF next
<1> QED
  BY <1>1, <1>2, <1>3, BeginKeeps

\* A project without active workspaces stays so while nobody else works.
LEMMA UnregisterKeeps ==
    ASSUME Inv, NEW c \in Callers, NEW p \in Projects, UnregisterProject(c, p)
    PROVE  Inv'
<1> DEFINE next == [Blank EXCEPT !.at = "delete", !.project = Load(p)]
<1>1. Load(p) \in Project /\ Load(p).name = p
  BY DEF Load, Project, UnregisterProject, Inv, TypeOK
<1>2. Good(next)
  BY <1>1 DEF Good, Reads, Call, Blank, Inv, TypeOK
<1>3. InStep(next)
  BY <1>1 DEF InStep, Agrees, Blank, UnregisterProject, Unregistrable, HasActive, Reads
<1>4. Begin(c, next)
  BY DEF UnregisterProject
<1> HIDE DEF next
<1> QED
  BY <1>2, <1>3, <1>4, BeginKeeps

-----------------------------------------------------------------------------
(* Bringing up *)

\* A new project's file is written before anything else: the exception is one
\* that is in use.
LEMMA CreateFormKeeps ==
    ASSUME Inv, NEW c \in Callers, NEW w \in Workspaces, NEW p \in Projects,
           NEW new \in BOOLEAN, CreateForm(c, w, p, new)
    PROVE  Inv'
<1> DEFINE next == [Blank EXCEPT !.ws = w, !.project = [name |-> p, kind |-> projects'[p]]]
<1> USE DEF CreateForm
<1>1. projects' \in [Projects -> Kind \cup {"none"}] /\ projects'[p] \in Kind
  BY DEF Inv, TypeOK, Kind
<1>2. Good(next)
  BY <1>1 DEF Good, Reads, Call, Blank, Project
<1>3. call' = [call EXCEPT ![c] = next]
  BY DEF Proceed
<1>4. next.at = "tree" /\ next.copy = None /\ next.project.name = p
                       /\ next.project.kind = projects'[p]
  BY DEF Blank
<1> HIDE DEF next
<1>5. TypeOK'
  BY <1>1, <1>2, <1>3 DEF Inv, TypeOK, Good, Reads
<1>6. \A d \in Callers : call'[d] # None => Good(call'[d])
  BY <1>2, <1>3 DEF Inv, TypeOK
<1>7. ASSUME ~disturbed'
      PROVE  /\ Alone' /\ AllUsable'
             /\ \A d \in Callers : call'[d] # None => InStep(call[d])'
  <2>1. ~disturbed /\ (\A d \in Callers : call[d] = None)
          /\ (projects[p] = projects'[p] \/ ~HasActive(p))
    BY <1>7 DEF Busy
  <2>2. \A d \in Callers : call'[d] # None => d = c /\ call'[d] = next
    BY <2>1, <1>3 DEF Inv, TypeOK
  <2>3. \A q \in Projects : HasActive(q) => projects'[q] = projects[q]
    BY <2>1 DEF Inv, TypeOK
  <2>4. \A v \in ActiveNames(store) : store[v].project \in Projects /\ HasActive(store[v].project)
    BY DEF Inv, TypeOK, Store, Entry, ActiveNames, Names, HasActive
  <2>5. AllUsable'
    BY <2>1, <2>3, <2>4 DEF Inv, AllUsable, ActiveNames, Names, UsableIn
  <2>6. \A d \in Callers : call'[d] # None => InStep(call[d])'
    BY <2>2, <1>4 DEF InStep, Agrees, Reads
  <2> QED
    BY <2>2, <2>5, <2>6 DEF Alone
<1> QED
  BY <1>5, <1>6, <1>7 DEF Inv, Good, Reads

LEMMA UpNextKeeps == ASSUME Inv, NEW c \in Callers, UpNext(c) PROVE Inv'
<1> DEFINE k == call[c]
<1>1. Good(k) /\ k.at = "load" /\ k.copy # None /\ k.copy \in Store
  BY DEF Inv, UpNext, Good, Call, Reads
<1>2. PICK w \in k.todo :
          IF Resolves(k.copy, w)
          THEN Proceed(c, [k EXCEPT !.at = "tree", !.ws = w, !.todo = @ \ {w},
                                    !.project = Resolve(k.copy, w)])
          ELSE IF k.todo = {w} THEN End(c)
          ELSE Proceed(c, [k EXCEPT !.todo = @ \ {w}])
  BY DEF UpNext
<1>3. w \in Workspaces
  BY <1>1 DEF Good, Reads, Call
<1>4. UNCHANGED <<store, projects, tree, tags, disturbed>> /\ call[c] # None /\ tags' \subseteq Tag
  BY DEF UpNext, Inv, TypeOK
<1>5. CASE Resolves(k.copy, w)
  <2> DEFINE next == [k EXCEPT !.at = "tree", !.ws = w, !.todo = @ \ {w},
                               !.project = Resolve(k.copy, w)]
  <2>1. /\ Resolve(k.copy, w) \in Project
        /\ projects[Resolve(k.copy, w).name] = Resolve(k.copy, w).kind
    BY <1>1, <1>3, <1>5, Resolved DEF Inv
  <2>2. Good(next)
    BY <1>1, <1>3, <2>1 DEF Good, Reads, Call
  <2>3. ~disturbed => InStep(next)
    BY <1>1, <2>1, <1>4 DEF Inv, InStep, Agrees, Good, Call, Reads
  <2>4. Proceed(c, next)
    BY <1>2, <1>5
  <2> HIDE DEF next, k
  <2> QED
    BY <1>4, <2>2, <2>3, <2>4, ProceedKeeps
<1>6. CASE ~Resolves(k.copy, w) /\ k.todo = {w}
  <2>1. Proceed(c, None)
    BY <1>2, <1>6 DEF End
  <2> QED
    BY <1>4, <2>1, ProceedKeeps
<1>7. CASE ~Resolves(k.copy, w) /\ k.todo # {w}
  <2> DEFINE next == [k EXCEPT !.todo = @ \ {w}]
  <2>1. Good(next)
    BY <1>1 DEF Good, Reads, Call
  <2>2. ~disturbed => InStep(next)
    BY <1>1, <1>4 DEF Inv, InStep, Agrees, Good, Call, Reads
  <2>3. Proceed(c, next)
    BY <1>2, <1>7
  <2> HIDE DEF next, k
  <2> QED
    BY <1>4, <2>1, <2>2, <2>3, ProceedKeeps
<1> QED
  BY <1>5, <1>6, <1>7

\* After a failure: the next one, or the end.
LEMMA SkipKeeps ==
    ASSUME Inv, NEW c \in Callers, call[c] # None, call[c].at \in {"tree", "save"}, Skip(c),
           UNCHANGED <<store, projects, tree, tags, disturbed>>
    PROVE  Inv'
<1> DEFINE next == [call[c] EXCEPT !.at = "load"]
<1>1. Good(next)
  BY DEF Inv, Good, Call, Reads
<1>2. ~disturbed => InStep(next)
  BY DEF Inv, InStep, Agrees, Good, Call, Reads
<1>3. Proceed(c, next) \/ Proceed(c, None)
  BY DEF Skip, End, GoTo
<1>4. tags' \subseteq Tag
  BY DEF Inv, TypeOK
<1> HIDE DEF next
<1> QED
  BY <1>1, <1>2, <1>3, <1>4, ProceedKeeps

LEMMA EnsureWorktreeKeeps == ASSUME Inv, NEW c \in Callers, EnsureWorktree(c) PROVE Inv'
<1> DEFINE k == call[c]
           t == <<k.project.name, k.ws>>
           after == IF k.copy = None THEN "load" ELSE IF k.manage THEN "tag" ELSE "save"
           next == [k EXCEPT !.at = after]
<1>1. Good(k) /\ k.at = "tree" /\ call[c] # None
  BY DEF Inv, EnsureWorktree
<1>2. t \in Tag /\ k.project \in Project
  BY <1>1 DEF Good, Reads, Tag, Project
<1>3. UNCHANGED <<store, projects, tags, disturbed>>
  BY DEF EnsureWorktree
<1>4. Good(next) /\ next.at = after
  BY <1>1 DEF Good, Reads, Call
<1>5. CASE GoTo(c, after) /\ tree' = [tree EXCEPT ![t] = "clean"]
  <2>1. tree' \in [Tag -> {"absent", "clean", "dirty"}] /\ tree'[t] = "clean"
          /\ \A u \in Tag : tree[u] # "absent" => tree'[u] # "absent"
    BY <1>2, <1>5 DEF Inv, TypeOK
  <2>2. \A w \in ActiveNames(store) : <<store[w].project, w>> \in Tag
    BY DEF Inv, TypeOK, Store, Entry, ActiveNames, Names, Tag
  <2>3. UsableIn(store, projects, tree) => UsableIn(store, projects, tree')
    BY <2>1, <2>2 DEF UsableIn
  <2>4. ~disturbed => Agrees(next, store, projects, tree')
    BY <1>1, <1>4, <2>1 DEF Inv, InStep, Agrees, Good, Call, Reads
  <2>5. Proceed(c, next)
    BY <1>5 DEF GoTo
  <2> HIDE DEF next, after, t, k
  <2> QED
    BY <1>1, <1>3, <1>4, <2>1, <2>3, <2>4, <2>5, StepKeeps DEF Inv, TypeOK, AllUsable
<1>6. CASE (k.project.kind = "branch" => tree[t] # "absent") /\ GoTo(c, after) /\ UNCHANGED tree
  <2>1. ~disturbed => InStep(next)
    BY <1>1, <1>4, <1>6 DEF Inv, InStep, Agrees, Good, Call, Reads
  <2>2. Proceed(c, next)
    BY <1>6 DEF GoTo
  <2> HIDE DEF next, after, t, k
  <2> QED
    BY <1>1, <1>3, <1>4, <1>6, <2>1, <2>2, ProceedKeeps DEF Inv, TypeOK
<1>7. CASE Skip(c) /\ UNCHANGED tree
  BY <1>1, <1>3, <1>7, SkipKeeps
<1> QED
  BY <1>5, <1>6, <1>7 DEF EnsureWorktree

LEMMA LoadStoreKeeps == ASSUME Inv, NEW c \in Callers, LoadStore(c) PROVE Inv'
<1> DEFINE next == [call[c] EXCEPT !.at = "tree", !.copy = store]
<1>1. call[c] # None /\ Good(call[c]) /\ Reads(call[c]) /\ tags' \subseteq Tag
  BY DEF LoadStore, Reads, Inv, TypeOK
<1>2. Good(next)
  BY <1>1 DEF Good, Reads, Call, Inv, TypeOK
<1>3. ~disturbed => InStep(next)
  BY <1>1 DEF Inv, InStep, Agrees, Good, Reads, Call
<1>4. Proceed(c, next) /\ UNCHANGED <<store, projects, tree, tags, disturbed>>
  BY DEF LoadStore
<1> HIDE DEF next
<1> QED
  BY <1>1, <1>2, <1>3, <1>4, ProceedKeeps

LEMMA CreateTagKeeps == ASSUME Inv, NEW c \in Callers, CreateTag(c) PROVE Inv'
<1> DEFINE k == call[c]
           next == [k EXCEPT !.at = "save"]
<1>1. k # None /\ k.at = "tag" /\ Good(k)
  BY DEF CreateTag, Inv
<1>2. tags' \subseteq Tag
  BY <1>1 DEF CreateTag, Inv, TypeOK, Good, Reads, Project, Tag
<1>3. Good(next)
  BY <1>1 DEF Good, Reads, Call
<1>4. ~disturbed => InStep(next)
  BY <1>1 DEF Inv, InStep, Agrees, Good, Reads, Call
<1>5. Proceed(c, next) /\ UNCHANGED <<store, projects, tree, disturbed>>
  BY DEF CreateTag, GoTo
<1> HIDE DEF next
<1> QED
  BY <1>1, <1>2, <1>3, <1>4, <1>5, ProceedKeeps

\* The workspace is active once its project, its directory and its tag are seen to.
LEMMA SaveActiveKeeps == ASSUME Inv, NEW c \in Callers, SaveActive(c) PROVE Inv'
<1> DEFINE k == call[c]
           s == [k.copy EXCEPT ![k.ws] = [project |-> k.project.name, active |-> TRUE]]
           on == [k EXCEPT !.at = "load", !.copy = s]
<1>1. k # None /\ k.at = "save" /\ Good(k) /\ UNCHANGED <<projects, tree, tags, disturbed>>
  BY DEF SaveActive, Inv
<1>2. s \in Store /\ k.ws \in Workspaces /\ s[k.ws] = [project |-> k.project.name, active |-> TRUE]
  BY <1>1 DEF Good, Reads, Store, Entry, Project
<1>3. Good(on)
  BY <1>1, <1>2, NoneAssumption DEF Good, Reads, Call
<1>4. CASE store' = s /\ (IF k.todo = {} THEN End(c) ELSE Proceed(c, on))
  <2>1. ASSUME ~disturbed PROVE UsableIn(s, projects, tree) /\ Agrees(on, s, projects, tree)
    <3>1. k.copy = store /\ UsableIn(store, projects, tree)
      BY <1>1, <2>1, NoneAssumption DEF Inv, InStep, Agrees, AllUsable, Good, Reads
    <3>2. \A w \in Workspaces : w # k.ws => s[w] = store[w]
      BY <1>2, <3>1 DEF Inv, TypeOK, Store
    <3>3. /\ projects[k.project.name] # "none"
          /\ projects[k.project.name] = "branch" => tree[<<k.project.name, k.ws>>] # "absent"
      BY <1>1, <2>1 DEF Inv, InStep, Agrees, Good, Reads, Project, Kind
    <3>4. UsableIn(s, projects, tree)
      <4>1. SUFFICES ASSUME NEW w \in ActiveNames(s)
                     PROVE  /\ projects[s[w].project] # "none"
                            /\ projects[s[w].project] = "branch"
                                  => tree[<<s[w].project, w>>] # "absent"
        BY DEF UsableIn
      <4>2. w \in Workspaces /\ s[w] # None /\ s[w].active
        BY DEF ActiveNames, Names
      <4> HIDE DEF s, k
      <4>3. CASE w = k.ws
        BY <1>2, <3>3, <4>3
      <4>4. CASE w # k.ws
        <5>1. s[w] = store[w] /\ w \in ActiveNames(store)
          BY <3>2, <4>2, <4>4 DEF ActiveNames, Names
        <5> QED
          BY <3>1, <5>1 DEF UsableIn
      <4> QED
        BY <4>3, <4>4
    <3>5. Agrees(on, s, projects, tree)
      BY <1>1, <1>2, NoneAssumption DEF Agrees, Reads, Good, Call
    <3> QED
      BY <3>4, <3>5
  <2>2. Proceed(c, None) \/ Proceed(c, on)
    BY <1>4 DEF End
  <2> HIDE DEF on, s
  <2>3. /\ store' \in Store /\ projects' \in [Projects -> Kind \cup {"none"}]
        /\ tree' \in [Tag -> {"absent", "clean", "dirty"}] /\ tags' \subseteq Tag
        /\ disturbed' \in BOOLEAN
    BY <1>1, <1>2, <1>4 DEF Inv, TypeOK
  <2>4. ~disturbed' => /\ ~disturbed /\ UsableIn(store', projects', tree')
                       /\ Agrees(on, store', projects', tree')
    BY <1>1, <1>4, <2>1
  <2>5. CASE Proceed(c, None)
    BY <1>1, <2>3, <2>4, <2>5, StepKeeps
  <2>6. CASE Proceed(c, on)
    BY <1>1, <1>3, <2>3, <2>4, <2>6, StepKeeps
  <2> QED
    BY <2>2, <2>5, <2>6
<1>5. CASE UNCHANGED store /\ Skip(c)
  BY <1>1, <1>5, SkipKeeps
<1> QED
  BY <1>4, <1>5 DEF SaveActive

-----------------------------------------------------------------------------
(* Taking down *)

LEMMA CheckDirtyKeeps == ASSUME Inv, NEW c \in Callers, CheckDirty(c) PROVE Inv'
<1> DEFINE next == [call[c] EXCEPT !.at = "down"]
<1>1. call[c] # None /\ call[c].at = "check" /\ Good(call[c])
  BY DEF CheckDirty, Inv
<1>2. Good(next)
  BY <1>1 DEF Good, Reads, Call
<1>3. ~disturbed => InStep(next)
  BY <1>1 DEF Inv, InStep, Agrees, Good, Reads, Call
<1>4. (Proceed(c, None) \/ Proceed(c, next)) /\ tags' \subseteq Tag
        /\ UNCHANGED <<store, projects, tree, disturbed>>
  BY DEF CheckDirty, GoTo, End, Inv, TypeOK
<1> HIDE DEF next
<1> QED
  BY <1>1, <1>2, <1>3, <1>4, ProceedKeeps

\* Manager::down is over with a store s: no belief is left but the copy.
LEMMA FinishKeeps ==
    ASSUME Inv, NEW c \in Callers, call[c] # None, NEW k, k \in Call, k.ws \in Workspaces,
           k.copy \in Store, Finish(c, k),
           store' \in Store, UNCHANGED <<projects, tags>>,
           tree' \in [Tag -> {"absent", "clean", "dirty"}], disturbed' \in BOOLEAN,
           ~disturbed' => ~disturbed /\ UsableIn(store', projects', tree') /\ k.copy = store'
    PROVE  Inv'
<1>1. tags' \subseteq Tag /\ projects' \in [Projects -> Kind \cup {"none"}]
  BY DEF Inv, TypeOK
<1>2. CASE k.then = "forget" /\ Proceed(c, [k EXCEPT !.at = "forget", !.project = None])
  <2> DEFINE next == [k EXCEPT !.at = "forget", !.project = None]
  <2>1. Good(next)
    BY DEF Good, Reads, Call
  <2>2. ~disturbed' => Agrees(next, store', projects', tree')
    BY DEF Agrees, Reads, Call
  <2>3. Proceed(c, next)
    BY <1>2
  <2> HIDE DEF next
  <2> QED
    BY <1>1, <2>1, <2>2, <2>3, StepKeeps
<1>3. CASE End(c)
  <2>1. Proceed(c, None)
    BY <1>3 DEF End
  <2> QED
    BY <1>1, <2>1, StepKeeps
<1>4. CASE \E w \in k.todo : Proceed(c, [k EXCEPT !.at = "down", !.ws = w, !.todo = @ \ {w},
                                                 !.project = None])
  <2>1. PICK w \in k.todo : Proceed(c, [k EXCEPT !.at = "down", !.ws = w, !.todo = @ \ {w},
                                                 !.project = None])
    BY <1>4
  <2> DEFINE next == [k EXCEPT !.at = "down", !.ws = w, !.todo = @ \ {w}, !.project = None]
  <2>2. Good(next)
    BY DEF Good, Reads, Call
  <2>3. ~disturbed' => Agrees(next, store', projects', tree')
    BY DEF Agrees, Reads, Call
  <2>4. Proceed(c, next)
    BY <2>1
  <2> HIDE DEF next
  <2> QED
    BY <1>1, <2>2, <2>3, <2>4, StepKeeps
<1> QED
  BY <1>2, <1>3, <1>4 DEF Finish

\* The entry is inactive in the file before anything goes.
LEMMA SaveInactiveKeeps == ASSUME Inv, NEW c \in Callers, SaveInactive(c) PROVE Inv'
<1> DEFINE k == call[c]
           s == Inactive(k.copy, k.ws)
           next == [k EXCEPT !.copy = s]
           known == Resolves(k.copy, k.ws)
           on == [next EXCEPT !.at = IF k.manage THEN "untag" ELSE "untree",
                              !.project = Resolve(k.copy, k.ws)]
<1>1. k # None /\ k.at = "down" /\ Good(k) /\ UNCHANGED <<projects, tree, tags>>
  BY DEF SaveInactive, Inv
<1>2. k \in Call /\ k.ws \in Workspaces /\ k.copy \in Store
  BY <1>1 DEF Good, Reads
<1>3. s \in Store /\ k.ws \notin ActiveNames(s)
        /\ \A w \in ActiveNames(s) : s[w] = k.copy[w] /\ w \in ActiveNames(k.copy)
  BY <1>2 DEF Inactive, Store, Entry, ActiveNames, Names
<1>4. /\ IF known THEN Proceed(c, on) ELSE Finish(c, next)
      /\ (store' = s /\ disturbed' = disturbed) \/ (store' = store /\ disturbed' = TRUE)
  BY DEF SaveInactive
<1>5. ~disturbed' => ~disturbed /\ store' = s /\ UsableIn(s, projects, tree)
  <2>1. SUFFICES ASSUME ~disturbed' PROVE UsableIn(s, projects, tree)
    BY <1>4
  <2>2. ~disturbed /\ AllUsable /\ InStep(k)
    BY <1>1, <1>4, <2>1 DEF Inv
  <2>3. k.copy = store
    BY <1>2, <2>2, NoneAssumption DEF InStep, Agrees
  <2> HIDE DEF s, k
  <2> QED
    BY <1>3, <2>2, <2>3 DEF AllUsable, UsableIn
<1>6. /\ store' \in Store /\ disturbed' \in BOOLEAN /\ tags' \subseteq Tag
      /\ projects' \in [Projects -> Kind \cup {"none"}]
      /\ tree' \in [Tag -> {"absent", "clean", "dirty"}]
  BY <1>1, <1>3, <1>4 DEF Inv, TypeOK
<1>7. ~disturbed' => UsableIn(store', projects', tree')
  BY <1>1, <1>5
<1>8. CASE known
  <2>1. Resolve(k.copy, k.ws) \in Project
    BY <1>2, <1>8, Resolved DEF Inv
  <2>2. Good(on)
    BY <1>2, <1>3, <2>1 DEF Good, Reads, Call
  <2>3. Agrees(on, s, projects, tree)
    BY <1>2, <1>3 DEF Agrees, Reads, Call
  <2>4. Proceed(c, on)
    BY <1>4, <1>8
  <2>5. ~disturbed' => ~disturbed /\ Agrees(on, store', projects', tree')
    BY <1>1, <1>5, <2>3
  <2> HIDE DEF on, s
  <2> QED
    BY <1>1, <1>6, <1>7, <2>2, <2>4, <2>5, StepKeeps
<1>9. CASE ~known
  <2>1. next \in Call /\ next.ws \in Workspaces /\ next.copy = s
    BY <1>2, <1>3 DEF Call
  <2>2. Finish(c, next)
    BY <1>4, <1>9
  <2>3. ~disturbed' => ~disturbed /\ next.copy = store'
    BY <1>5, <2>1
  <2> HIDE DEF next, s
  <2> QED
    BY <1>1, <1>3, <1>6, <1>7, <2>1, <2>2, <2>3, FinishKeeps
<1> QED
  BY <1>8, <1>9

LEMMA DeleteTagKeeps == ASSUME Inv, NEW c \in Callers, DeleteTag(c) PROVE Inv'
<1> DEFINE k == call[c]
           next == [k EXCEPT !.at = "untree"]
<1>1. k # None /\ k.at = "untag" /\ Good(k)
  BY DEF DeleteTag, Inv
<1>2. tags' \subseteq Tag
  BY <1>1 DEF DeleteTag, Inv, TypeOK
<1>3. Good(next)
  BY <1>1 DEF Good, Reads, Call
<1>4. ~disturbed => InStep(next)
  BY <1>1 DEF Inv, InStep, Agrees, Good, Reads, Call
<1>5. Proceed(c, next) /\ UNCHANGED <<store, projects, tree, disturbed>>
  BY DEF DeleteTag, GoTo
<1> HIDE DEF next
<1> QED
  BY <1>1, <1>2, <1>3, <1>4, <1>5, ProceedKeeps

\* The worktree that goes is one of a workspace that is not active.
LEMMA RemoveWorktreeKeeps == ASSUME Inv, NEW c \in Callers, RemoveWorktree(c) PROVE Inv'
<1> DEFINE k == call[c]
           t == <<k.project.name, k.ws>>
<1>1. k # None /\ k.at = "untree" /\ Good(k) /\ Finish(c, k)
        /\ UNCHANGED <<store, projects, tags, disturbed>>
  BY DEF RemoveWorktree, Inv
<1>2. k \in Call /\ k.ws \in Workspaces /\ k.copy \in Store /\ t \in Tag
  BY <1>1 DEF Good, Reads, Project, Tag
<1>3. tree' = [tree EXCEPT ![t] = "absent"] \/ tree' = tree
  BY DEF RemoveWorktree
<1>4. /\ tree' \in [Tag -> {"absent", "clean", "dirty"}]
      /\ \A p \in Projects, w \in Workspaces : w # k.ws => tree'[<<p, w>>] = tree[<<p, w>>]
  BY <1>2, <1>3 DEF Inv, TypeOK, Tag
<1>5. ~disturbed => UsableIn(store, projects, tree') /\ k.copy = store
  <2>1. SUFFICES ASSUME ~disturbed PROVE UsableIn(store, projects, tree') /\ k.copy = store
    OBVIOUS
  <2>2. UsableIn(store, projects, tree) /\ k.copy = store /\ k.ws \notin ActiveNames(store)
    BY <1>1, <1>2, <2>1, NoneAssumption DEF Inv, AllUsable, InStep, Agrees
  <2>3. \A w \in ActiveNames(store) : w \in Workspaces /\ store[w].project \in Projects
    BY DEF Inv, TypeOK, Store, Entry, ActiveNames, Names
  <2> HIDE DEF k, t
  <2> QED
    BY <1>4, <2>2, <2>3 DEF UsableIn
<1>6. store' \in Store /\ disturbed' \in BOOLEAN
  BY <1>1 DEF Inv, TypeOK
<1>7. ~disturbed' => ~disturbed /\ UsableIn(store', projects', tree') /\ k.copy = store'
  BY <1>1, <1>5
<1> HIDE DEF t
<1> QED
  BY <1>1, <1>2, <1>4, <1>6, <1>7, FinishKeeps

\* A workspace fewer.
LEMMA ForgetKeeps == ASSUME Inv, NEW c \in Callers, Forget(c) PROVE Inv'
<1> DEFINE k == call[c]
           s == [k.copy EXCEPT ![k.ws] = None]
<1>1. k # None /\ k.at = "forget" /\ Good(k) /\ UNCHANGED <<projects, tree, tags, disturbed>>
        /\ Proceed(c, None) /\ (store' = s \/ store' = store)
  BY DEF Forget, Inv, End
<1>2. k.ws \in Workspaces /\ k.copy \in Store
  BY <1>1 DEF Good, Reads
<1>3. s \in Store /\ \A w \in ActiveNames(s) : s[w] = k.copy[w] /\ w \in ActiveNames(k.copy)
  BY <1>2 DEF Store, ActiveNames, Names
<1>4. ~disturbed => UsableIn(store', projects, tree)
  <2>1. SUFFICES ASSUME ~disturbed PROVE UsableIn(store', projects, tree)
    OBVIOUS
  <2>2. UsableIn(store, projects, tree) /\ k.copy = store
    BY <1>1, <1>2, <2>1, NoneAssumption DEF Inv, AllUsable, InStep, Agrees
  <2> HIDE DEF s, k
  <2>3. UsableIn(s, projects, tree)
    BY <1>3, <2>2 DEF UsableIn
  <2> QED
    BY <1>1, <2>2, <2>3
<1>5. /\ store' \in Store /\ disturbed' \in BOOLEAN /\ tags' \subseteq Tag
      /\ projects' \in [Projects -> Kind \cup {"none"}]
      /\ tree' \in [Tag -> {"absent", "clean", "dirty"}]
  BY <1>1, <1>3 DEF Inv, TypeOK
<1>6. ~disturbed' => ~disturbed /\ UsableIn(store', projects', tree')
  BY <1>1, <1>4
<1> QED
  BY <1>1, <1>5, <1>6, StepKeeps

\* No active workspace is one of the project that goes.
LEMMA DeleteUnregisteredKeeps == ASSUME Inv, NEW c \in Callers, DeleteUnregistered(c) PROVE Inv'
<1> DEFINE k == call[c]
           p == k.project.name
<1>1. k # None /\ k.at = "delete" /\ Good(k) /\ UNCHANGED <<store, tree, tags, disturbed>>
        /\ Proceed(c, None) /\ projects' = [projects EXCEPT ![p] = "none"]
  BY DEF DeleteUnregistered, Inv, End
<1>2. p \in Projects
  BY <1>1 DEF Good, Reads, Project
<1>3. /\ projects' \in [Projects -> Kind \cup {"none"}]
      /\ \A q \in Projects : q # p => projects'[q] = projects[q]
  BY <1>1, <1>2 DEF Inv, TypeOK
<1>4. ~disturbed => UsableIn(store, projects', tree)
  <2>1. SUFFICES ASSUME ~disturbed PROVE UsableIn(store, projects', tree)
    OBVIOUS
  <2>2. UsableIn(store, projects, tree) /\ \A w \in ActiveNames(store) : store[w].project # p
    BY <1>1, <2>1 DEF Inv, AllUsable, InStep, Agrees
  <2>3. \A w \in ActiveNames(store) : store[w].project \in Projects
    BY DEF Inv, TypeOK, Store, Entry, ActiveNames, Names
  <2> HIDE DEF p
  <2> QED
    BY <1>3, <2>2, <2>3 DEF UsableIn
<1>5. /\ store' \in Store /\ disturbed' \in BOOLEAN /\ tags' \subseteq Tag
      /\ tree' \in [Tag -> {"absent", "clean", "dirty"}]
  BY <1>1 DEF Inv, TypeOK
<1>6. ~disturbed' => ~disturbed /\ UsableIn(store', projects', tree')
  BY <1>1, <1>4
<1> QED
  BY <1>1, <1>3, <1>5, <1>6, StepKeeps

LEMMA KilledKeeps == ASSUME Inv, NEW c \in Callers, Killed(c) PROVE Inv'
  BY ProceedKeeps DEF Killed, End, Inv, TypeOK

-----------------------------------------------------------------------------
(* What is written around the commands *)

\* A project's file is written or deleted while nobody works and none of its
\* workspaces is active, or to the same effect as before.
LEMMA ProjectKeeps ==
    ASSUME Inv, NEW p \in Projects, NEW kind \in Kind \cup {"none"},
           projects' = [projects EXCEPT ![p] = kind],
           disturbed' \in BOOLEAN,
           ~disturbed' => /\ ~disturbed
                          /\ kind = projects[p] \/ (Busy = {} /\ ~HasActive(p)),
           UNCHANGED <<store, tree, tags, call>>
    PROVE  Inv'
<1>1. TypeOK' /\ \A q \in Projects : q # p => projects'[q] = projects[q]
  BY DEF Inv, TypeOK
<1>2. ASSUME ~disturbed'
      PROVE  /\ Alone' /\ AllUsable'
             /\ \A d \in Callers : call'[d] # None => InStep(call[d])'
  <2>1. CASE kind = projects[p]
    <3>1. projects' = projects
      BY <2>1 DEF Inv, TypeOK
    <3> QED
      BY <1>2, <3>1 DEF Inv, Alone, AllUsable, InStep, Agrees, UsableIn, ActiveNames, Names, Reads
  <2>2. CASE Busy = {} /\ ~HasActive(p)
    <3>1. \A d \in Callers : call'[d] = None
      BY <2>2 DEF Busy
    <3>2. \A w \in ActiveNames(store) : store[w].project \in Projects /\ store[w].project # p
      BY <2>2 DEF Inv, TypeOK, Store, Entry, ActiveNames, Names, HasActive
    <3>3. AllUsable'
      BY <1>1, <1>2, <3>2 DEF Inv, AllUsable, UsableIn, ActiveNames, Names
    <3> QED
      BY <3>1, <3>3 DEF Alone
  <2> QED
    BY <1>2, <2>1, <2>2
<1> QED
  BY <1>1, <1>2 DEF Inv, Good, Reads

LEMMA SaveProjectKeeps ==
    ASSUME Inv, NEW p \in Projects, NEW kind \in Kind, SaveProject(p, kind) PROVE Inv'
  BY ProjectKeeps DEF SaveProject, Inv, TypeOK

LEMMA DeleteProjectKeeps ==
    ASSUME Inv, NEW p \in Projects, DeleteProject(p) PROVE Inv'
  BY ProjectKeeps DEF DeleteProject, Inv, TypeOK

\* The user's work makes no worktree absent and no worktree appear.
LEMMA WorkKeeps == ASSUME Inv, NEW t \in Tag, Edit(t) \/ Commit(t) PROVE Inv'
<1>1. /\ tree' \in [Tag -> {"absent", "clean", "dirty"}]
      /\ \A u \in Tag : tree[u] # "absent" => tree'[u] # "absent"
      /\ UNCHANGED <<store, projects, tags, call, disturbed>>
  BY DEF Inv, TypeOK, Edit, Commit
<1>2. TypeOK'
  BY <1>1 DEF Inv, TypeOK
<1>3. \A w \in ActiveNames(store) : <<store[w].project, w>> \in Tag
  BY DEF Inv, TypeOK, Store, Entry, ActiveNames, Names, Tag
<1>4. ~disturbed => AllUsable'
  BY <1>1, <1>3 DEF Inv, AllUsable, UsableIn, ActiveNames, Names
<1>5. ASSUME ~disturbed, NEW c \in Callers, call[c] # None PROVE InStep(call[c])'
  <2>1. InStep(call[c]) /\ Good(call[c])
    BY <1>5 DEF Inv
  <2>2. call[c].at \in {"tag", "save"} => <<call[c].project.name, call[c].ws>> \in Tag
    BY <2>1 DEF Good, Reads, Project, Tag
  <2> QED
    BY <1>1, <2>1, <2>2 DEF InStep, Agrees, Reads, ActiveNames, Names
<1> QED
  BY <1>1, <1>2, <1>4, <1>5 DEF Inv, Alone, Good, Reads

-----------------------------------------------------------------------------
(* The invariant *)

LEMMA NextKeeps == ASSUME Inv, Next PROVE Inv'
<1>1. CASE \E t \in Tag : Edit(t) \/ Commit(t)
  BY <1>1, WorkKeeps
<1>2. CASE \E p \in Projects :
              \/ \E kind \in Kind : SaveProject(p, kind)
              \/ RegisterProject(p) \/ CreateProject(p) \/ DeleteProject(p)
              \/ SaveForm(p) \/ DeleteListed(p)
  <2>1. PICK p \in Projects : \/ \E kind \in Kind : SaveProject(p, kind)
                              \/ DeleteProject(p)
    BY <1>2 DEF RegisterProject, CreateProject, SaveForm, DeleteListed, Kind
  <2> QED
    BY <2>1, SaveProjectKeeps, DeleteProjectKeeps
<1>3. ASSUME NEW c \in Callers, NEW w \in Workspaces, NEW manage \in BOOLEAN,
             Up(c, w, manage) \/ Pick(c, w)
      PROVE  Inv'
  BY <1>3, BringUpKeeps DEF Up, Pick
<1>4. ASSUME NEW c \in Callers, NEW w \in Workspaces, NEW manage \in BOOLEAN,
             NEW keep \in BOOLEAN,
             \/ Down(c, w, manage, keep) \/ Destroy(c, w, manage) \/ Close(c, w)
             \/ StopPicked(c, w) \/ BringDownSelected(c, w) \/ DeleteSelected(c, w)
      PROVE  Inv'
  BY <1>4, TakeDownKeeps
     DEF Down, Destroy, Close, StopPicked, BringDownSelected, DeleteSelected
<1>5. ASSUME NEW c \in Callers, NEW w \in Workspaces,
             DestroyCurrent(c, w) \/ DestroyPicked(c, w)
      PROVE  Inv'
  BY <1>5, CheckFirstKeeps DEF DestroyCurrent, DestroyPicked
<1>6. ASSUME NEW c \in Callers,
             \/ UpNext(c) \/ EnsureWorktree(c) \/ LoadStore(c) \/ CreateTag(c)
             \/ SaveActive(c)
      PROVE  Inv'
  BY <1>6, UpNextKeeps, EnsureWorktreeKeeps, LoadStoreKeeps, CreateTagKeeps, SaveActiveKeeps
<1>7. ASSUME NEW c \in Callers,
             \/ CheckDirty(c) \/ SaveInactive(c) \/ DeleteTag(c) \/ RemoveWorktree(c)
             \/ Forget(c)
      PROVE  Inv'
  BY <1>7, CheckDirtyKeeps, SaveInactiveKeeps, DeleteTagKeeps, RemoveWorktreeKeeps, ForgetKeeps
<1>8. ASSUME NEW c \in Callers,
             \/ UpAll(c)
             \/ \E manage, keep \in BOOLEAN : DownAll(c, manage, keep)
             \/ \E p \in Projects : UnregisterProject(c, p)
             \/ DeleteUnregistered(c) \/ Killed(c)
      PROVE  Inv'
  BY <1>8, AllKeep, UnregisterKeeps, DeleteUnregisteredKeeps, KilledKeeps
<1> QED
  BY <1>1, <1>2, <1>3, <1>4, <1>5, <1>6, <1>7, <1>8, CreateKeeps, CreateFormKeeps DEF Next

\* What every command does keeps what the others, if there are any, rely on.
THEOREM Invariant == Spec => []Inv
<1>1. Inv /\ UNCHANGED vars => Inv'
  BY DEF Inv, vars, TypeOK, Good, Reads, Alone, AllUsable, UsableIn, ActiveNames, Names,
         InStep, Agrees
<1> QED
  BY <1>1, InitInv, NextKeeps, PTL DEF Spec

\* state.json, the project files, the worktrees, the tags and the commands are
\* always what TypeOK says.
THEOREM TypeCorrect == Spec => []TypeOK
<1>1. Inv => TypeOK
  BY DEF Inv
<1> QED
  BY <1>1, Invariant, PTL

\* A workspace that state.json calls active can be resolved and has its
\* directory, wherever the commands stand (Manager::up, Manager::down), as
\* long as nobody interferes.
THEOREM ActiveUsable == Spec => []Usable
<1>1. Inv => Usable
  BY DEF Inv, Usable, AllUsable, UsableIn, Resolves, DirExists, Resolve, Load, ActiveNames
<1> QED
  BY <1>1, Invariant, PTL
=============================================================================
