-------------------------- MODULE WorkspaceManager --------------------------
(***************************************************************************)
(* Workspaces as the user works with them: a directory (a git worktree of  *)
(* their own, or the project's repository), a tag of the window manager    *)
(* and an entry of state.json.  Commands of the command line tool and the  *)
(* threads of the daemon's picker make and remove the three, in several    *)
(* steps, each with a Store it loaded when it began (workspace.rs Manager). *)
(* Project files are written by the tool, by requests and by hand.         *)
(*                                                                         *)
(* A load or save of state.json is one step (module StateFile); ports, tag *)
(* indices and supervised processes are those of WorkspaceStore and        *)
(* ProcSupervisor and are left out here.  No two names share a directory   *)
(* (resolve_dir writes '-' for '/').                                       *)
(* The operators named Bad... are faults, used by no action.               *)
(***************************************************************************)
CONSTANTS
    Workspaces,  \* workspace names
    Projects,    \* project names
    Callers,     \* processes of the tool, threads of the daemon, requests
    GoOn,        \* bound: whether more begins once there was a disturbance
    None

VARIABLES
    store,      \* state.json: per workspace its project and whether it is active
    projects,   \* per project its file: none, without ("plain") or with a branch
    tree,       \* per project and workspace: the worktree directory
    tags,       \* the tags of the window manager: a project and a workspace
    call,       \* per caller: the command it runs
    disturbed   \* history: something happened that the commands do not guard against

vars == <<store, projects, tree, tags, call, disturbed>>

Entry == [project: Projects, active: BOOLEAN]
Store == [Workspaces -> Entry \cup {None}]
ASSUME NoneAssumption == None \notin Store
Tag == Projects \X Workspaces
Kind == {"plain", "branch"}

Project == [name: Projects, kind: Kind]  \* what interop::load returned

\* at: what the command does next; then: how it goes on after Manager::down
\* or Manager::up; keep, manage: DownOptions.keep_worktree and manage_tag (or
\* UpOptions.create_tag).
Call == [at: {"tree", "tag", "save", "load", "check", "down",
              "untag", "untree", "forget", "delete"},
         then: {"end", "forget"},
         ws: Workspaces \cup {None},
         todo: SUBSET Workspaces,
         project: Project \cup {None},
         keep: BOOLEAN, manage: BOOLEAN,
         copy: Store \cup {None}]

TypeOK ==
    /\ store \in Store
    /\ projects \in [Projects -> Kind \cup {"none"}]
    /\ tree \in [Tag -> {"absent", "clean", "dirty"}]
    /\ tags \subseteq Tag
    /\ call \in [Callers -> Call \cup {None}]
    /\ disturbed \in BOOLEAN

Init ==
    /\ store = [w \in Workspaces |-> None]
    /\ projects = [p \in Projects |-> "none"]
    /\ tree = [t \in Tag |-> "absent"]
    /\ tags = {}
    /\ call = [c \in Callers |-> None]
    /\ disturbed = FALSE

Busy == {c \in Callers : call[c] # None}
Names(s) == {w \in Workspaces : s[w] # None}
ActiveNames(s) == {w \in Names(s) : s[w].active}
HasActive(p) == \E w \in ActiveNames(store) : store[w].project = p

Load(p) == [name |-> p, kind |-> projects[p]]

\* resolve_workspace: the entry is there and its project file can be read.
Resolves(s, w) == w \in Names(s) /\ projects[s[w].project] # "none"
Resolve(s, w) == Load(s[w].project)

Blank == [at |-> "tree", then |-> "end", ws |-> None, todo |-> {}, project |-> None,
          keep |-> TRUE, manage |-> TRUE, copy |-> None]

\* A command begins; it is overtaken if others are at work.
Begin(c, next) ==
    /\ call[c] = None /\ (disturbed => GoOn)
    /\ call' = [call EXCEPT ![c] = next]
    /\ disturbed' = (disturbed \/ Busy # {})
    /\ UNCHANGED <<store, projects, tree, tags>>

Proceed(c, next) == call' = [call EXCEPT ![c] = next]
GoTo(c, at) == Proceed(c, [call[c] EXCEPT !.at = at])
End(c) == Proceed(c, None)

(***************************************************************************)
(* Bringing up.                                                            *)
(***************************************************************************)
BringUp(c, w, manage) ==
    /\ Resolves(store, w)
    /\ Begin(c, [Blank EXCEPT !.ws = w, !.manage = manage, !.copy = store,
                              !.project = Resolve(store, w)])

\* cmd_up of one name.
Up(c, w, manage) == BringUp(c, w, manage)

\* do_pick: an inactive workspace is brought up; of the other answers,
\* switching to an active one changes no state.
Pick(c, w) ==
    /\ w \notin ActiveNames(store)
    /\ BringUp(c, w, TRUE)

\* cmd_up without a name: the active ones, one after the other.
UpAll(c) ==
    /\ ActiveNames(store) # {}
    /\ Begin(c, [Blank EXCEPT !.at = "load", !.todo = ActiveNames(store), !.copy = store])

\* The next of them; one that does not resolve is skipped.
UpNext(c) ==
    /\ call[c] # None /\ call[c].at = "load" /\ call[c].copy # None
    /\ \E w \in call[c].todo :
          IF Resolves(call[c].copy, w)
          THEN Proceed(c, [call[c] EXCEPT !.at = "tree", !.ws = w, !.todo = @ \ {w},
                                          !.project = Resolve(call[c].copy, w)])
          ELSE IF call[c].todo = {w} THEN End(c)
          ELSE Proceed(c, [call[c] EXCEPT !.todo = @ \ {w}])
    /\ UNCHANGED <<store, projects, tree, tags, disturbed>>

\* cmd_create: a name that is not taken, in a registered project.
Create(c, w, p, manage) ==
    /\ w \notin Names(store) /\ projects[p] # "none"
    /\ Begin(c, [Blank EXCEPT !.ws = w, !.manage = manage, !.project = Load(p),
                              !.copy = store])

\* do_create, with the form's answer: any name, taken or not.  A new project
\* is saved first.  The worktree is made before state.json is read.
CreateForm(c, w, p, new) ==
    /\ new \/ projects[p] # "none"
    /\ call[c] = None /\ (disturbed => GoOn)
    /\ projects' = IF new THEN [projects EXCEPT ![p] = "branch"] ELSE projects
    /\ Proceed(c, [Blank EXCEPT !.ws = w,
                                !.project = [name |-> p, kind |-> projects'[p]]])
    /\ disturbed' = (disturbed \/ Busy # {} \/ (projects[p] # projects'[p] /\ HasActive(p)))
    /\ UNCHANGED <<store, tree, tags>>

\* After a workspace that could not be brought up.
Skip(c) == IF call[c].todo = {} THEN End(c) ELSE GoTo(c, "load")

\* ensure_worktree fails only where there is none yet: no repository, or git
\* does not make it.
EnsureWorktree(c) ==
    /\ call[c] # None /\ call[c].at = "tree"
    /\ LET k == call[c]  t == <<k.project.name, k.ws>>
           after == IF k.copy = None THEN "load" ELSE IF k.manage THEN "tag" ELSE "save"
       IN  \/ /\ k.project.kind = "branch" => tree[t] # "absent"
              /\ GoTo(c, after) /\ UNCHANGED tree
           \/ /\ k.project.kind = "branch" /\ tree[t] = "absent"
              /\ \/ GoTo(c, after) /\ tree' = [tree EXCEPT ![t] = "clean"]
                 \/ Skip(c) /\ UNCHANGED tree
    /\ UNCHANGED <<store, projects, tags, disturbed>>

\* do_create reads state.json and calls up, which begins with ensure_worktree.
LoadStore(c) ==
    /\ call[c] # None /\ call[c].at = "load" /\ call[c].copy = None
    /\ Proceed(c, [call[c] EXCEPT !.at = "tree", !.copy = store])
    /\ UNCHANGED <<store, projects, tree, tags, disturbed>>

\* create_tag, which takes a tag of that name as it is, and switch_tag; up goes
\* on without a tag, too.
CreateTag(c) ==
    /\ call[c] # None /\ call[c].at = "tag"
    /\ \/ tags' = tags \cup {<<call[c].project.name, call[c].ws>>}
       \/ UNCHANGED tags
    /\ GoTo(c, "save")
    /\ UNCHANGED <<store, projects, tree, disturbed>>

\* set_active, and save the whole of the Store.
SaveActive(c) ==
    /\ call[c] # None /\ call[c].at = "save"
    /\ LET k == call[c]
           s == [k.copy EXCEPT ![k.ws] = [project |-> k.project.name, active |-> TRUE]]
       IN  \/ /\ store' = s
              /\ IF k.todo = {} THEN End(c) ELSE Proceed(c, [k EXCEPT !.at = "load", !.copy = s])
           \/ UNCHANGED store /\ Skip(c)
    /\ UNCHANGED <<projects, tree, tags, disturbed>>

(***************************************************************************)
(* Taking down.                                                            *)
(***************************************************************************)
TakeDown(c, w, manage, keep, then) ==
    Begin(c, [Blank EXCEPT !.at = "down", !.ws = w, !.manage = manage, !.keep = keep,
                           !.then = then, !.copy = store])

\* cmd_down of one name, registered or not.
Down(c, w, manage, keep) == TakeDown(c, w, manage, keep, "end")

\* cmd_down without a name.
DownAll(c, manage, keep) ==
    \E w \in Names(store) :
        Begin(c, [Blank EXCEPT !.at = "down", !.ws = w, !.todo = Names(store) \ {w},
                               !.manage = manage, !.keep = keep, !.copy = store])

\* cmd_destroy does not look whether the worktree is clean.
Destroy(c, w, manage) == TakeDown(c, w, manage, FALSE, "forget")

\* The workspace that the current tag, any of them, is named after.
Current(w) == \E p \in Projects : <<p, w>> \in tags

\* cmd_close: the previous tag is shown, the worktree stays.
Close(c, w) == Current(w) /\ TakeDown(c, w, TRUE, TRUE, "end")

\* do_stop_workspace: the same, for an entry that the picker shows.
StopPicked(c, w) == w \in Names(store) /\ TakeDown(c, w, TRUE, TRUE, "end")

\* The cleanup window: the names it had when it was opened, one after the
\* other, each with a Store of its own (bring_down_selected, delete_selected).
\* It does not look whether a worktree is clean, either.
BringDownSelected(c, w) == TakeDown(c, w, TRUE, TRUE, "end")
DeleteSelected(c, w) == TakeDown(c, w, TRUE, FALSE, "forget")

CheckFirst(c, w) ==
    Begin(c, [Blank EXCEPT !.at = "check", !.ws = w, !.keep = FALSE, !.then = "forget",
                           !.copy = store])

\* cmd_destroy_current and do_destroy_workspace.
DestroyCurrent(c, w) == Current(w) /\ CheckFirst(c, w)
DestroyPicked(c, w) == w \in Names(store) /\ CheckFirst(c, w)

\* is_dirty; an answer that it cannot give does not hold the command up.  What
\* git reports of a plain project is the state of its repository.
CheckDirty(c) ==
    /\ call[c] # None /\ call[c].at = "check"
    /\ LET k == call[c]
           known == Resolves(k.copy, k.ws)
           p == Resolve(k.copy, k.ws)
           t == <<p.name, k.ws>>
       IN  IF ~known THEN GoTo(c, "down")
           ELSE IF p.kind = "branch"
           THEN IF tree[t] = "dirty" THEN End(c) ELSE GoTo(c, "down")
           ELSE End(c) \/ GoTo(c, "down")
    /\ UNCHANGED <<store, projects, tree, tags, disturbed>>

\* Manager::down of this workspace is over: destroy's second half, the next
\* name, or nothing.
Finish(c, k) ==
    \/ k.then = "forget" /\ Proceed(c, [k EXCEPT !.at = "forget", !.project = None])
    \/ k.then = "end" /\ k.todo = {} /\ End(c)
    \/ \E w \in k.todo : Proceed(c, [k EXCEPT !.at = "down", !.ws = w, !.todo = @ \ {w},
                                              !.project = None])

\* set_inactive
Inactive(s, w) == IF s[w] = None THEN s ELSE [s EXCEPT ![w].active = FALSE]

\* restore_previous_tag, which changes only what is shown, and Manager::down.
\* The entry is inactive in the file before anything is removed; down goes on
\* even if that save fails.
SaveInactive(c) ==
    /\ call[c] # None /\ call[c].at = "down"
    /\ LET k == call[c]
           known == Resolves(k.copy, k.ws)
           s == Inactive(k.copy, k.ws)
           next == [k EXCEPT !.copy = s]
       IN  /\ IF known
              THEN Proceed(c, [next EXCEPT !.at = IF k.manage THEN "untag" ELSE "untree",
                                           !.project = Resolve(k.copy, k.ws)])
              ELSE Finish(c, next)
           /\ \/ store' = s /\ UNCHANGED disturbed
              \/ UNCHANGED store /\ disturbed' = TRUE
    /\ UNCHANGED <<projects, tree, tags>>

\* kill_tag_clients, 300 ms, delete_tag.  The tag stays while a window does not
\* close.
DeleteTag(c) ==
    /\ call[c] # None /\ call[c].at = "untag"
    /\ \/ tags' = tags \ {<<call[c].project.name, call[c].ws>>}
       \/ UNCHANGED tags
    /\ GoTo(c, "untree")
    /\ UNCHANGED <<store, projects, tree, disturbed>>

\* What git worktree remove, without --force, may remove.
Removable(state) == state = "clean"

\* remove_worktree, unless it is kept; it may fail.
RemoveWorktree(c) ==
    /\ call[c] # None /\ call[c].at = "untree"
    /\ LET k == call[c]  t == <<k.project.name, k.ws>>
       IN  \/ /\ ~k.keep /\ k.project.kind = "branch" /\ Removable(tree[t])
              /\ tree' = [tree EXCEPT ![t] = "absent"]
           \/ UNCHANGED tree
    /\ Finish(c, call[c])
    /\ UNCHANGED <<store, projects, tags, disturbed>>

\* Manager::destroy: the entry goes whatever down reported.
Forget(c) ==
    /\ call[c] # None /\ call[c].at = "forget"
    /\ \/ store' = [call[c].copy EXCEPT ![call[c].ws] = None]
       \/ UNCHANGED store
    /\ End(c)
    /\ UNCHANGED <<projects, tree, tags, disturbed>>

(***************************************************************************)
(* Project files, worktrees, and the end of a process.                     *)
(***************************************************************************)
\* interop::save: an editor or the projects window writes what it likes.
SaveProject(p, kind) ==
    /\ disturbed => GoOn
    /\ projects' = [projects EXCEPT ![p] = kind]
    /\ disturbed' = (disturbed \/ (kind # projects[p] /\ (Busy # {} \/ HasActive(p))))
    /\ UNCHANGED <<store, tree, tags, call>>

\* register_project of gRPC (and project/register of MCP) replaces a file that
\* is there, cmd_project create does not; Project::new has a branch.
RegisterProject(p) == SaveProject(p, "branch")
CreateProject(p) == projects[p] = "none" /\ SaveProject(p, "branch")

\* interop::delete, which cmd_project delete and project/unregister of MCP call
\* without asking anybody.
DeleteProject(p) ==
    /\ projects[p] # "none" /\ (disturbed => GoOn)
    /\ projects' = [projects EXCEPT ![p] = "none"]
    /\ disturbed' = (disturbed \/ Busy # {} \/ HasActive(p))
    /\ UNCHANGED <<store, tree, tags, call>>

\* The projects window, which shows the projects there were when it was opened:
\* save_form writes over, or anew, whatever has become of the file, always with
\* a branch; delete_project asks nobody.
SaveForm(p) == SaveProject(p, "branch")
DeleteListed(p) == DeleteProject(p)

\* Fault: one inactive workspace is enough.
BadUnregistrable(p) == \E w \in Names(store) : store[w].project = p /\ ~store[w].active
\* unregister_project of gRPC refuses a project with active workspaces ...
Unregistrable(p) == ~HasActive(p)

UnregisterProject(c, p) ==
    /\ Unregistrable(p)
    /\ projects[p] # "none"
    /\ Begin(c, [Blank EXCEPT !.at = "delete", !.project = Load(p)])

\* ... and deletes the file afterwards.
DeleteUnregistered(c) ==
    /\ call[c] # None /\ call[c].at = "delete"
    /\ projects' = [projects EXCEPT ![call[c].project.name] = "none"]
    /\ End(c)
    /\ UNCHANGED <<store, tree, tags, disturbed>>

\* The user edits files, and commits.
Edit(t) ==
    /\ tree[t] = "clean"
    /\ tree' = [tree EXCEPT ![t] = "dirty"]
    /\ UNCHANGED <<store, projects, tags, call, disturbed>>

Commit(t) ==
    /\ tree[t] = "dirty"
    /\ tree' = [tree EXCEPT ![t] = "clean"]
    /\ UNCHANGED <<store, projects, tags, call, disturbed>>

\* The command is interrupted, or the daemon is stopped.
Killed(c) ==
    /\ call[c] # None
    /\ End(c)
    /\ UNCHANGED <<store, projects, tree, tags, disturbed>>

Next ==
    \/ \E c \in Callers :
          \/ \E w \in Workspaces :
                \/ \E manage \in BOOLEAN : \/ Up(c, w, manage)
                                           \/ \E keep \in BOOLEAN : Down(c, w, manage, keep)
                                           \/ Destroy(c, w, manage)
                                           \/ \E p \in Projects : Create(c, w, p, manage)
                \/ \E p \in Projects, new \in BOOLEAN : CreateForm(c, w, p, new)
                \/ Pick(c, w) \/ Close(c, w) \/ StopPicked(c, w)
                \/ DestroyCurrent(c, w) \/ DestroyPicked(c, w)
                \/ BringDownSelected(c, w) \/ DeleteSelected(c, w)
          \/ UpAll(c) \/ UpNext(c) \/ EnsureWorktree(c) \/ LoadStore(c)
          \/ CreateTag(c) \/ SaveActive(c)
          \/ \E manage, keep \in BOOLEAN : DownAll(c, manage, keep)
          \/ CheckDirty(c) \/ SaveInactive(c)
          \/ DeleteTag(c) \/ RemoveWorktree(c) \/ Forget(c)
          \/ \E p \in Projects : UnregisterProject(c, p)
          \/ DeleteUnregistered(c)
          \/ Killed(c)
    \/ \E t \in Tag : Edit(t) \/ Commit(t)
    \/ \E p \in Projects :
          \/ \E kind \in Kind : SaveProject(p, kind)
          \/ RegisterProject(p) \/ CreateProject(p) \/ DeleteProject(p)
          \/ SaveForm(p) \/ DeleteListed(p)

Spec == Init /\ [][Next]_vars

(***************************************************************************)
(* Properties.                                                             *)
(***************************************************************************)
\* The directory that resolve_workspace gives.
DirExists(s, w) == Resolve(s, w).kind = "branch" => tree[<<s[w].project, w>>] # "absent"

\* A workspace that state.json calls active can be resolved and its directory
\* is there, at every step of every command and wherever one is interrupted:
\* up says so last and down first.  Until commands overlap, a project's file
\* is deleted or changed under an active workspace, or down cannot save.
Usable == ~disturbed => \A w \in ActiveNames(store) : Resolves(store, w) /\ DirExists(store, w)
=============================================================================
