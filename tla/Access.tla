------------------------------- MODULE Access -------------------------------
(* Tokens and what they let their holders see: the token functions of        *)
(* auth.rs, the token and agent handlers of the three protocols (gRPC, the   *)
(* HTTP bridge in front of it, MCP), discovery, and the A2A proxy.            *)
(*                                                                            *)
(* A bearer is a token record as it was encoded and signed; decoding gives it *)
(* back as it was, whatever the token store says by then.  Agents are named   *)
(* by their ids.  The rows of a workspace are in the order they were added;   *)
(* the workspaces are in a HashMap, whose order differs from load to load.    *)
EXTENDS Naturals, FiniteSets, Sequences, SequencesExt

CONSTANTS
    Projects,      \* names of projects
    Workspaces,    \* names of workspaces
    ProjectOf,     \* the project of each workspace
    TokenIds,      \* ids of tokens
    AdminId,       \* the id of the token of localhost callers
    Agents,        \* ids of agents
    Names,         \* names of agents
    MaxTime,       \* the last instant
    Scopes,        \* the scopes that requests name
    Permissions,   \* the permissions that requests name
    Expiries,      \* the expiries that requests ask for
    Reports,       \* the statuses that agents' tasks report
    None           \* no value

ASSUME ProjectsAssumption ==
    IsFiniteSet(Workspaces) /\ ProjectOf \in [Workspaces -> Projects]
ASSUME TimeAssumption == MaxTime \in Nat
ASSUME NoneAssumption ==
    /\ None \notin Nat
    /\ None \notin TokenIds
    /\ AdminId \notin TokenIds

\* A scope is "*", or a list of projects.
Global == [global |-> TRUE, projects |-> {}]
Only(ps) == [global |-> FALSE, projects |-> ps]
TokenScope == {Global} \cup {Only(ps) : ps \in SUBSET Projects}
Expiry == (0 .. MaxTime) \cup {None}


VARIABLES
    now,        \* the clock
    tokens,     \* the TOKEN_STORE of the daemon
    bearers,    \* the bearers that have been handed out
    derived,    \* history: who was made by whom, at first hand or at any other
    held,       \* which workspaces the store has, and which of them are active
    rows,       \* the agent rows of each workspace
    env         \* ARP_TOKEN in the environment of each agent

tokenVars == <<tokens, bearers, derived>>
vars == <<now, tokens, bearers, derived, held, rows, env>>

-----------------------------------------------------------------------------
(* Tokens.                                                                    *)

Permission == 0 .. 2
Session == 0
Project == 1
Admin == 2

ASSUME RequestsAssumption ==
    Scopes \subseteq TokenScope /\ Permissions \subseteq Permission /\ Expiries \subseteq Expiry

SessionIds == TokenIds \cup {None}

ScopedToken ==
    [id : TokenIds \cup {AdminId}, scope : TokenScope, permission : Permission,
     session : SessionIds, expires : Expiry, parent : TokenIds \cup {AdminId, None}]

LocalhostAdmin ==
    [id |-> AdminId, scope |-> Global, permission |-> Admin,
     session |-> None, expires |-> None, parent |-> None]

ScopeIncludes(scope, p) == scope.global \/ p \in scope.projects

\* A fault: a global scope lists no projects, so none that is too many.
BadScopeIsSubset(child, parent) == parent.global \/ child.projects \subseteq parent.projects

ScopeIsSubset(child, parent) ==
    \/ parent.global
    \/ ~child.global /\ child.projects \subseteq parent.projects

Expired(t) == t.expires # None /\ t.expires < now

\* The caller of a request: who sends no bearer, or one that does not
\* validate, is taken for a localhost caller.
Caller(b) == IF b = None \/ Expired(b) THEN LocalhostAdmin ELSE b

\* Ids are uuids, and so are sessions; the model names a new session by the
\* token that it was made for.
Fresh(id) == \A b \in bearers : b.id # id

\* A fault: the child is entered as one of its grandparent.
BadLineage(parent, id, scope, permission) ==
    [id |-> id, scope |-> scope, permission |-> permission,
     session |-> parent.session, expires |-> parent.expires, parent |-> parent.parent]

Child(parent, id, scope, permission) ==
    [id |-> id, scope |-> scope, permission |-> permission,
     session |-> parent.session, expires |-> parent.expires, parent |-> parent.id]

Narrows(parent, scope, permission) ==
    /\ permission <= parent.permission
    /\ ScopeIsSubset(scope, parent.scope)

\* The token gets a session of its own unless it has inherited one.
EnsureSession(t) == IF t.session = None THEN [t EXCEPT !.session = t.id] ELSE t

-----------------------------------------------------------------------------
(* Agents, and who is found by what.                                          *)

Status == {"starting", "ready", "busy", "error", "stopping", "stopped"}

\* An agent that was begun with its workspace has no token and no session.
Row == [id : Agents, name : Names, status : Status,
        token : TokenIds \cup {None}, session : SessionIds, spawnedBy : TokenIds \cup {AdminId}]

ASSUME RowsAssumption == None \notin [ws : Workspaces, row : Row]

Active(w) == held[w] = "active"
AllRows == UNION {{[ws |-> w, row |-> rows[w][i]] : i \in DOMAIN rows[w]} : w \in Workspaces}
Ids == {e.row.id : e \in AllRows}
Serving(r) == r.status \in {"ready", "busy"}
Ending(r) == r.status \in {"stopped", "stopping"}

\* A fault: two that have no session are taken to be in the same.
BadSessionMatches(t, r) == t.permission # Session \/ t.session = r.session

SessionMatches(t, r) == t.permission # Session \/ (t.session # None /\ t.session = r.session)
MaySee(t, e) == ScopeIncludes(t.scope, ProjectOf[e.ws]) /\ SessionMatches(t, e.row)

\* The workspaces in the order of one load; the rows of each are in theirs.
Orders == {o \in [1 .. Cardinality(Workspaces) -> Workspaces] :
              \A w \in Workspaces : \E k \in DOMAIN o : o[k] = w}
Place(o, e) == CHOOSE k \in DOMAIN o : o[k] = e.ws
Position(e) == CHOOSE i \in DOMAIN rows[e.ws] : rows[e.ws][i] = e.row

NotAfter(o, e, f) ==
    \/ Place(o, e) < Place(o, f)
    \/ Place(o, e) = Place(o, f) /\ Position(e) <= Position(f)

First(o, es) == CHOOSE e \in es : \A f \in es : NotAfter(o, e, f)

\* The first match, unless a later one is ready: then the first that is.
Preferred(o, es) ==
    LET ready == {e \in es : e.row.status = "ready"}
    IN  IF es = {} THEN None ELSE First(o, IF ready = {} THEN es ELSE ready)

FindAgent(a) == {e \in AllRows : e.row.id = a}

Named(n) == {e \in AllRows : e.row.name = n /\ ~Ending(e.row)}
FindByName(o, n) == Preferred(o, Named(n))
FindByWsName(o, w, n) == Preferred(o, {e \in Named(n) : e.ws = w})

\* An identifier is an id, "workspace/name" or a name.
Identifier == [kind : {"id"}, id : Agents] \cup [kind : {"path"}, ws : Workspaces, name : Names]
                \cup [kind : {"name"}, name : Names]

ResolveFlexible(o, i) ==
    CASE i.kind = "id" -> IF \E e \in FindAgent(i.id) : ~Ending(e.row)
                          THEN CHOOSE e \in FindAgent(i.id) : ~Ending(e.row)
                          ELSE None
      [] i.kind = "path" -> FindByWsName(o, i.ws, i.name)
      [] i.kind = "name" -> FindByName(o, i.name)

-----------------------------------------------------------------------------
(* What the reading handlers answer.                                          *)

\* The agents a caller may list, by gRPC, the HTTP bridge and MCP.
Listed(t) == {e \in AllRows : MaySee(t, e)}
HttpListed == Listed(LocalhostAdmin)
McpListed == Listed(LocalhostAdmin)

\* The agents a caller discovers, by gRPC, the HTTP bridge and MCP.
Discovered(t) == {e \in Listed(t) : Active(e.ws) /\ Serving(e.row)}
HttpDiscovered == Discovered(LocalhostAdmin)
McpDiscovered == Discovered(LocalhostAdmin)

\* The proxy has a list of its own, and a search that may ask for a status.
ProxyListed(t) == {e \in AllRows : Active(e.ws) /\ Serving(e.row) /\ MaySee(t, e)}
ProxyDiscovered(t, asked) ==
    {e \in AllRows : /\ Active(e.ws)
                     /\ IF asked = None THEN Serving(e.row) ELSE e.row.status = asked
                     /\ MaySee(t, e)}

\* The workspaces a caller may list or get.
Exists(w) == held[w] # "absent"
ListedWorkspaces(t) == {w \in Workspaces : Exists(w) /\ ScopeIncludes(t.scope, ProjectOf[w])}
HttpListedWorkspaces == ListedWorkspaces(LocalhostAdmin)

\* The MCP tools hide a workspace from a session that has no agent in it.
McpListedWorkspaces ==
    {w \in ListedWorkspaces(LocalhostAdmin) :
        LocalhostAdmin.permission # Session \/ \E i \in DOMAIN rows[w] : SessionMatches(LocalhostAdmin, rows[w][i])}
McpHasWorkspace(w) == w \in McpListedWorkspaces

\* The resources of the MCP server: a workspace, an agent.
Resources == {<<"workspace", w>> : w \in {v \in Workspaces : Exists(v)}} \cup {<<"agent", a>> : a \in Ids}
ReadsResource(kind, x) == IF kind = "workspace" THEN Exists(x) ELSE FindAgent(x) # {}

\* One agent, by its id: gRPC, the HTTP bridge, and every MCP tool.
StatusOf(t, a) == FindAgent(a) \cap Listed(t)
HttpStatusOf(a) == StatusOf(LocalhostAdmin, a)
McpResolved(a) == {e \in FindAgent(a) : MaySee(LocalhostAdmin, e)}

\* A fault: the session is not looked at.
BadProxied(o, t, i) ==
    LET e == ResolveFlexible(o, i)
    IN  IF e # None /\ ScopeIncludes(t.scope, ProjectOf[e.ws]) THEN e ELSE None

\* The proxy: a request for one agent.
Proxied(o, t, i) ==
    LET e == ResolveFlexible(o, i)
    IN  IF e # None /\ MaySee(t, e) THEN e ELSE None

\* gRPC: a message, a task, and the state of a task.
Messaged(o, t, i) ==
    LET e == Proxied(o, t, i)
    IN  IF e # None /\ Serving(e.row) THEN e ELSE None
TaskGiven(o, t, i) == Messaged(o, t, i)
TaskAsked(o, t, i) == Proxied(o, t, i)

\* The same by the HTTP bridge.
HttpMessaged(o, i) == Messaged(o, LocalhostAdmin, i)
HttpTaskGiven(o, i) == TaskGiven(o, LocalhostAdmin, i)
HttpTaskAsked(o, i) == TaskAsked(o, LocalhostAdmin, i)

\* The MCP tools send to an agent whatever its status.
McpMessaged(a) == McpResolved(a)
McpTaskGiven(a) == McpResolved(a)
McpTaskAsked(a) == McpResolved(a)

\* The proxy: a message for any agent that serves.
Routed(o) == Preferred(o, {e \in AllRows : Active(e.ws) /\ Serving(e.row)})

-----------------------------------------------------------------------------
Init ==
    /\ now = 0
    /\ tokens = {}
    /\ bearers = {}
    /\ derived = {}
    /\ held = [w \in Workspaces |-> "active"]
    /\ rows = [w \in Workspaces |-> <<>>]
    /\ env = [a \in Agents |-> None]

\* The bearer that a token is made with, and those that one derives from.
Origins(maker) == {b \in bearers : b = maker \/ <<maker, b>> \in derived}

Issue(t, maker) ==
    /\ tokens' = tokens \cup {t}
    /\ bearers' = bearers \cup {t}
    /\ derived' = derived \cup {<<t, b>> : b \in Origins(maker)}

\* create_token: the new token is no child of the caller's, but must not
\* exceed it.  An empty list of projects stands for the caller's scope.
CreateTokenFor(caller, id, scope, permission, expires) ==
    /\ Fresh(id)
    /\ caller.permission >= Admin
    /\ LET granted == IF scope = Only({}) THEN caller.scope ELSE scope
       IN  /\ Narrows(caller, granted, permission)
           /\ Issue([id |-> id, scope |-> granted, permission |-> permission,
                     session |-> None, expires |-> expires, parent |-> None], caller)
    /\ UNCHANGED <<now, held, rows, env>>

CreateToken(b, id, scope, permission, expires) ==
    CreateTokenFor(Caller(b), id, scope, permission, expires)

HttpCreateToken(id, scope, permission, expires) ==
    CreateTokenFor(LocalhostAdmin, id, scope, permission, expires)

\* The MCP tool takes the scope as it is given.
McpTokenCreate(id, scope, permission, expires) ==
    /\ Fresh(id)
    /\ Issue([id |-> id, scope |-> scope, permission |-> permission,
              session |-> None, expires |-> expires, parent |-> None], LocalhostAdmin)
    /\ UNCHANGED <<now, held, rows, env>>

\* The row, the environment and the token of a new agent.
Launch(w, a, n, t, caller) ==
    /\ Issue(t, caller)
    /\ rows' = [rows EXCEPT ![w] = Append(@,
                  [id |-> a, name |-> n, status |-> "starting",
                   token |-> t.id, session |-> t.session, spawnedBy |-> caller.id])]
    /\ env' = [env EXCEPT ![a] = t]
    /\ UNCHANGED <<now, held>>

\* spawn_agent: the agent gets a child of the caller's token, of the caller's
\* scope and permission, and with a session.
SpawnFor(caller, id, w, a, n) ==
    /\ Fresh(id) /\ a \notin Ids
    /\ Exists(w)
    /\ ScopeIncludes(caller.scope, ProjectOf[w])
    /\ Launch(w, a, n, EnsureSession(Child(caller, id, caller.scope, caller.permission)), caller)

SpawnAgent(b, id, w, a, n) == SpawnFor(Caller(b), id, w, a, n)
HttpSpawnAgent(id, w, a, n) == SpawnFor(LocalhostAdmin, id, w, a, n)

\* The MCP tool takes a scope and a permission; its caller gets a session first.
McpAgentSpawn(id, w, a, n, scope, permission) ==
    /\ Fresh(id) /\ a \notin Ids
    /\ Active(w)
    /\ Narrows(LocalhostAdmin, scope, permission)
    /\ Launch(w, a, n, Child([LocalhostAdmin EXCEPT !.session = id], id, scope, permission), LocalhostAdmin)

\* create_workspace with an auto_agent, in a new workspace or one that there is:
\* the agent is given no token.  A request that names several does what several
\* requests do that name one each; one that names none is SetActive.
CreateWorkspaceFor(caller, w, a, n) ==
    /\ a \notin Ids
    /\ caller.permission >= Project
    /\ ScopeIncludes(caller.scope, ProjectOf[w])
    /\ held' = [held EXCEPT ![w] = "active"]
    /\ rows' = [rows EXCEPT ![w] = Append(@,
                  [id |-> a, name |-> n, status |-> "starting",
                   token |-> None, session |-> None, spawnedBy |-> caller.id])]
    /\ env' = [env EXCEPT ![a] = None]
    /\ UNCHANGED <<now, tokenVars>>

CreateWorkspace(b, w, a, n) == CreateWorkspaceFor(Caller(b), w, a, n)
HttpCreateWorkspace(w, a, n) == CreateWorkspaceFor(LocalhostAdmin, w, a, n)

\* The new agent gets the identity of the old one, and its token if the store
\* still has it.
Replace(e, new, old) ==
    /\ new \notin Ids
    /\ rows' = [rows EXCEPT ![e.ws] =
                  Append(RemoveAt(@, Position(e)), [e.row EXCEPT !.id = new, !.status = "starting"])]
    /\ env' = [env EXCEPT ![e.row.id] = None, ![new] = old]
    /\ UNCHANGED <<now, held, tokenVars>>

\* A fault: some token of the store, not the agent's own.
BadStoredToken(id) == IF tokens = {} THEN None ELSE CHOOSE t \in tokens : Cardinality(tokens) > 1 => t.id # id

StoredToken(id) == IF \E t \in tokens : t.id = id THEN CHOOSE t \in tokens : t.id = id ELSE None

RestartAgent(b, a, new) ==
    \E e \in StatusOf(Caller(b), a) : Replace(e, new, StoredToken(e.row.token))
HttpRestartAgent(a, new) ==
    \E e \in HttpStatusOf(a) : Replace(e, new, StoredToken(e.row.token))

\* The MCP tool starts the agent with an empty environment.
McpAgentRestart(a, new) == \E e \in McpResolved(a) : Replace(e, new, None)

SetStatus(a, s) ==
    rows' = [w \in Workspaces |-> [i \in DOMAIN rows[w] |->
                IF rows[w][i].id = a THEN [rows[w][i] EXCEPT !.status = s] ELSE rows[w][i]]]

StopFor(caller, a) ==
    /\ StatusOf(caller, a) # {}
    /\ SetStatus(a, "stopping")
    /\ UNCHANGED <<now, tokenVars, held, env>>

StopAgent(b, a) == StopFor(Caller(b), a)
HttpStopAgent(a) == StopFor(LocalhostAdmin, a)

\* The supervisor's task reports.
Reported == {"ready", "error", "stopping", "stopped"} \cap Reports
StatusReported(a, s) ==
    /\ a \in Ids
    /\ SetStatus(a, s)
    /\ env' = IF s \in {"stopped", "error"} THEN [env EXCEPT ![a] = None] ELSE env
    /\ UNCHANGED <<now, tokenVars, held>>

\* A workspace is taken down (its rows stay), brought up, or destroyed.
SetInactive(w) ==
    /\ Active(w)
    /\ held' = [held EXCEPT ![w] = "inactive"]
    /\ UNCHANGED <<now, tokenVars, rows, env>>

SetActive(w) ==
    /\ ~Active(w)
    /\ held' = [held EXCEPT ![w] = "active"]
    /\ UNCHANGED <<now, tokenVars, rows, env>>

DestroyFor(caller, w) ==
    /\ caller.permission >= Project
    /\ Exists(w)
    /\ ScopeIncludes(caller.scope, ProjectOf[w])
    /\ rows' = [rows EXCEPT ![w] = <<>>]
    /\ held' = [held EXCEPT ![w] = "absent"]
    /\ env' = [a \in Agents |-> IF \E i \in DOMAIN rows[w] : rows[w][i].id = a THEN None ELSE env[a]]
    /\ UNCHANGED <<now, tokenVars>>

DestroyWorkspace(b, w) == DestroyFor(Caller(b), w)
HttpDestroyWorkspace(w) == DestroyFor(LocalhostAdmin, w)

\* The token store is in memory; the secret, and so the bearers, outlive it.
DaemonRestart ==
    /\ tokens' = {}
    /\ UNCHANGED <<now, bearers, derived, held, rows, env>>

Tick ==
    /\ now < MaxTime
    /\ now' = now + 1
    /\ UNCHANGED <<tokenVars, held, rows, env>>

Holders == bearers \cup {None}

Next ==
    \/ \E id \in TokenIds, s \in Scopes, p \in Permissions, x \in Expiries :
          \/ \E b \in Holders : CreateToken(b, id, s, p, x)
          \/ HttpCreateToken(id, s, p, x)
          \/ McpTokenCreate(id, s, p, x)
    \/ \E id \in TokenIds, w \in Workspaces, a \in Agents, n \in Names :
          \/ \E b \in Holders : SpawnAgent(b, id, w, a, n)
          \/ HttpSpawnAgent(id, w, a, n)
          \/ \E s \in Scopes \cup {Global}, p \in Permissions : McpAgentSpawn(id, w, a, n, s, p)
    \/ \E w \in Workspaces, a \in Agents, n \in Names :
          \/ \E b \in Holders : CreateWorkspace(b, w, a, n)
          \/ HttpCreateWorkspace(w, a, n)
    \/ \E a, new \in Agents :
          \/ \E b \in Holders : RestartAgent(b, a, new)
          \/ HttpRestartAgent(a, new)
          \/ McpAgentRestart(a, new)
    \/ \E a \in Agents :
          \/ \E b \in Holders : StopAgent(b, a)
          \/ HttpStopAgent(a)
          \/ \E s \in Reported : StatusReported(a, s)
    \/ \E w \in Workspaces :
          \/ SetInactive(w) \/ SetActive(w) \/ HttpDestroyWorkspace(w)
          \/ \E b \in Holders : DestroyWorkspace(b, w)
    \/ DaemonRestart
    \/ Tick

Spec == Init /\ [][Next]_vars

-----------------------------------------------------------------------------
TypeOK ==
    /\ now \in 0 .. MaxTime
    /\ tokens \subseteq ScopedToken
    /\ bearers \subseteq ScopedToken
    /\ derived \subseteq bearers \X bearers
    /\ held \in [Workspaces -> {"absent", "inactive", "active"}]
    /\ rows \in [Workspaces -> Seq(Row)]
    /\ env \in [Agents -> ScopedToken \cup {None}]

\* What t allows, b allows too.
Within(t, b) ==
    /\ t.permission <= b.permission
    /\ \A p \in Projects : ScopeIncludes(t.scope, p) => ScopeIncludes(b.scope, p)

\* However long the chain of tokens that were made with one another, by
\* create_token and by spawn, each is within all it derives from, in permission
\* and in scope ("the permission chain is monotonically decreasing",
\* arp-spec/identity-and-scopes.md:332).  A chain ends with a bearer that expires:
\* its holder is then a localhost caller.
NoneWidened == \A d \in derived : Within(d[1], d[2])

\* A session is one tree of tokens: who is in a session that is not of its own
\* making has it from its parent (ensure_session, create_child_token).
SessionsAreTrees ==
    \A t \in bearers : t.session \notin {None, t.id} =>
        \E p \in bearers : p.id = t.parent /\ p.session = t.session

\* A row, its agent's environment, and the bearers.
HasItsToken(r, v, bs) ==
    IF r.token = None
    THEN r.session = None /\ v = None
    ELSE /\ r.session # None
         /\ \E b \in bs : b.id = r.token /\ b.session = r.session /\ b.parent = r.spawnedBy
         /\ v # None => v.id = r.token /\ SessionMatches(v, r)

\* The token in an agent's environment is the one its row names, which was made
\* from its spawner's, and its session is the row's, so that the agent finds
\* itself (session_matches), after any number of restarts of agents and of the
\* daemon.  An agent that was begun with its workspace never comes to have one.
AgentsHoldTheirTokens ==
    \A w \in Workspaces : \A i \in DOMAIN rows[w] :
        HasItsToken(rows[w][i], env[rows[w][i].id], bearers)

Tokens == {Caller(b) : b \in Holders}

\* The handlers that list agents and those that are given an identifier agree:
\* who discovers an agent reaches it, whichever protocol is used, who reaches
\* one by whatever identifier sees it in his list, and who gives an agent a
\* task may ask it for the task's state.
ViewsAgree ==
    /\ \A t \in Tokens :
        LET listed == Listed(t)
            found == Discovered(t)
        IN  /\ ProxyListed(t) = found /\ ProxyDiscovered(t, None) = found
            /\ \A st \in Status : ProxyDiscovered(t, st) \subseteq listed
            /\ found \subseteq HttpDiscovered \cap McpDiscovered
            /\ listed \subseteq HttpListed \cap McpListed
            /\ \A e \in found : StatusOf(t, e.row.id) = {e} /\ e.ws \in ListedWorkspaces(t)
            /\ \A o \in Orders :
                  /\ \A e \in found : TaskGiven(o, t, [kind |-> "id", id |-> e.row.id]) = e
                  /\ \A i \in Identifier :
                        TaskAsked(o, t, i) \in listed \cup {None}
    /\ \A w \in Workspaces :
        /\ McpHasWorkspace(w) <=> w \in HttpListedWorkspaces
        /\ ReadsResource("workspace", w) <=> <<"workspace", w>> \in Resources
    /\ \A a \in Agents :
        LET reached == McpTaskAsked(a)
        IN  /\ ReadsResource("agent", a) <=> <<"agent", a>> \in Resources
            /\ (reached # {} => ReadsResource("agent", a))
            /\ HttpStatusOf(a) = reached /\ McpMessaged(a) = reached /\ McpTaskGiven(a) = reached
            /\ \A o \in Orders :
                  LET i == [kind |-> "id", id |-> a]
                  IN  {HttpMessaged(o, i), HttpTaskGiven(o, i), HttpTaskAsked(o, i)}
                         \subseteq reached \cup {None}

\* Who is confined to a session sees, of all agents there are, those that were
\* spawned with a token of the session and the one that it began with, whose
\* spawner was in no session: none of other sessions, and none that belongs to no
\* session (arp-spec/identity-and-scopes.md:47, what session permission cannot do:
\* "See or manage agents spawned by other sessions").
SessionsSeeTheirOwn ==
    \A t \in bearers, e \in AllRows :
        t.permission = Session /\ MaySee(t, e) =>
            LET spawners == {b \in bearers : b.id = e.row.spawnedBy /\ b.session # None}
            IN  /\ t.session # None
                /\ \/ spawners = {} /\ e.row.token = t.session
                   \/ \E b \in spawners : b.session = t.session
=============================================================================
