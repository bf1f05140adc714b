---------------------------- MODULE AccessProofs ----------------------------
(* Proofs about Access, for any sets of tokens, agents and projects. *)
EXTENDS Access, FiniteSetTheorems, WellFoundedInduction, TLAPS

\* A token that was made with another is in that one's session, if it has one.
SessionsKept ==
    \A t \in bearers : t.parent \in TokenIds =>
        \E p \in bearers : p.id = t.parent /\ (p.session # None => t.session = p.session)

\* The tokens alone: ids are never used twice, and the store has nothing that
\* was not handed out.
TokenInv ==
    /\ now \in 0 .. MaxTime
    /\ tokens \subseteq bearers
    /\ bearers \subseteq ScopedToken
    /\ \A t \in bearers : t.id \in TokenIds
    /\ \A t, u \in bearers : t.id = u.id => t = u
    /\ derived \subseteq bearers \X bearers
    /\ NoneWidened
    /\ SessionsKept
    /\ SessionsAreTrees

\* The token of a localhost caller.
LEMMA AdminToken == LocalhostAdmin \in ScopedToken
  BY DEF LocalhostAdmin, ScopedToken, TokenScope, Global, Permission, Admin, SessionIds, Expiry

\* What a handler works for is a bearer or a localhost caller.
LEMMA CallerType ==
    ASSUME TokenInv, NEW b \in Holders
    PROVE  Caller(b) \in bearers \cup {LocalhostAdmin} /\ Caller(b) \in ScopedToken
<1> QED BY AdminToken DEF Holders, Caller, TokenInv

\* Who is granted no more than his token allows is given a token within it.
LEMMA NarrowsWithin ==
    ASSUME NEW t \in ScopedToken, NEW b \in ScopedToken, Narrows(b, t.scope, t.permission)
    PROVE  Within(t, b)
  BY DEF Within, Narrows, ScopeIsSubset, ScopeIncludes

\* A new token that is fresh, and within the one it is made with, keeps the
\* tokens in order.
LEMMA IssueKeeps ==
    ASSUME TokenInv, NEW maker,
           NEW t \in ScopedToken, t.id \in TokenIds, Fresh(t.id), Issue(t, maker), now' = now,
           maker \in bearers \cup {LocalhostAdmin},
           maker \in bearers => Within(t, maker),
           t.parent \in TokenIds =>
              \E p \in bearers : p.id = t.parent /\ (p.session # None => t.session = p.session),
           t.session \notin {None, t.id} =>
              \E p \in bearers : p.id = t.parent /\ p.session = t.session
    PROVE  TokenInv'
<1>1. /\ bearers' = bearers \cup {t} /\ tokens' = tokens \cup {t}
      /\ derived' = derived \cup {<<t, b>> : b \in Origins(maker)}
  BY DEF Issue
<1>2. \A u, v \in bearers' : u.id = v.id => u = v
  BY <1>1 DEF TokenInv, Fresh
<1>3. derived' \subseteq bearers' \X bearers' /\ NoneWidened'
  <2>1. ASSUME NEW b \in Origins(maker)
        PROVE  b \in bearers /\ Within(t, b)
    <3>1. b \in bearers /\ (b = maker \/ <<maker, b>> \in derived)
      BY DEF Origins
    <3>2. CASE <<maker, b>> \in derived
      <4>1. maker \in bearers
        BY <3>2 DEF TokenInv
      <4>2. Within(maker, b)
        <5>1. Within(<<maker, b>>[1], <<maker, b>>[2])
          BY <3>2 DEF TokenInv, NoneWidened
        <5> QED BY <5>1
      <4>3. /\ t.permission \in Nat /\ maker.permission \in Nat /\ b.permission \in Nat
            /\ Within(t, maker)
        BY <3>1, <4>1 DEF TokenInv, ScopedToken, Permission
      <4> QED BY <3>1, <4>2, <4>3 DEF Within
    <3> QED BY <3>1, <3>2
  <2>2. \A d \in derived' : d \in bearers' \X bearers' /\ Within(d[1], d[2])
    <3> SUFFICES ASSUME NEW d \in derived'
                 PROVE  d \in bearers' \X bearers' /\ Within(d[1], d[2])
      OBVIOUS
    <3>1. CASE d \in derived
      BY <1>1, <3>1 DEF TokenInv, NoneWidened
    <3>2. CASE d \notin derived
      <4>1. PICK b \in Origins(maker) : d = <<t, b>>
        BY <1>1, <3>2
      <4>2. d[1] = t /\ d[2] = b
        BY <4>1
      <4> QED BY <1>1, <2>1, <4>1, <4>2
    <3> QED BY <3>1, <3>2
  <2>3. \A x, y : Within(x, y)' <=> Within(x, y)
    BY DEF Within
  <2> QED BY <2>2, <2>3 DEF NoneWidened
<1>4. SessionsKept'
  <2> SUFFICES ASSUME NEW u \in bearers', u.parent \in TokenIds
               PROVE  \E p \in bearers :
                          p.id = u.parent /\ (p.session # None => u.session = p.session)
    BY <1>1 DEF SessionsKept
  <2>1. CASE u = t BY <2>1
  <2>2. CASE u \in bearers BY <2>2 DEF TokenInv, SessionsKept
  <2> QED BY <2>1, <2>2, <1>1
<1>5. SessionsAreTrees'
  BY <1>1 DEF TokenInv, SessionsAreTrees
<1> QED BY <1>1, <1>2, <1>3, <1>4, <1>5 DEF TokenInv

\* Nothing changes about the tokens but that some are forgotten.
LEMMA ForgetKeeps ==
    ASSUME TokenInv, tokens' \subseteq tokens, bearers' = bearers, derived' = derived,
           now' \in 0 .. MaxTime
    PROVE  TokenInv'
  BY DEF TokenInv, NoneWidened, Within, SessionsKept, SessionsAreTrees

\* create_token, by whatever way, gives out a token without parent and session.
LEMMA RootKeeps ==
    ASSUME TokenInv, NEW id \in TokenIds, Fresh(id), NEW s \in TokenScope,
           NEW p \in Permission, NEW x \in Expiry, now' = now,
           NEW maker \in bearers \cup {LocalhostAdmin}, maker \in ScopedToken,
           maker \in bearers => Narrows(maker, s, p),
           Issue([id |-> id, scope |-> s, permission |-> p,
                  session |-> None, expires |-> x, parent |-> None], maker)
    PROVE  TokenInv'
<1> DEFINE t == [id |-> id, scope |-> s, permission |-> p,
                 session |-> None, expires |-> x, parent |-> None]
<1>1. t \in ScopedToken
  BY DEF ScopedToken, SessionIds
<1>2. t.parent \notin TokenIds
  BY NoneAssumption
<1>3. t.id = id /\ t.session = None /\ t.scope = s /\ t.permission = p
  OBVIOUS
<1> HIDE DEF t
<1>4. maker \in bearers => Within(t, maker)
  BY <1>1, <1>3, NarrowsWithin
<1>5. Issue(t, maker)
  BY DEF t
<1> QED BY <1>1, <1>2, <1>3, <1>4, <1>5, IssueKeeps

-----------------------------------------------------------------------------
(* Rows.                                                                      *)

\* The rows and the environments, next to the tokens.
RowInv ==
    /\ held \in [Workspaces -> {"absent", "inactive", "active"}]
    /\ rows \in [Workspaces -> Seq(Row)]
    /\ env \in [Agents -> bearers \cup {None}]
    /\ AgentsHoldTheirTokens

Inv == TokenInv /\ RowInv

\* The elements of a sequence after one was taken out were in it before.
LEMMA RemoveAtElements ==
    ASSUME NEW S, NEW s \in Seq(S), NEW i \in DOMAIN s
    PROVE  /\ RemoveAt(s, i) \in Seq(S)
           /\ \A j \in DOMAIN RemoveAt(s, i) : \E k \in DOMAIN s : RemoveAt(s, i)[j] = s[k]
<1>1. i \in 1 .. Len(s) /\ Len(s) \in Nat
  OBVIOUS
<1>2. SubSeq(s, 1, i - 1) \in Seq(S) /\ SubSeq(s, i + 1, Len(s)) \in Seq(S)
  BY <1>1
<1>3. \A j \in 1 .. Len(SubSeq(s, 1, i - 1)) : SubSeq(s, 1, i - 1)[j] = s[j] /\ j \in 1 .. Len(s)
  BY <1>1
<1>4. \A j \in 1 .. Len(SubSeq(s, i + 1, Len(s))) :
         SubSeq(s, i + 1, Len(s))[j] = s[i + j] /\ i + j \in 1 .. Len(s)
  BY <1>1
<1>5. RemoveAt(s, i) \in Seq(S)
  BY <1>2 DEF RemoveAt
<1>6. ASSUME NEW j \in 1 .. Len(RemoveAt(s, i))
      PROVE  \E k \in 1 .. Len(s) : RemoveAt(s, i)[j] = s[k]
  <2> DEFINE l == SubSeq(s, 1, i - 1)
             r == SubSeq(s, i + 1, Len(s))
  <2>1. CASE j <= Len(l)
    <3>1. RemoveAt(s, i)[j] = l[j] BY <2>1, <1>2 DEF RemoveAt
    <3>2. j \in 1 .. Len(l) BY <2>1, <1>2, <1>6
    <3> QED BY <3>1, <3>2, <1>3
  <2>2. CASE j > Len(l)
    <3>1. RemoveAt(s, i)[j] = r[j - Len(l)] /\ j - Len(l) \in 1 .. Len(r)
      BY <2>2, <1>2, <1>6 DEF RemoveAt
    <3> QED BY <3>1, <1>4
  <2> QED BY <2>1, <2>2, <1>2
<1> QED BY <1>5, <1>6

\* First there are no tokens and no rows.
LEMMA InitInv == Init => Inv
<1> SUFFICES ASSUME Init PROVE Inv OBVIOUS
<1>1. TokenInv
  BY TimeAssumption DEF Init, TokenInv, NoneWidened, SessionsKept, SessionsAreTrees
<1>2. \A w \in Workspaces : DOMAIN rows[w] = {}
  BY DEF Init
<1> QED BY <1>1, <1>2 DEF Init, Inv, RowInv, AgentsHoldTheirTokens

\* What the rows together are made of.
LEMMA IdsType ==
    ASSUME RowInv
    PROVE  /\ Ids \subseteq Agents
           /\ \A w \in Workspaces : \A i \in DOMAIN rows[w] : rows[w][i].id \in Ids
           /\ \A e \in AllRows : /\ e.ws \in Workspaces /\ e.row \in Row
                                 /\ \E i \in DOMAIN rows[e.ws] : rows[e.ws][i] = e.row
<1>0. \A w \in Workspaces : rows[w] \in Seq(Row) /\ DOMAIN rows[w] = 1 .. Len(rows[w])
  BY DEF RowInv
<1>1. \A w \in Workspaces : \A i \in DOMAIN rows[w] :
         rows[w][i] \in Row /\ [ws |-> w, row |-> rows[w][i]] \in AllRows
  BY <1>0 DEF AllRows
<1>2. \A e \in AllRows : \E w \in Workspaces : \E i \in DOMAIN rows[w] : e = [ws |-> w, row |-> rows[w][i]]
  BY <1>0 DEF AllRows
<1>3. Ids \subseteq Agents
  BY <1>1, <1>2 DEF Ids, Row
<1>4. \A w \in Workspaces : \A i \in DOMAIN rows[w] : rows[w][i].id \in Ids
  <2> TAKE w \in Workspaces
  <2> TAKE i \in DOMAIN rows[w]
  <2>1. [ws |-> w, row |-> rows[w][i]].row.id = rows[w][i].id
    OBVIOUS
  <2> QED BY <2>1, <1>1 DEF Ids
<1>5. \A e \in AllRows : /\ e.ws \in Workspaces /\ e.row \in Row
                          /\ \E i \in DOMAIN rows[e.ws] : rows[e.ws][i] = e.row
  BY <1>1, <1>2
<1> QED BY <1>3, <1>4, <1>5

\* A new agent: its row, its environment and what is handed out go together.
LEMMA NewRowKeeps ==
    ASSUME RowInv, NEW w \in Workspaces, NEW r \in Row, r.id \notin Ids, NEW v,
           bearers \subseteq bearers', v \in bearers' \cup {None},
           rows' = [rows EXCEPT ![w] = Append(@, r)], env' = [env EXCEPT ![r.id] = v],
           held' \in [Workspaces -> {"absent", "inactive", "active"}],
           HasItsToken(r, v, bearers')
    PROVE  RowInv'
<1>1. r.id \in Agents
  BY DEF Row
<1>3. rows' \in [Workspaces -> Seq(Row)] /\ env' \in [Agents -> bearers' \cup {None}]
  <2>1. rows \in [Workspaces -> Seq(Row)] /\ env \in [Agents -> bearers' \cup {None}]
    BY DEF RowInv
  <2>2. Append(rows[w], r) \in Seq(Row)
    BY <2>1
  <2>3. rows' \in [Workspaces -> Seq(Row)]
    BY <2>1, <2>2
  <2>4. env' \in [Agents -> bearers' \cup {None}]
    BY <2>1, <1>1
  <2> QED BY <2>3, <2>4
<1>4. ASSUME NEW x \in Workspaces, NEW i \in DOMAIN rows'[x]
      PROVE  HasItsToken(rows'[x][i], env'[rows'[x][i].id], bearers')
  <2>1. CASE x = w /\ i = Len(rows[w]) + 1
    <3>1. rows'[x][i] = r
      BY <2>1 DEF RowInv
    <3>2. env'[r.id] = v
      BY <1>1 DEF RowInv
    <3> QED BY <3>1, <3>2
  <2>2. CASE ~(x = w /\ i = Len(rows[w]) + 1)
    <3>1. i \in DOMAIN rows[x] /\ rows'[x][i] = rows[x][i]
      BY <2>2, <1>4 DEF RowInv
    <3>2. rows[x][i].id # r.id /\ rows[x][i].id \in Agents
      BY <3>1, IdsType
    <3>3. env'[rows[x][i].id] = env[rows[x][i].id]
      BY <3>2 DEF RowInv
    <3>4. HasItsToken(rows[x][i], env[rows[x][i].id], bearers)
      BY <3>1 DEF RowInv, AgentsHoldTheirTokens
    <3> QED BY <3>1, <3>3, <3>4 DEF HasItsToken
  <2> QED BY <2>1, <2>2
<1> QED BY <1>3, <1>4 DEF RowInv, AgentsHoldTheirTokens

\* Of one that is spawned, row and environment come from the same token.
LEMMA LaunchKeeps ==
    ASSUME RowInv, NEW w \in Workspaces, NEW a \in Agents, a \notin Ids, NEW n \in Names,
           NEW t \in ScopedToken, t.id \in TokenIds, t.session \in TokenIds,
           NEW caller, caller.id \in TokenIds \cup {AdminId}, t.parent = caller.id,
           Launch(w, a, n, t, caller)
    PROVE  RowInv'
<1> DEFINE r == [id |-> a, name |-> n, status |-> "starting",
                 token |-> t.id, session |-> t.session, spawnedBy |-> caller.id]
<1>1. r \in Row
  BY DEF Row, Status, SessionIds
<1>2. /\ rows' = [rows EXCEPT ![w] = Append(@, r)]
      /\ bearers' = bearers \cup {t} /\ env' = [env EXCEPT ![a] = t] /\ held' = held
  BY DEF Launch, Issue
<1>3. /\ r.id = a /\ r.token = t.id /\ r.session = t.session /\ r.spawnedBy = caller.id
  OBVIOUS
<1> HIDE DEF r
<1>4. HasItsToken(r, t, bearers')
  BY <1>2, <1>3, NoneAssumption DEF HasItsToken, SessionMatches
<1> QED BY <1>1, <1>2, <1>3, <1>4, NewRowKeeps DEF RowInv

\* A restarted agent: the row moves to a new id, with its token and session.
LEMMA ReplaceKeeps ==
    ASSUME RowInv, TokenInv, NEW e \in AllRows, NEW new \in Agents,
           NEW old \in bearers \cup {None}, old # None => old.id = e.row.token,
           Replace(e, new, old)
    PROVE  RowInv'
<1> DEFINE w == e.ws
           k == Position(e)
           r == [e.row EXCEPT !.id = new, !.status = "starting"]
           s == RemoveAt(rows[w], k)
<1>1. w \in Workspaces /\ e.row \in Row /\ e.row.id \in Ids /\ e.row.id \in Agents
  BY IdsType DEF Ids, Row
<1>2. k \in DOMAIN rows[w] /\ rows[w][k] = e.row
  BY IdsType DEF Position
<1>3. r \in Row /\ r.id = new /\ r.token = e.row.token /\ r.session = e.row.session
      /\ r.spawnedBy = e.row.spawnedBy
  BY <1>1 DEF Row, Status
<1>4. /\ s \in Seq(Row)
      /\ \A j \in DOMAIN s : \E l \in DOMAIN rows[w] : s[j] = rows[w][l]
  BY <1>1, <1>2, RemoveAtElements DEF RowInv
<1>5. /\ rows' = [rows EXCEPT ![w] = Append(s, r)]
      /\ env' = [env EXCEPT ![e.row.id] = None, ![new] = old]
      /\ bearers' = bearers /\ held' = held /\ new \notin Ids
  BY DEF Replace, tokenVars
<1>6. rows' \in [Workspaces -> Seq(Row)] /\ env' \in [Agents -> bearers' \cup {None}]
  BY <1>1, <1>3, <1>4, <1>5 DEF RowInv
<1>7. ASSUME NEW v \in Workspaces, NEW l \in DOMAIN rows[v]
      PROVE  HasItsToken(rows[v][l], env'[rows[v][l].id], bearers')
  <2>1. HasItsToken(rows[v][l], env[rows[v][l].id], bearers)
    BY DEF RowInv, AgentsHoldTheirTokens
  <2>2. rows[v][l].id \in Agents /\ rows[v][l].id # new
    BY IdsType, <1>5
  <2>3. env'[rows[v][l].id] \in {None, env[rows[v][l].id]}
    BY <2>2, <1>5, <1>1 DEF RowInv
  <2> QED BY <2>1, <2>3, <1>5 DEF HasItsToken
<1>8. HasItsToken(r, env'[new], bearers')
  <2>1. HasItsToken(e.row, env[e.row.id], bearers)
    BY <1>1, <1>2 DEF RowInv, AgentsHoldTheirTokens
  <2>2. env'[new] = old
    BY <1>1, <1>5 DEF RowInv
  <2>3. CASE r.token = None
    <3>1. old = None
      BY <2>3, <1>3, NoneAssumption DEF TokenInv
    <3> QED BY <2>1, <2>2, <2>3, <3>1, <1>3 DEF HasItsToken
  <2>4. CASE r.token # None
    <3>1. PICK b \in bearers : b.id = r.token /\ b.session = r.session /\ b.parent = r.spawnedBy
      BY <2>1, <2>4, <1>3 DEF HasItsToken
    <3>2. old # None => old = b
      BY <3>1, <1>3 DEF TokenInv
    <3>3. r.session # None
      BY <2>1, <2>4, <1>3 DEF HasItsToken
    <3> QED BY <2>2, <2>4, <3>1, <3>2, <3>3, <1>5 DEF HasItsToken, SessionMatches
  <2> QED BY <2>3, <2>4
<1>9. ASSUME NEW v \in Workspaces, NEW i \in DOMAIN rows'[v]
      PROVE  HasItsToken(rows'[v][i], env'[rows'[v][i].id], bearers')
  <2>1. CASE v # w
    BY <2>1, <1>7, <1>9, <1>5, <1>1 DEF RowInv
  <2>2. CASE v = w /\ i = Len(s) + 1
    <3>1. rows'[v][i] = r
      BY <2>2, <1>1, <1>4, <1>3, <1>5 DEF RowInv
    <3> QED BY <3>1, <1>3, <1>8
  <2>3. CASE v = w /\ i # Len(s) + 1
    <3>1. i \in DOMAIN s /\ rows'[v][i] = s[i]
      BY <2>3, <1>1, <1>4, <1>3, <1>5, <1>9 DEF RowInv
    <3> QED BY <3>1, <1>1, <1>4, <1>7
  <2> QED BY <2>1, <2>2, <2>3
<1> QED BY <1>5, <1>6, <1>9 DEF RowInv, AgentsHoldTheirTokens

\* Nothing changes but statuses and environments that are dropped.
LEMMA StatusKeeps ==
    ASSUME RowInv, NEW a \in Agents, NEW st \in Status, SetStatus(a, st),
           bearers' = bearers, held' = held,
           env' \in [Agents -> bearers \cup {None}],
           \A x \in Agents : env'[x] \in {None, env[x]}
    PROVE  RowInv'
<1>1. \A w \in Workspaces : \A i \in DOMAIN rows[w] : rows[w][i] \in Row
  BY DEF RowInv
<1>2. /\ rows' \in [Workspaces -> Seq(Row)]
      /\ \A w \in Workspaces : DOMAIN rows'[w] = DOMAIN rows[w]
  <2>1. ASSUME NEW w \in Workspaces
        PROVE  rows'[w] \in Seq(Row) /\ DOMAIN rows'[w] = DOMAIN rows[w]
    <3>1. DOMAIN rows[w] = 1 .. Len(rows[w]) /\ Len(rows[w]) \in Nat
      BY DEF RowInv
    <3>2. rows'[w] = [i \in DOMAIN rows[w] |->
              IF rows[w][i].id = a THEN [rows[w][i] EXCEPT !.status = st] ELSE rows[w][i]]
      BY DEF SetStatus
    <3>3. \A i \in DOMAIN rows[w] : rows'[w][i] \in Row
      BY <3>2, <1>1 DEF Row
    <3>4. \A f : f = [i \in DOMAIN rows[w] |-> f[i]] /\ (\A i \in 1 .. Len(rows[w]) : f[i] \in Row) => f \in Seq(Row)
      BY <3>1
    <3> QED BY <3>1, <3>2, <3>3, <3>4
  <2>2. rows' = [w \in Workspaces |-> rows'[w]]
    BY DEF SetStatus
  <2> QED BY <2>1, <2>2
<1>3. ASSUME NEW w \in Workspaces, NEW i \in DOMAIN rows'[w]
      PROVE  HasItsToken(rows'[w][i], env'[rows'[w][i].id], bearers')
  <2>1. i \in DOMAIN rows[w] /\ rows[w][i] \in Row
    BY <1>1, <1>2
  <2>2. /\ rows'[w][i].id = rows[w][i].id /\ rows'[w][i].token = rows[w][i].token
        /\ rows'[w][i].session = rows[w][i].session
        /\ rows'[w][i].spawnedBy = rows[w][i].spawnedBy
    BY <2>1 DEF SetStatus, Row
  <2>3. HasItsToken(rows[w][i], env[rows[w][i].id], bearers)
    BY <2>1 DEF RowInv, AgentsHoldTheirTokens
  <2>4. env'[rows[w][i].id] \in {None, env[rows[w][i].id]}
    BY <2>1 DEF Row
  <2> QED BY <2>2, <2>3, <2>4 DEF HasItsToken, SessionMatches
<1> QED BY <1>2, <1>3 DEF RowInv, AgentsHoldTheirTokens

-----------------------------------------------------------------------------
(* The actions.                                                               *)

\* create_token, by gRPC and the HTTP bridge.
LEMMA CreateKeeps ==
    ASSUME Inv, NEW caller \in ScopedToken, NEW id \in TokenIds, NEW s \in TokenScope,
           NEW p \in Permission, NEW x \in Expiry,
           caller \in bearers \cup {LocalhostAdmin},
           CreateTokenFor(caller, id, s, p, x)
    PROVE  Inv'
<1> DEFINE granted == IF s = Only({}) THEN caller.scope ELSE s
<1>1. granted \in TokenScope
  BY DEF ScopedToken
<1>2. TokenInv'
  <2>1. /\ Fresh(id) /\ now' = now /\ Narrows(caller, granted, p)
        /\ Issue([id |-> id, scope |-> granted, permission |-> p,
                  session |-> None, expires |-> x, parent |-> None], caller)
    BY DEF CreateTokenFor
  <2> HIDE DEF granted
  <2> QED BY <1>1, <2>1, RootKeeps DEF Inv
<1>3. RowInv'
  BY DEF CreateTokenFor, Issue, Inv, RowInv, AgentsHoldTheirTokens, HasItsToken, SessionMatches
<1> QED BY <1>2, <1>3 DEF Inv

\* create_token, by the MCP tool.
LEMMA McpCreateKeeps ==
    ASSUME Inv, NEW id \in TokenIds, NEW s \in TokenScope, NEW p \in Permission, NEW x \in Expiry,
           McpTokenCreate(id, s, p, x)
    PROVE  Inv'
<1>1. TokenInv'
  <2>1. LocalhostAdmin \in ScopedToken /\ LocalhostAdmin \notin bearers
    BY AdminToken, NoneAssumption DEF Inv, TokenInv, LocalhostAdmin
  <2> QED BY <2>1, RootKeeps DEF McpTokenCreate, Inv
<1>2. RowInv'
  BY DEF McpTokenCreate, Issue, Inv, RowInv, AgentsHoldTheirTokens, HasItsToken, SessionMatches
<1> QED BY <1>1, <1>2 DEF Inv

\* The child of a caller narrows it, and has a session.
LEMMA SpawnKeeps ==
    ASSUME Inv, NEW caller \in bearers \cup {LocalhostAdmin}, caller \in ScopedToken,
           NEW id \in TokenIds, NEW w \in Workspaces, NEW a \in Agents, NEW n \in Names,
           SpawnFor(caller, id, w, a, n)
    PROVE  Inv'
<1> DEFINE c == Child(caller, id, caller.scope, caller.permission)
           t == EnsureSession(c)
<1>1. /\ c = [id |-> id, scope |-> caller.scope, permission |-> caller.permission,
              session |-> caller.session, expires |-> caller.expires, parent |-> caller.id]
      /\ caller.id \in TokenIds \cup {AdminId}
      /\ caller.session \in SessionIds
  BY DEF Child, ScopedToken, Inv, TokenInv, LocalhostAdmin
<1>2. c \in ScopedToken
  BY <1>1 DEF ScopedToken
<1>3. /\ t \in ScopedToken /\ t.id = id /\ t.session \in TokenIds
      /\ t.scope = caller.scope /\ t.permission = caller.permission
      /\ t.expires = caller.expires /\ t.parent = caller.id
      /\ caller.session # None => t.session = caller.session
      /\ caller.session = None => t.session = id
  BY <1>1, <1>2 DEF EnsureSession, ScopedToken, SessionIds
<1>4. Fresh(id) /\ a \notin Ids /\ Launch(w, a, n, t, caller)
  BY DEF SpawnFor
<1>5. Narrows(caller, t.scope, t.permission)
  BY <1>3 DEF Narrows, ScopeIsSubset, ScopedToken, TokenScope, Only, Global, Permission
<1> HIDE DEF c, t
<1>10. Within(t, caller)
  BY <1>3, <1>5, NarrowsWithin
<1>6. caller.id \in TokenIds => caller \in bearers
  BY NoneAssumption DEF LocalhostAdmin
<1>7. caller.session \notin {None, id} => caller \in bearers
  BY DEF LocalhostAdmin
<1>8. TokenInv'
  BY <1>3, <1>4, <1>6, <1>7, <1>10, IssueKeeps DEF Inv, Launch
<1>9. RowInv'
  BY <1>1, <1>3, <1>4, LaunchKeeps DEF Inv
<1> QED BY <1>8, <1>9 DEF Inv

\* The MCP tool makes the child of a localhost caller with a session.
LEMMA McpSpawnKeeps ==
    ASSUME Inv, NEW id \in TokenIds, NEW w \in Workspaces, NEW a \in Agents, NEW n \in Names,
           NEW s \in TokenScope, NEW p \in Permission,
           McpAgentSpawn(id, w, a, n, s, p)
    PROVE  Inv'
<1> DEFINE t == Child([LocalhostAdmin EXCEPT !.session = id], id, s, p)
<1>1. t = [id |-> id, scope |-> s, permission |-> p, session |-> id, expires |-> None, parent |-> AdminId]
  BY DEF Child, LocalhostAdmin
<1>2. t \in ScopedToken
  BY <1>1 DEF ScopedToken, SessionIds, Expiry
<1>3. AdminId \notin TokenIds
  BY NoneAssumption
<1>4. Fresh(id) /\ a \notin Ids /\ Launch(w, a, n, t, LocalhostAdmin)
  BY DEF McpAgentSpawn
<1>7. /\ t.id = id /\ t.session = id /\ t.parent = AdminId
      /\ LocalhostAdmin.id = AdminId /\ LocalhostAdmin \notin bearers
  BY <1>1, <1>3 DEF LocalhostAdmin, Inv, TokenInv
<1> HIDE DEF t
<1>5. TokenInv'
  BY <1>2, <1>3, <1>4, <1>7, IssueKeeps DEF Inv, Launch
<1>6. RowInv'
  BY <1>2, <1>4, <1>7, LaunchKeeps DEF Inv
<1> QED BY <1>5, <1>6 DEF Inv

\* An agent that is begun with its workspace has neither token nor session.
LEMMA CreateWorkspaceKeeps ==
    ASSUME Inv, NEW caller, caller.id \in TokenIds \cup {AdminId},
           NEW w \in Workspaces, NEW a \in Agents, NEW n \in Names,
           CreateWorkspaceFor(caller, w, a, n)
    PROVE  Inv'
<1> DEFINE r == [id |-> a, name |-> n, status |-> "starting",
                 token |-> None, session |-> None, spawnedBy |-> caller.id]
<1>1. r \in Row
  BY DEF Row, Status, SessionIds
<1>2. /\ rows' = [rows EXCEPT ![w] = Append(@, r)] /\ a \notin Ids
      /\ tokens' = tokens /\ bearers' = bearers /\ derived' = derived /\ now' = now
      /\ env' = [env EXCEPT ![a] = None] /\ held' = [held EXCEPT ![w] = "active"]
  BY DEF CreateWorkspaceFor, tokenVars
<1>3. r.id = a /\ r.token = None /\ r.session = None
  OBVIOUS
<1> HIDE DEF r
<1>4. TokenInv'
  BY <1>2, ForgetKeeps DEF Inv, TokenInv
<1>5. HasItsToken(r, None, bearers')
  BY <1>3 DEF HasItsToken
<1>6. held' \in [Workspaces -> {"absent", "inactive", "active"}]
  BY <1>2 DEF Inv, RowInv
<1>7. RowInv'
  BY <1>1, <1>2, <1>3, <1>5, <1>6, NewRowKeeps DEF Inv
<1> QED BY <1>4, <1>7 DEF Inv

\* A restart gives out no new token.
LEMMA RestartKeeps ==
    ASSUME Inv, NEW e \in AllRows, NEW new \in Agents,
           Replace(e, new, StoredToken(e.row.token)) \/ Replace(e, new, None)
    PROVE  Inv'
<1>1. /\ StoredToken(e.row.token) \in bearers \cup {None}
      /\ StoredToken(e.row.token) # None => StoredToken(e.row.token).id = e.row.token
  BY DEF StoredToken, Inv, TokenInv
<1>2. RowInv'
  BY <1>1, ReplaceKeeps DEF Inv
<1>3. TokenInv'
  BY ForgetKeeps DEF Inv, TokenInv, Replace, tokenVars
<1> QED BY <1>2, <1>3 DEF Inv

\* Stops and reports touch statuses, and may drop an environment.
LEMMA ReportKeeps ==
    ASSUME Inv, NEW a \in Agents, NEW st \in Status, SetStatus(a, st),
           now' = now, tokens' = tokens, bearers' = bearers, derived' = derived, held' = held,
           env' = env \/ env' = [env EXCEPT ![a] = None]
    PROVE  Inv'
<1>1. TokenInv'
  BY ForgetKeeps DEF Inv, TokenInv
<1>2. env' \in [Agents -> bearers \cup {None}] /\ \A x \in Agents : env'[x] \in {None, env[x]}
  BY DEF Inv, RowInv
<1>3. RowInv'
  BY <1>2, StatusKeeps DEF Inv
<1> QED BY <1>1, <1>3 DEF Inv

\* A destroyed workspace takes its rows and their environments with it.
LEMMA DestroyKeeps ==
    ASSUME Inv, NEW caller, NEW w \in Workspaces, DestroyFor(caller, w)
    PROVE  Inv'
<1>1. TokenInv'
  BY ForgetKeeps DEF Inv, TokenInv, DestroyFor, tokenVars
<1>2. /\ held' \in [Workspaces -> {"absent", "inactive", "active"}]
      /\ rows' \in [Workspaces -> Seq(Row)]
      /\ env' \in [Agents -> bearers' \cup {None}]
  BY DEF Inv, RowInv, DestroyFor, tokenVars
<1>3. ASSUME NEW v \in Workspaces, NEW i \in DOMAIN rows'[v]
      PROVE  HasItsToken(rows'[v][i], env'[rows'[v][i].id], bearers')
  <2>1. v # w /\ rows'[v] = rows[v] /\ bearers' = bearers
    BY <1>3 DEF Inv, RowInv, DestroyFor, tokenVars
  <2>2. rows[v][i].id \in Agents
    BY <1>3, <2>1, IdsType DEF Inv
  <2>3. env'[rows[v][i].id] \in {None, env[rows[v][i].id]}
    BY <2>2 DEF DestroyFor
  <2> QED BY <1>3, <2>1, <2>3 DEF Inv, RowInv, AgentsHoldTheirTokens, HasItsToken
<1> QED BY <1>1, <1>2, <1>3 DEF Inv, RowInv, AgentsHoldTheirTokens

\* The tokens may be forgotten, the clock may move, a flag may change.
LEMMA OthersKeep ==
    ASSUME Inv, tokens' \subseteq tokens, bearers' = bearers, derived' = derived, now' \in 0 .. MaxTime,
           held' \in [Workspaces -> {"absent", "inactive", "active"}],
           rows' = rows, env' = env
    PROVE  Inv'
<1>1. TokenInv'
  BY ForgetKeeps DEF Inv
<1>2. RowInv'
  BY DEF Inv, RowInv, AgentsHoldTheirTokens, HasItsToken, SessionMatches
<1> QED BY <1>1, <1>2 DEF Inv

\* Every action keeps the invariant.
LEMMA NextKeeps == Inv /\ [Next]_vars => Inv'
<1> SUFFICES ASSUME Inv, [Next]_vars PROVE Inv' OBVIOUS
<1> USE RequestsAssumption
<1>1. LocalhostAdmin \in ScopedToken
  BY AdminToken
<1>2. \A b \in Holders : Caller(b) \in bearers \cup {LocalhostAdmin} /\ Caller(b) \in ScopedToken
  BY CallerType DEF Inv
<1>3. /\ \A t, a : StatusOf(t, a) \subseteq AllRows
      /\ \A a : HttpStatusOf(a) \subseteq AllRows /\ McpResolved(a) \subseteq AllRows
  BY DEF StatusOf, HttpStatusOf, McpResolved, FindAgent, Listed
<1>4. Global \in TokenScope
  BY DEF TokenScope
<1>5. CASE \E id \in TokenIds, s \in Scopes, p \in Permissions, x \in Expiries :
              \/ \E b \in Holders : CreateToken(b, id, s, p, x)
              \/ HttpCreateToken(id, s, p, x)
              \/ McpTokenCreate(id, s, p, x)
  <2>1. PICK id \in TokenIds, s \in TokenScope, p \in Permission, x \in Expiry :
              \/ \E b \in Holders : CreateToken(b, id, s, p, x)
              \/ HttpCreateToken(id, s, p, x)
              \/ McpTokenCreate(id, s, p, x)
    BY <1>5
  <2>2. CASE McpTokenCreate(id, s, p, x) BY <2>2, McpCreateKeeps
  <2>3. CASE \E c \in bearers \cup {LocalhostAdmin} : c \in ScopedToken /\ CreateTokenFor(c, id, s, p, x)
    BY <2>3, CreateKeeps
  <2> QED BY <2>1, <2>2, <2>3, <1>1, <1>2 DEF CreateToken, HttpCreateToken
<1>6. CASE \E id \in TokenIds, w \in Workspaces, a \in Agents, n \in Names :
              \/ \E b \in Holders : SpawnAgent(b, id, w, a, n)
              \/ HttpSpawnAgent(id, w, a, n)
              \/ \E s \in Scopes \cup {Global}, p \in Permissions : McpAgentSpawn(id, w, a, n, s, p)
  <2>1. PICK id \in TokenIds, w \in Workspaces, a \in Agents, n \in Names :
              \/ \E b \in Holders : SpawnAgent(b, id, w, a, n)
              \/ HttpSpawnAgent(id, w, a, n)
              \/ \E s \in TokenScope, p \in Permission : McpAgentSpawn(id, w, a, n, s, p)
    BY <1>6, <1>4
  <2>2. CASE \E s \in TokenScope, p \in Permission : McpAgentSpawn(id, w, a, n, s, p)
    BY <2>2, McpSpawnKeeps
  <2>3. CASE \E c \in bearers \cup {LocalhostAdmin} : c \in ScopedToken /\ SpawnFor(c, id, w, a, n)
    BY <2>3, SpawnKeeps
  <2> QED BY <2>1, <2>2, <2>3, <1>1, <1>2 DEF SpawnAgent, HttpSpawnAgent
<1>13. CASE \E w \in Workspaces, a \in Agents, n \in Names :
              \/ \E b \in Holders : CreateWorkspace(b, w, a, n)
              \/ HttpCreateWorkspace(w, a, n)
  <2>1. PICK w \in Workspaces, a \in Agents, n \in Names :
              \E c \in ScopedToken : CreateWorkspaceFor(c, w, a, n)
               /\ c \in bearers \cup {LocalhostAdmin}
    BY <1>13, <1>1, <1>2 DEF CreateWorkspace, HttpCreateWorkspace
  <2> QED BY <2>1, CreateWorkspaceKeeps DEF ScopedToken
<1>7. CASE \E a, new \in Agents :
              \/ \E b \in Holders : RestartAgent(b, a, new)
              \/ HttpRestartAgent(a, new)
              \/ McpAgentRestart(a, new)
  <2>1. PICK e \in AllRows, new \in Agents :
              Replace(e, new, StoredToken(e.row.token)) \/ Replace(e, new, None)
    BY <1>7, <1>3 DEF RestartAgent, HttpRestartAgent, McpAgentRestart
  <2> QED BY <2>1, RestartKeeps
<1>8. CASE \E a \in Agents :
              \/ \E b \in Holders : StopAgent(b, a)
              \/ HttpStopAgent(a)
              \/ \E s \in Reported : StatusReported(a, s)
  <2>1. PICK a \in Agents :
              \/ \E b \in Holders : StopAgent(b, a)
              \/ HttpStopAgent(a)
              \/ \E s \in Reported : StatusReported(a, s)
    BY <1>8
  <2>2. CASE \E c : StopFor(c, a)
    BY <2>2, ReportKeeps DEF StopFor, Status, tokenVars
  <2>3. CASE \E s \in Reported : StatusReported(a, s)
    BY <2>3, ReportKeeps DEF StatusReported, Reported, Status, tokenVars
  <2> QED BY <2>1, <2>2, <2>3 DEF StopAgent, HttpStopAgent
<1>9. CASE \E w \in Workspaces :
              \/ SetInactive(w) \/ SetActive(w) \/ HttpDestroyWorkspace(w)
              \/ \E b \in Holders : DestroyWorkspace(b, w)
  <2>1. PICK w \in Workspaces : \/ SetInactive(w) \/ SetActive(w)
                                \/ \E c : DestroyFor(c, w)
    BY <1>9 DEF HttpDestroyWorkspace, DestroyWorkspace
  <2>2. CASE SetInactive(w) \/ SetActive(w)
    BY <2>2, OthersKeep DEF SetInactive, SetActive, tokenVars, Inv, TokenInv, RowInv
  <2> QED BY <2>1, <2>2, DestroyKeeps
<1>10. CASE DaemonRestart
  BY <1>10, OthersKeep DEF DaemonRestart, tokenVars, Inv, TokenInv, RowInv
<1>11. CASE Tick
  BY <1>11, OthersKeep, TimeAssumption DEF Tick, tokenVars, Inv, TokenInv, RowInv
<1>12. CASE UNCHANGED vars
  BY <1>12, OthersKeep DEF vars, tokenVars, Inv, TokenInv, RowInv
<1> QED BY <1>5, <1>6, <1>7, <1>8, <1>9, <1>10, <1>11, <1>12, <1>13 DEF Next

\* Inv is an invariant.
LEMMA Invariant == Spec => []Inv
<1> QED BY InitInv, NextKeeps, PTL DEF Spec

\* The variables keep their types: what a child or a restarted agent is given
\* is a token of the store, and a row of one workspace.
THEOREM TypeCorrect == Spec => []TypeOK
<1>1. Inv => TypeOK
  BY DEF Inv, TokenInv, RowInv, TypeOK
<1> QED BY <1>1, Invariant, PTL

\* No chain of spawns and token requests, through whichever protocol, comes to
\* allow what one of its tokens did not.
THEOREM ChainsNarrow == Spec => []NoneWidened
<1>1. Inv => NoneWidened
  BY DEF Inv, TokenInv
<1> QED BY <1>1, Invariant, PTL

\* A session is handed down from parent to child and in no other way.
THEOREM SessionTrees == Spec => []SessionsAreTrees
<1>1. Inv => SessionsAreTrees
  BY DEF Inv, TokenInv
<1> QED BY <1>1, Invariant, PTL

\* An agent keeps the token its row names, across restarts.
THEOREM TokensHeld == Spec => []AgentsHoldTheirTokens
<1>1. Inv => AgentsHoldTheirTokens
  BY DEF Inv, RowInv
<1> QED BY <1>1, Invariant, PTL

-----------------------------------------------------------------------------
(* Who sees what.                                                             *)

\* An id is that of one agent, in one workspace.
IdsUnique == \A e, f \in AllRows : e.row.id = f.row.id => e = f

\* The rows of the workspaces, all together.
LEMMA RowsTogether ==
    ASSUME NEW w \in Workspaces, NEW i \in DOMAIN rows[w]
    PROVE  [ws |-> w, row |-> rows[w][i]] \in AllRows
  BY DEF AllRows

\* The same after a step, and nothing else is a row.
LEMMA RowsNext ==
    \A e \in AllRows' : \E v \in Workspaces : \E i \in DOMAIN rows'[v] :
        e = [ws |-> v, row |-> rows'[v][i]]
<1> SUFFICES ASSUME NEW e \in AllRows'
             PROVE  \E v \in Workspaces : \E i \in DOMAIN rows'[v] :
                        e = [ws |-> v, row |-> rows'[v][i]]
  OBVIOUS
<1>1. PICK v \in Workspaces : e \in {[ws |-> v, row |-> rows'[v][i]] : i \in DOMAIN rows'[v]}
  BY Zenon DEF AllRows
<1> QED BY <1>1, Zenon

\* No row is new.
LEMMA FewerRowsView ==
    ASSUME IdsUnique, AllRows' \subseteq AllRows
    PROVE  IdsUnique'
  BY DEF IdsUnique

\* One row is new.
LEMMA NewRowView ==
    ASSUME IdsUnique, NEW w, NEW r, r.id \notin Ids,
           AllRows' \subseteq AllRows \cup {[ws |-> w, row |-> r]}
    PROVE  IdsUnique'
<1> DEFINE n == [ws |-> w, row |-> r]
<1>1. n.ws = w /\ n.row = r /\ \A e \in AllRows : e.row.id # n.row.id
  BY DEF Ids
<1> QED BY <1>1 DEF IdsUnique

\* A row that is added to a workspace is one more.
LEMMA AddedView ==
    ASSUME Inv, IdsUnique, NEW w \in Workspaces, NEW r, r.id \notin Ids,
           rows' = [rows EXCEPT ![w] = Append(@, r)]
    PROVE  IdsUnique'
<1>1. AllRows' \subseteq AllRows \cup {[ws |-> w, row |-> r]}
  <2> SUFFICES ASSUME NEW x \in AllRows'
               PROVE  x \in AllRows \cup {[ws |-> w, row |-> r]}
    OBVIOUS
  <2>ws. PICK v \in Workspaces : \E i \in DOMAIN rows'[v] : x = [ws |-> v, row |-> rows'[v][i]]
    BY RowsNext
  <2>row. PICK i \in DOMAIN rows'[v] : x = [ws |-> v, row |-> rows'[v][i]]
    BY <2>ws
  <2>1. rows \in [Workspaces -> Seq(Row)]
    BY DEF RowInv, Inv
  <2>2. CASE v = w
    <3>1. rows'[v] = Append(rows[w], r) /\ rows[w] \in Seq(Row)
      BY <2>1, <2>2
    <3>2. CASE i = Len(rows[w]) + 1
      BY <2>row, <2>2, <3>1, <3>2
    <3>3. CASE i # Len(rows[w]) + 1
      <4>1. i \in DOMAIN rows[w] /\ rows'[v][i] = rows[w][i]
        BY <2>row, <3>1, <3>3
      <4> QED BY <2>row, <2>2, <4>1, RowsTogether
    <3> QED BY <3>2, <3>3
  <2>3. CASE v # w
    BY <2>row, <2>1, <2>3, RowsTogether
  <2> QED BY <2>2, <2>3
<1> QED BY <1>1, NewRowView

\* A spawn adds a row.
LEMMA LaunchView ==
    ASSUME Inv, IdsUnique, NEW w \in Workspaces, NEW a, a \notin Ids, NEW n, NEW t, NEW caller,
           Launch(w, a, n, t, caller)
    PROVE  IdsUnique'
<1> DEFINE r == [id |-> a, name |-> n, status |-> "starting",
                 token |-> t.id, session |-> t.session, spawnedBy |-> caller.id]
<1>1. rows' = [rows EXCEPT ![w] = Append(@, r)] /\ r.id = a
  BY DEF Launch
<1> HIDE DEF r
<1> QED BY <1>1, AddedView

\* So does a workspace that is created with an agent.
LEMMA CreateWorkspaceView ==
    ASSUME Inv, IdsUnique, NEW w \in Workspaces, NEW a, NEW n, NEW caller,
           CreateWorkspaceFor(caller, w, a, n)
    PROVE  IdsUnique'
<1> DEFINE r == [id |-> a, name |-> n, status |-> "starting",
                 token |-> None, session |-> None, spawnedBy |-> caller.id]
<1>1. rows' = [rows EXCEPT ![w] = Append(@, r)] /\ r.id = a /\ a \notin Ids
  BY DEF CreateWorkspaceFor
<1> HIDE DEF r
<1> QED BY <1>1, AddedView

\* A restart takes one row away and adds one.
LEMMA ReplaceView ==
    ASSUME Inv, IdsUnique, NEW e \in AllRows, NEW new \in Agents, NEW old, Replace(e, new, old)
    PROVE  IdsUnique'
<1> DEFINE w == e.ws
           k == Position(e)
           r == [e.row EXCEPT !.id = new, !.status = "starting"]
           s == RemoveAt(rows[w], k)
<1>1. w \in Workspaces /\ e.row \in Row /\ rows \in [Workspaces -> Seq(Row)]
  BY IdsType DEF Inv, RowInv
<1>2. k \in DOMAIN rows[w] /\ rows[w][k] = e.row
  BY IdsType DEF Position, Inv
<1>3. r \in Row /\ r.id = new /\ r.session = e.row.session /\ r.spawnedBy = e.row.spawnedBy
  BY <1>1 DEF Row, Status
<1>4. /\ s \in Seq(Row)
      /\ \A j \in DOMAIN s : \E l \in DOMAIN rows[w] : s[j] = rows[w][l]
  BY <1>1, <1>2, RemoveAtElements
<1>5. rows' = [rows EXCEPT ![w] = Append(s, r)] /\ new \notin Ids
  BY DEF Replace
<1> HIDE DEF s, r, k
<1>6. AllRows' \subseteq AllRows \cup {[ws |-> w, row |-> r]}
  <2> SUFFICES ASSUME NEW x \in AllRows'
               PROVE  x \in AllRows \cup {[ws |-> w, row |-> r]}
    OBVIOUS
  <2>ws. PICK v \in Workspaces : \E i \in DOMAIN rows'[v] : x = [ws |-> v, row |-> rows'[v][i]]
    BY RowsNext
  <2>row. PICK i \in DOMAIN rows'[v] : x = [ws |-> v, row |-> rows'[v][i]]
    BY <2>ws
  <2>1. CASE v = w
    <3>1. rows'[v] = Append(s, r)
      BY <1>1, <1>5, <2>1
    <3>2. CASE i = Len(s) + 1
      BY <1>3, <1>4, <2>row, <2>1, <3>1, <3>2
    <3>3. CASE i # Len(s) + 1
      <4>1. i \in DOMAIN s /\ rows'[v][i] = s[i]
        BY <1>3, <1>4, <2>row, <3>1, <3>3
      <4> QED BY <1>1, <1>4, <2>row, <2>1, <4>1, RowsTogether
    <3> QED BY <3>2, <3>3
  <2>2. CASE v # w
    BY <1>1, <1>5, <2>row, <2>2, RowsTogether
  <2> QED BY <2>1, <2>2
<1>7. r.id \notin Ids
  BY <1>3, <1>5
<1> QED BY <1>6, <1>7, NewRowView

\* A report changes statuses only.
LEMMA StatusView ==
    ASSUME Inv, IdsUnique, NEW a \in Agents, NEW st \in Status, SetStatus(a, st)
    PROVE  IdsUnique'
<1>1. \A w \in Workspaces : \A i \in DOMAIN rows[w] : rows[w][i] \in Row
  BY DEF Inv, RowInv
<1> DEFINE new(q) == IF q.id = a THEN [q EXCEPT !.status = st] ELSE q
<1>2. \A q \in Row : new(q).id = q.id
  BY DEF Row
<1>3. ASSUME NEW e \in AllRows'
      PROVE  \E f \in AllRows : f.row \in Row /\ e = [ws |-> f.ws, row |-> new(f.row)]
  <2>1. PICK v \in Workspaces : \E i \in DOMAIN rows'[v] : e = [ws |-> v, row |-> rows'[v][i]]
    BY <1>3, RowsNext
  <2>2. PICK i \in DOMAIN rows'[v] : e = [ws |-> v, row |-> rows'[v][i]]
    BY <2>1
  <2>3. i \in DOMAIN rows[v] /\ rows'[v][i] = new(rows[v][i])
    BY <2>2 DEF SetStatus
  <2>4. [ws |-> v, row |-> rows[v][i]] \in AllRows
    BY <2>3, RowsTogether
  <2> QED BY <1>1, <2>2, <2>3, <2>4
<1> HIDE DEF new
<1>5. ASSUME NEW e \in AllRows', NEW f \in AllRows', e.row.id = f.row.id
      PROVE  e = f
  <2>1. PICK x \in AllRows : x.row \in Row /\ e = [ws |-> x.ws, row |-> new(x.row)]
    BY <1>3
  <2>2. PICK y \in AllRows : y.row \in Row /\ f = [ws |-> y.ws, row |-> new(y.row)]
    BY <1>3
  <2>3. x.row.id = y.row.id
    BY <1>2, <1>5, <2>1, <2>2
  <2> QED BY <2>1, <2>2, <2>3 DEF IdsUnique
<1> QED BY <1>5 DEF IdsUnique

\* A destroyed workspace has no rows left; the others keep theirs.
LEMMA DestroyView ==
    ASSUME Inv, IdsUnique, NEW caller, NEW w \in Workspaces, DestroyFor(caller, w)
    PROVE  IdsUnique'
<1>1. rows' = [rows EXCEPT ![w] = <<>>] /\ rows \in [Workspaces -> Seq(Row)]
  BY DEF DestroyFor, Inv, RowInv
<1>2. ASSUME NEW e \in AllRows'
      PROVE  e \in AllRows
  <2>1. PICK v \in Workspaces : \E i \in DOMAIN rows'[v] : e = [ws |-> v, row |-> rows'[v][i]]
    BY <1>2, RowsNext
  <2>2. v # w /\ rows'[v] = rows[v]
    BY <1>1, <2>1
  <2> QED BY <2>1, <2>2, RowsTogether
<1> QED BY <1>1, <1>2, FewerRowsView

\* The rows stay as they are, whatever else changes.
LEMMA RowsStay ==
    ASSUME IdsUnique, rows' = rows
    PROVE  IdsUnique'
<1>1. AllRows' = AllRows
  BY DEF AllRows
<1> QED BY <1>1, FewerRowsView

\* Every action keeps it.
LEMMA NextView == Inv /\ IdsUnique /\ [Next]_vars => IdsUnique'
<1> SUFFICES ASSUME Inv, IdsUnique, [Next]_vars PROVE IdsUnique' OBVIOUS
<1>3. /\ \A t, a : StatusOf(t, a) \subseteq AllRows
      /\ \A a : HttpStatusOf(a) \subseteq AllRows /\ McpResolved(a) \subseteq AllRows
  BY DEF StatusOf, HttpStatusOf, McpResolved, FindAgent, Listed
<1>5. CASE \E id \in TokenIds, s \in Scopes, p \in Permissions, x \in Expiries :
              \/ \E b \in Holders : CreateToken(b, id, s, p, x)
              \/ HttpCreateToken(id, s, p, x)
              \/ McpTokenCreate(id, s, p, x)
  <2>1. rows' = rows
    BY <1>5 DEF CreateToken, HttpCreateToken, CreateTokenFor, McpTokenCreate
  <2> QED BY <2>1, RowsStay
<1>6. CASE \E id \in TokenIds, w \in Workspaces, a \in Agents, n \in Names :
              \/ \E b \in Holders : SpawnAgent(b, id, w, a, n)
              \/ HttpSpawnAgent(id, w, a, n)
              \/ \E s \in Scopes \cup {Global}, p \in Permissions : McpAgentSpawn(id, w, a, n, s, p)
  <2>1. PICK w \in Workspaces, a \in Agents, n \in Names :
              a \notin Ids /\ \E t, c : Launch(w, a, n, t, c)
    BY <1>6 DEF SpawnAgent, HttpSpawnAgent, SpawnFor, McpAgentSpawn
  <2> QED BY <2>1, LaunchView
<1>11. CASE \E w \in Workspaces, a \in Agents, n \in Names :
              \/ \E b \in Holders : CreateWorkspace(b, w, a, n)
              \/ HttpCreateWorkspace(w, a, n)
  <2>1. PICK w \in Workspaces, a \in Agents, n \in Names : \E c : CreateWorkspaceFor(c, w, a, n)
    BY <1>11 DEF CreateWorkspace, HttpCreateWorkspace
  <2> QED BY <2>1, CreateWorkspaceView
<1>7. CASE \E a, new \in Agents :
              \/ \E b \in Holders : RestartAgent(b, a, new)
              \/ HttpRestartAgent(a, new)
              \/ McpAgentRestart(a, new)
  <2>1. PICK e \in AllRows, new \in Agents :
              Replace(e, new, StoredToken(e.row.token)) \/ Replace(e, new, None)
    BY <1>7, <1>3 DEF RestartAgent, HttpRestartAgent, McpAgentRestart
  <2> QED BY <2>1, ReplaceView
<1>8. CASE \E a \in Agents :
              \/ \E b \in Holders : StopAgent(b, a)
              \/ HttpStopAgent(a)
              \/ \E s \in Reported : StatusReported(a, s)
  <2>1. PICK a \in Agents, s \in Status : SetStatus(a, s)
    BY <1>8 DEF StopAgent, HttpStopAgent, StopFor, StatusReported, Reported, Status
  <2> QED BY <2>1, StatusView
<1>9. CASE \E w \in Workspaces :
              \/ SetInactive(w) \/ SetActive(w) \/ HttpDestroyWorkspace(w)
              \/ \E b \in Holders : DestroyWorkspace(b, w)
  <2>1. PICK w \in Workspaces : \/ SetInactive(w) \/ SetActive(w)
                                \/ \E c : DestroyFor(c, w)
    BY <1>9 DEF HttpDestroyWorkspace, DestroyWorkspace
  <2>2. CASE SetInactive(w) \/ SetActive(w)
    BY <2>2, RowsStay DEF SetInactive, SetActive
  <2> QED BY <2>1, <2>2, DestroyView
<1>10. CASE DaemonRestart \/ Tick \/ UNCHANGED vars
  BY <1>10, RowsStay DEF DaemonRestart, Tick, vars
<1> QED BY <1>5, <1>6, <1>7, <1>8, <1>9, <1>10, <1>11 DEF Next

\* The rows are as they should be in every reachable state.
LEMMA ViewInvariant == Spec => [](Inv /\ IdsUnique)
<1>1. Init => IdsUnique
  BY DEF Init, IdsUnique, AllRows
<1> QED BY <1>1, InitInv, NextKeeps, NextView, PTL DEF Spec

\* Who is confined to a session sees its agents only, whatever has been spawned,
\* restarted, created and destroyed since.
THEOREM SessionsConfine == Spec => []SessionsSeeTheirOwn
<1>1. ASSUME Inv
      PROVE  SessionsSeeTheirOwn
  <2> SUFFICES ASSUME NEW t \in bearers, NEW e \in AllRows, t.permission = Session, MaySee(t, e)
               PROVE  LET spawners == {b \in bearers : b.id = e.row.spawnedBy /\ b.session # None}
                      IN  /\ t.session # None
                          /\ \/ spawners = {} /\ e.row.token = t.session
                             \/ \E b \in spawners : b.session = t.session
    BY DEF SessionsSeeTheirOwn
  <2>1. t.session # None /\ e.row.session = t.session
    BY DEF MaySee, SessionMatches
  <2>2. HasItsToken(e.row, env[e.row.id], bearers)
    BY <1>1, IdsType DEF Inv, RowInv, AgentsHoldTheirTokens
  <2>3. PICK c \in bearers : /\ c.id = e.row.token /\ c.session = t.session
                             /\ c.parent = e.row.spawnedBy
    BY <2>1, <2>2 DEF HasItsToken
  <2>4. CASE \E b \in bearers : b.id = e.row.spawnedBy /\ b.session # None
    <3>1. PICK b \in bearers : b.id = e.row.spawnedBy /\ b.session # None
      BY <2>4
    <3>2. c.session = b.session
      BY <1>1, <2>3, <3>1 DEF Inv, TokenInv, SessionsKept
    <3> QED BY <2>1, <2>3, <3>1, <3>2
  <2>5. CASE ~\E b \in bearers : b.id = e.row.spawnedBy /\ b.session # None
    <3>1. c.session = c.id
      BY <1>1, <2>1, <2>3, <2>5 DEF Inv, TokenInv, SessionsAreTrees
    <3> QED BY <2>1, <2>3, <2>5, <3>1
  <2> QED BY <2>4, <2>5
<1> QED BY <1>1, Invariant, PTL

-----------------------------------------------------------------------------
(* The search that prefers what is ready finds something, if there is         *)
(* something.                                                                 *)

\* A set of numbers has a least one.
LEMMA LeastNumber ==
    ASSUME NEW T, T \subseteq Nat, T # {}
    PROVE  \E m \in T : \A n \in T : m <= n
<1> DEFINE R == OpToRel(<, Nat)
<1>1. PICK m \in T : \A n \in T : ~(<<n, m>> \in R)
  BY NatLessThanWellFounded, WFMin
<1>2. \A n \in T : n < m => <<n, m>> \in R
  BY DEF OpToRel
<1> HIDE DEF R
<1>3. m \in Nat /\ \A n \in T : n \in Nat /\ (n >= m \/ n < m)
  OBVIOUS
<1> QED BY <1>1, <1>2, <1>3

\* Each row has a place in each order of the workspaces.
LEMMA PlaceType ==
    ASSUME Inv, NEW o \in Orders, NEW e \in AllRows
    PROVE  Place(o, e) \in Nat /\ Position(e) \in Nat
<1>1. /\ e.ws \in Workspaces /\ rows[e.ws] \in Seq(Row)
      /\ \E i \in DOMAIN rows[e.ws] : rows[e.ws][i] = e.row
  BY IdsType DEF Inv, RowInv
<1>2. DOMAIN o \subseteq Nat
  BY ProjectsAssumption, FS_CardinalityType DEF Orders
<1>3. \E k \in DOMAIN o : o[k] = e.ws
  BY <1>1 DEF Orders
<1>4. Place(o, e) \in Nat
  BY <1>2, <1>3 DEF Place
<1>5. DOMAIN rows[e.ws] \subseteq Nat
  BY <1>1
<1>6. Position(e) \in Nat
  BY <1>1, <1>5 DEF Position
<1> QED BY <1>4, <1>6

\* So some row of any comes first.
LEMMA FirstIn ==
    ASSUME Inv, NEW o \in Orders, NEW T, T \subseteq AllRows, T # {}
    PROVE  First(o, T) \in T
<1>1. PICK k \in {Place(o, e) : e \in T} : \A n \in {Place(o, e) : e \in T} : k <= n
  <2>1. {Place(o, e) : e \in T} \subseteq Nat /\ {Place(o, e) : e \in T} # {}
    BY PlaceType
  <2> QED BY <2>1, LeastNumber
<1> DEFINE U == {e \in T : Place(o, e) = k}
<1>2. U # {}
  BY <1>1
<1>3. PICK i \in {Position(e) : e \in U} : \A n \in {Position(e) : e \in U} : i <= n
  <2>1. {Position(e) : e \in U} \subseteq Nat /\ {Position(e) : e \in U} # {}
    BY <1>2, PlaceType
  <2> QED BY <2>1, LeastNumber
<1>4. PICK e \in U : Position(e) = i
  BY <1>3
<1>5. \A f \in T : NotAfter(o, e, f)
  <2> TAKE f \in T
  <2>1. Place(o, e) = k /\ k <= Place(o, f) /\ Place(o, f) \in Nat /\ k \in Nat
    BY <1>1, <1>4, PlaceType
  <2>2. CASE k < Place(o, f)
    BY <2>1, <2>2 DEF NotAfter
  <2>3. CASE k = Place(o, f)
    <3>1. i <= Position(f)
      BY <1>3, <2>3
    <3> QED BY <1>4, <2>1, <2>3, <3>1 DEF NotAfter
  <2> QED BY <2>1, <2>2, <2>3
<1> QED BY <1>4, <1>5 DEF First

\* So the search finds what it is given, or nothing.
LEMMA PreferredIn ==
    ASSUME Inv, NEW o \in Orders, NEW T, T \subseteq AllRows
    PROVE  Preferred(o, T) \in T \cup {None}
<1>1. CASE T = {}
  BY <1>1 DEF Preferred
<1>2. CASE T # {}
  <2> DEFINE S == {e \in T : e.row.status = "ready"}
  <2>1. S # {} => First(o, S) \in S
    BY FirstIn
  <2>2. First(o, T) \in T
    BY <1>2, FirstIn
  <2> QED BY <1>2, <2>1, <2>2 DEF Preferred
<1> QED BY <1>1, <1>2

\* Whatever the identifier, an agent is found or none.
LEMMA ResolvedIn ==
    ASSUME Inv, NEW o \in Orders, NEW i \in Identifier
    PROVE  ResolveFlexible(o, i) \in AllRows \cup {None}
<1>1. \A n : Named(n) \subseteq AllRows
  BY DEF Named
<1>2. CASE i.kind = "id"
  BY <1>2 DEF ResolveFlexible, FindAgent
<1>3. CASE i.kind = "path"
  <2> DEFINE S == {e \in Named(i.name) : e.ws = i.ws}
  <2>1. Preferred(o, S) \in AllRows \cup {None}
    BY <1>1, PreferredIn
  <2> QED BY <1>3, <2>1 DEF ResolveFlexible, FindByWsName
<1>4. CASE i.kind = "name"
  BY <1>1, <1>4, PreferredIn DEF ResolveFlexible, FindByName
<1> QED BY <1>2, <1>3, <1>4 DEF Identifier

-----------------------------------------------------------------------------
(* The views.                                                                 *)

\* The localhost caller sees all.
LEMMA LocalhostSees == \A e : MaySee(LocalhostAdmin, e)
  BY DEF MaySee, ScopeIncludes, SessionMatches, LocalhostAdmin, Global, Admin, Session

\* Who has an agent's id has the agent.
LEMMA IdFinds ==
    ASSUME IdsUnique, NEW e \in AllRows
    PROVE  FindAgent(e.row.id) = {e}
  BY DEF IdsUnique, FindAgent

\* No agent is none.
LEMMA NoneIsNoRow ==
    ASSUME Inv
    PROVE  None \notin AllRows
<1>1. \A w \in Workspaces : \A i \in DOMAIN rows[w] : rows[w][i] \in Row
  BY DEF Inv, RowInv
<1>2. AllRows \subseteq [ws : Workspaces, row : Row]
  BY <1>1 DEF AllRows
<1> QED BY <1>2, RowsAssumption

\* An id that is resolved is resolved to its agent, unless that is ending.
LEMMA IdResolves ==
    ASSUME IdsUnique, NEW o, NEW a
    PROVE  LET e == ResolveFlexible(o, [kind |-> "id", id |-> a])
           IN  /\ e # None => e \in FindAgent(a)
               /\ \A f \in FindAgent(a) : ~Ending(f.row) => e = f
<1> DEFINE S == {f \in FindAgent(a) : ~Ending(f.row)}
           i == [kind |-> "id", id |-> a]
<1>1. i.kind = "id" /\ i.id = a
  OBVIOUS
<1>2. ResolveFlexible(o, i) = IF \E f \in FindAgent(a) : ~Ending(f.row)
                              THEN CHOOSE f \in FindAgent(a) : ~Ending(f.row)
                              ELSE None
  BY <1>1 DEF ResolveFlexible
<1>3. \A f, g \in FindAgent(a) : f = g
  BY DEF IdsUnique, FindAgent
<1> QED BY <1>2, <1>3

\* What a token lists, discovers, reaches and asks after is one and the same.
LEMMA TokenViews ==
    ASSUME Inv, IdsUnique, NEW t
    PROVE  LET listed == Listed(t)
               found == Discovered(t)
           IN  /\ ProxyListed(t) = found /\ ProxyDiscovered(t, None) = found
               /\ \A st \in Status : ProxyDiscovered(t, st) \subseteq listed
               /\ found \subseteq HttpDiscovered \cap McpDiscovered
               /\ listed \subseteq HttpListed \cap McpListed
               /\ \A e \in found : StatusOf(t, e.row.id) = {e} /\ e.ws \in ListedWorkspaces(t)
               /\ \A o \in Orders :
                     /\ \A e \in found : TaskGiven(o, t, [kind |-> "id", id |-> e.row.id]) = e
                     /\ \A i \in Identifier :
                           LET e == TaskAsked(o, t, i)
                           IN  e \in listed \cup {None} /\ Messaged(o, t, i) \in {e, None}
<1>1. ProxyListed(t) = Discovered(t) /\ ProxyDiscovered(t, None) = Discovered(t)
  BY DEF ProxyListed, ProxyDiscovered, Discovered, Listed
<1>2. \A st \in Status : ProxyDiscovered(t, st) \subseteq Listed(t)
  BY DEF ProxyDiscovered, Listed
<1>3. Discovered(t) \subseteq HttpDiscovered \cap McpDiscovered /\ Listed(t) \subseteq HttpListed \cap McpListed
  BY LocalhostSees DEF Discovered, HttpDiscovered, McpDiscovered, Listed, HttpListed, McpListed
<1>4. ASSUME NEW e \in Discovered(t)
      PROVE  /\ e \in AllRows /\ e \in Listed(t) /\ MaySee(t, e)
             /\ Serving(e.row) /\ ~Ending(e.row)
             /\ FindAgent(e.row.id) = {e} /\ e # None
             /\ e.ws \in ListedWorkspaces(t)
  <2>1. e \in AllRows /\ MaySee(t, e) /\ Active(e.ws) /\ Serving(e.row) /\ e.ws \in Workspaces
    BY IdsType DEF Discovered, Listed, Inv
  <2>2. ~Ending(e.row)
    BY <2>1 DEF Serving, Ending
  <2>3. e.ws \in ListedWorkspaces(t)
    BY <2>1 DEF ListedWorkspaces, Active, Exists, MaySee
  <2> QED BY <2>1, <2>2, <2>3, IdFinds, NoneIsNoRow DEF Discovered
<1>5. \A e \in Discovered(t) : StatusOf(t, e.row.id) = {e} /\ e.ws \in ListedWorkspaces(t)
  BY <1>4 DEF StatusOf
<1>6. ASSUME NEW o \in Orders, NEW e \in Discovered(t)
      PROVE  TaskGiven(o, t, [kind |-> "id", id |-> e.row.id]) = e
  <2> DEFINE i == [kind |-> "id", id |-> e.row.id]
  <2>1. ResolveFlexible(o, i) = e
    BY <1>4, IdResolves
  <2> HIDE DEF i
  <2>2. Proxied(o, t, i) = e
    BY <1>4, <2>1 DEF Proxied
  <2> QED BY <1>4, <2>2 DEF TaskGiven, Messaged, i
<1>7. ASSUME NEW o \in Orders, NEW i \in Identifier
      PROVE  /\ TaskAsked(o, t, i) \in Listed(t) \cup {None}
             /\ Messaged(o, t, i) \in {TaskAsked(o, t, i), None}
  <2>1. ResolveFlexible(o, i) \in AllRows \cup {None}
    BY ResolvedIn
  <2> QED BY <2>1 DEF TaskAsked, Proxied, Messaged, Listed
<1> QED BY <1>1, <1>2, <1>3, <1>5, <1>6, <1>7

\* By the MCP tools, and by the HTTP bridge, an id is the same agent.
LEMMA McpViews ==
    ASSUME IdsUnique, NEW a \in Agents
    PROVE  LET reached == McpTaskAsked(a)
           IN  /\ ReadsResource("agent", a) <=> <<"agent", a>> \in Resources
               /\ (reached # {} => ReadsResource("agent", a))
               /\ HttpStatusOf(a) = reached /\ McpMessaged(a) = reached /\ McpTaskGiven(a) = reached
               /\ \A o \in Orders :
                     LET i == [kind |-> "id", id |-> a]
                     IN  {HttpMessaged(o, i), HttpTaskGiven(o, i), HttpTaskAsked(o, i)}
                            \subseteq reached \cup {None}
<1>1. /\ McpTaskAsked(a) = FindAgent(a) /\ McpMessaged(a) = FindAgent(a) /\ McpTaskGiven(a) = FindAgent(a)
      /\ HttpStatusOf(a) = FindAgent(a)
  BY LocalhostSees DEF McpTaskAsked, McpMessaged, McpTaskGiven, McpResolved, HttpStatusOf,
                       StatusOf, FindAgent, Listed
<1>2. ReadsResource("agent", a) <=> FindAgent(a) # {}
  BY DEF ReadsResource
<1>3. <<"agent", a>> \in Resources <=> FindAgent(a) # {}
  <2>1. <<"agent", a>> \in Resources <=> a \in Ids
    BY DEF Resources
  <2> QED BY <2>1 DEF Ids, FindAgent
<1>4. ASSUME NEW o \in Orders
      PROVE  LET i == [kind |-> "id", id |-> a]
             IN  {HttpMessaged(o, i), HttpTaskGiven(o, i), HttpTaskAsked(o, i)}
                    \subseteq FindAgent(a) \cup {None}
  <2> DEFINE i == [kind |-> "id", id |-> a]
  <2>1. ResolveFlexible(o, i) \in FindAgent(a) \cup {None}
    BY IdResolves
  <2> HIDE DEF i
  <2>2. \A t : Proxied(o, t, i) \in FindAgent(a) \cup {None}
    BY <2>1 DEF Proxied
  <2>3. \A t : Messaged(o, t, i) \in FindAgent(a) \cup {None}
    BY <2>2 DEF Messaged
  <2>4. {HttpMessaged(o, i), HttpTaskGiven(o, i), HttpTaskAsked(o, i)} \subseteq FindAgent(a) \cup {None}
    BY <2>2, <2>3 DEF HttpMessaged, HttpTaskGiven, HttpTaskAsked, TaskGiven, TaskAsked
  <2> QED BY <2>4 DEF i
<1> QED BY <1>1, <1>2, <1>3, <1>4

\* The workspaces: the tools of the MCP server, the HTTP bridge, the resources.
LEMMA WorkspaceViews ==
    ASSUME NEW w \in Workspaces
    PROVE  /\ McpHasWorkspace(w) <=> w \in HttpListedWorkspaces
           /\ ReadsResource("workspace", w) <=> <<"workspace", w>> \in Resources
<1>1. McpHasWorkspace(w) <=> w \in HttpListedWorkspaces
  BY DEF McpHasWorkspace, McpListedWorkspaces, HttpListedWorkspaces, LocalhostAdmin, Admin, Session
<1>2. ReadsResource("workspace", w) <=> <<"workspace", w>> \in Resources
  BY DEF ReadsResource, Resources
<1> QED BY <1>1, <1>2

\* The handlers of the three protocols and the proxy agree on who is there,
\* who is discovered and who is reached: however the ids have moved by restarts,
\* and in whatever order the workspaces were loaded.
THEOREM ViewsAlwaysAgree == Spec => []ViewsAgree
<1>1. Inv /\ IdsUnique => ViewsAgree
  BY TokenViews, McpViews, WorkspaceViews DEF ViewsAgree
<1> QED BY <1>1, ViewInvariant, PTL
=============================================================================
