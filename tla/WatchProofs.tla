----------------------------- MODULE WatchProofs -----------------------------
(***************************************************************************)
(* A client that has read all there is sees every agent as its row is, or  *)
(* as its task is where the row could not be read.                         *)
(* The proof follows one status on its way to the client: what the watch   *)
(* is to tell is either still announced by an unread broadcast, or waits   *)
(* in the snapshot or in the hand of the watch, or is the last that the    *)
(* stream has of the agent, or is what the client has read.                *)
(***************************************************************************)
EXTENDS Watch, TLAPS

\* A client with view v that reads the stream st to its end then sees s.
LastIs(st, v, a, s) ==
    \/ \E i \in 1 .. Len(st) : /\ st[i] = [agent |-> a, status |-> s]
                               /\ \A j \in (i + 1) .. Len(st) : st[j].agent # a
    \/ v[a] = s /\ \A i \in 1 .. Len(st) : st[i].agent # a

\* ... with what the watch has in its hand.
Seen(k, a, s) ==
    IF k.hand # None /\ k.hand.agent = a THEN k.hand.status = s
    ELSE LastIs(k.stream, k.view, a, s)

\* ... and with what it is still to send of its snapshot.
WillSee(k, a, s) ==
    IF \E e \in k.snapshot : e.agent = a
    THEN [agent |-> a, status |-> s] \in k.snapshot
    ELSE Seen(k, a, s)

\* What a watch has to tell of an agent: the row, or what was broadcast last.
Truth(k, a) == IF a \in k.blind THEN task[a] ELSE row[a]

\* The row is what the last broadcast was about.
Settled(a) == HasRow(a) /\ ~silent[a] /\ due[a] = None
Announced(k, a) == \E i \in 1 .. Len(k.unread) : k.unread[i].agent = a

\* What a watch holds where it is.
Shape(k) ==
    /\ k.at = "idle" => k = Fresh
    /\ k.at \notin {"idle", "gone"} => k.target \in Agents \cup {Workspace}
    /\ k.at # "forwarding" => k.hand = None
    /\ k.at \in {"forwarding", "closed"} => k.snapshot = {}
    /\ k.at = "loaded" => k.unread = <<>> /\ k.stream = <<>>
    /\ k.lags => k.unread # <<>>
    /\ k.at = "closed" => k.last
    /\ k.last => k.at = "closed" \/ k.hand # None
    /\ \A e, f \in k.snapshot : e.agent = f.agent => e = f

\* A broadcast "stopped" is the last of its agent.
StopIsLast(k) ==
    \A i \in 1 .. Len(k.unread) :
        k.unread[i].status = "stopped" => /\ task[k.unread[i].agent] = "stopped"
                                          /\ due[k.unread[i].agent] = None

\* The newest broadcast of an agent is the status its task took last.
Latest(k) ==
    k.at \in {"sending", "forwarding"} =>
        \A i \in 1 .. Len(k.unread) :
            /\ due[k.unread[i].agent] = None
            /\ \A j \in (i + 1) .. Len(k.unread) : k.unread[j].agent # k.unread[i].agent
            => k.unread[i].status = task[k.unread[i].agent]

\* A watch that ends has the row as the agent left it.
Ended(k) ==
    k.last => /\ k.target \in Agents
              /\ task[k.target] = "stopped" /\ due[k.target] = None
              /\ Settled(k.target) => Seen(k, k.target, Truth(k, k.target))

\* A watch that misses no broadcast is told of the row, or will be.
Follow(k) ==
    k.at \in {"loaded", "sending", "forwarding"} /\ ~k.missed /\ ~k.lags =>
        \A a \in Agents : Concerns(k.target, a) /\ Settled(a) =>
            Announced(k, a) \/ WillSee(k, a, Truth(k, a))

Bounded(k) == Len(k.stream) <= StreamCap /\ Len(k.unread) <= BroadcastCap

Good(k) == Shape(k) /\ Bounded(k) /\ StopIsLast(k) /\ Latest(k) /\ Ended(k) /\ Follow(k)

TaskOwes == \A a \in Agents : due[a] # None => due[a] = task[a]

Inv == TypeOK /\ TaskOwes /\ \A w \in Watchers : Good(watch[w])

-----------------------------------------------------------------------------
(***************************************************************************)
(* The stream.                                                             *)
(***************************************************************************)
\* What is put into the stream is what is seen at its end.
LEMMA AppendedLast ==
    ASSUME NEW st \in Seq(Event), NEW v, NEW e \in Event
    PROVE  LastIs(Append(st, e), v, e.agent, e.status)
<1>1. Append(st, e)[Len(st) + 1] = e /\ Len(Append(st, e)) = Len(st) + 1
  OBVIOUS
<1>2. e = [agent |-> e.agent, status |-> e.status]
  BY DEF Event
<1>3. Len(st) \in Nat
  OBVIOUS
<1>4. Len(st) + 1 \in 1 .. Len(Append(st, e))
  BY <1>1, <1>3
<1>5. \A j \in (Len(st) + 2) .. Len(Append(st, e)) : FALSE
  BY <1>1, <1>3
<1> QED BY <1>1, <1>2, <1>3, <1>4, <1>5 DEF LastIs

\* What is put into the stream of one agent leaves the others as they are.
LEMMA AppendedOther ==
    ASSUME NEW st \in Seq(Event), NEW v, NEW e \in Event, NEW a \in Agents, NEW s,
           e.agent # a, LastIs(st, v, a, s)
    PROVE  LastIs(Append(st, e), v, a, s)
<1>1. /\ Len(st) \in Nat /\ Len(Append(st, e)) = Len(st) + 1
      /\ Append(st, e)[Len(st) + 1] = e
      /\ \A i \in 1 .. Len(st) : Append(st, e)[i] = st[i]
  OBVIOUS
<1>2. CASE v[a] = s /\ \A i \in 1 .. Len(st) : st[i].agent # a
  BY <1>1, <1>2 DEF LastIs
<1>3. ASSUME NEW i \in 1 .. Len(st), st[i] = [agent |-> a, status |-> s],
             \A j \in (i + 1) .. Len(st) : st[j].agent # a
      PROVE  LastIs(Append(st, e), v, a, s)
  <2>1. i \in 1 .. Len(Append(st, e)) /\ Append(st, e)[i] = [agent |-> a, status |-> s]
    BY <1>1, <1>3
  <2>2. \A j \in (i + 1) .. Len(Append(st, e)) : Append(st, e)[j].agent # a
    <3> TAKE j \in (i + 1) .. Len(Append(st, e))
    <3>1. CASE j = Len(st) + 1
      BY <1>1, <3>1
    <3>2. CASE j # Len(st) + 1
      BY <1>1, <1>3, <3>2
    <3> QED BY <3>1, <3>2
  <2> QED BY <2>1, <2>2 DEF LastIs
<1> QED BY <1>2, <1>3 DEF LastIs

\* The client that reads an event still ends where it would have ended.
LEMMA ReadHead ==
    ASSUME NEW st \in Seq(Event), NEW v \in [Agents -> Status \cup {None}],
           NEW a \in Agents, NEW s, st # <<>>, LastIs(st, v, a, s)
    PROVE  LastIs(Tail(st), [v EXCEPT ![Head(st).agent] = Head(st).status], a, s)
<1> DEFINE u == [v EXCEPT ![Head(st).agent] = Head(st).status]
<1>1. /\ Len(st) \in Nat /\ Len(st) # 0 /\ Len(Tail(st)) = Len(st) - 1
      /\ Head(st) = st[1] /\ st[1] \in Event
      /\ \A i \in 1 .. Len(Tail(st)) : Tail(st)[i] = st[i + 1]
  OBVIOUS
<1>2. CASE v[a] = s /\ \A i \in 1 .. Len(st) : st[i].agent # a
  <2>1. u[a] = s
    BY <1>1, <1>2 DEF Event
  <2>2. \A i \in 1 .. Len(Tail(st)) : Tail(st)[i].agent # a
    BY <1>1, <1>2
  <2> QED BY <2>1, <2>2 DEF LastIs
<1>3. ASSUME NEW i \in 1 .. Len(st), st[i] = [agent |-> a, status |-> s],
             \A j \in (i + 1) .. Len(st) : st[j].agent # a
      PROVE  LastIs(Tail(st), u, a, s)
  <2>1. CASE i = 1
    <3>1. u[a] = s
      BY <1>1, <1>3, <2>1
    <3>2. \A j \in 1 .. Len(Tail(st)) : Tail(st)[j].agent # a
      BY <1>1, <1>3, <2>1
    <3> QED BY <3>1, <3>2 DEF LastIs
  <2>2. CASE i # 1
    <3>1. i - 1 \in 1 .. Len(Tail(st)) /\ Tail(st)[i - 1] = [agent |-> a, status |-> s]
      BY <1>1, <1>3, <2>2
    <3>2. \A j \in ((i - 1) + 1) .. Len(Tail(st)) : Tail(st)[j].agent # a
      BY <1>1, <1>3, <2>2
    <3> QED BY <3>1, <3>2 DEF LastIs
  <2> QED BY <2>1, <2>2
<1> QED BY <1>2, <1>3 DEF LastIs

\* ... and of what a channel holds unread.
LEMMA AnnouncedAppend ==
    ASSUME NEW k, NEW l, NEW e \in Event, NEW a,
           k.unread \in Seq(Event), l.unread = Append(k.unread, e)
    PROVE  /\ Announced(k, a) => Announced(l, a)
           /\ Announced(l, e.agent)
<1>1. /\ Len(k.unread) \in Nat /\ Len(l.unread) = Len(k.unread) + 1
      /\ l.unread[Len(k.unread) + 1] = e
      /\ \A i \in 1 .. Len(k.unread) : l.unread[i] = k.unread[i]
  OBVIOUS
<1> QED BY <1>1 DEF Announced

\* When an event of another agent is taken off, what was announced still is.
LEMMA AnnouncedTail ==
    ASSUME NEW k, NEW l, NEW a,
           k.unread \in Seq(Event), k.unread # <<>>, l.unread = Tail(k.unread),
           Announced(k, a), Head(k.unread).agent # a
    PROVE  Announced(l, a)
<1>1. /\ Len(k.unread) \in Nat /\ Len(l.unread) = Len(k.unread) - 1
      /\ Head(k.unread) = k.unread[1]
      /\ \A i \in 1 .. Len(l.unread) : l.unread[i] = k.unread[i + 1]
  OBVIOUS
<1>2. PICK i \in 1 .. Len(k.unread) : k.unread[i].agent = a
  BY DEF Announced
<1>3. i - 1 \in 1 .. Len(l.unread) /\ l.unread[i - 1] = k.unread[i]
  BY <1>1, <1>2
<1> QED BY <1>2, <1>3 DEF Announced

\* The newest of an agent is still the newest.
LEMMA LatestTail ==
    ASSUME NEW k, NEW l, k.unread \in Seq(Event), k.unread # <<>>, l.unread = Tail(k.unread),
           l.at = k.at, Latest(k)
    PROVE  Latest(l)
<1>1. /\ Len(k.unread) \in Nat /\ Len(l.unread) = Len(k.unread) - 1
      /\ \A i \in 1 .. Len(l.unread) : l.unread[i] = k.unread[i + 1]
  OBVIOUS
<1>2. ASSUME NEW i \in 1 .. Len(l.unread),
             \A j \in (i + 1) .. Len(l.unread) : l.unread[j].agent # l.unread[i].agent
      PROVE  /\ i + 1 \in 1 .. Len(k.unread)
             /\ \A j \in (i + 1 + 1) .. Len(k.unread) : k.unread[j].agent # k.unread[i + 1].agent
  <2>1. \A j \in (i + 1 + 1) .. Len(k.unread) :
            j - 1 \in (i + 1) .. Len(l.unread) /\ l.unread[j - 1] = k.unread[j]
    BY <1>1
  <2> QED BY <1>1, <1>2, <2>1
<1> QED BY <1>1, <1>2 DEF Latest

\* What is still unread of a channel was unread before.
LEMMA StopTail ==
    ASSUME NEW k, NEW l,
           k.unread \in Seq(Event), k.unread # <<>>, l.unread = Tail(k.unread), StopIsLast(k)
    PROVE  StopIsLast(l)
<1>1. /\ Len(k.unread) \in Nat /\ Len(l.unread) = Len(k.unread) - 1
      /\ \A i \in 1 .. Len(l.unread) : l.unread[i] = k.unread[i + 1]
  OBVIOUS
<1>2. \A i \in 1 .. Len(l.unread) : i + 1 \in 1 .. Len(k.unread)
  BY <1>1
<1> QED BY <1>1, <1>2 DEF StopIsLast

-----------------------------------------------------------------------------
(***************************************************************************)
(* A watch.                                                                *)
(***************************************************************************)
\* A step of one watch is about that watch.
LEMMA WatchInv ==
    ASSUME Inv, NEW w \in Watchers, NEW k \in Watch, Become(w, k), Good(k)
    PROVE  Inv'
<1>1. watch' = [watch EXCEPT ![w] = k] /\ UNCHANGED <<task, due, row, silent>>
  BY DEF Become, reportVars
<1>2. watch' \in [Watchers -> Watch]
  BY <1>1 DEF Inv, TypeOK, ReportsTypeOK
<1>3. \A x \in Watchers : watch'[x] = IF x = w THEN k ELSE watch[x]
  BY <1>1 DEF Inv, TypeOK, ReportsTypeOK
<1>4. \A x \in Watchers : Good(watch'[x])
  BY <1>3 DEF Inv
<1>5. \A x : Good(x)' <=> Good(x)'
  OBVIOUS
<1>6. \A x \in Watchers : Good(watch[x])'
  BY <1>1, <1>4 DEF Good, Shape, Bounded, StopIsLast, Latest, Ended, Follow, Settled, Truth, HasRow
<1>7. TypeOK'
  BY <1>1, <1>2, <1>3, <1>4 DEF Inv, TypeOK, ReportsTypeOK, Good, Bounded
<1>8. TaskOwes'
  BY <1>1 DEF Inv, TaskOwes
<1> QED BY <1>6, <1>7, <1>8 DEF Inv

\* A watch that has not begun is a watch.
LEMMA FreshWatch == Fresh \in Watch
BY DEF Fresh, Watch

\* What is told of an agent is its row.
LEMMA RowsAre ==
    ASSUME TypeOK
    PROVE  /\ Rows \subseteq Event
           /\ \A e \in Rows : HasRow(e.agent) /\ e.status = row[e.agent]
           /\ \A a \in Agents : HasRow(a) => [agent |-> a, status |-> row[a]] \in Rows
<1>1. \A a \in Agents : HasRow(a) => [agent |-> a, status |-> row[a]] \in Event
  BY DEF TypeOK, ReportsTypeOK, HasRow, Event
<1>2. \A e \in Rows : \E a \in Agents : HasRow(a) /\ e = [agent |-> a, status |-> row[a]]
  BY DEF Rows
<1>3. \A a \in Agents : HasRow(a) => [agent |-> a, status |-> row[a]] \in Rows
  BY DEF Rows
<1> QED BY <1>1, <1>2, <1>3

\* The first answer of a watch is what the rows say.
LEMMA LoadInv ==
    ASSUME Inv, NEW w \in Watchers, watch[w].at = "idle",
           NEW target \in Agents \cup {Workspace}, NEW snapshot \in SUBSET Rows,
           \A e \in Rows : Concerns(target, e.agent) => e \in snapshot,
           Become(w, [watch[w] EXCEPT !.at = "loaded", !.target = target,
                                      !.snapshot = snapshot])
    PROVE  Inv'
<1> DEFINE k == [watch[w] EXCEPT !.at = "loaded", !.target = target, !.snapshot = snapshot]
<1>1. watch[w] = Fresh
  BY DEF Inv, Good, Shape
<1>2. k = [at |-> "loaded", target |-> target, snapshot |-> snapshot,
           unread |-> <<>>, lags |-> FALSE, hand |-> None, last |-> FALSE,
           stream |-> <<>>, view |-> [a \in Agents |-> None], missed |-> FALSE, blind |-> {}]
  <2>1. k = [Fresh EXCEPT !.at = "loaded", !.target = target, !.snapshot = snapshot]
    BY <1>1
  <2> HIDE DEF k
  <2> QED BY <2>1 DEF Fresh
<1>3. TypeOK /\ Become(w, k)
  BY DEF Inv
<1> HIDE DEF k
<1>4. k \in Watch
  BY <1>2, <1>3, RowsAre DEF Watch
<1>5. Shape(k)
  BY <1>2, <1>3, RowsAre DEF Shape, Event
<1>6. Bounded(k) /\ StopIsLast(k) /\ Latest(k) /\ Ended(k)
  BY <1>2, CapsAssumption DEF Bounded, StopIsLast, Latest, Ended
<1>7. Follow(k)
  BY <1>2, <1>3, RowsAre DEF Follow, WillSee, Settled, Truth
<1> QED BY <1>3, <1>4, <1>5, <1>6, <1>7, WatchInv DEF Good

\* watch_agent begins with what the row says.
LEMMA WatchAgentInv ==
    ASSUME Inv, NEW w \in Watchers, NEW a \in Agents, WatchAgent(w, a)
    PROVE  Inv'
<1> DEFINE snapshot == {e \in Rows : e.agent = a}
<1>1. /\ snapshot \in SUBSET Rows
      /\ \A e \in Rows : Concerns(a, e.agent) => e \in snapshot
  BY WorkspaceAssumption, RowsAre DEF Concerns, Inv, Event
<1>2. watch[w].at = "idle" /\ Become(w, [watch[w] EXCEPT !.at = "loaded", !.target = a,
                                                         !.snapshot = snapshot])
  BY DEF WatchAgent
<1> HIDE DEF snapshot
<1> QED BY <1>1, <1>2, LoadInv

\* watch_workspace begins with the snapshot of the rows.
LEMMA WatchWorkspaceInv ==
    ASSUME Inv, NEW w \in Watchers, WatchWorkspace(w)
    PROVE  Inv'
BY LoadInv DEF WatchWorkspace

\* The initial events are on their way.
LEMMA SubscribeInv ==
    ASSUME Inv, NEW w \in Watchers, Subscribe(w)
    PROVE  Inv'
<1> DEFINE k == watch[w]
           l == [k EXCEPT !.at = "sending"]
<1>1. k \in Watch /\ Good(k) /\ k.at = "loaded" /\ Become(w, l)
  BY DEF Inv, TypeOK, ReportsTypeOK, Subscribe
<1> HIDE DEF k
<1>2. /\ l \in Watch /\ l.at = "sending" /\ l.target = k.target /\ l.snapshot = k.snapshot
      /\ l.unread = k.unread /\ l.lags = k.lags /\ l.hand = k.hand /\ l.last = k.last
      /\ l.stream = k.stream /\ l.view = k.view /\ l.missed = k.missed /\ l.blind = k.blind
  BY <1>1 DEF Watch
<1> HIDE DEF l
<1>3. Shape(l) /\ Bounded(l) /\ StopIsLast(l) /\ Latest(l) /\ Ended(l)
  BY <1>1, <1>2 DEF Good, Shape, Bounded, StopIsLast, Latest, Ended
<1>4. Follow(l)
  BY <1>1, <1>2 DEF Good, Follow, Announced, WillSee, Seen, Truth
<1> QED BY <1>1, <1>2, <1>3, <1>4, WatchInv DEF Good

\* An event goes from the snapshot to the end of the stream.
LEMMA SendInitialInv ==
    ASSUME Inv, NEW w \in Watchers, SendInitial(w)
    PROVE  Inv'
<1> DEFINE k == watch[w]
<1>1. PICK e \in k.snapshot :
          Become(w, [k EXCEPT !.snapshot = @ \ {e}, !.stream = Append(@, e)])
  BY DEF SendInitial
<1> DEFINE l == [k EXCEPT !.snapshot = @ \ {e}, !.stream = Append(@, e)]
<1>2. /\ k \in Watch /\ Good(k) /\ k.at = "sending" /\ Len(k.stream) < StreamCap
      /\ Become(w, l)
  BY <1>1 DEF Inv, TypeOK, ReportsTypeOK, SendInitial, Room
<1> HIDE DEF k
<1>3. /\ k.stream \in Seq(Event) /\ k.snapshot \subseteq Event /\ e \in Event
      /\ Append(k.stream, e) \in Seq(Event)
  BY <1>1, <1>2 DEF Watch
<1>4. /\ l \in Watch /\ l.at = "sending" /\ l.target = k.target /\ l.snapshot = k.snapshot \ {e}
      /\ l.unread = k.unread /\ l.lags = k.lags /\ l.hand = k.hand /\ l.last = k.last
      /\ l.stream = Append(k.stream, e) /\ l.view = k.view /\ l.missed = k.missed /\ l.blind = k.blind
  BY <1>2, <1>3 DEF Watch
<1> HIDE DEF l
<1>5. l.hand = None /\ ~l.last
  BY <1>2, <1>4 DEF Good, Shape
<1>6. Shape(l) /\ StopIsLast(l) /\ Latest(l) /\ Ended(l)
  BY <1>2, <1>4, <1>5 DEF Good, Shape, StopIsLast, Latest, Ended
<1>7. Bounded(l)
  BY <1>2, <1>3, <1>4, CapsAssumption DEF Good, Bounded
<1>8. Follow(l)
  <2> SUFFICES ASSUME NEW a \in Agents, ~l.missed, ~l.lags, Concerns(l.target, a),
                      Settled(a), ~Announced(l, a)
               PROVE  WillSee(l, a, Truth(k, a))
    BY <1>4 DEF Follow, Truth
  <2>1. WillSee(k, a, Truth(k, a))
    BY <1>2, <1>4 DEF Good, Follow, Announced
  <2>2. CASE e.agent = a
    <3>1. e = [agent |-> a, status |-> Truth(k, a)]
      <4> DEFINE f == [agent |-> a, status |-> Truth(k, a)]
      <4>1. f \in k.snapshot /\ f.agent = e.agent
        BY <1>1, <2>1, <2>2 DEF WillSee
      <4> HIDE DEF f
      <4>2. e = f
        BY <1>1, <1>2, <4>1 DEF Good, Shape
      <4> QED BY <4>2 DEF f
    <3>2. \A f \in l.snapshot : f.agent # a
      BY <1>1, <1>2, <1>4, <2>2 DEF Good, Shape
    <3>3. LastIs(l.stream, l.view, a, Truth(k, a))
      <4>1. LastIs(l.stream, l.view, e.agent, e.status)
        BY <1>3, <1>4, AppendedLast
      <4> QED BY <2>2, <3>1, <4>1
    <3> QED BY <1>5, <3>2, <3>3 DEF WillSee, Seen
  <2>3. CASE e.agent # a
    <3>1. CASE \E f \in k.snapshot : f.agent = a
      BY <1>4, <2>1, <2>3, <3>1 DEF WillSee
    <3>2. CASE ~\E f \in k.snapshot : f.agent = a
      <4>1. LastIs(k.stream, k.view, a, Truth(k, a))
        BY <1>4, <1>5, <2>1, <3>2 DEF WillSee, Seen
      <4>2. LastIs(l.stream, l.view, a, Truth(k, a))
        BY <1>3, <1>4, <2>3, <4>1, AppendedOther
      <4> QED BY <1>4, <1>5, <3>2, <4>2 DEF WillSee, Seen
    <3> QED BY <3>1, <3>2
  <2> QED BY <2>2, <2>3
<1> QED BY <1>2, <1>4, <1>6, <1>7, <1>8, WatchInv DEF Good

\* The request is answered with the stream.
LEMMA AnswerInv ==
    ASSUME Inv, NEW w \in Watchers, Answer(w)
    PROVE  Inv'
<1> DEFINE k == watch[w]
           l == [k EXCEPT !.at = "forwarding"]
<1>1. k \in Watch /\ Good(k) /\ k.at = "sending" /\ k.snapshot = {} /\ Become(w, l)
  BY DEF Inv, TypeOK, ReportsTypeOK, Answer
<1> HIDE DEF k
<1>2. /\ l \in Watch /\ l.at = "forwarding" /\ l.target = k.target /\ l.snapshot = k.snapshot
      /\ l.unread = k.unread /\ l.lags = k.lags /\ l.hand = k.hand /\ l.last = k.last
      /\ l.stream = k.stream /\ l.view = k.view /\ l.missed = k.missed /\ l.blind = k.blind
  BY <1>1 DEF Watch
<1> HIDE DEF l
<1>3. Shape(l) /\ Bounded(l) /\ StopIsLast(l) /\ Latest(l) /\ Ended(l)
  BY <1>1, <1>2 DEF Good, Shape, Bounded, StopIsLast, Latest, Ended
<1>4. Follow(l)
  BY <1>1, <1>2 DEF Good, Follow, Announced, WillSee, Seen, Truth
<1> QED BY <1>1, <1>2, <1>3, <1>4, WatchInv DEF Good

\* A watch that lags has missed something, and goes on.
LEMMA LaggedInv ==
    ASSUME Inv, NEW w \in Watchers, watch[w].at = "forwarding", watch[w].hand = None,
           Become(w, Lagged(watch[w]))
    PROVE  Inv'
<1> DEFINE k == watch[w]
           l == [k EXCEPT !.lags = FALSE, !.missed = TRUE]
<1>1. k \in Watch /\ Good(k) /\ k.at = "forwarding" /\ k.hand = None /\ Become(w, l)
  BY DEF Inv, TypeOK, ReportsTypeOK, Lagged
<1> HIDE DEF k
<1>2. /\ l \in Watch /\ l.at = k.at /\ l.target = k.target /\ l.snapshot = k.snapshot
      /\ l.unread = k.unread /\ ~l.lags /\ l.hand = k.hand /\ l.last = k.last
      /\ l.stream = k.stream /\ l.view = k.view /\ l.missed /\ l.blind = k.blind
  BY <1>1 DEF Watch
<1> HIDE DEF l
<1>3. Good(l)
  BY <1>1, <1>2 DEF Good, Shape, Bounded, StopIsLast, Latest, Ended, Follow, Seen, Truth
<1> QED BY <1>1, <1>2, <1>3, WatchInv

\* A broadcast of another agent is left out.
LEMMA SkipInv ==
    ASSUME Inv, NEW w \in Watchers, watch[w].at = "forwarding", watch[w].hand = None,
           watch[w].unread # <<>>, ~watch[w].lags,
           ~Concerns(watch[w].target, Head(watch[w].unread).agent),
           Become(w, [watch[w] EXCEPT !.unread = Tail(watch[w].unread)])
    PROVE  Inv'
<1> DEFINE k == watch[w]
           l == [k EXCEPT !.unread = Tail(k.unread)]
<1>1. /\ k \in Watch /\ Good(k) /\ k.at = "forwarding" /\ k.hand = None
      /\ k.unread # <<>> /\ ~k.lags /\ ~Concerns(k.target, Head(k.unread).agent)
      /\ Become(w, l)
  BY DEF Inv, TypeOK, ReportsTypeOK
<1> HIDE DEF k
<1>2. /\ k.unread \in Seq(Event) /\ Tail(k.unread) \in Seq(Event)
      /\ Len(Tail(k.unread)) <= Len(k.unread) /\ Len(k.unread) \in Nat
      /\ Len(Tail(k.unread)) \in Nat
  BY <1>1 DEF Watch
<1>3. /\ l \in Watch /\ l.at = k.at /\ l.target = k.target /\ l.snapshot = k.snapshot
      /\ l.unread = Tail(k.unread) /\ l.lags = k.lags /\ l.hand = k.hand
      /\ l.last = k.last /\ l.stream = k.stream /\ l.view = k.view
      /\ l.missed = k.missed /\ l.blind = k.blind
  BY <1>1, <1>2 DEF Watch
<1> HIDE DEF l
<1>4. Shape(l) /\ Bounded(l) /\ Ended(l)
  BY <1>1, <1>2, <1>3, CapsAssumption DEF Good, Shape, Bounded, Ended, Seen, Truth
<1>5. StopIsLast(l) /\ Latest(l)
  BY <1>1, <1>2, <1>3, StopTail, LatestTail DEF Good
<1>6. Follow(l)
  <2> SUFFICES ASSUME NEW a \in Agents, ~l.missed, Concerns(l.target, a), Settled(a),
                      ~Announced(l, a)
               PROVE  WillSee(l, a, Truth(k, a))
    BY <1>3 DEF Follow, Truth
  <2>1. Head(k.unread).agent # a
    BY <1>1, <1>3
  <2>2. ~Announced(k, a)
    BY <1>1, <1>2, <1>3, <2>1, AnnouncedTail
  <2> QED BY <1>1, <1>3, <2>2 DEF Good, Follow, WillSee, Seen
<1> QED BY <1>1, <1>3, <1>4, <1>5, <1>6, WatchInv DEF Good

\* A broadcast makes the watch take the row into its hand.
LEMMA TakeInv ==
    ASSUME Inv, NEW w \in Watchers, watch[w].at = "forwarding", watch[w].hand = None,
           watch[w].unread # <<>>, ~watch[w].lags,
           NEW e, e = Head(watch[w].unread), Concerns(watch[w].target, e.agent),
           NEW loads \in BOOLEAN, NEW blind,
           blind = IF loads THEN watch[w].blind \ {e.agent} ELSE watch[w].blind \cup {e.agent},
           Become(w, [watch[w] EXCEPT !.unread = Tail(watch[w].unread), !.hand = Told(e, loads),
                                      !.last = Ends(watch[w].target, e), !.blind = blind])
    PROVE  Inv'
<1> DEFINE k == watch[w]
           ends == Ends(k.target, e)
           told == Told(e, loads)
           l == [k EXCEPT !.unread = Tail(k.unread), !.hand = told, !.last = ends, !.blind = blind]
<1>1. /\ k \in Watch /\ Good(k) /\ k.at = "forwarding" /\ k.hand = None
      /\ k.unread # <<>> /\ ~k.lags /\ e = Head(k.unread) /\ Concerns(k.target, e.agent)
      /\ blind = IF loads THEN k.blind \ {e.agent} ELSE k.blind \cup {e.agent}
      /\ Become(w, l)
  BY DEF Inv, TypeOK, ReportsTypeOK
<1> HIDE DEF k
<1>2. /\ k.unread \in Seq(Event) /\ Tail(k.unread) \in Seq(Event)
      /\ Len(Tail(k.unread)) <= Len(k.unread) /\ Len(k.unread) \in Nat
      /\ Len(Tail(k.unread)) \in Nat /\ 1 \in 1 .. Len(k.unread)
      /\ e = k.unread[1] /\ e \in Event
  BY <1>1 DEF Watch
<1>3. told \in Event /\ told.agent = e.agent
  BY <1>2 DEF Inv, TypeOK, ReportsTypeOK, Told, HasRow, Event
<1>4. /\ loads /\ HasRow(e.agent) => told.status = row[e.agent]
      /\ ~loads => told = e
  BY <1>2 DEF Told, Event
<1> HIDE DEF told
<1>5. ends \in BOOLEAN /\ (ends => k.target = e.agent /\ e.status = "stopped")
  BY DEF Ends
<1> HIDE DEF ends
<1>6. /\ l \in Watch /\ l.at = k.at /\ l.target = k.target /\ l.snapshot = k.snapshot
      /\ l.unread = Tail(k.unread) /\ l.lags = k.lags /\ l.hand = told
      /\ l.last = ends /\ l.stream = k.stream /\ l.view = k.view
      /\ l.missed = k.missed /\ l.blind = blind
  <2>1. blind \in SUBSET Agents
    BY <1>1, <1>2 DEF Watch, Event
  <2> QED BY <1>1, <1>2, <1>3, <1>5, <2>1 DEF Watch
<1> HIDE DEF l
<1>7. l.hand # None
  BY <1>3, <1>6, NoneAssumption
<1>8. Shape(l) /\ Bounded(l)
  BY <1>1, <1>2, <1>6, <1>7, CapsAssumption DEF Good, Shape, Bounded
<1>9. StopIsLast(l) /\ Latest(l)
  BY <1>1, <1>2, <1>6, StopTail, LatestTail DEF Good
<1>10. ASSUME Settled(e.agent), e.status = task[e.agent]
       PROVE  Seen(l, e.agent, Truth(l, e.agent))
  BY <1>1, <1>3, <1>4, <1>6, <1>7, <1>10 DEF Seen, Settled, Truth
<1>11. Ended(l)
  <2> SUFFICES ASSUME ends PROVE /\ l.target \in Agents
                                 /\ task[l.target] = "stopped" /\ due[l.target] = None
                                 /\ Settled(l.target) => Seen(l, l.target, Truth(l, l.target))
    BY <1>6 DEF Ended
  <2>1. l.target = e.agent /\ e.status = "stopped" /\ e.agent \in Agents
    BY <1>2, <1>5, <1>6 DEF Event
  <2> QED BY <1>1, <1>2, <1>10, <2>1 DEF Good, StopIsLast
<1>12. Follow(l)
  <2> SUFFICES ASSUME NEW a \in Agents, ~l.missed, Concerns(l.target, a), Settled(a),
                      ~Announced(l, a)
               PROVE  WillSee(l, a, Truth(l, a))
    BY DEF Follow
  <2>1. l.snapshot = {}
    BY <1>1, <1>6 DEF Good, Shape
  <2>2. CASE e.agent = a
    \* No other broadcast of the agent is unread, so this is its newest.
    <3>1. \A j \in 2 .. Len(k.unread) : k.unread[j].agent # a
      <4>1. \A j \in 2 .. Len(k.unread) :
                j - 1 \in 1 .. Len(l.unread) /\ l.unread[j - 1] = k.unread[j]
        BY <1>2, <1>6
      <4> QED BY <4>1 DEF Announced
    <3>2. e.status = task[e.agent]
      BY <1>1, <1>2, <2>2, <3>1 DEF Good, Latest, Settled
    <3> QED BY <1>10, <2>1, <2>2, <3>2 DEF WillSee
  <2>3. CASE e.agent # a
    <3>1. ~Announced(k, a)
      BY <1>1, <1>2, <1>6, <2>3, AnnouncedTail
    <3>2. WillSee(k, a, Truth(k, a)) /\ Truth(l, a) = Truth(k, a)
      BY <1>1, <1>6, <2>3, <3>1 DEF Good, Follow, Truth
    <3> QED BY <1>1, <1>3, <1>6, <2>1, <2>3, <3>2 DEF WillSee, Seen
  <2> QED BY <2>2, <2>3
<1> QED BY <1>1, <1>6, <1>8, <1>9, <1>11, <1>12, WatchInv DEF Good

\* The task takes an event that concerns nobody, that it tells, or a lag.
LEMMA ReceiveInv ==
    ASSUME Inv, NEW w \in Watchers, Receive(w)
    PROVE  Inv'
<1> DEFINE k == watch[w]
           e == Head(k.unread)
<1>1. k.at = "forwarding" /\ k.unread # <<>> /\ k.hand = None
  BY DEF Receive
<1>2. CASE k.lags
  BY <1>1, <1>2, LaggedInv DEF Receive
<1>3. CASE ~k.lags /\ ~Concerns(k.target, e.agent)
  <2>1. Become(w, [watch[w] EXCEPT !.unread = Tail(watch[w].unread)])
    BY <1>3 DEF Receive
  <2> QED BY <1>1, <1>3, <2>1, SkipInv
<1>4. CASE ~k.lags /\ Concerns(k.target, e.agent)
  <2>1. k \in Watch
    BY DEF Inv, TypeOK, ReportsTypeOK
  <2>2. PICK loads \in BOOLEAN :
            Become(w, [[watch[w] EXCEPT !.unread = Tail(watch[w].unread)]
                       EXCEPT !.hand = Told(e, loads), !.last = Ends(k.target, e),
                              !.blind = IF loads THEN @ \ {e.agent} ELSE @ \cup {e.agent}])
    BY <1>4 DEF Receive
  <2> DEFINE blind == IF loads THEN watch[w].blind \ {e.agent} ELSE watch[w].blind \cup {e.agent}
  <2>3. Become(w, [watch[w] EXCEPT !.unread = Tail(watch[w].unread), !.hand = Told(e, loads),
                                   !.last = Ends(k.target, e), !.blind = blind])
    BY <2>1, <2>2
  <2> HIDE DEF blind
  <2>4. blind = IF loads THEN watch[w].blind \ {e.agent} ELSE watch[w].blind \cup {e.agent}
    BY DEF blind
  <2> QED BY <1>1, <1>4, <2>3, <2>4, TakeInv
<1> QED BY <1>2, <1>3, <1>4

\* What is in the hand goes to the end of the stream.
LEMMA ForwardInv ==
    ASSUME Inv, NEW w \in Watchers, Forward(w)
    PROVE  Inv'
<1> DEFINE k == watch[w]
           at == IF k.last THEN "closed" ELSE k.at
           l == [k EXCEPT !.stream = Append(@, k.hand), !.hand = None, !.at = at]
<1>1. /\ k \in Watch /\ Good(k) /\ k.at = "forwarding" /\ k.hand # None
      /\ Len(k.stream) < StreamCap /\ Become(w, l)
  BY DEF Inv, TypeOK, ReportsTypeOK, Forward, Room
<1> HIDE DEF k
<1>2. /\ k.stream \in Seq(Event) /\ k.hand \in Event
      /\ Append(k.stream, k.hand) \in Seq(Event)
      /\ Len(Append(k.stream, k.hand)) = Len(k.stream) + 1 /\ Len(k.stream) \in Nat
  BY <1>1 DEF Watch
<1>3. at \in {"forwarding", "closed"} /\ (k.last => at = "closed") /\ (at = "closed" => k.last)
  BY <1>1
<1> HIDE DEF at
<1>4. /\ l \in Watch /\ l.at = at /\ l.target = k.target /\ l.snapshot = k.snapshot
      /\ l.unread = k.unread /\ l.lags = k.lags /\ l.hand = None /\ l.last = k.last
      /\ l.stream = Append(k.stream, k.hand) /\ l.view = k.view
      /\ l.missed = k.missed /\ l.blind = k.blind
  BY <1>1, <1>2, <1>3 DEF Watch
<1> HIDE DEF l
<1>5. Shape(l) /\ StopIsLast(l) /\ Latest(l)
  BY <1>1, <1>3, <1>4 DEF Good, Shape, StopIsLast, Latest
<1>6. Bounded(l)
  BY <1>1, <1>2, <1>4, CapsAssumption DEF Good, Bounded
<1>7. ASSUME NEW a \in Agents, Seen(k, a, Truth(k, a))
      PROVE  Seen(l, a, Truth(k, a))
  <2>1. CASE k.hand.agent = a
    <3>1. LastIs(l.stream, l.view, k.hand.agent, k.hand.status)
      BY <1>2, <1>4, AppendedLast
    <3>2. k.hand.status = Truth(k, a)
      BY <1>1, <1>7, <2>1 DEF Seen
    <3> QED BY <1>4, <2>1, <3>1, <3>2 DEF Seen
  <2>2. CASE k.hand.agent # a
    <3>1. LastIs(k.stream, k.view, a, Truth(k, a))
      BY <1>7, <2>2 DEF Seen
    <3>2. LastIs(l.stream, l.view, a, Truth(k, a))
      BY <1>2, <1>4, <2>2, <3>1, AppendedOther
    <3> QED BY <1>4, <3>2 DEF Seen
  <2> QED BY <2>1, <2>2
<1>8. Ended(l)
  BY <1>1, <1>4, <1>7 DEF Good, Ended, Truth
<1>9. Follow(l)
  BY <1>1, <1>4, <1>7 DEF Good, Shape, Follow, Announced, WillSee, Truth
<1> QED BY <1>1, <1>4, <1>5, <1>6, <1>8, <1>9, WatchInv DEF Good

\* The client reads the first of the stream.
LEMMA ReadInv ==
    ASSUME Inv, NEW w \in Watchers, Read(w)
    PROVE  Inv'
<1> DEFINE k == watch[w]
           e == Head(k.stream)
           view == [k.view EXCEPT ![e.agent] = e.status]
           l == [k EXCEPT !.stream = Tail(k.stream), !.view = view]
<1>1. /\ k \in Watch /\ Good(k) /\ k.at \in {"forwarding", "closed"} /\ k.stream # <<>>
      /\ Become(w, [k EXCEPT !.stream = Tail(k.stream), !.view[e.agent] = e.status])
  BY DEF Inv, TypeOK, ReportsTypeOK, Read
<1>2. Become(w, l)
  BY <1>1
<1> HIDE DEF k
<1>3. /\ k.stream \in Seq(Event) /\ Tail(k.stream) \in Seq(Event) /\ e \in Event
      /\ Len(Tail(k.stream)) <= Len(k.stream) /\ Len(k.stream) \in Nat
      /\ Len(Tail(k.stream)) \in Nat
  BY <1>1 DEF Watch
<1>4. k.view \in [Agents -> Status \cup {None}]
  BY <1>1 DEF Watch
<1>5. e.agent \in Agents /\ e.status \in Status
  BY <1>3 DEF Event
<1>6. view \in [Agents -> Status \cup {None}]
  BY <1>4, <1>5
<1>7. \A a \in Agents : LastIs(k.stream, k.view, a, Truth(k, a))
                        => LastIs(Tail(k.stream), view, a, Truth(k, a))
  BY <1>1, <1>3, <1>4, ReadHead
<1> HIDE DEF view
<1>8. /\ l \in Watch /\ l.at = k.at /\ l.target = k.target /\ l.snapshot = k.snapshot
      /\ l.unread = k.unread /\ l.lags = k.lags /\ l.hand = k.hand /\ l.last = k.last
      /\ l.stream = Tail(k.stream) /\ l.view = view /\ l.missed = k.missed /\ l.blind = k.blind
  BY <1>1, <1>3, <1>6 DEF Watch
<1> HIDE DEF l
<1>9. Shape(l) /\ StopIsLast(l) /\ Latest(l)
  BY <1>1, <1>8 DEF Good, Shape, StopIsLast, Latest
<1>10. Bounded(l)
  BY <1>1, <1>3, <1>8, CapsAssumption DEF Good, Bounded
<1>11. \A a \in Agents : Seen(k, a, Truth(k, a)) => Seen(l, a, Truth(k, a))
  BY <1>7, <1>8 DEF Seen
<1>12. Ended(l)
  BY <1>1, <1>8, <1>11 DEF Good, Ended, Truth
<1>13. Follow(l)
  BY <1>1, <1>8, <1>11 DEF Good, Follow, Announced, WillSee, Truth
<1> QED BY <1>2, <1>8, <1>9, <1>10, <1>12, <1>13, WatchInv DEF Good

\* A client that goes leaves a watch that owes nothing.
LEMMA DisconnectInv ==
    ASSUME Inv, NEW w \in Watchers, Disconnect(w)
    PROVE  Inv'
<1> DEFINE l == [Fresh EXCEPT !.at = "gone"]
<1>1. Become(w, l)
  BY DEF Disconnect
<1>2. /\ l \in Watch /\ l.at = "gone" /\ l.snapshot = {} /\ l.unread = <<>> /\ ~l.lags
      /\ l.hand = None /\ ~l.last /\ l.stream = <<>>
  <2>1. l = [Fresh EXCEPT !.at = "gone"]
    OBVIOUS
  <2> HIDE DEF l
  <2>2. l = [at |-> "gone", target |-> None, snapshot |-> {}, unread |-> <<>>, lags |-> FALSE,
             hand |-> None, last |-> FALSE, stream |-> <<>>,
             view |-> [a \in Agents |-> None], missed |-> FALSE, blind |-> {}]
    BY <2>1 DEF Fresh
  <2> QED BY <2>2 DEF Watch
<1> HIDE DEF l
<1>3. Good(l)
  BY <1>2, CapsAssumption DEF Good, Shape, Bounded, StopIsLast, Latest, Ended, Follow
<1> QED BY <1>1, <1>2, <1>3, WatchInv

-----------------------------------------------------------------------------
(***************************************************************************)
(* The agents.                                                             *)
(***************************************************************************)
\* A task that has written a status owes the broadcast: the agent is not
\* settled.  It writes nothing after "stopped".
LEMMA SetStatusInv ==
    ASSUME Inv, NEW a \in Agents, NEW s \in Status, task[a] # "stopped", SetStatus(a, s),
           UNCHANGED watch
    PROVE  Inv'
<1>1. /\ due[a] = None /\ s # None
      /\ task' = [task EXCEPT ![a] = s] /\ due' = [due EXCEPT ![a] = s]
      /\ row' \in {row, IF HasRow(a) THEN [row EXCEPT ![a] = s] ELSE row}
      /\ silent' = silent /\ watch' = watch
  BY ReportsAssumption DEF SetStatus
<1>2. /\ task'[a] = s /\ due'[a] = s
      /\ \A b \in Agents : b # a => task'[b] = task[b] /\ due'[b] = due[b] /\ row'[b] = row[b]
  BY <1>1 DEF Inv, TypeOK, ReportsTypeOK
<1>3. TypeOK'
  BY <1>1 DEF Inv, TypeOK, ReportsTypeOK
<1>4. TaskOwes'
  BY <1>2 DEF Inv, TaskOwes
<1>5. \A b \in Agents : Settled(b)' => b # a /\ Settled(b)
  BY <1>1, <1>2 DEF Settled, HasRow
<1>6. ASSUME NEW w \in Watchers
      PROVE  Good(watch[w])'
  <2> DEFINE k == watch[w]
  <2>1. k \in Watch /\ Good(k) /\ k' = k
    BY <1>1 DEF Inv, TypeOK, ReportsTypeOK
  <2> HIDE DEF k
  <2>2. Shape(k)' /\ Bounded(k)'
    BY <2>1 DEF Good, Shape, Bounded
  <2>3. StopIsLast(k)' /\ Latest(k)'
    <3>1. k.unread \in Seq(Event)
      BY <2>1 DEF Watch
    <3>2. \A i \in 1 .. Len(k.unread) : k.unread[i].agent \in Agents
      <4>1. \A i \in 1 .. Len(k.unread) : k.unread[i] \in Event
        BY <3>1
      <4> QED BY <4>1 DEF Event
    <3>3. \A i \in 1 .. Len(k.unread) :
              k.unread[i].status = "stopped" =>
                  /\ task[k.unread[i].agent] = "stopped" /\ due[k.unread[i].agent] = None
                  /\ k.unread[i].agent # a
      BY <2>1 DEF Good, StopIsLast
    <3>4. \A i \in 1 .. Len(k.unread) :
              k.unread[i].status = "stopped" =>
                  task'[k.unread[i].agent] = "stopped" /\ due'[k.unread[i].agent] = None
      BY <1>2, <3>2, <3>3
    <3>5. \A i \in 1 .. Len(k.unread) : due'[k.unread[i].agent] = None => k.unread[i].agent # a
      BY <1>1, <1>2
    <3>6. Latest(k)'
      BY <1>2, <2>1, <3>2, <3>5 DEF Good, Latest
    <3> QED BY <2>1, <3>4, <3>6 DEF StopIsLast
  <2>4. Ended(k)'
    BY <1>2, <1>5, <2>1 DEF Good, Ended, Seen, Truth
  <2>5. Follow(k)'
    BY <1>2, <1>5, <2>1 DEF Good, Follow, Announced, WillSee, Seen, Truth
  <2> QED BY <2>2, <2>3, <2>4, <2>5 DEF Good, k
<1> QED BY <1>3, <1>4, <1>6 DEF Inv

\* A status follows what the task wrote last; none follows "stopped".
LEMMA FollowsStatus ==
    /\ Follows["stopped"] = {}
    /\ \A s \in Status : Follows[s] \subseteq Status
BY DEF Follows, Status

\* A new task begins with the first status.
LEMMA SpawnInv ==
    ASSUME Inv, NEW a \in Agents, Spawn(a), UNCHANGED watch
    PROVE  Inv'
BY SetStatusInv, ReportsAssumption DEF Spawn, Status

\* A task goes on to its next status.
LEMMA ProceedInv ==
    ASSUME Inv, NEW a \in Agents, Proceed(a), UNCHANGED watch
    PROVE  Inv'
<1>1. PICK s \in Follows[task[a]] : SetStatus(a, s)
  BY DEF Proceed
<1>2. task[a] \in Status
  BY DEF Inv, TypeOK, ReportsTypeOK, Proceed
<1> QED BY <1>1, <1>2, FollowsStatus, SetStatusInv

\* What requests do to the rows leaves silent the agents whose rows they
\* change: those are not settled.
LEMMA ChangeRowsInv ==
    ASSUME Inv, ChangeRows, UNCHANGED watch
    PROVE  Inv'
<1>1. /\ row' \in [Agents -> Status \cup {None}]
      /\ silent' = [a \in Agents |-> silent[a] \/ row'[a] # row[a]]
      /\ task' = task /\ due' = due /\ watch' = watch
  BY DEF ChangeRows
<1>2. TypeOK' /\ TaskOwes'
  BY <1>1 DEF Inv, TypeOK, ReportsTypeOK, TaskOwes
<1>3. \A b \in Agents : Settled(b)' => row'[b] = row[b] /\ Settled(b)
  BY <1>1 DEF Settled, HasRow
<1>4. ASSUME NEW w \in Watchers
      PROVE  Good(watch[w])'
  <2> DEFINE k == watch[w]
  <2>1. Good(k) /\ k' = k
    BY <1>1 DEF Inv
  <2> HIDE DEF k
  <2>2. Shape(k)' /\ Bounded(k)' /\ StopIsLast(k)' /\ Latest(k)'
    BY <1>1, <2>1 DEF Good, Shape, Bounded, StopIsLast, Latest
  <2>3. Ended(k)'
    BY <1>1, <1>3, <2>1 DEF Good, Ended, Seen, Truth
  <2>4. Follow(k)'
    BY <1>1, <1>3, <2>1 DEF Good, Follow, Announced, WillSee, Seen, Truth
  <2> QED BY <2>2, <2>3, <2>4 DEF Good, k
<1> QED BY <1>2, <1>4 DEF Inv

\* What a watch receives is announced to it, or it is known to lack something.
LEMMA ReceivedGood ==
    ASSUME Inv, NEW a \in Agents, SendEvent(a), NEW w \in Watchers
    PROVE  watch'[w] \in Watch /\ Good(watch[w])'
<1> DEFINE k == watch[w]
           e == [agent |-> a, status |-> due[a]]
           l == Received(k, e)
<1>1. /\ k \in Watch /\ Good(k) /\ watch'[w] = l
      /\ due[a] \in Status /\ task[a] = due[a] /\ due[a] # None
  BY DEF Inv, TypeOK, ReportsTypeOK, TaskOwes, SendEvent, Broadcast
<1>2. /\ task' = task /\ row' = row /\ due'[a] = None
      /\ \A b \in Agents : b # a => due'[b] = due[b] /\ silent'[b] = silent[b]
  BY DEF SendEvent, Broadcast, Inv, TypeOK, ReportsTypeOK
<1>3. e \in Event /\ e.agent = a /\ e.status = due[a]
  BY <1>1 DEF Event
<1>4. \A b \in Agents : Settled(b)' /\ b # a => Settled(b)
  BY <1>2 DEF Settled, HasRow
<1>5. k.unread \in Seq(Event)
  BY <1>1 DEF Watch
<1>6. \A i \in 1 .. Len(k.unread) : k.unread[i].agent \in Agents
  <2>1. \A i \in 1 .. Len(k.unread) : k.unread[i] \in Event
    BY <1>5
  <2> QED BY <2>1 DEF Event
<1>7. k.last => k.target # a
  BY <1>1 DEF Good, Ended
<1> HIDE DEF k, e
\* A watch that receives e loses none, or lags.
<1>8. ASSUME k.at \in {"sending", "forwarding"}, NEW unread \in Seq(Event), NEW lags \in BOOLEAN,
             l = [k EXCEPT !.unread = Append(unread, e), !.lags = lags],
             Len(unread) < BroadcastCap,
             \A i \in 1 .. Len(unread) :
                 unread[i].status = "stopped" =>
                     task[unread[i].agent] = "stopped" /\ due[unread[i].agent] = None,
             \A i \in 1 .. Len(unread) :
                 /\ due[unread[i].agent] = None
                 /\ \A j \in (i + 1) .. Len(unread) : unread[j].agent # unread[i].agent
                 => unread[i].status = task[unread[i].agent],
             lags \/ (unread = k.unread /\ lags = k.lags)
      PROVE  watch'[w] \in Watch /\ Good(watch[w])'
  <2>1. /\ Len(unread) \in Nat /\ Append(unread, e) \in Seq(Event)
        /\ Len(Append(unread, e)) = Len(unread) + 1 /\ Append(unread, e)[Len(unread) + 1] = e
        /\ \A i \in 1 .. Len(unread) : Append(unread, e)[i] = unread[i] /\ unread[i] \in Event
    BY <1>3
  <2> DEFINE n == watch'[w]
  <2>3. /\ n \in Watch /\ n.at = k.at /\ n.target = k.target /\ n.snapshot = k.snapshot
        /\ n.unread = Append(unread, e) /\ n.lags = lags /\ n.hand = k.hand
        /\ n.last = k.last /\ n.stream = k.stream /\ n.view = k.view
        /\ n.missed = k.missed /\ n.blind = k.blind
    <3>1. n = [k EXCEPT !.unread = Append(unread, e), !.lags = lags]
      BY <1>1, <1>8
    <3> HIDE DEF n, l
    <3> QED BY <1>1, <1>8, <2>1, <3>1 DEF Watch
  <2> HIDE DEF n
  <2>4. Shape(n)
    BY <1>1, <1>8, <2>1, <2>3 DEF Good, Shape
  <2>5. Bounded(n)
    BY <1>1, <1>8, <2>1, <2>3, CapsAssumption DEF Good, Bounded
  <2>6. \A i \in 1 .. Len(n.unread) :
            n.unread[i].status = "stopped" =>
                task'[n.unread[i].agent] = "stopped" /\ due'[n.unread[i].agent] = None
    <3> TAKE i \in 1 .. Len(n.unread)
    <3>1. CASE i = Len(unread) + 1
      BY <1>1, <1>2, <1>3, <2>1, <2>3, <3>1
    <3>2. CASE i # Len(unread) + 1
      <4>1. i \in 1 .. Len(unread) /\ n.unread[i] = unread[i] /\ unread[i].agent \in Agents
        BY <2>1, <2>3, <3>2 DEF Event
      <4> QED BY <1>2, <1>8, <4>1
    <3> QED BY <3>1, <3>2
  <2>14. ASSUME NEW i \in 1 .. Len(n.unread), due'[n.unread[i].agent] = None,
                \A j \in (i + 1) .. Len(n.unread) : n.unread[j].agent # n.unread[i].agent
         PROVE  n.unread[i].status = task'[n.unread[i].agent]
    <3>1. CASE i = Len(unread) + 1
      BY <1>1, <1>2, <1>3, <2>1, <2>3, <3>1
    <3>2. CASE i # Len(unread) + 1
      <4>1. i \in 1 .. Len(unread) /\ n.unread[i] = unread[i] /\ unread[i].agent \in Agents
        BY <2>1, <2>3, <3>2 DEF Event
      <4>2. unread[i].agent # a
        <5>1. Len(unread) + 1 \in (i + 1) .. Len(n.unread)
          BY <2>1, <2>3, <4>1
        <5>2. n.unread[Len(unread) + 1] = e
          BY <1>3, <2>1, <2>3
        <5> QED BY <1>3, <2>14, <4>1, <5>1, <5>2
      <4>3. \A j \in (i + 1) .. Len(unread) : unread[j].agent # unread[i].agent
        BY <2>1, <2>3, <2>14, <4>1
      <4> QED BY <1>2, <1>8, <2>14, <4>1, <4>2, <4>3
    <3> QED BY <3>1, <3>2
  <2>7. \A b \in Agents : Seen(n, b, Truth(n, b)) <=> Seen(k, b, Truth(k, b))
    BY <2>3 DEF Seen, Truth
  <2>8. n.last => /\ n.target \in Agents /\ task'[n.target] = "stopped" /\ due'[n.target] = None
                  /\ \A b \in Agents : b = n.target /\ Settled(b)' => Seen(n, b, Truth(n, b))
    <3> SUFFICES ASSUME k.last
                 PROVE  /\ k.target \in Agents /\ task'[k.target] = "stopped"
                        /\ due'[k.target] = None
                        /\ \A b \in Agents : b = k.target /\ Settled(b)' => Seen(k, b, Truth(k, b))
      BY <2>3, <2>7
    <3>1. /\ k.target \in Agents /\ task[k.target] = "stopped" /\ due[k.target] = None
          /\ Settled(k.target) => Seen(k, k.target, Truth(k, k.target))
      BY <1>1 DEF Good, Ended
    <3> QED BY <1>2, <1>4, <1>7, <3>1
  <2>9. ASSUME ~n.missed, ~n.lags, NEW b \in Agents, Concerns(n.target, b), Settled(b)'
        PROVE  Announced(n, b) \/ WillSee(n, b, Truth(n, b))
    <3>1. unread = k.unread /\ ~k.lags
      BY <1>8, <2>3, <2>9
    <3>2. CASE b = a
      BY <1>3, <1>5, <2>3, <3>1, <3>2, AnnouncedAppend
    <3>3. CASE b # a
      <4>1. Announced(k, b) \/ WillSee(k, b, Truth(k, b))
        BY <1>1, <1>4, <1>8, <2>3, <2>9, <3>1, <3>3 DEF Good, Follow
      <4>2. Announced(k, b) => Announced(n, b)
        BY <1>3, <1>5, <2>3, <3>1, AnnouncedAppend
      <4>3. WillSee(k, b, Truth(k, b)) => WillSee(n, b, Truth(n, b))
        BY <2>3 DEF WillSee, Seen, Truth
      <4> QED BY <4>1, <4>2, <4>3
    <3> QED BY <3>2, <3>3
  <2>10. Shape(watch[w])' /\ Bounded(watch[w])'
    BY <2>4, <2>5 DEF Shape, Bounded, n
  <2>11. StopIsLast(watch[w])' /\ Latest(watch[w])'
    BY <2>6, <2>14 DEF StopIsLast, Latest, n
  <2>15. \A b \in Agents : Truth(watch[w], b)' = Truth(n, b)
    BY <1>2 DEF Truth, n
  <2>12. Ended(watch[w])'
    BY <1>2, <2>8, <2>15 DEF Ended, Settled, HasRow, n
  <2>13. Follow(watch[w])'
    BY <1>2, <2>9, <2>15 DEF Follow, n
  <2> QED BY <2>3, <2>10, <2>11, <2>12, <2>13 DEF Good, n
<1>9. CASE k.at \in {"sending", "forwarding"} /\ Len(k.unread) < BroadcastCap
  <2>1. l = [k EXCEPT !.unread = Append(k.unread, e), !.lags = k.lags]
    BY <1>1, <1>9 DEF Received, Watch
  <2>2. \A i \in 1 .. Len(k.unread) :
            k.unread[i].status = "stopped" =>
                task[k.unread[i].agent] = "stopped" /\ due[k.unread[i].agent] = None
    BY <1>1 DEF Good, StopIsLast
  <2>3. k.lags \in BOOLEAN
    BY <1>1 DEF Watch
  <2>4. \A i \in 1 .. Len(k.unread) :
            /\ due[k.unread[i].agent] = None
            /\ \A j \in (i + 1) .. Len(k.unread) : k.unread[j].agent # k.unread[i].agent
            => k.unread[i].status = task[k.unread[i].agent]
    BY <1>1, <1>9 DEF Good, Latest
  <2> HIDE DEF l
  <2> QED BY <1>5, <1>8, <1>9, <2>1, <2>2, <2>3, <2>4
<1>10. CASE k.at \in {"sending", "forwarding"} /\ ~(Len(k.unread) < BroadcastCap)
  <2>1. l = [k EXCEPT !.unread = Append(Tail(k.unread), e), !.lags = TRUE]
    BY <1>10 DEF Received
  <2>2. Len(k.unread) = BroadcastCap /\ Len(k.unread) \in Nat
    BY <1>1, <1>5, <1>10, CapsAssumption DEF Good, Bounded
  <2>3. /\ k.unread # <<>> /\ Tail(k.unread) \in Seq(Event)
        /\ Len(Tail(k.unread)) = Len(k.unread) - 1
        /\ \A i \in 1 .. Len(Tail(k.unread)) : Tail(k.unread)[i] = k.unread[i + 1]
    BY <1>5, <2>2, CapsAssumption
  <2>4. \A i \in 1 .. Len(Tail(k.unread)) : i + 1 \in 1 .. Len(k.unread)
    BY <2>2, <2>3
  <2>5. \A i \in 1 .. Len(Tail(k.unread)) :
            Tail(k.unread)[i].status = "stopped" =>
                /\ task[Tail(k.unread)[i].agent] = "stopped"
                /\ due[Tail(k.unread)[i].agent] = None
    BY <1>1, <2>3, <2>4 DEF Good, StopIsLast
  <2>7. \A i \in 1 .. Len(Tail(k.unread)) :
            /\ due[Tail(k.unread)[i].agent] = None
            /\ \A j \in (i + 1) .. Len(Tail(k.unread)) :
                  Tail(k.unread)[j].agent # Tail(k.unread)[i].agent
            => Tail(k.unread)[i].status = task[Tail(k.unread)[i].agent]
    <3>1. Latest([at |-> k.at, unread |-> Tail(k.unread)])
      BY <1>1, <1>5, <2>3, LatestTail DEF Good
    <3> QED BY <1>10, <3>1 DEF Latest
  <2>6. Len(Tail(k.unread)) < BroadcastCap
    BY <2>2, <2>3, CapsAssumption
  <2> HIDE DEF l
  <2> QED BY <1>8, <1>10, <2>1, <2>3, <2>5, <2>6, <2>7
\* A watch that has not subscribed misses what concerns it.
<1>11. CASE k.at = "loaded" /\ Concerns(k.target, a)
  <2>1. watch'[w] = [k EXCEPT !.missed = TRUE]
    BY <1>1, <1>3, <1>11 DEF Received
  <2> DEFINE n == watch'[w]
  <2>2. /\ n \in Watch /\ n.at = k.at /\ n.target = k.target /\ n.snapshot = k.snapshot
        /\ n.unread = k.unread /\ n.lags = k.lags /\ n.hand = k.hand /\ n.last = k.last
        /\ n.stream = k.stream /\ n.view = k.view /\ n.missed
        /\ n.blind = k.blind
    <3> HIDE DEF n
    <3>1. n = [k EXCEPT !.missed = TRUE]
      BY <2>1 DEF n
    <3> QED BY <1>1, <3>1 DEF Watch
  <2> HIDE DEF n
  <2>3. ~n.last /\ n.unread = <<>>
    BY <1>1, <1>11, <2>2, NoneAssumption DEF Good, Shape
  <2>4. Shape(n) /\ Bounded(n)
    BY <1>1, <1>11, <2>2 DEF Good, Shape, Bounded
  <2> QED BY <2>2, <2>3, <2>4 DEF Good, Shape, Bounded, StopIsLast, Latest, Ended, Follow, n
<1>12. CASE k.at \notin {"sending", "forwarding"} /\ ~(k.at = "loaded" /\ Concerns(k.target, a))
  <2>1. watch'[w] = k
    BY <1>1, <1>3, <1>12 DEF Received
  <2>2. Shape(watch[w])' /\ Bounded(watch[w])'
    BY <1>1, <2>1 DEF Good, Shape, Bounded
  <2>3. StopIsLast(watch[w])' /\ Latest(watch[w])'
    BY <1>1, <1>2, <1>6, <1>12, <2>1 DEF Good, StopIsLast, Latest
  <2>4. Ended(watch[w])'
    BY <1>1, <1>2, <1>4, <1>7, <2>1 DEF Good, Ended, Seen, Settled, Truth, HasRow
  <2>5. Follow(watch[w])'
    BY <1>1, <1>2, <1>4, <1>12, <2>1 DEF Good, Follow, Concerns, Announced, WillSee, Seen, Truth
  <2> QED BY <1>1, <2>1, <2>2, <2>3, <2>4, <2>5 DEF Good
<1> QED BY <1>9, <1>10, <1>11, <1>12

\* What is broadcast reaches whoever has subscribed.
LEMMA BroadcastInv ==
    ASSUME Inv, NEW a \in Agents, SendEvent(a)
    PROVE  Inv'
<1>1. /\ task' = task /\ row' = row
      /\ due' = [due EXCEPT ![a] = None] /\ silent' = [silent EXCEPT ![a] = FALSE]
      /\ watch' = [w \in Watchers |-> watch'[w]]
  BY DEF SendEvent, Broadcast
<1>2. \A w \in Watchers : watch'[w] \in Watch /\ Good(watch[w])'
  BY ReceivedGood
<1>3. watch' \in [Watchers -> Watch]
  BY <1>1, <1>2
<1>4. TypeOK'
  BY <1>1, <1>2, <1>3 DEF Inv, TypeOK, ReportsTypeOK, Good, Bounded
<1>5. TaskOwes'
  BY <1>1 DEF Inv, TypeOK, ReportsTypeOK, TaskOwes
<1> QED BY <1>2, <1>4, <1>5 DEF Inv

-----------------------------------------------------------------------------
(***************************************************************************)
(* The invariant.                                                          *)
(***************************************************************************)
\* First nobody watches.
LEMMA InitInv == Init => Inv
<1> SUFFICES ASSUME Init PROVE Inv
  OBVIOUS
<1>1. \A w \in Watchers : watch[w] = Fresh
  BY DEF Init
<1>2. Good(Fresh)
  BY CapsAssumption DEF Fresh, Good, Shape, Bounded, StopIsLast, Latest, Ended, Follow
<1>3. TypeOK
  BY <1>1, FreshWatch, CapsAssumption DEF Init, ReportsInit, TypeOK, ReportsTypeOK, Fresh
<1> QED BY <1>1, <1>2, <1>3 DEF Inv, Init, ReportsInit, TaskOwes

\* Every step keeps it.
LEMMA NextInv == Inv /\ [Next]_vars => Inv'
<1> SUFFICES ASSUME Inv, [Next]_vars PROVE Inv'
  OBVIOUS
<1>1. ASSUME NEW a \in Agents, SendEvent(a)
      PROVE  Inv'
  BY <1>1, BroadcastInv
<1>2. CASE Untold
  BY <1>2, SpawnInv, ProceedInv, ChangeRowsInv DEF Untold
<1>3. ASSUME NEW w \in Watchers, NEW a \in Agents, WatchAgent(w, a)
      PROVE  Inv'
  BY <1>3, WatchAgentInv
<1>4. ASSUME NEW w \in Watchers, WatchWorkspace(w) \/ Read(w) \/ Disconnect(w)
      PROVE  Inv'
  BY <1>4, WatchWorkspaceInv, ReadInv, DisconnectInv
<1>5. ASSUME NEW w \in Watchers, WatchStep(w)
      PROVE  Inv'
  BY <1>5, SubscribeInv, SendInitialInv, AnswerInv, ReceiveInv, ForwardInv DEF WatchStep
<1>6. CASE UNCHANGED vars
  BY <1>6 DEF vars, Inv, TypeOK, ReportsTypeOK, TaskOwes, Good, Shape, Bounded, StopIsLast, Latest,
              Ended, Follow, Settled, Truth, HasRow
<1> QED BY <1>1, <1>2, <1>3, <1>4, <1>5, <1>6 DEF Next

\* Inv is an invariant.
LEMMA Invariance == Spec => []Inv
BY InitInv, NextInv, PTL DEF Spec

\* Every variable keeps its type: no stream and no broadcast channel holds more
\* than tokio gives it room for, for any agents, watchers and capacities.
THEOREM TypeCorrect == Spec => []TypeOK
<1>1. Inv => TypeOK
  BY DEF Inv
<1> QED BY <1>1, Invariance, PTL

\* A client of watch_agent or watch_workspace that has read all there is sees
\* every agent as its row in state.json is, or as its task is where the row could
\* not be read, unless a broadcast was missed or the row changed without one, for
\* any agents, watchers and capacities.
THEOREM ViewsConverge == Spec => []Converged
<1>1. Inv => Converged
  <2> SUFFICES ASSUME Inv, NEW w \in Watchers, NEW a \in Agents,
                      CaughtUp(w), ~watch[w].missed, Concerns(watch[w].target, a), Settled(a)
               PROVE  watch[w].view[a] = Truth(watch[w], a)
    BY DEF Converged, Settled, Truth
  <2> DEFINE k == watch[w]
  <2>1. Good(k) /\ k.hand = None /\ k.stream = <<>>
    BY DEF Inv, CaughtUp
  <2>2. Seen(k, a, Truth(watch[w], a))
    <3>1. CASE k.at = "closed"
      BY <2>1, <3>1, WorkspaceAssumption DEF Good, Shape, Ended, Concerns
    <3>2. CASE k.at = "forwarding"
      <4>1. k.unread = <<>> /\ ~k.lags /\ k.snapshot = {}
        BY <2>1, <3>2 DEF Good, Shape, CaughtUp
      <4> QED BY <2>1, <3>2, <4>1 DEF Good, Follow, Announced, WillSee
    <3> QED BY <3>1, <3>2 DEF CaughtUp
  <2> QED BY <2>1, <2>2 DEF Seen, LastIs
<1> QED BY <1>1, Invariance, PTL
=============================================================================
