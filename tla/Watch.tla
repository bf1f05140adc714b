-------------------------------- MODULE Watch --------------------------------
(***************************************************************************)
(* Watching agents (discovery.rs watch_agent and watch_workspace).  A      *)
(* watch sends what state.json said when it began, then what is broadcast  *)
(* of its agents (module AgentReports), through a channel of its own that  *)
(* the client reads as a stream.  A broadcast is an occasion to read the   *)
(* row again: the row is what is sent, and the broadcast status only where *)
(* there is none or state.json cannot be loaded.                           *)
(*                                                                         *)
(* The agents are those of one workspace, all in the caller's sight        *)
(* (module Access says which are).  What tokio's channels do is external.  *)
(* The operators named Bad... are faults, used by no action.               *)
(***************************************************************************)
EXTENDS AgentReports, Sequences, FiniteSets

CONSTANTS
    Watchers,
    BroadcastCap,  \* broadcast::channel(256) of the supervisor
    StreamCap,     \* mpsc::channel(32) of a watch
    Workspace      \* what watch_workspace watches

ASSUME CapsAssumption == BroadcastCap \in Nat \ {0} /\ StreamCap \in Nat \ {0}
ASSUME WorkspaceAssumption == Workspace \notin Agents

VARIABLE watch  \* per watcher

vars == <<task, due, row, silent, watch>>

Event == [agent: Agents, status: Status]  \* SupervisorEvent; "stopped" is Stopped
ASSUME NoneAssumption == None \notin Agents \cup {Workspace} /\ None \notin Event

\* at: where the watch is; unread: the broadcasts that the channel still holds
\* for it; lags: others are gone; hand: the answer it waits to put into the
\* stream; last: it ends with that; view: per agent what the client read last;
\* missed: history, a broadcast that it did not receive; blind: history, the
\* agents whose row could not be read when they were last heard of.
Watch == [at: {"idle", "loaded", "sending", "forwarding", "closed", "gone"},
          target: Agents \cup {Workspace, None},
          snapshot: SUBSET Event,
          unread: Seq(Event), lags: BOOLEAN,
          hand: Event \cup {None}, last: BOOLEAN,
          stream: Seq(Event),
          view: [Agents -> Status \cup {None}],
          missed: BOOLEAN, blind: SUBSET Agents]

Fresh == [at |-> "idle", target |-> None, snapshot |-> {}, unread |-> <<>>, lags |-> FALSE,
          hand |-> None, last |-> FALSE, stream |-> <<>>, view |-> [a \in Agents |-> None],
          missed |-> FALSE, blind |-> {}]

TypeOK ==
    /\ ReportsTypeOK
    /\ watch \in [Watchers -> Watch]
    /\ \A w \in Watchers : /\ Len(watch[w].stream) <= StreamCap
                           /\ Len(watch[w].unread) <= BroadcastCap

Init == ReportsInit /\ watch = [w \in Watchers |-> Fresh]

Concerns(target, a) == target \in {a, Workspace}

\* Fault: an unbounded channel.
BadReceived(k, e) ==
    IF k.at \in {"sending", "forwarding"} THEN [k EXCEPT !.unread = Append(@, e)] ELSE k
\* event_tx.send: the channel overwrites what a receiver is slow to receive.
Received(k, e) ==
    IF k.at \in {"sending", "forwarding"}
    THEN IF Len(k.unread) < BroadcastCap
         THEN [k EXCEPT !.unread = Append(@, e)]
         ELSE [k EXCEPT !.unread = Append(Tail(@), e), !.lags = TRUE]
    ELSE IF k.at = "loaded" /\ Concerns(k.target, e.agent) THEN [k EXCEPT !.missed = TRUE]
    ELSE k

\* What a task broadcasts reaches every watch; the rest that becomes of the
\* agents does not.
SendEvent(a) ==
    /\ Broadcast(a)
    /\ watch' = [w \in Watchers |-> Received(watch[w], [agent |-> a, status |-> due[a]])]

Untold == ((\E a \in Agents : Spawn(a) \/ Proceed(a)) \/ ChangeRows) /\ UNCHANGED watch

(***************************************************************************)
(* A watch.                                                                *)
(***************************************************************************)
Become(w, next) ==
    /\ watch' = [watch EXCEPT ![w] = next]
    /\ UNCHANGED reportVars

Rows == {[agent |-> a, status |-> row[a]] : a \in {b \in Agents : HasRow(b)}}

\* An agent without a row is not found.
WatchAgent(w, a) ==
    /\ watch[w].at = "idle" /\ HasRow(a)
    /\ Become(w, [watch[w] EXCEPT !.at = "loaded", !.target = a,
                                  !.snapshot = {e \in Rows : e.agent = a}])

WatchWorkspace(w) ==
    /\ watch[w].at = "idle"
    /\ Become(w, [watch[w] EXCEPT !.at = "loaded", !.target = Workspace,
                                  !.snapshot = Rows])

\* A receiver gets what is broadcast from here on.
Subscribe(w) ==
    /\ watch[w].at = "loaded"
    /\ Become(w, [watch[w] EXCEPT !.at = "sending"])

\* Fault: the channel takes one less.
BadRoom(w) == Len(watch[w].stream) + 1 < StreamCap
\* tx.send waits until the stream has room.
Room(w) == Len(watch[w].stream) < StreamCap

\* The initial events go into the stream, which nobody reads as long as the
\* request has not been answered ...
SendInitial(w) ==
    /\ watch[w].at = "sending" /\ Room(w)
    /\ \E e \in watch[w].snapshot :
          Become(w, [watch[w] EXCEPT !.snapshot = @ \ {e}, !.stream = Append(@, e)])

\* ... with the stream.
Answer(w) ==
    /\ watch[w].at = "sending" /\ watch[w].snapshot = {}
    /\ Become(w, [watch[w] EXCEPT !.at = "forwarding"])

\* Fault: what was broadcast is sent, whatever the row says.
BadTold(e, loads) == e
\* status_to_agent_instance, when state.json loads and when it does not.
Told(e, loads) == IF loads /\ HasRow(e.agent) THEN [e EXCEPT !.status = row[e.agent]] ELSE e

\* Fault: the task goes on after the agent has stopped.
BadEnds(target, e) == FALSE
\* watch_agent ends with its agent, watch_workspace does not.
Ends(target, e) == target = e.agent /\ e.status = "stopped"

\* RecvError::Lagged: the task continues with the oldest that the channel holds.
Lagged(k) == [k EXCEPT !.lags = FALSE, !.missed = TRUE]

\* rx.recv, and reading the row.
Receive(w) ==
    LET k == watch[w]
        e == Head(k.unread)
        received == [k EXCEPT !.unread = Tail(@)]
    IN  /\ k.at = "forwarding" /\ k.unread # <<>> /\ k.hand = None
        /\ \E loads \in BOOLEAN :
             Become(w, IF k.lags THEN Lagged(k)
                       ELSE IF ~Concerns(k.target, e.agent) THEN received
                       ELSE [received EXCEPT !.hand = Told(e, loads), !.last = Ends(k.target, e),
                                             !.blind = IF loads THEN @ \ {e.agent}
                                                                ELSE @ \cup {e.agent}])

Forward(w) ==
    /\ watch[w].at = "forwarding" /\ watch[w].hand # None /\ Room(w)
    /\ Become(w, [watch[w] EXCEPT !.stream = Append(@, watch[w].hand), !.hand = None,
                                  !.at = IF watch[w].last THEN "closed" ELSE @])

\* The client reads the stream it was answered with.
Read(w) ==
    /\ watch[w].at \in {"forwarding", "closed"} /\ watch[w].stream # <<>>
    /\ LET e == Head(watch[w].stream)
       IN  Become(w, [watch[w] EXCEPT !.stream = Tail(@), !.view[e.agent] = e.status])

\* The client goes away.
Disconnect(w) ==
    /\ watch[w].at \in {"loaded", "sending", "forwarding"}
    /\ Become(w, [Fresh EXCEPT !.at = "gone"])

WatchStep(w) == Subscribe(w) \/ SendInitial(w) \/ Answer(w) \/ Receive(w) \/ Forward(w)

Next ==
    \/ Untold
    \/ \E a \in Agents : SendEvent(a)
    \/ \E w \in Watchers : \/ \E a \in Agents : WatchAgent(w, a)
                           \/ WatchWorkspace(w)
                           \/ WatchStep(w) \/ Read(w) \/ Disconnect(w)

\* The runtime runs the request and its task, and the client reads.
Fairness == \A w \in Watchers : WF_vars(WatchStep(w)) /\ WF_vars(Read(w))

Spec == Init /\ [][Next]_vars /\ Fairness

(***************************************************************************)
(* Properties.                                                             *)
(***************************************************************************)
\* The watch has received, and the client has read, all there is.
CaughtUp(w) == /\ watch[w].at \in {"forwarding", "closed"}
               /\ watch[w].unread = <<>> \/ watch[w].at = "closed"
               /\ watch[w].hand = None /\ watch[w].stream = <<>>

\* A client that has read all there is sees every agent as its row is, whatever
\* was written while it was behind, and the status its task took last where
\* state.json could not be loaded when that was broadcast: the two differ where
\* the task could not write the row either, or a request has since.  Unless a
\* broadcast came between loading and subscribing or was overwritten in the
\* channel, or the row has changed with no broadcast after it.
Converged ==
    \A w \in Watchers, a \in Agents :
        /\ CaughtUp(w) /\ ~watch[w].missed /\ Concerns(watch[w].target, a)
        /\ HasRow(a) /\ ~silent[a] /\ due[a] = None
        => watch[w].view[a] = IF a \in watch[w].blind THEN task[a] ELSE row[a]

\* A watch request is answered, if the stream takes what there is to begin with:
\* nobody reads before the answer (watch_workspace of more than 32 agents is
\* never answered).
Answered ==
    \A w \in Watchers :
        (watch[w].at = "sending" /\ Cardinality(watch[w].snapshot) <= StreamCap
                                 /\ watch[w].stream = <<>>)
        ~> watch[w].at \in {"forwarding", "closed", "gone"}

Unread(w) == {watch[w].unread[i] : i \in DOMAIN watch[w].unread}

\* The watch of an agent ends when the agent has stopped, however far behind its
\* client is, unless broadcasts are overwritten in the channel.
EndsWithAgent ==
    \A w \in Watchers : \A a \in Agents :
        (watch[w].target = a /\ [agent |-> a, status |-> "stopped"] \in Unread(w))
        ~> (watch[w].at \in {"closed", "gone"} \/ watch[w].missed)
=============================================================================
