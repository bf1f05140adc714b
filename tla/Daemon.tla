------------------------------- MODULE Daemon -------------------------------
(***************************************************************************)
(* The daemon's life: awesometree-daemon processes, the socket in the      *)
(* configuration directory by which they are found (daemon.rs), and the    *)
(* commands that start, restart and ask them.  There is no lock: a daemon  *)
(* that finds nobody answering takes the socket's name, whoever has it.  A *)
(* listener whose name was taken does not notice; it binds again only when *)
(* the name is gone.                                                       *)
(*                                                                         *)
(* What the commands to the daemon open is left out ("open"), and what its *)
(* exit leaves behind is the matter of ProcSupervisor.                     *)
(* The operators named Bad... are faults, used by no action.               *)
(***************************************************************************)
EXTENDS Naturals, Sequences, FiniteSets

CONSTANTS
    Daemons,   \* bound: processes at the same time
    Clis,      \* commands of awesometree at the same time
    MaxQueue,  \* bound: commands that a daemon has not got to
    Nobody     \* no daemon: the name is free

ASSUME NobodyAssumption == Nobody \notin Daemons /\ "stale" \notin Daemons \cup {Nobody}

VARIABLES
    daemon,    \* per daemon: where it is in its life
    listening, \* per daemon: its listener is bound (to a name that may be gone)
    stalled,   \* per daemon: its listener waits for a client that sends nothing
    queue,     \* per daemon: commands it has acknowledged
    path,      \* the name: of whose socket, "stale" if that one is dead
    cli,       \* per command: where it is
    raced,     \* history: a daemon came up beside one that could not
               \* answer, or one on its way out bound once more
    troubled   \* history: since the last restart began, a kill, a late exit,
               \* another restart, the name removed by hand

daemonVars == <<daemon, listening, stalled, queue, path, cli, raced, troubled>>

Cmd == {"open", "restart"}

\* old: the daemon that was told to restart, until it is dead.
Cli == [at: {"idle", "send", "sleep", "check"}, cmd: Cmd, old: Daemons \cup {Nobody}]
Idle == [at |-> "idle", cmd |-> "open", old |-> Nobody]

DaemonTypeOK ==
    /\ daemon \in [Daemons -> {"none", "new", "up", "leaving"}]
    /\ listening \in [Daemons -> BOOLEAN]
    /\ stalled \in [Daemons -> BOOLEAN]
    /\ queue \in [Daemons -> Seq(Cmd)]
    /\ path \in Daemons \cup {Nobody, "stale"}
    /\ cli \in [Clis -> Cli]
    /\ raced \in BOOLEAN /\ troubled \in BOOLEAN
    /\ \A d \in Daemons : listening[d] => daemon[d] \in {"up", "leaving"}
    /\ path \in Daemons => listening[path]

DaemonInit ==
    /\ daemon = [d \in Daemons |-> "none"]
    /\ listening = [d \in Daemons |-> FALSE]
    /\ stalled = [d \in Daemons |-> FALSE]
    /\ queue = [d \in Daemons |-> <<>>]
    /\ path = Nobody
    /\ cli = [c \in Clis |-> Idle]
    /\ raced = FALSE /\ troubled = FALSE

Answers(d) == path = d /\ ~stalled[d]

\* is_running: somebody answers within two seconds, be it "unknown command".
IsRunning == \E d \in Daemons : Answers(d)

(***************************************************************************)
(* Commands.                                                               *)
(***************************************************************************)
CliStep(c, next) ==
    /\ cli' = [cli EXCEPT ![c] = next]
    /\ UNCHANGED <<daemon, listening, stalled, queue, path, raced>>

\* send_daemon_cmd, and the tray's menu, which runs the tool.
Send(c) ==
    /\ cli[c].at = "idle" /\ IsRunning
    /\ CliStep(c, [Idle EXCEPT !.at = "send"]) /\ UNCHANGED troubled

\* cmd_restart_daemon: ask, wait half a second, start.
Restart(c) ==
    /\ cli[c].at = "idle"
    /\ CliStep(c, [Idle EXCEPT !.cmd = "restart", !.at = IF IsRunning THEN "send" ELSE "sleep"])
    /\ troubled' = (\E b \in Clis : cli[b].cmd = "restart")

Start(c) ==
    /\ cli[c].at = "idle"
    /\ CliStep(c, [Idle EXCEPT !.at = "check"]) /\ UNCHANGED troubled

\* send_command waits for an answer as long as it takes; if nobody is there the
\* command is not sent.  The daemon says ok before it does anything.
AfterSend(c, d) == IF cli[c].cmd = "restart" THEN [cli[c] EXCEPT !.at = "sleep", !.old = d]
                   ELSE Idle

Deliver(c) ==
    /\ cli[c].at = "send"
    /\ \/ /\ path \in {Nobody, "stale"}
          /\ CliStep(c, AfterSend(c, Nobody))
       \/ \E d \in Daemons :
             /\ Answers(d) /\ Len(queue[d]) < MaxQueue
             /\ queue' = [queue EXCEPT ![d] = Append(@, cli[c].cmd)]
             /\ cli' = [cli EXCEPT ![c] = AfterSend(c, d)]
             /\ UNCHANGED <<daemon, listening, stalled, path, raced>>
    /\ UNCHANGED troubled

Wake(c) ==
    /\ cli[c].at = "sleep"
    /\ CliStep(c, [cli[c] EXCEPT !.at = "check", !.old = Nobody])
    /\ troubled' = (troubled \/ cli[c].old # Nobody)

\* cmd_daemon.  With no process to spare (the bound) nothing is told of it.
Launch(c) ==
    /\ cli[c].at = "check"
    /\ cli' = [cli EXCEPT ![c] = Idle]
    /\ \/ IsRunning /\ UNCHANGED <<daemon, troubled>>
       \/ /\ ~IsRunning
          /\ \E d \in Daemons : daemon[d] = "none" /\ daemon' = [daemon EXCEPT ![d] = "new"]
          /\ UNCHANGED troubled
       \/ /\ ~IsRunning /\ \A d \in Daemons : daemon[d] # "none"
          /\ troubled' = TRUE /\ UNCHANGED daemon
    /\ UNCHANGED <<listening, stalled, queue, path, raced>>

(***************************************************************************)
(* A daemon.                                                               *)
(***************************************************************************)
\* Fault: the name is taken for one that still answers.
BadLeft(d, name) == name
\* What is left of a name when d is dead.
Left(d, name) == IF name = d THEN "stale" ELSE name

\* The process is over, its socket's name stays.
Dead(d, name) ==
    /\ daemon' = [daemon EXCEPT ![d] = "none"]
    /\ listening' = [listening EXCEPT ![d] = FALSE]
    /\ stalled' = [stalled EXCEPT ![d] = FALSE]
    /\ queue' = [queue EXCEPT ![d] = <<>>]
    /\ path' = Left(d, name)
    /\ cli' = [c \in Clis |-> IF cli[c].old = d THEN [cli[c] EXCEPT !.old = Nobody] ELSE cli[c]]

\* Fault: main trusts the tool to have asked.
BadBooted == "up"
\* main asks once more, and ends at once if somebody answers.
Booted == IF IsRunning THEN "none" ELSE "up"

Boot(d) ==
    /\ daemon[d] = "new"
    /\ daemon' = [daemon EXCEPT ![d] = Booted]
    /\ raced' = (raced \/ (~IsRunning /\ \E e \in Daemons : daemon[e] = "up" /\ ~Answers(e)))
    /\ UNCHANGED <<listening, stalled, queue, path, cli, troubled>>

\* Fault: the name is not removed before it is bound.
BadTakes(d) == path = Nobody
\* remove_file before bind: a name of somebody else is no obstacle.
Takes(d) == path # d

\* listen: remove_file and bind.
Bind(d) ==
    /\ daemon[d] \in {"up", "leaving"} /\ ~listening[d] /\ Takes(d)
    /\ path' = d
    /\ listening' = [listening EXCEPT ![d] = TRUE]
    /\ raced' = (raced \/ daemon[d] = "leaving")
    /\ UNCHANGED <<daemon, stalled, queue, cli, troubled>>

\* Fault: it stays with a socket that has no name.
BadVanished(d) == FALSE
\* The check after each turn of listen.
Vanished(d) == path = Nobody

Unbind(d) ==
    /\ listening[d] /\ ~stalled[d] /\ Vanished(d)
    /\ listening' = [listening EXCEPT ![d] = FALSE]
    /\ UNCHANGED <<daemon, stalled, queue, path, cli, raced, troubled>>

\* handle_client reads without a timeout, one client at a time.
Stall(d) ==
    /\ path = d /\ ~stalled[d]
    /\ stalled' = [stalled EXCEPT ![d] = TRUE]
    /\ UNCHANGED <<daemon, listening, queue, path, cli, raced, troubled>>

Recover(d) ==
    /\ stalled[d]
    /\ stalled' = [stalled EXCEPT ![d] = FALSE]
    /\ UNCHANGED <<daemon, listening, queue, path, cli, raced, troubled>>

\* The commands in the order of their answers.  Restart stops what it
\* supervises and removes the name, its own or not.
Process(d) ==
    /\ daemon[d] = "up" /\ queue[d] # <<>>
    /\ queue' = [queue EXCEPT ![d] = Tail(@)]
    /\ IF Head(queue[d]) = "restart"
       THEN daemon' = [daemon EXCEPT ![d] = "leaving"] /\ path' = Nobody
       ELSE UNCHANGED <<daemon, path>>
    /\ UNCHANGED <<listening, stalled, cli, raced, troubled>>

ProcessExit(d) ==
    /\ daemon[d] = "leaving"
    /\ Dead(d, path)
    /\ UNCHANGED <<raced, troubled>>

\* A signal, and the tray's Exit: nothing is cleaned up.
Killed(d) ==
    /\ daemon[d] # "none"
    /\ Dead(d, path)
    /\ troubled' = TRUE
    /\ UNCHANGED raced

\* The name is removed by hand.
Unlink ==
    /\ path' = Nobody
    /\ troubled' = TRUE
    /\ UNCHANGED <<daemon, listening, stalled, queue, cli, raced>>

CliNext(c) == Deliver(c) \/ Wake(c) \/ Launch(c)
DaemonStep(d) == Boot(d) \/ Bind(d) \/ Unbind(d) \/ Process(d) \/ ProcessExit(d)

DaemonNext ==
    \/ \E c \in Clis : Send(c) \/ Restart(c) \/ Start(c) \/ CliNext(c)
    \/ \E d \in Daemons : DaemonStep(d) \/ Stall(d) \/ Recover(d) \/ Killed(d)
    \/ Unlink

\* Commands and daemons run on; a listener and the main thread of a daemon are
\* threads of their own.  No client has to go away.
DaemonFairness ==
    /\ \A c \in Clis : WF_daemonVars(CliNext(c))
    /\ \A d \in Daemons : /\ WF_daemonVars(Boot(d))
                          /\ WF_daemonVars(Bind(d))
                          /\ WF_daemonVars(Unbind(d))
                          /\ WF_daemonVars(Process(d))
                          /\ WF_daemonVars(ProcessExit(d))

DaemonSpec == DaemonInit /\ [][DaemonNext]_daemonVars /\ DaemonFairness

(***************************************************************************)
(* Properties.                                                             *)
(***************************************************************************)
\* A daemon that listens is the one that is found, or the name is gone, which it
\* notices: no other process has the name, alive or dead.  This is what Found
\* rests on, as long as no two have been up beside each other.
NotDeaf ==
    ~raced => \A d \in Daemons :
                  daemon[d] = "up" /\ listening[d] => path \in {d, Nobody}

\* A daemon can be found: if its name is removed it binds again.  Not if another
\* has run beside it, or one on its way out has bound once more, which may have
\* taken the name and died with it, nor while a client holds its listener.
Found ==
    \A d \in Daemons :
        (daemon[d] = "up") ~> (daemon[d] # "up" \/ path = d \/ stalled[d] \/ raced)

\* restart-daemon ends with a daemon that can be found, whatever has been before
\* (a name left by a daemon that was killed): if the daemon that was to go was
\* gone within half a second, and nobody interfered.
Restarted ==
    \A c \in Clis :
        (cli[c].at = "sleep")
        ~> (cli[c].at # "sleep" /\ path \in Daemons) \/ raced \/ troubled
=============================================================================
