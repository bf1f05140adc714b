# awesometree in TLA+

awesometree is a daemon, a command line tool and a set of windows that manage
development workspaces: git worktrees with a window manager tag, an optional
ACP agent, an optional bezalel server and any number of A2A agents. This
directory holds TLA+ models of its core, the TLC configurations that check
them, and proofs that TLAPS checks. Source positions are given relative to the
repository's `src/` directory (`agent_supervisor.rs:162`).

## 1. Inventory

| Component | State it keeps | Operations |
|---|---|---|
| Agent supervisor (`agent_supervisor.rs`) | map from agent ids to a `Notify`; one task per agent; a broadcast channel | spawn, stop, stop_all_in_workspace; the task: spawn process, health check, card, prompt, wait, graceful stop, remove |
| Agent handlers (`grpc/agent.rs`, `mcp/tools_agent.rs`, `agents_ui.rs`) | none; locals across several accesses to the store | spawn, stop, restart, list, status, message, task |
| Workspace handlers (`grpc/workspace.rs`, `mcp/tools_workspace.rs`, `server.rs`) | none; a copy of the store | create, start, stop, destroy, sessions |
| Workspace store (`state.rs`) | workspaces with tag, ports, flags and agent rows | set_active, set_inactive, remove, four allocations, agent rows |
| State file (`state.rs`), project files (`interop.rs`) | a file each, a temporary file, a mutex per process | load, save, modify |
| Manager (`workspace.rs`), command line (`main.rs`) | a Store of its own for its lifetime | up, down, destroy |
| ACP and bezalel supervisors | map from workspaces to a `Notify`; one task per entry | start, stop, stop_all, sync |
| Tokens (`auth.rs`, `grpc/token.rs`) | secret; tokens handed out; a map of them in memory | create, child, validate |
| ARP store (`arp_store.rs`) | tables in memory, which no process initialises | CRUD |
| Discovery, watch streams (`grpc/discovery.rs`) | subscription to the broadcast channel, a stream per client | discover, watch |
| Proxy and routing (`a2a_proxy.rs`, `grpc/http_bridge.rs`) | none | resolve an agent, forward |
| Daemon (`daemon.rs`, `daemon_main.rs`) | socket, command queue | listen, pick, create, destroy, restart, exit |
| Windows (`picker.rs`, `projects_ui.rs`, `cleanup_ui.rs`, `text_input.rs`) | a text with selection and composition; filter, selected row, form | keys, clicks, compositions; messages to the daemon |
| Window manager, paths, mobile apps | of their own | external commands, HTTP clients |

**How they interact.** Everybody meets in `state.json`. Most writers load it,
change a copy and save the whole copy (`state::load` ... `state::save`); only
the agent handlers, the gRPC destroy and the supervisors use `state::modify`,
which does this under a mutex. That mutex exists per process, so it does not
keep a command line process out. The supervisors' tasks run concurrently with
all handlers and are told to stop through `Notify::notify_one`, which stores
one permit. Their map entries say who can be told.

**What is hard**, and what should hold all the same:

- a handler goes on with what it read before a wait: ports, rows, whole stores;
- a stop can come at any point of a task: health check, prompt, restart delay;
- rows are added after the task has begun to report its status;
- a process crashes, ignores SIGTERM, or outlives the daemon;
- two writers, a crash or a full disk in the middle of a save;
- two starts overlap; the sync loop works on a snapshot;
- a command that makes or removes worktree, tag and entry is interrupted, or
  another one, or the user's editor, works on the same three;
- tokens are made from tokens, outlive the map they are kept in, and decide in
  five places of three protocols who sees which agent;
- a watch subscribes after it has loaded, and its client reads when it likes;
- daemons come up beside each other and take the socket's name away;
- positions in a text are bytes, UTF-16 units and pixels of an older line, and a
  wrong one panics; the list that a key acts on follows the text.

`PROJECT.json` lists these hazards at their lines with the properties that are
aimed at them, and the ones no property reaches yet.

## 2. Modules

```
AgentLifecycle    <- MCAgentLifecycle
   |
AgentEvents       <- MCAgentEvents, AgentLifecycleProofs
   |  implements
AgentReports
   |
Watch             <- MCWatch,          WatchProofs
WorkspaceStore    <- MCWorkspaceStore, WorkspaceStoreProofs
StateFile         <- MCStateFile,      StateFileProofs
   |  implements
AtomicStore
ProcSupervisor    <- MCProcSupervisor, DaemonProofs
Daemon            <- MCDaemon,         DaemonProofs
WorkspaceManager  <- MCWorkspaceManager, WorkspaceManagerProofs
Access            <- MCAccess,         AccessProofs
TextInput         <- Picker <- MCPicker, PickerProofs
```

An `MC` module has the symmetry and view of its instances, a `Proofs` module
the theorems (`DaemonProofs` those of the two modules about the daemon's process,
its supervisors and its socket). Operators named `Bad...` are faults: variants of the definition
below them that a slip in the code could produce. No action uses them; with one
in place of its original a property is violated, which shows that the property
looks at the code it is about.

**Grain.** All other modules take a load, a save and a modify of `state.json` as
one step. `StateFile` goes below that, to opening,
truncating, writing and renaming, and implements `AtomicStore`, in which a load
and a save are one step: this is what entitles the others to their grain. A
command line save may overtake a modify between its load and its rename; the
file is then as if it had been saved back as it was and then modified, which is
the step `SaveSession` in `WorkspaceStore`.

### AgentLifecycle

One agent is: its row in `state.json` (`row`), its entry in the map (`sup`), the
position of its task (`pc`), the permit of its `Notify` (`permit`), its process
(`child`) and the last status broadcast (`announced`). `call` is what a handler
keeps between two accesses, among them the copy of the store of a handler that
saves (`call[c].store`).

| In the code | In the model |
|---|---|
| `spawn_agent` (gRPC, MCP) | `SpawnLoad`, `SpawnCall`, `SpawnAdd` |
| `stop_agent` (gRPC); MCP and window | `StopSignal`, `StopWrite`; `McpStop` |
| `restart_agent` (gRPC) | `RestartSignal`, `RestartRemove`, `RestartAlloc`, then as spawn |
| `agent_restart` (MCP) | `McpRestartSignal`, `McpRestartAlloc`, then as spawn |
| `destroy_workspace` (gRPC) | `DestroySignal`, `DestroyRemove` |
| load ... save handlers | `CreateLoad`, `UpLoad`, `DownLoad`, `DeleteLoad`, `McpDestroyLoad`; `Save` |
| the task, `agent_supervisor.rs:131-250` | `SpawnFail` ... `Unmap` |
| the process; `process::exit` | `ChildServe`, `ChildExit`; `DaemonExit` |

Any access to `state.json` may fail. A handler then ends with an error, and what it
did before stays (`StoreFails`; `Manager::destroy` alone goes on); a task only logs
it, broadcasts all the same and goes on, and the row keeps the status it had
(`SetStatus`, `agent_supervisor.rs:510-523`). Three histories remember what the
properties must except: `unwritten`, the agents whose last status no row got;
`late`, those started after the signals of a destroy that was under way, or in a
workspace that was gone; `forgotten`, those whose daemon exited.

Abstracted: agent ids are fresh model values (uuids in the code; the MCP restart
finds its row by id and both loads of it are one step); `auto_agents` is at most
one agent; `Prompts` says whether spawns have an initial prompt, may have, or have
none; `update_agent_pid` and the agent card are left out; a process started
by `sh -c` and its children are one process; the allocation of agent ports also
avoids `acp_port`s, which only makes fewer ports free; `is_port_available` fails
for ports that modelled agents listen on. `cancel_agent_tasks` asks a global
`ArpStore` that nobody initialises, so it changes nothing.

### AgentReports and AgentEvents

`AgentReports` is all that a watch sees of an agent: the status its task wrote
last (`task`), whether it is still to be broadcast (`due`), its row (`row`), and
whether the row changed with nothing broadcast after it (`silent`). A task writes
and then broadcasts (`Spawn`, `Proceed`, `Broadcast`); requests change rows and
broadcast nothing (`ChangeRows`): they may write, to agents that have been
spawned, any status of `Written`, remove rows and bring removed ones back.

`AgentEvents` is `AgentLifecycle` with the broadcast, which the code makes after
it has left the lock of `state.json`, as a step of its own. Whoever has
written a status does not go on before it is sent (`AfterSend`): the task, and for
the first one the request that called `spawn`. The daemon does not exit in it,
as no watch outlives the daemon. `ImplementsReports` maps it to `AgentReports`, with
`Written` and `Turns` every status; `Watch` is proved for any `Written` and
`Turns`, so its theorems hold of these agents. A write that fails is in both
(`SetStatus`).

`AgentEvents` also remembers which requests overlap (`missed`, `overlap`): two agents
do if the row of one was added between the moment the other's request read the
ports in use and the moment it added its own row. `PortsSharedOnlyByOverlap` says
that nothing else gives one port to two rows.

### WorkspaceStore

`file` is the store; `held[c]` the copy of a caller, which is either a request
(one change, one save) or a Manager (any number of them, always from its own
copy). Of a workspace the flags, the tag index and the two ports are kept.
`task` and `stopping` are the ACP supervisor as far as it writes to the store.
Tags have no upper end in the code; the model's `Tags` is big enough that a free
one always exists (one per workspace).

### StateFile and AtomicStore

Inodes, names and open files, because a thread that has opened a file keeps
reading it after a rename, and one that truncated a temporary file keeps
writing to it. `Guarded = TRUE` is `state.rs`: the mutex and a temporary name
with the process id. `Guarded = FALSE` is `interop.rs`: one temporary name, no
lock. A process may end anywhere and any disk operation may fail. Opening for
writing truncates: a file holds `Blank` until it is filled, and `Torn` if two
writers filled it. A power failure that loses written data is not modelled (the
code does not call fsync, and promises nothing about it).

### ProcSupervisor

Both `acp_supervisor.rs` and `bezalel_supervisor.rs`: the map (`procs`), tasks
with their loop of restarts, request threads and the sync loop, each use of the
map's mutex a step. "active" stands for everything that makes sync start a
process. Numbers of tasks that are gone are reused, so crashes and restarts are
unbounded. Of two starts that overlap the second takes the entry of the first
(`Orphan`); `LostToOverlap` says that a task loses its entry in no other way, but by the
end of another that had lost its own. `stop_all`, which only an exiting daemon calls, is left out.

### WorkspaceManager

A workspace as its user sees it: the worktree (`tree`: absent, clean, dirty), the
tag (`tags`), the entry (`store`) and the project's file (`projects`). `call[c]`
is a command of the tool or a thread of the daemon with the `Store` it loaded
when it began, cut where it touches one of the four.

| In the code | In the model |
|---|---|
| `Manager::up` | `EnsureWorktree`, `CreateTag`, `SaveActive` |
| `Manager::down` | `SaveInactive`, `DeleteTag`, `RemoveWorktree` |
| `Manager::destroy` | down, then `Forget` |
| `cmd_up`, `cmd_create`, `do_pick`, `do_create` | `Up`, `UpAll` with `UpNext`, `Create`, `Pick`, `CreateForm` with `LoadStore` |
| `cmd_down`, `cmd_close`, `do_stop_workspace` | `Down`, `DownAll`, `Close`, `StopPicked` |
| `cmd_destroy`; `cmd_destroy_current`, `do_destroy_workspace` | `Destroy`; `DestroyCurrent`, `DestroyPicked` with `CheckDirty` |
| the cleanup window | `BringDownSelected`, `DeleteSelected` |
| `interop::save`, `delete` and who calls them | `SaveProject`, `RegisterProject`, `CreateProject`, `SaveForm`; `DeleteProject`, `DeleteListed`, `UnregisterProject` with `DeleteUnregistered` |
| git, the editor, an interruption | `Edit`, `Commit`; `Killed` |

`Usable` holds until commands overlap, a project's file is deleted or changed
under an active workspace, or the save in `down` fails; `disturbed` remembers
that. The code guards against none of these: `down` goes on removing when its
save failed, the tool, MCP and the windows delete projects without asking, and
only gRPC's unregister looks for active workspaces, in a load of its own.
That uncommitted work survives a destroy is not this code's doing: `cmd_destroy` and
the cleanup window do not look whether a worktree is clean, the others look some
steps before, and what keeps the work is that `git worktree remove` without
`--force` refuses (`Removable`). No property claims it. Further facts the model has: the entry of a
destroyed workspace goes even when its worktree stays; a tag of that name is
taken as it is; `do_create` takes a name that is taken. Left out: two names that
share a directory because `/` is written as `-` (`workspace.rs:310`), launching
programs, cycling through workspaces (changes nothing modelled), the macOS
adapter.

### Access

Tokens and what they let their bearers see. A bearer is a token record as it was
signed; `tokens` is the map in memory, which a restart of the daemon empties;
`env` is `ARP_TOKEN` of each agent; `rows` and `held` are what the handlers read of
the store. The actions are the handlers that make tokens, spawn, restart and stop
agents and create and destroy workspaces, each for gRPC, for the HTTP bridge and for
MCP. `derived` is a history: every token with all it was made with, by `create_token`
as well as by spawn.
What only reads (list, status, discover, message, task, the proxy, the resources
of MCP) are operators on the state (`Listed`, `Discovered`, `ProxyListed`,
`ResolveFlexible`, `TaskAsked`, ...), over any order of the workspaces because a
`HashMap` has one of its own after every load. `ViewsAgree` compares them.
The signature is taken as unforgeable; there is one clock.

What a reader of the code may not expect, and the model has: a missing or expired
bearer counts as a caller on localhost, who is an administrator; the HTTP bridge
passes no bearer on, and MCP has none, so both are such callers; gRPC's spawn takes
neither scope nor permission from the request; an MCP restart gives the agent an
empty environment; a gRPC restart after a restart of the daemon finds no token
and gives none; a token with session permission that was made by `create_token`
is in no session; agents that `create_workspace` starts (`auto_agents`) have no
token and no session; `ListWorkspaces` goes by scope alone; MCP sends to an agent
whatever its status is; a name may resolve to another agent after the next load.

### Watch

The agents are those of `AgentReports`; a broadcast reaches every watch
(`SendEvent`), nothing else that becomes of an agent does (`Untold`). `watch[w]` is a request: the
snapshot (`WatchAgent`, `WatchWorkspace`), the subscription (`Subscribe`), the
statuses to begin with (`SendInitial`, `Answer`), then `Receive` and `Forward`; the
client `Read`s when it likes or goes (`Disconnect`). tokio's channels are external:
the broadcast channel overwrites what a slow subscriber has not read, the stream
makes the sender wait. `Converged` has the exceptions the code has: a broadcast
between loading and subscribing, one that was overwritten, and a change of the
row with no broadcast after it (`silent`). Where `state.json` could not be loaded for
a broadcast the client sees what was broadcast instead of the row (`Told`, `blind`,
`discovery.rs:394-405`). `Answered` is only for what the stream
takes: `watch_workspace` of more than 32 agents puts its statuses into a channel
that nobody reads before the handler returns, and is never answered.
`EndsWithAgent` starts at the announcement `Stopped`: the watch of an agent that
ends in an error, or had stopped before, does not end by itself. Live events are
not filtered by session; `Access` has who may begin a watch.

### Daemon

Daemon processes, the name of the socket (`path`) and the commands of the tool.
`Boot`, `Bind`, `Unbind`, `Process`, `Exit` are a daemon; `Send`, `Restart`, `Start`
with `Deliver`, `Wake`, `Launch` a command; `Stall` is a client that connects and
sends nothing, for as long as it likes: clients are served one at a time without a
timeout. There is no lock. A daemon removes whatever is at the path before it
binds, and one whose name was taken goes on listening on a socket without one, so
`Found` is given up once two have run beside each other (`raced`). `restart-daemon`
waits half a second, whatever the old daemon does meanwhile; `Restarted` is
given up when it was late, or when somebody interferes (`troubled`). What `Found`
rests on is `NotDeaf`: a daemon that listens has the name, or there is none. Commands that
were acknowledged and not yet begun are lost at an exit. A signal and the
tray's Exit leave the name behind; the next daemon replaces it.

### TextInput and Picker

`TextInput` is the text field: the text as a sequence of characters with their
widths in UTF-8 and UTF-16, positions in bytes, the selection with the end that
moves, the range an input method has marked, and the line as it was last
painted, on which clicks are measured. A slice at a position where no character
begins is a panic. `Picker` extends it with the list: `filtered` and `selected`
are renewed when the event of a change is delivered (`Filter`), which is before the
next key; the form with its fields; the messages that the window sends and
then closes. Two ways lead to a misplaced position: the selection an input method
asks for is measured from the start of the text and its end after the end of what
was replaced (`text_input.rs:471`), and a click is measured on the line painted
last (`:307`). `NoPanic` excepts them (`misled`), and the picker's model does not
follow what comes after one. Abstracted: the clipboard (some text of `Typed`);
the form's other fields, whose text decides nothing but whether it is empty; the
freeform mode, which nobody uses. `fuzzy_match` compares bytes, in lower case;
`Fuzzy` compares characters, which is the same for those of `Width`: none of
them shares a byte with another or has another case. A click on a row's stop button sends two
messages, of which the daemon's thread reads the first (`picker.rs:894`).

## 3. Runs

| Run | Instance | Shows |
|---|---|---|
| `agent_events` | 2 agents, 1 workspace, 2 callers, 2 ports, gRPC spawn with a prompt and MCP restart, writes that fail, broadcasts apart | `ReadyIsManaged`, `PortsSharedOnlyByOverlap`, `ImplementsReports` under every interleaving of two requests with two tasks |
| `agent_save` | 2 agents, 1 caller, 1 port, MCP spawn and stop and all load ... save operations, accesses that fail, 1 exit | `NoUnmanagedProcess`, even where a save of a stale copy loses rows; `StoppedIsDead`, `BroadcastOrder` |
| `agent_live` | 1 agent, 2 callers, 2 ports, all operations that modify, with and without a prompt, accesses that fail, fair tasks | `StopHonoured`, `CrashNoticed`, `SpawnResolves`, `DestroyStopsAgents` with requests that overlap |
| `store_safety` | 2 workspaces, 2 callers, 2 tags, 1 port each | what is allocated stays distinct |
| `store_lost` | the same | violation: two callers load, then both save; the workspace that one created disappears, though the other did not name it |
| `file_state` | 2 daemon threads, 1 command, 2 changes, 5 inodes, 1 crash | `LoadsComplete`, `ModifyLosesNothing`, `ImplementsAtomicStore`; no deadlock |
| `proc_live` | 1 workspace, 2 callers and sync, 3 requests, 4 tasks, fair | `EntryHasTask`, `LostToOverlap`, `StopHonoured`, `Converges`; no deadlock |
| `workspaces` | 2 workspaces, 1 project, 2 callers | `Usable` at every step of commands that fail, overlap and are interrupted |
| `access_views` | 2 projects with a workspace each, 2 tokens, 2 agents, 1 name, 2 instants, scopes: everything or one project, permissions: the lowest and the highest | `NoneWidened`, `SessionsAreTrees`, `AgentsHoldTheirTokens`, `ViewsAgree`, `SessionsSeeTheirOwn` |
| `watch` | 2 agents, 1 watcher, channels of 2 and 1, fair | `Converged`, `Answered`, `EndsWithAgent` |
| `daemon` | 2 daemons, 2 commands, fair | `NotDeaf`, `Found`, `Restarted`; no deadlock |
| `picker` | texts of up to 2 characters of 3 kinds, 2 names, one a prefix of the other | `NoPanic`, `FocusIsShown`, `SendsWhatMatches` |

The violation is a place where the code does other than its documentation says;
`findings` in `PROJECT.json` quotes both. Every handler and every command that loads,
changes and saves the whole `Store` can be either of the two callers, so which
of them TLC shows, and which loses its workspace, is arbitrary.

**Where the code does other than its texts say, in the models too.** Each is an
exception that a property names, and in the instance of its run:

- "Each agent gets its own port" (`mcp/tools_agent.rs:177`): two spawns or restarts
  that overlap get one port (`overlap`, excepted by `PortsSharedOnlyByOverlap`);
- "Stop all agents in this workspace" (`grpc/workspace.rs:230`; also
  `mcp/tools_workspace.rs:160`): one whose spawn overlaps the destroy runs on in a
  workspace that is gone (`late`, excepted by `DestroyStopsAgents`);
- a row that says ready is that of a running agent: not if the write of a later
  status failed, which is logged only (`unwritten`, excepted by `ReadyIsManaged` and
  `CrashNoticed`);
- a session token may "Manage agents it spawned" (`arp-spec/identity-and-scopes.md:47`):
  one that `create_token` made is in no session, and the agents it spawns are of
  their own, which it does not see. `SessionsSeeTheirOwn` claims only the other half
  of that table, that nobody manages agents of other sessions;
- project files are to be written atomically (`PROJECT_INTEROP_PLAN.md:90`,
  `arp-spec/rfc-0005-api.md:157-159`): all writers share one temporary name and no
  lock, and a load may be partial. `StateFile` with `Guarded = FALSE` is that file, and
  `LoadsComplete` fails of it; `file_state` is about `state.json`.

Other behaviour that somebody may not expect is in the models and not forbidden by
any property, as nothing in the repository forbids it: a row may stay at stopping
when its task had finished before it was written; an expired bearer is taken for
a caller on localhost, an administrator; of two overlapping starts in
`ProcSupervisor` the first leaves a task nobody can stop.

**Why the bounds are enough.** The hazards need two actors of a kind: two
agents for ports and probes that reach the wrong process, two callers for
snapshots that overlap, a task beside them for late status updates. Two ports
for two agents let the range be exhausted by restarts. What `agent_live` asks is of
one agent, and what can get in its way are two requests at once; the second
agent, whose process may answer the first one's health check, is in the safety
runs. In `agent_save` the copy of one caller is made stale by the tasks and by what it
did itself, and one port makes every second agent's process share that of the
first. One exit shows what a
restarted daemon finds; more add none but the same. In `store_safety` one port
for two workspaces makes exhaustion normal, and two callers suffice for a copy
to be stale. Five inodes are as many as can be in use at once (the live file,
two temporary files, two open old ones). Four tasks cover the three requests and
the sync loop: no state lacks a free number when one is needed. 
In `workspaces` two callers are what it takes for a command to be overtaken; a
caller may run any number of commands, and after a disturbance only what had begun
is continued (`GoOn = FALSE`), since `Usable` promises nothing more; two
workspaces in one project let one be in the way of the other. In `access_views` two
tokens make chains of parent and child, with the administrator above them, and
the lowest and the highest permission are asked for; a list of no projects, which
stands for the caller's own scope, asks for one of these two. The theorem
is for chains of any length. Agents report ready only; the other statuses enter by
spawn and stop. Two agents of one name in two projects make every
lookup by name ambiguous. In `watch` a stream of one makes the sender wait at
once and a channel of two overwrites with the third broadcast; one
agent starts, is ready, stops and is stopped, the other only starts, and requests
add rows as starting; that they write stopping, too, in the code is left to the
theorem, which is for any `Written`. In `agent_events` requests
add rows and remove them; stops, which write to them, and saving an old copy are
left to the theorem. In `daemon` two processes take
the name from each other, and a third would meet the same two cases: somebody
answers, or nobody does. Two characters, of four, two and one bytes, one of which
joins the one before it, hold every boundary between kinds of characters.

Deadlock is not checked where the instance ends by design: every agent id used,
no request left, all watches over, no command begun after a disturbance, the
window closed.

**Fairness.** A task of the runtime is polled when it is ready, and every wait in
an agent's task is bounded: 30 health checks, 300 s for the prompt, 5 s of grace
and then SIGKILL. So each task, each accepted request and the sync loop have
weak fairness. There is none for requests, for processes (which may never
listen and never exit) or for crashes. `select!` picks any branch that is ready;
no fairness is assumed of the choice. A watch has weak fairness for its task and
for its client's reading; a client that does not read may be one that disconnects.
In `Daemon` the tool's commands, the listener and the main thread of a daemon run
on; no client has to send its line or go away.

## 4. Proofs

TLC checks the instances above; these theorems hold for any sets of agents,
workspaces, callers, ports, changes, inodes, tokens, watches and texts. The
assumptions on constants are in the modules: numbers are naturals, the null value
is none of the rest, the workspaces are finitely many, a `Workspace` is no agent, a dead name no daemon,
what is typed and what is listed are texts over the alphabet. A theorem that needs
more says so in its statement.

- **AgentLifecycle.** `TypeCorrect`, `ProcessesManaged`, `StoppedAreDead`,
  `BroadcastsOrdered`, and `ReadyRowsManaged` under the assumption
  `Ops \subseteq ModifyOps`. None is inductive alone. `LocalsOK` says what a
  handler's locals are between its steps; `TaskInv` ties the position of a task
  to its entry, its process and its last announcement (`Mapped`, `Owned`,
  `Told`): that an agent leaves the map only after its process is dead is a
  fact about positions. `RowInv` adds the rows: a row says ready or busy only if
  its task said so and has not passed the point where it says otherwise, or could
  not write it there.
- **AgentEvents.** `EventsReport`: it implements `AgentReports`, for any agents,
  requests and ports, and so `Watch` may be read as a watch of `AgentLifecycle`'s
  agents. Every step is a step of the lifecycle, so its `TypeOK`, `LocalsOK` and
  `TaskInv` hold; on top, an agent that has been spawned has been announced
  (`Spoken`). `StepTells` says of each
  action of the lifecycle what it tells: one announcement of one agent, in an order
  the task keeps and written to its row if it has one, or none, and then a row changes
  only of an agent that has been spawned. The first is `Spawn` or `Proceed`
  (`TellsReports`), the second `ChangeRows` (`SilentReports`). `AfterSend` is what
  keeps a second announcement from being written while the first is due.
  `PortsOverlap` is `PortsSharedOnlyByOverlap` for any number of callers, under
  `Ops \subseteq ModifyOps`: a saved copy may bring rows back that the ports in use
  no longer counted, and a workspace that is taken down keeps rows whose ports
  the allocation, which looks at active workspaces, gives out again. `PortInv` says
  of a handler what its position entitles it to: what it takes for used covers
  every row it has not missed (`missed`), the port it found free is in none of them
  (`PortLocal`), and every row is of an active workspace (`RowsActive`).
- **WorkspaceStore.** `TagsStayDistinct`, `BezalelPortsStayDistinct`,
  `AcpPortsStayDistinct`, `InactiveIsReleased`. The file alone is not enough:
  any held copy may become the file, so the invariant is that the file *and*
  every held copy are sound. This is why saving stale copies loses updates but
  never gives a value out twice.
- **StateFile**, guarded. `LoadsAreComplete`, `ModifyIsAtomic` and `Refinement`
  (the file implements `AtomicStore`). The invariant has the lock (`LockInv`: who
  writes holds it), the names (`NamesInv`: a temporary inode is its process's
  own and not the live file), the contents (`FileInv`: an inode that can be
  loaded is complete) and the modifies (`ModifyInv`).
- **ProcSupervisor.** `TypeCorrect` and `EntriesHaveTasks`. Two facts about who
  works on what (a busy thread and a live task know their workspace) make it
  inductive. `EntriesLostToOverlap` follows from the same invariant: apart from an
  insertion and the end of a task no step touches an entry or an owner, an
  insertion that hits a live task's entry is one over a running workspace, and a
  task that ends with its own entry leaves no other task behind that had one.
- **Daemon.** `DaemonTypeCorrect` and `ListenersNotDeaf`, for any number of
  processes and commands. `NotDeaf` alone is not inductive, since a daemon that comes
  up will take the name: as long as nothing has raced at most one is up
  (`OneUp`), and a name that is some daemon's is that of one that is up
  (`NamedIsUp`). A daemon that finds nobody answering is then the only one, or
  sets `raced`.

- **Access.** `TypeCorrect`, `ChainsNarrow`, `SessionTrees`, `TokensHeld`,
  `SessionsConfine`, `ViewsAlwaysAgree`, for any
  projects, tokens, agents and times. The bearers that were handed out only ever
  grow, so what holds of a token and its parent when it is made keeps holding; ids
  are fresh, so a parent cannot be mistaken for another token. A token is within
  the one it is made with because of what `create_token` and `create_child_token`
  check (`NarrowsWithin`), and so within all that one derives from. `SessionsConfine`
  follows from `AgentsHoldTheirTokens`: a row that has a session has the token that
  was made for it, whose session is its parent's or begins with itself, and a row
  without a token is in no session. `ViewsAlwaysAgree`
  rests on `IdsUnique`: no two rows have one id, which a restart keeps because it
  takes the old row away before it adds the new. A search is the entry with the
  lowest place in an order of the workspaces, preferring one that serves;
  `FirstIn` and `ResolvedIn` show that it finds one whenever there is one, from
  the least number of a set of numbers, and nothing but one.
- **WorkspaceManager.** `TypeCorrect` and `ActiveUsable`, for any
  workspaces, projects and callers. As long as nobody has interfered a command is
  alone (`Alone`), so what it read is still so (`InStep`): its copy of the store is
  the store, its project is the project's file, and its position says what is
  already there (the worktree, before the entry becomes active) or already gone
  (the active entry, before the worktree goes). This is the order of `up` and
  `down`, and the invariant fails with either of them turned round.

- **Watch.** `TypeCorrect` (with the bounds of both channels) and `ViewsConverge`,
  for any agents, watches and capacities. The proof follows one status on its way:
  what the row says is still in a broadcast that is unread (`Announced`), or in
  the snapshot, or in the hand of the watch, or it is the last that the stream has
  of the agent, or it is what the client has read (`WillSee`, `Follow`). Three
  facts about the ends make it inductive: a broadcast `stopped` is the last of its
  agent (`StopIsLast`), a watch that ends has the row as the agent left it
  (`Ended`), and a status that is due is the task's last (`TaskOwes`).
- **TextInput and Picker.** `TypeCorrect`, `FieldNeverPanics`, `FocusStaysShown`
  and `SentMatches`, for texts and lists of any length. `FieldInv` says that, unless
  misled, the selection ends where characters begin, which every key, click,
  paste and composition must keep. Its arithmetic is that of `Measure`, the number
  of units of a prefix, taken as the cardinality of a set of units: prefixes grow,
  replacing a range adds the inserted text's measure to the
  part before it, and the round trip between bytes and UTF-16 leads back. In the
  list, `Shown` keeps `filtered` what the text asks for until an event is
  pending; that the matches are a sequence without gaps, `NthType`, is shown from
  a least counterexample.

`TypeOK` of `AgentLifecycle`, `StateFile`, `ProcSupervisor`, `WorkspaceStore`, `WorkspaceManager` and
`Access`, which are parts of the invariants, and `InactiveIsReleased` are proved
and not among the properties of a run.

Only model-checked: everything under fairness (`StopHonoured`, `CrashNoticed`,
`SpawnResolves`, `DestroyStopsAgents`, `Converges`, `Answered`, `EndsWithAgent`,
`Found`, `Restarted`), since TLAPS has no rules for `ENABLED` and fairness here. Every
invariant, every action property and both refinements that a passing run checks are
stated by a theorem. That a recursive definition computes what it should is
nowhere proved: the models measure texts by cardinality, search by the lowest
place and list by rank instead.

## 5. Not modelled

- What git and the window manager do beyond the result of a call; launching
  programs; the macOS adapter.
- The HTTP messages between the daemon and its agents, the bodies and streams
  that the proxy forwards, conversions between wire types and the store's.
- `stop_all` and the signal handler, which locks a mutex that the interrupted
  thread may hold: the models hold a mutex for a step only.
- REST routes for projects, files and completion; defaults, context files and
  validation of project files; paths and the environment.
- The ARP store: `init_global` is never called, so no handler reaches its tables.
- The form of the projects window, the agents window, all drawing.
- The mobile apps and the client crate, which are HTTP clients of the REST server.
- A start of a headless workspace that was stopped is not headless any more
  (`server.rs:459` reads a flag that `set_inactive` cleared): the model does the
  same, nothing documents what it should do.

## 6. Plan

Done: `AgentLifecycle`, `WorkspaceStore`, `StateFile` with `AtomicStore`,
`AgentEvents` with `AgentReports`, `ProcSupervisor`, `Daemon`, `Access`,
`WorkspaceManager`, `Watch`, `TextInput` and `Picker`, each with proofs.

Next:

1. `WorkspaceStore` over `AtomicStore`: a caller's load and save as those of the
   abstract store.
2. `stop_all`, the signal handler and the mutex in `ProcSupervisor`, with the lock
   held over several steps.
3. The fields of the projects window, on top of `TextInput`; project defaults in
   `interop.rs` as operators against a reference definition.
4. The broadcasts to a workspace as against an agent, with several workspaces in
   `AgentReports`.
