# Verification of PaddleBoard's connections, model servers, tiers, index and recovery

PaddleBoard is a Rust desktop editor derived from Zed. Most of it is rendering,
editing and adapters to external tools. The parts whose correctness depends on the
order of events, on failures and on timeouts are few: the link to a remote
machine with the pool and the process behind it, the manager of the local model
servers, the escalation between model tiers, the retrieval index, and the recovery
of sandboxed commands after a crash.
This directory holds TLA+ models of those parts, the TLC configurations that check
them, and TLAPS proofs of what matters most. Paths are relative to the repository,
which the map in `PROJECT.json` calls `src/`.

## Inventory

| Component | State | Operations | Hard behaviour | What makes it correct |
|---|---|---|---|---|
| **Remote message layer**: `ChannelClient` in `crates/remote/src/remote_client.rs`, pumps in `crates/remote/src/transport.rs`, server queues in `crates/remote_server/src/server.rs` | `next_message_id`, `buffer`, `max_received`, `response_channels`, the queues at both ends | send, request, respond, read, acknowledge, flush and replay, reconnect, resync | outages that lose what is in flight, replay, two threads inside `send_buffered`, acknowledgements that are stale | nothing unhandled is discarded; nothing is lost; after a resync everything arrives |
| **Remote connection life cycle**: `RemoteClient`, same file | `State`, the attempts, the monitor, heartbeat and reconnect tasks | connect, monitor, heartbeat, reconnect, shut down, debug actions | four tasks on one thread, each awaiting, each able to start a reconnect; results applied after the state has moved on | one attempt at a time; an ended client stays ended; a reconnect ends; a dead or silent peer is noticed |
| **Local model servers**: `crates/paddleboard_llama_manager` | per slot: status, generation, run task, server process | start, stop, switch model, retry, install, verify, download, spawn, poll | superseded runs, cancelled downloads, ports chosen before they are bound, processes that exit or hang | Ready is true; only the wanted model is served; no stray server; only checked files are loaded |
| **Connection pool**: `ConnectionPool` in `remote_client.rs` | one entry per host: Connecting (a weak shared task) or Connected (a weak connection) | connect, join a pending connect, reuse, kill, drop | windows sharing a connection any of them may kill; tasks that vanish with their last waiter | one connection per host; a task that ends finds its own entry; everyone who waits gets an answer |
| **Remote server process**: `crates/remote_server/src/server.rs` | pid file, three socket files, listeners, idle timer | spawn, kill, proxy, accept, idle exit | files that outlive processes; every check is old when acted upon; crashes between any two steps | a daemon that is up is found; "not running" is true; the next start recovers |
| **Model tiers**: `crates/paddleboard_tiers`, hook in `crates/agent/src/thread` | `failed_on_current`, `history`, `blocker`, `escalation_pending`, the thread's model | check after a turn, retry, escalate, block, pick, dismiss | the hook awaits a check that takes minutes; cancelled turns live on; several turns share the state | no spending nobody agreed to; a card tells the truth; every turn ends |
| **Retrieval index**: `crates/paddleboard_rag` | per file a content hash and the chunks, in SQLite | list, read, embed, replace, prune, query | searches that overlap, fail midway, and index files while they change | a hash stands for its chunks; an undisturbed search is up to date; the index converges |
| Agent and ACP threads: `crates/agent`, `crates/acp_thread` | messages, tool calls, the running turn | send, cancel, retry | cancellation in a turn | large, inherited; not planned beyond the tier hook |
| Git login: `crates/paddleboard_git_login` | device code, interval, expiry | request, poll, slow down, cancel | polling against expiry | the flow ends |
| **Sandbox recovery**: `crates/paddleboard_sandbox_recovery`, its callers in `crates/agent` and `crates/paddleboard` | one record per running command in a journal directory, containers labelled with their owner's pid | record, run, end; at launch take the records, report them, reap containers | processes that die between any two steps, several at once, pids used again | an interrupted command is reported, once, and no other is; containers of the living stay |
| Container engine: `crates/paddleboard_container_engine` | images, external processes | pull, run, prune | driven by external tools | not modelled |
| Text CRDT, clocks, collaboration RPC | inherited from the editor upstream | edits, versions, messages | convergence | too large at a useful size; the clocks are a candidate |
| Editor, workspace, UI framework, project stores | rendering and adapters | | | not state-machine logic |

How they interact: `RemoteClient` owns a `ChannelClient` and tells it to
`reconnect` and `resync`; the transport's io task reports activity to the
heartbeat and its end to the monitor; the server runs the same `ChannelClient`
over queues that outlive its connections. The reconnect task asks the pool for a
connection and kills the one it had; on that connection it starts a proxy, which
finds or spawns the daemon and whose exit code decides between another attempt and
giving up. The tier hook runs inside the turn loop of a thread. The retrieval index calls
`ensure_embedding_running`; settings, the model picker and the provider call
`set_managed` and `ensure_running`. PaddleBoard processes meet in the journal directory
of sandbox recovery, in podman and in the process table. `PROJECT.json` lists the hazards of each, at
the lines where they bite.

## Modules

| Module | Role |
|---|---|
| `ChannelClient` | both ends of the message layer and the link between them |
| `RemoteClient` | the life cycle of one connection |
| `ConnectionStatus` | what a `RemoteClient` promises those who watch it; abstract specification |
| `ConnectionPool` | the windows of one host and the connection they share |
| `RemoteServer` | the daemons and proxies of one identifier and the files between them |
| `LlamaManager` | the chat and embedding slots, their runs and their processes |
| `ModelTiers` | the turns of one thread and the escalation at their end |
| `RetrievalIndex` | the searches of one worktree and the index they share |
| `SandboxRecovery` | PaddleBoard processes, the journal of their sandboxed commands, and their containers |
| `MC...` | instances for TLC |
| `ChannelClientProofs`, `RemoteClientProofs`, `ConnectionPoolProofs`, `LlamaManagerProofs`, `ModelTiersProofs`, `RemoteServerProofs`, `RetrievalIndexProofs`, `SandboxRecoveryProofs` | theorems |

Operators whose comment begins with "Mutant" are wrong variants of the definition
that follows them. `PROJECT.json` pairs each with the property that it must break.

### ChannelClient

The two peers are indices into every variable. An envelope keeps its id, kind,
`ack_id` and `responding_to`; payloads are dropped. `outgoing[p]` and
`inbox[Peer(p)]` are the two halves of one direction: `Transmit` is the pump of the
transport. `sent`, `received` and `answered` are history.

* `StartHandlingMessages` queues the unbuffered `RemoteStarted` handshake and
  remembers its id; `SkipHandshakeAck` is the branch of `read_messages` for its Ack.
* `Send`, `Request` and `Respond` go through `SendBuffered`: number, stamp with
  `max_received`, push into `buffer`, queue. On a peer in `Background` the four
  steps are separate actions (`BackgroundNumber`, `Stamp`, `Buffer`, `Queue`),
  because the server's telemetry forwarding sends off the main thread and only
  the atomics and the mutex protect the steps.
* `HandleFlush`, `HandleRemoteStarted`, `HandleIncoming`, `HandleResponse` are the
  branches of `handle_message`. Each first trims the buffer by the envelope's
  `ack_id` (`PopAcked`: pop the front while its id is at most `ack_id`);
  `HandleFlush` replays the whole buffer and then acknowledges, both queued in one
  step.
* `DropConnection` loses what is between the ends and the client's queues, keeps
  the server's, and may lose envelopes the server's pump had already taken
  (`Lose`). `Reconnect` gives the client fresh channels, restarts the read task,
  and queues handshake and flush. `CompleteResync` replays the client's own buffer
  when the flush is answered; `ResyncTimeout` abandons it. Once the resync has ended,
  on a dead link too, the monitor may still reconnect; it need not.

### RemoteClient

`state` is the `Option<State>` ("taken" for `None`). Tasks are program counters:
`setup` for `RemoteClient::new`, `task` for the reconnect task (kill, connect,
handshake, resync, apply), `heartbeat` with its timer, `monitor`. The code runs on
the main thread, so an action is what happens between two awaits. Dropping a
`Task` cancels it, so `StartAttempt` and `ShutdownProcesses` also reset the tasks
owned by the state they replace. `activity` counts items of the bounded channel
that resets the heartbeat. `io` is what the proxy does: running, silent, died, or
exited with the code for "server not running".

`ConnectionStatus` knows five states and the Disconnected event, and nothing of
attempts or tasks. `RemoteClient` instantiates it with `connection_state`, the
translation of `ConnectionState::from` (a client that gave up, found no server or was
shut down shows as Disconnected). That every step of the tasks is one of its steps or
a stutter is `ShowsStatus`.

### ConnectionPool

One entry, the options of one host. A connection has the number of the task that
made it. Reference counts are derived: a task is `Held` while some client waits on
it, a connection `Referenced` while a client or a finished attempt somebody waits on
has it, and a task whose last waiter goes is dropped with it. `PoolConnect` has the
three ways of `ConnectionPool::connect`: `Join`, `Reuse` (not killed, still
referenced), `StartFresh`. `TaskConnects` and `TaskFails` are the end of the task
with its `debug_assert`. `Open`, `TakeResult`, `Handshake`, `LoseConnection`, `Kill`,
`ConnectAgain`, `AfterFailure` and `Close` are how `RemoteClient` goes about the
pool, with the attempt counter and without the heartbeat. `LinkDrops` is the SSH
master dying by itself, which is not a kill: the pool still hands it out.

### RemoteServer

Daemons and proxies are processes with a step; `pidFile` and `sock` are the files,
each naming the daemon that wrote or bound it, whether it lives or not. The daemon:
`WritePidFile`, three `Bind`s (an existing socket file ends it), `Accept` of one
stream per listener until three make a connection, `ConnectionEnds`, `IdleExit`,
`Quit`, and `Crash` at any point. The proxy: `ReadPidFile`, `LookUp` (which removes a
stale file), then either `NotRunning` (exit code 90), or `KillRunningServer`,
`CleanUp`, `SpawnServer`, `SocketsExist` or `WaitTimesOut`, `ReadNewPid`, then three
`Connect`s and forwarding until `StreamLost`. `ProxyDies` is the transport ending it,
at any step: a proxy that dies between two connects leaves its streams in the queues.
Two guards of `Launch` state what is assumed of `RemoteClient`, which starts the proxies:
a session reconnects only when it was once connected (`Established`), and, unless
`Overlap`, the proxy before has ended or still forwards and no daemon is coming up
(`Settled`: the client kills a connection before it starts the next proxy, one at a
time, and connecting anew takes longer than a daemon takes to bind its sockets).

### LlamaManager

A function over the two slots for each of `status`, `generation`, `run` and
`process`; `cache` is the file at each model's path. A run is `resolving` (binary),
`verifying` (SHA-256 of the cached file), `downloading` or `polling`; finding a
port, spawning and storing the handle happen in one step (`Launch`), as no await
separates them. Dropping a `ServerHandle` kills its process, so killing is
`process[s]' = NoProcess`. The process is external: it boots, binds or exits,
loads, serves, and may crash or hang at any time. A port may be given to a second server
before the first has bound it (`find_free_port` binds and lets go); both are then
`shared`. `Unknown` are ids the settings may name and no catalog has. For such an id
`start` sets Error and touches neither the run nor the process (`Misnamed`).

### ModelTiers

`decide`, `escalation_targets`, `tier_index_for_model`, `within_ceiling` and
`record_failure` are the pure functions of the crate. A turn is a task: `asking`,
`streaming` (a request to the model `on`), `checking`, `checked`, `done`. `Cancel`
only raises a flag, which the turn sees where the code looks at it
(`SeeCancellation`), so a cancelled turn may still be checking while the next one
runs. `BeginCheck` is the hook up to the await, with the settings it prepared;
`CheckEnds` brings one of the four outcomes; `AfterDone`, `AfterUnavailable`,
`AfterRetry`, `AfterEscalate`, `AfterBlocked` are the branches after it, which read
the model and the counters of that moment. `Refused` puts the thread on the model's
refusal fallback, which may be a lower tier. The user's side is `ExecutePrompt`,
`Cancel`, `EscalateToTier` and `DismissBlocker` (the card), `PickModel`,
`EditSettings`. `Send` is `Thread::send`, which resets the counters and which only
tests call. `chosen` and `inForce` are history: the models somebody chose, the
settings somebody had. `MCTiersFresh` adds two more, the failures each turn has itself
suffered and whether one gave up early.

### RetrievalIndex

A file's content is a version, which also stands for its hash and its chunks.
`hashes` and `chunks` are the two tables. A search is a task that lists the files
(`Begin`, `collect_files` with its limit), reads all hashes once (`file_hashes`),
then for each file passes over it or reads it, embeds it and stores it
(`Pass`, `Read`, `replace_file`, one transaction), prunes what it did not list
(`SelectStored`, and per file `DeleteChunks` and `DeleteFile`, two statements), and
queries. `Fails` ends it anywhere; between the two deletions only if `PruneFails`, as
there is no await in `prune_missing` and only an error or the end of the process can
come there. `Edit` is the world. The list is taken from the worktree's snapshot,
which is assumed to have caught up with the disk; a file may still change or vanish
after it was listed. `alone` is history: neither an edit nor another search since
this one began.

### SandboxRecovery

A process is a pid that is free, launches (`taking`), is open, or belongs to another
program (`OtherProgram`); `Dies` is a crash or kill at any point. The journal's files are
`record`: absent, half-written or whole, as `fs::write` creates and then writes
(`BeginCommand`, `Recorded`). A launch goes through the files `read_dir` gave it, and for
each reads it, looks up its owner and removes it, in three steps (`ReadRecord`,
`JudgeRecord`, `RemoveRecord`); the first window shows what was found. In the background
it lists containers, looks up owners and removes (`ListContainers`,
`orphaned_container_ids`, `RemoveContainers`). The sandbox tool records, starts podman and
at its end drops the record (`ToolEnds`); podman and the container live on their own.
`single` says whether there is one PaddleBoard at a time. The instance check is one of
a release channel (and skipped by Dev builds and `PADDLEBOARD_STATELESS`), while
`data_dir`, and so the journal, is the same for all channels. `faulty` is history: the
records on which a read or removal failed.

## What the runs check

Passing runs:

| Run | Properties | Bounds | Shows |
|---|---|---|---|
| `channel_faults` | `TypeOK`, `DiscardedWhenOvertaken` | 2 outages, 1 request, 1 notification, background sender on the server | a message leaves its buffer only when the peer handled it or a later one |
| `channel_outage` | `NothingLost`, `WatermarkHonest`, `EventuallyHandled` | 1 outage; client 1 notification and 2 requests, server 2 notifications and its answers | one outage loses nothing, a finished resync leaves no gap, and on a resynced link everything arrives |
| `remote_tasks` | `TypeOK`, `LifeCycle`, `ShowsStatus`, `NoResurrection`, `OneAttemptAtATime`, `ReconnectSettles`, `MissedHeartbeatResolves` | the code's own limits (3 attempts, 5 heartbeats), debug actions on | no interleaving of the tasks breaks the life cycle or shows as anything but `ConnectionStatus`; reconnects end, missed heartbeats lead somewhere |
| `pool_shared` | `TypeOK`, `TaskOwnsEntry`, `OneConnection`, `EveryoneSettles` | 3 windows, 1 attempt each, 2 faults | windows that open, cancel, kill and reconnect in any order share one connection, and whoever waits gets an answer |
| `server_restart` | `TypeOK`, `NoOrphan`, `StreamsNotCrossed`, `NotRunningHonest`, `StartRecovers`, `ProxySettles` | 3 proxies, hence up to 3 daemons, 2 crashes, each proxy cut off at any step | a daemon that is up is found; no connection mixes two proxies that are at work; a refused reconnect found no daemon; the next start recovers from whatever was left |
| `llama_catalog` | `TypeOK`, `ReadyServes`, `DesiredFollowed`, `NoStrayServer`, `LaunchedVerified` | 2 chat models and a misspelt one, 1 embedding model, 2 ports, 2 starts or stops per slot; servers crash, hang and share ports | superseded runs stay quiet, failures leave no server, only checked files are served; Ready names a server that got to serve there |
| `tiers_turns` | `TypeOK`, `SpendConsented`, `CardCounts`, `TurnEnds` | 2 turns, 1 hand pick, 1 edit of the settings, 1 refusal; four tiers, of which one is not available, one falls back to the tier below and one to a model that is no tier | the thread is only ever on a model somebody agreed to; a card counts enough failures; every turn ends, also one that is sent down by a refusal and climbs again |
| `index_searches` | `TypeOK`, `HashHonest`, `AloneComplete`, `Converges` | 2 searches at once, any number in a row, 2 files of which one fits the limit, 3 edits | a hash stands for its chunks; an undisturbed search is up to date; the index converges |
| `sandbox_launches` | `InterruptedNotForgotten`, `ReportedOnce`, `ReportsHonest`, `LiveContainersKept` | 2 pids; 2 commands, the second only with one PaddleBoard at a time, without other programs and without failing files (`Bounded`) | living processes keep their containers; with one PaddleBoard at a time, reports are complete, single and true |

Runs that show a disagreement between the code and what it says of itself. Each is
a finding in `PROJECT.json`, with the line quoted:

| Run | Property | Scenario |
|---|---|---|
| `channel_two_outages` | `NothingLost` | the second outage comes before the first resync is answered. A message left in the server's queue has moved `max_received` past one the client missed, and the next flush acknowledges both |
| `server_half` | `ReconnectionKept` | a proxy is cut off between two of its connects; `join3` joins the next one's streams with what is left of it, reads the end of the dead stream, and closes the reconnected one |
| `tiers_fresh` | `FreshCount` | the application's `execute_prompt` does not reset the counters, so the second request gives up on its first failed check |

Further configurations, which mark where the properties above end. TLC finds each of
these violated:

| Configuration (module) | Property | Scenario |
|---|---|---|
| `MCRemoteDeath` (`MCRemoteClient`) | `DeathNoticed` | the proxy dies just before the state says Connected; the monitor's only `reconnect()` is refused, and the client stays Connected |
| `MCRemoteDebug` (`MCRemoteClient`) | `StateLostOnlyByShutdown` | `force_heartbeat_timeout` takes the state before it looks at it, and "ignores" a client by losing its state |
| `MCRemoteSilence` (`MCRemoteClient`) | `SilenceNoticed` | an answered ping does not arm the timer again; a link that then stalls is never noticed |
| `MCServerOverlap` (`MCRemoteServer`) | `NotRunningHonest` | two starts overlap: the second daemon overwrites the pid file, fails to bind and exits, and the first is no longer found |
| `MCLlamaUnknown` (`MCLlamaManager`) | `DesiredFollowedAlways` | an unknown id sets Error and cancels nothing, so the old run overwrites the error |
| `MCLlamaPorts` (`MCLlamaManager`) | `StolenPortSurfaces` | the other slot's server answers `/health` on the shared port, and the slot whose server could not bind it becomes Ready: the readiness poll does not surface the error, as the comment of `find_free_port` says it does |
| `MCLlamaHang` (`MCLlamaManager`) | `StartingSettles` | a health request that is never answered is never timed out: `READINESS_TIMEOUT` is looked at between two of them |
| `MCTiersCancelled` (`MCModelTiers`) | `CancelledTurnsInert` | the check of a cancelled turn fails after the next turn began, and moves the thread or shows a card |
| `MCTiersRefused` (`MCModelTiers`) | `ClimbedOnce` | escalation resets the count, a refusal sends the thread back down, and the lower tier gets its retries again; a model that refuses every time makes this turn go on for ever |
| `MCIndexPrune` (`MCRetrievalIndex`) | `AloneComplete` | a search ends between the two deletions of a prune: the row stays without chunks, and the file, when it returns with that content, is taken for indexed |
| `MCIndexGhosts` (`MCRetrievalIndex`) | `NoGhosts` | another search stores a file between those deletions: the row goes, the chunks stay, and no later prune sees them |
| `MCSandboxOverlap` (`MCSandboxRecovery`) | `InterruptedNeverForgotten` | a second PaddleBoard launches while the first writes a record, cannot parse it and discards it; the first then dies in that command. "Records owned by a live process ... are left in place" (`paddleboard_sandbox_recovery.rs:236`) holds only for records that can be parsed |

Three more limits of the code that the models contain, without a configuration of
their own: a server that exits after Ready leaves its slot Ready, as nobody awaits the
child (which is why `ReadyServes` allows the life `crashed`); a second semantic search while the
embedding slot is Preparing restarts it, as Preparing carries no model; and a ping
that times out in the 50 ms in which `shutdown_processes` keeps the heartbeat task
alive finds no state to unwrap (`unwrappedNone`).

Smaller exposures that no property is about: the `response_channels` entry of a request
that timed out stays until an answer comes; a master that died by itself is handed out
by the pool until some client kills it; both model slots may install the same release at
once; a card's button is looked up in the settings of now; a failed check is blamed on the model the
thread has when it ends; a request that is replayed is handled again; a cancelled
download's last write may still reach the partial file of the next; a listed file that outgrew the limit or became binary keeps the
chunks of its last good version.

**Why the bounds are enough.** The interesting event of the message layer is a
message on each side of an outage, in each place it can be (buffer, queue, pipe,
inbox, handler), together with an acknowledgement stamped before it: two messages
in one direction and one answer in the other reach all of those places, and the
failing run shows that two outages are where behaviour changes. Requests are given
to the client first because `RemoteClient::new` hands the channel out only after a
ping was answered. `RemoteClient` has a finite state space and is checked with
the limits of the code. In the pool, three windows are one that waits, one that kills
and one that opens in between; two attempts and three faults pass as well
(468,682 states, 3 minutes) and show nothing new. Three proxies are a first start, a
reconnect and a start after a crash, each of which may have left a daemon; two crashes
let both the daemon a proxy found and the one it spawned die. Four proxies pass as well
(520,041 states), where two dead ones can have left streams before a third. For the model manager
two generations per slot are a run and the one that supersedes it; two chat models
are needed to see a stale one; two ports for two slots. Two turns are a cancelled one
and the one that overlaps it; a hand pick and an edit can each fall into either await.
One refusal is one climb more than the tiers alone give; `MaxRefusals` is a bound the
code does not have, and `TurnEnds` says only that a turn refused finitely often ends.
Two searches overlap in every pair of steps and, as a search that ended may begin
again, follow each other without bound; the third edit lets a file leave, come back
and change once more. For sandbox recovery two pids are a process and the launch that
finds what it left, under the same or another pid, at once or later; a second command
makes a launch die between two records. The proofs below do not depend on any of these numbers.

`CHECK_DEADLOCK FALSE` is used for all models but `SandboxRecovery`, where something can
always be launched or die: with bounded sends, outages, starts, turns
and edits every model may come to rest.

**Fairness.** In `ChannelClient`: the read tasks, the pumps, a background sender in
the middle of a send and the tail of a resync run when they can. The executors
poll every woken task and the pumps are `select` loops over the queues. Nothing is
assumed of new sends, of the handlers, of the network or of reconnects;
`EventuallyHandled` is conditional on a link that stays up and is resynced. In
`RemoteClient`: timers fire and each task, once it can proceed, does so. The
exceptions are the two awaits of the reconnect task without a timeout, killing the old
connection and opening a new one (`KillOld`, `ConnectNew`): no fairness is assumed of
them, and `ReconnectSettles` allows an attempt that the transport keeps waiting for
ever. In `ConnectionPool` the transport does answer: a connecting task ends, with
success or failure, a kill and a handshake end (the handshake has a timeout), and a
client notices a link that is down; `EveryoneSettles` is about the pool, not the
transport. In `RemoteServer`: a process that can take its next step does, which is the
operating system's scheduling; crashes, idle exits, the transport's kills and new
proxies are free. In `LlamaManager` no passing run needs fairness; in `MCLlamaHang` only
the poll loop is fair. In `ModelTiers`: each turn task goes
on when its model or its check has answered (weak), and a model does not ask for tools
for ever (strong fairness of `BeginCheck`: a turn that again and again could end does);
the user and the refusals owe nothing. In `RetrievalIndex`: a search that has begun goes on or fails;
nobody has to search, so `Converges` is conditional on searches being answered. In
`SandboxRecovery` nothing is fair: whether PaddleBoard is ever launched again is the
user's choice, so its properties are about safety.

## What is proved

For every value of the constants, by TLAPS:

| Theorem | Says |
|---|---|
| `ChannelClientProofs!TypeCorrect` | types of the message layer |
| `ChannelClientProofs!AcknowledgementSound` | `DiscardedWhenOvertaken`, for any number of messages and outages and any background senders |
| `ChannelClientProofs!NothingLostCorrect` | `NothingLost`, for any number of messages, with at most one outage and no background sender |
| `ChannelClientProofs!WatermarkHonestCorrect` | `WatermarkHonest`, likewise |
| `RemoteClientProofs!TypeCorrect` | types of the life cycle |
| `RemoteClientProofs!LifeCycleCorrect` | `LifeCycle`, for any limits |
| `RemoteClientProofs!NoResurrectionCorrect` | `NoResurrection` |
| `RemoteClientProofs!OneAttemptCorrect` | `OneAttemptAtATime` |
| `RemoteClientProofs!ShowsStatusCorrect` | `RemoteClient` implements `ConnectionStatus` |
| `ConnectionPoolProofs!TypeCorrect` | types of the pool, for any finite set of windows |
| `ConnectionPoolProofs!TaskOwnsEntryCorrect` | `TaskOwnsEntry`: the `debug_assert` of the connecting task never fires |
| `ConnectionPoolProofs!OneConnectionCorrect` | `OneConnection` |
| `RemoteServerProofs!TypeCorrect` | types of the server process, with or without overlapping starts |
| `RemoteServerProofs!NoOrphanCorrect` | `NoOrphan`, for any number of proxies and crashes, when starts do not overlap |
| `RemoteServerProofs!NotRunningHonestCorrect` | `NotRunningHonest`, likewise |
| `RemoteServerProofs!StreamsNotCrossedCorrect` | `StreamsNotCrossed`, likewise, with proxies that die at any step |
| `LlamaManagerProofs!TypeCorrect` | types of the manager |
| `LlamaManagerProofs!LaunchedVerifiedCorrect` | `LaunchedVerified`, whatever fails |
| `LlamaManagerProofs!FollowedCorrect` | `DesiredFollowed` and `NoStrayServer`, whatever crashes, hangs, shares a port or is misspelt; both say nothing of the chat slot while the settings name an unknown id |
| `LlamaManagerProofs!NoStrayCorrect` | `NoStrayServer` alone |
| `LlamaManagerProofs!ReadyServesCorrect` | `ReadyServes`, likewise; it allows a server that crashed since, and one whose port both slots were given |
| `ModelTiersProofs!TypeCorrect` | types of the tier logic |
| `ModelTiersProofs!SpendConsentedCorrect` | `SpendConsented`, for any tiers, settings and number of turns |
| `ModelTiersProofs!CardCountsCorrect` | `CardCounts`, likewise |
| `RetrievalIndexProofs!TypeCorrect` | types of the index |
| `RetrievalIndexProofs!HashHonestCorrect` | `HashHonest`, when `PruneFails = FALSE` |
| `RetrievalIndexProofs!AloneCompleteCorrect` | `AloneComplete`, when `PruneFails = FALSE` |
| `SandboxRecoveryProofs!TypeCorrect` | types of sandbox recovery |
| `SandboxRecoveryProofs!NotForgottenCorrect` | `InterruptedNotForgotten` |
| `SandboxRecoveryProofs!ReportedOnceCorrect` | `ReportedOnce` |
| `SandboxRecoveryProofs!ReportsHonestCorrect` | `ReportsHonest` |
| `SandboxRecoveryProofs!LiveContainersKeptCorrect` | `LiveContainersKept` |

*AcknowledgementSound.* `DiscardedWhenOvertaken` alone is not inductive: a trim is
harmless only if the `ack_id` that causes it is honest. `AckedWasReceived` says so
of every place an `ack_id` can be: any envelope of `p` in its queue, in the peer's
inbox, in its buffer or in a background draft, and the `max_received` it would
stamp next, names something `p` handled. Trimming keeps a suffix and drops only ids
at most `ack_id` (`PopAckedTrims`), even when a background sender left the buffer
out of order. The only assumption is `BoundsAssumption`.

*NothingLost and WatermarkHonest.* Both are consequences of `ResyncInv`, which follows
the one outage through four phases. `BeforeResync`: nothing is missing at the client's
end and, once the link is down, what is missing at the server's is still in its buffer,
because every acknowledgement that exists is honest (`Honest`: it covers only what the
peer has handled, without a gap). `FlushAsked`: the flush is the k-th envelope of the
client's pipe and everything in front of it is still honest, so the server's buffer
will be whole when it replays. After the reconnect the client may handle what the
server's queue kept, which raises its `max_received` past what was lost; whatever it
stamps from then on stands behind the flush.
`FlushReplayed`: what the server sent is handled or in the pipe, and from the
Ack on each envelope has all that is missing below its id at or before it (`Covered`).
`Resynced`: the same for both ends. Once an end has replayed, its buffer no longer
matters, so a trim by a dishonest acknowledgement does no harm any more. A second outage would
empty the pipe when it holds the only copy, which is the scenario of
`channel_two_outages`; a background sender could put a lower number behind a higher
one, which breaks `Covered`. The hypotheses `MaxOutages <= 1` and `Background = {}` are
these two.

*Life cycle.* `LifeCycle` is inductive together with `TypeOK`: it ties `state`,
`task` and the two ends of the client's life together. The two action properties
follow from it, step by step, and so does the refinement: `LifeCycle` excludes the
states from which an action would show as a step `ConnectionStatus` does not have.

*Pool.* The invariant is `TaskOwnsEntry` with three facts that make it inductive: a
task that runs has a client waiting on it (`RunningHeld`), only a client that waits
holds a task (`OnlyWaitingHold`), and a connection that is in use and not killed is the
one the pool's entry names (`InUsePooled`), from which `OneConnection` follows. That a
new task finds a free number is a cardinality argument: the clients refer to at most
two numbers each, and there is one more.

*Remote server.* `FilesInv` ties the files to the processes: one proxy is on its way and
one daemon alive at a time; a daemon that is coming up has a proxy waiting for it and has
written just the files it should have so far; what a proxy read in the pid file is still
there when it acts on it; files are removed, and a daemon spawned, only when none is
alive. With `NoOrphan` among its conjuncts it is inductive, and `NotRunningHonest` follows
from it. `StreamsNotCrossed` needs the order of the connections (`StreamInv`). A listener's
queue is the stream it holds and the backlog behind that. A proxy that connects and was not
cut off is in the queue of each socket it has a stream to (`Placed`), and every queue, dead
proxies included, is in the order in which the proxies were launched (`Sorted`), because one
proxy connects at a time. If a daemon held two proxies that are both at work, the one
launched later would be at the head of one queue, and the earlier one, which has all three
streams by then, would have to stand in front of it there. What this does not exclude is a connection of one proxy at work and one that is dead
(`server_half`). All three theorems assume `Overlap = FALSE`, which is what
`MCServerOverlap` violates.

*Model manager.* Three inductive invariants, by what they need, none of them with a
hypothesis. `Always` adds that runs and servers have a catalog model and that a run has no
server before its own spawn. `Followed` adds `RunWanted`: unless `desired` is misspelt, the
chat run at work is for it. `Served` adds that a polling run polls its own server
(`PollsOwnServer`) and that two servers on one port both know that they share it
(`SharedKnown`). In these proofs the generation check is never needed: replacing the task
cancels the run, so the check is a second line of defence.

*Tiers.* The invariant says that the thread's model and every request's model are in
`chosen` or in `AutoReach`, that the settings in force, and the ones each turn prepared,
are among those the user has had, and that `AutoReach` only grows. The step that
matters is `AfterEscalate`: the settings it acts on are the turn's own, which may be
out of date, and `decide` has compared the target with the ceiling of those. The first
tier of a model is a least element of a set of naturals (`WFMin`).
`CardCounts` relates the counter that decides to the history that is shown. Its inductive
invariant (`CountInv`) is that the history adds up to at least the counter: every failure
is counted in both, and the history is emptied only where the counter is reset too, while
the counter is also reset alone. `decide` stops only when the counter has reached the
retries, and the card then lists one failure more. The sum is a recursive function on a
list; that `record_failure` adds one to it (`RecordCounts`) is an induction over the list,
made by least counterexample, as the induction theorems of the library cannot be applied.

*Index.* `HashHonest` is kept by `replace_file` because hash and chunks are of one
text, and by `DeleteFile` because the row goes; it would not survive an end between the
two deletions, hence the hypothesis. `AloneComplete` needs to know how far an
undisturbed search has come (`AloneProgress`): the listed files behind it are current,
and what it read of the hashes of those ahead is still what is stored. When it passes
over a file, `HashHonest` turns the equal hash into equal chunks.

*Sandbox recovery.* `Shared` holds with any number of PaddleBoards: a command whose
process is not known dead belongs to an open process, so a free pid has only dead
commands, and what was condemned stays dead (`ReaperInv`). `Alone` needs one PaddleBoard
at a time: then nobody takes records while a command runs, so what was read is what is
there (`TakeInv`), a command at hand has lost its record or is about to (`PendingInv`),
and a shown one has (`ReportInv`). These are the facts that overlapping launches break.

*A caution for whoever extends the proofs.* tlapm 1.4.5 misreads two forms that TLC reads
correctly. Several updates at one argument, `[f EXCEPT ![x].a = 1, ![x].b = 2]`, become
contradictory facts, from which anything follows; and in
`[f EXCEPT ![x] = [@ EXCEPT !.a = @ + 1]]` the inner `@` is taken for `f[x].a.a`. The
modules therefore write `[f EXCEPT ![x] = [@ EXCEPT !.a = f[x].a + 1, !.b = 2]]`. For
every action of the eight components with theorems it was tried to prove FALSE from the
types and the action, and it cannot be done.

Every invariant and every action property of the passing runs is thus a theorem, under
the hypotheses named above. Only model-checked: the liveness properties
(`EventuallyHandled`, `ReconnectSettles`, `MissedHeartbeatResolves`,
`TurnEnds`, `StartRecovers`, `ProxySettles`, `EveryoneSettles`, `Converges`), as fairness
and `ENABLED` are outside the prover's reach, and the configurations that exhibit
disagreements, which are counterexamples.

## Not modelled

* Streaming responses, payloads and handlers of the message layer: their control
  is that of requests. At-least-once delivery is what the code offers, so repeated
  handling is not a property.
* `next_message_id` is a `u32`; wrapping after 2^32 messages is not modelled.
* Command builders, transports' ssh, wsl and docker specifics: text and processes. In
  `ConnectionPool` they connect, fail or die.
* Of the remote server: pids that are used again, a kill that fails, file errors other
  than a missing file, and the headless project. The removal of the three sockets is
  one step.
* Of the model manager: the quit handler and `reap_stray_servers` (the app is gone
  or not yet there), installation of the binary, the partial file's bytes, and the
  interface. Killing a process is immediate.
* Of model tiers: parsing of the settings, the texts sent to the model, subagents,
  compaction and retries of requests. `MODEL_TIERS.md:159`
  says that a model picked by hand is pinned and starts a fresh count; the code does
  neither, and the model follows the code.
* Of the retrieval index: the pgvector store (its prune is a transaction), chunking,
  scoring, more than one root, and the wait for the embedding server.
* Of sandbox recovery: the scratch directories of the microVM tier, the containers of
  services, kernels and MCP servers (labelled and reaped alike), and Windows, where every
  owner counts as alive and nothing is taken or reaped.
* The agent thread beyond its turn loop, the text buffer, collaboration, the editor,
  the workspace, the interface framework, language servers, debugger and git: either
  data and rendering, or adapters to programs that are not here. They are most of the
  repository's lines and have little control that a small model would say something
  about; the clocks are the exception, see below.

## Plan

Next, in this order:

1. `ReliableLink`: what the message layer promises (an at-least-once channel), and
   `ChannelClient` shown to implement it with at most one outage, from `ResyncInv`.
2. `ModelSlot`: the life cycle one slot promises (Idle, working, Ready, Error), and
   `LlamaManager` shown to implement it, as run and as theorem.
3. `RemoteClient` over `RemoteServer`: "server not running" derived from the daemon's
   state instead of chosen.
4. If they repay it: device-flow login, version vectors.
