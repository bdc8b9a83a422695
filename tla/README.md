# TLA+ models of athena-flow-cli

Athena runs coding-agent sessions (Claude Code, Codex) and connects them to the
outside: a **gateway** daemon relays chat messages and permission prompts
between chat channels (telegram, a browser console) and running sessions, and a
**dashboard daemon** executes runs that a hosted dashboard assigns and streams
their events back. The parts that are hard to test are the ones that keep
promises across connections that break, timers that race with answers and
daemons that restart. This directory models those parts, checks them with TLC
and proves what matters most with TLAPS. Source paths below are relative to
the repository's `src/`.

| module | what it is | code |
|---|---|---|
| `GatewayDispatch` | inbound path of the gateway | `gateway/dispatchPipeline.ts`, `runtimeBindingStore.ts`, `sessionRegistry.ts`, `state/inboundQueue.ts`, the de-duplication of `channelManager.ts` |
| `GatewayDispatchProofs` | its theorems | |
| `AtLeastOnce` | what the outbound side promises about a reply (abstract) | `gateway/outboundDispatcher.ts`, `state/outbox.ts` seen from outside |
| `OutboundDelivery` | outbound path of the gateway; implements `AtLeastOnce` | `gateway/outboundDispatcher.ts`, `gateway/state/outbox.ts`, sends of the adapters |
| `OutboundDeliveryProofs` | its theorems, the refinement among them | |
| `RelayCoordinator` | permission and question prompts relayed to chat | `gateway/relay/*`, `app/channels/sessionBridge.ts` (requests), `gateway/adapters/telegram/relay.ts`, `gateway/adapters/console/adapter.ts` |
| `RelayCoordinatorProofs` | its theorems | |
| `RunStream` | events of a remote run on their way to the dashboard | `app/dashboard/runStreamClient.ts`, `remoteRunEventPublisher.ts` |
| `ExecRun` | one run of `drisp exec`: turns, tracker, timeout, cancel, artifacts | `app/exec/runner.ts`, `core/workflows/workflowRunner.ts`, `loopManager.ts` |
| `RunProofs` | theorems of `RunStream` and of `ExecRun` | |
| `DashboardDaemon` | connection, attachment mirror and assignments of the runtime daemon | `app/dashboard/runtimeDaemon.ts`, `attachmentReconciler.ts`, `dashboardAssignmentIntake.ts`, `dashboardPairedExecution.ts` |
| `DashboardDaemonProofs` | its theorems | |
| `HookServer` | a hook of Claude Code and all who may answer it | `harnesses/claude/runtime/server.ts`, `hook-forwarder.ts`, `core/controller/runtimeController.ts`, `app/providers/useFeed.ts`, `app/dashboard/dashboardDecisionInbox.ts`, `core/feed/internals/` (runs, correlation) |
| `HookServerProofs` | its theorems | |
| `FeedOutbox` | feed events on their way to the dashboard | `core/feed/internals/runLifecycle.ts`, `core/feed/ingest.ts`, `app/dashboard/pairedFeedPublisher.ts`, `dashboardFeedPublisher.ts` |
| `FeedOutboxProofs` | its theorems | |
| `SessionTurns` | prompts and dispatched turns of an interactive session, the runs they replace and their processes | `app/shell/AppShell.tsx`, `core/workflows/useWorkflowSessionController.ts`, `harnesses/claude/process/useProcess.ts`, dispatches of `app/channels/sessionBridge.ts` |
| `CodexTurns` | prompts of an interactive session on Codex, their requests, turns and interrupts | `harnesses/codex/runtime/server.ts`, `appServerManager.ts`, `harnesses/codex/session/useSessionController.ts`, `core/workflows/useWorkflowSessionController.ts` |
| `TurnProofs` | theorems of `SessionTurns` and of `CodexTurns` | |
| `MC*` | small instances for TLC, a module where a component's constants need definitions, one `.cfg` per run | |

`PROJECT.json` maps every definition to the lines it translates, and lists the
components, runs, findings, hazards and theorems.

## Inventory

For each part: the state it keeps, its operations, whom it talks to, what is
hard about it, and what makes it correct.

### Gateway (one process, one thread)

**Runtime bindings** (`runtimeBindingStore.ts`). State: a slot per attachment
(one of them the legacy slot without attachment): runtime, connection, push
handle, active or stale, epoch, grace timer. Operations: `bind` (first
registration, rebind, takeover of a stale slot, refusal), `unbind`,
`notifyConnectionClosed`, `expireStaleBinding`. Called by the control server's
handlers and by timers. Hard: the close of a superseded connection arrives
after the rebind; a grace timer fires around the call that should have
cancelled it. Correct when a live slot is lost only by its own connection's
end or an unregister, and pushes go over the connection of its runtime.

**Dispatch pipeline** (`dispatchPipeline.ts`, `sessionRegistry.ts`,
`inboundQueue.ts`, `router/`). State: turns awaiting a reply (in memory), the
durable inbound queue. Operations: `handleInbound` (dispatch or park),
`registerRuntime` (bind, then drain), `unregisterRuntime`,
`handleTurnComplete`, start and stop. Hard: messages that arrive around a
registration; order between parked and live messages; restarts. Correct when an
accepted message is dispatched once, in order of arrival, and a reply goes
where its message came from.

**Outbound delivery** (`outboundDispatcher.ts`, `state/outbox.ts`). State: the
durable outbox, the drain timer, the re-entry flag. Operations: `dispatch`
(send now, park on failure), `drain`, `attempt`, `stop`. Hard: a drain that
overlaps the next tick; an error for a message the channel took; a crash
between the send and the bookkeeping. Correct when nothing queued is forgotten,
giving up takes all attempts, and a duplicate has a cause.

**Relay coordinator** (`relay/coordinator.ts`, `relay/pendingRegistry.ts`).
State: pending requests by id with their waiters and timers. Operations:
request (broadcast, or attach to a pending one), cancel, settle by a verdict or
ttl, `disposeAll`. Talks to the adapters through an abort signal and a promise.
Hard: verdict, cancel, ttl, lost connection and reconnect race for one entry.
Correct when each entry settles once and every waiter gets that result, for the
question it asked.

**Channel manager, adapters, reconciler** (`channelManager.ts`,
`channelSidecarReconciler.ts`, `adapters/`). State: registered adapters, a
window of seen idempotency keys, each adapter's pending prompts and polling
offset. Operations: register, unregister, start, stop, reload, send, receive.
Hard: two reloads interleave their awaits; an adapter fails while it starts;
a replacement fails half way. Correct when a reload ends with exactly the
configured channels running.

**Control server, transports, lock, daemon** (`control/`, `transport/`,
`lock.ts`, `daemon.ts`). State: authenticated connections, the lock file.
Operations: handshake, request dispatch, push, start and stop. Hard: a lock
file read while it is written or reclaimed twice; start failing half way.
Correct when one gateway runs per host.

### Sessions (the CLI's side of the gateway)

**Session bridge** (`app/channels/sessionBridge.ts`,
`sessionBridgeLifecycle.ts`, `relayAdapter.ts`). State: the client, a reconnect
in progress, buffered turns, handlers. Operations: start, stop, `relay*`,
`cancelRelay*`, `completeTurn`, reconnect. Hard: requests whose connection
closes under them; stop during a reconnect. Correct when a request that is
asked again has the effect of one, and a finished turn is reported.

**Interactive session** (`app/shell/AppShell.tsx`,
`core/workflows/useWorkflowSessionController.ts`,
`harnesses/claude/process/useProcess.ts`). State: the dispatch to be answered and the
one queued, the runner, calls that wait for it to end, the process handle, kills that
wait for an exit. Operations: prompt, dispatch, interrupt, exit, kill timeout, render.
Hard: a prompt replaces a run whose process is still being killed, perhaps twice; what
is on the screen lags behind; the answer of a dispatch is found by position in the feed.
Correct when one process runs, prompts are not forgotten and a chat gets the answer to
its own message.

### Dashboard daemon

**Runtime daemon, assignments, runs** (`app/dashboard/runtimeDaemon.ts`,
`dashboardAssignmentIntake.ts`, `dashboardPairedExecution.ts`,
`attachmentReconciler.ts`). State: the instance socket, the reconnect loop, the
circuit breaker, buffered assignments, active runs, the attachment mirror.
Operations: connect, refresh, fetch, push, assign, cancel, execute, stop. Hard:
closes and stops while `connectOnce` awaits; a push that overtakes a fetch;
assignments buffered before the connection is ready, and delivered again when
their answer was lost. Correct when there is one connection, every assignment is
answered by what was done with it, and a mirror that is called current is.

**Run stream** (`runStreamClient.ts`, `remoteRunEventPublisher.ts`). State: next
sequence number, queue of unacknowledged frames, socket, reconnect timer.
Operations: publish, resume, ack, gap, reconnect, close. Hard: replay over
broken connections, the queue at its cap. Correct when what was published is
counted in order unless the cap dropped it.

**Feed** (`pairedFeedPublisher.ts`, `dashboardFeedPublisher.ts`, the feed mapper
and the session database). State: the mapper's counters, the stored events, the
outbox shared by all processes, the daemon's transport. Operations: ingest,
enqueue, drain, acknowledge, attach, detach, restart of either process. Hard: two
databases written one after the other; numbering resumed from one of them; rows
sent, marked and acknowledged in separate steps. Correct when a published event
reaches the dashboard and is not taken for another.

**Decisions** (`dashboardDecisionInbox.ts`). State: one row per request, polled and
consumed. Part of the hook server's races below.

**Tokens and process locks** (`infra/config/dashboardAuth.ts`,
`infra/daemon/pidLock.ts`). State: files. Hard: a lock reaped by age while its
holder still works.

### Harness and workflows

**Claude hook server** (`harnesses/claude/runtime/server.ts`, with
`runtimeController.ts` and `useFeed.ts`). State: pending hook requests with their
sockets and timers, rules, the prompts on the screen, the correlation of requests
with decisions. Operations: a request arrives, is decided by a rule, the terminal,
a chat, the dashboard or a timer; its socket closes; stop. Hard: all of these race
for one request, and the prompt must go away whoever wins. Correct when each hook
gets one answer, waits only while somebody is asked, and is recorded once.

**Exec runner and workflow runner** (`app/exec/runner.ts`,
`core/workflows/workflowRunner.ts`, `loopManager.ts`). State: the status of the run,
a failure latch, the loop's counters, the tracker file, the row in the session
database, the artifacts. Operations: turns that start and end, timeout, abort,
failing writes, upload. Hard: a timeout or abort between two turns, a failing
database, failures after success. Correct when what is reported, stored and
published of a run agrees.

**Codex app server** (`harnesses/codex/runtime/server.ts`, `appServerManager.ts`, with
`useSessionController.ts` and `useWorkflowSessionController.ts`). State: the child process
and its open requests, the thread, the id of the turn, the completion that the pending
prompt waits for with its settle timer, the agents written to the configuration.
Operations: prompt (up to five requests one after another), turn reports, interrupt, exit,
stop. Hard: the check for a pending turn comes four awaits before it is set; a completion
resolves whatever is pending; an interrupt needs an id that arrives later; a promise is
rejected before anybody waits for it. Correct when prompts do not overlap, each ends by
its own turn, and a turn that hangs can be replaced.

**Session store, plugins, UI, setup, telemetry, doctor**: sequential
transformations, single-writer persistence, one-shot commands and rendering.

### How they interact

Channels deliver inbound messages to `ChannelManager`, which drops duplicates
and calls `DispatchPipeline.handleInbound`; a turn is pushed over the control
connection to a session bridge; its `turn.complete` comes back and is handed to
`OutboundDispatcher`, which sends through `ChannelManager.send`. Permission
prompts go the other way: hook server → relay adapter → session bridge →
control server → `RelayCoordinator` → adapters, and the verdict back. When a
connection closes, the binding store decides when the runtime counts as lost,
and the daemon then disposes of pending relays. The dashboard daemon shares no
state with the gateway; its run streams are independent of each other. It executes an
assignment by the exec runner, whose harness process asks the hook server, whose
decisions become feed events, which go to the feed outbox and from there over the
daemon's connection. A session in a terminal shares only two databases with the
daemon: the feed outbox and the decision inbox.

## How the modules correspond to the code

General conventions. The gateway is one Node process: a handler that does not
await before it has changed its state is one action; where the code awaits
(a send, a prompt, a socket), the action is split there and everything else may
happen in between. Clock times are left out: a timer is either armed or not,
and an armed one may fire at any time. Messages, questions and payloads are
model values. Operators that a definition's comment calls a plausible error are
variants that no action uses; they serve to see that the properties can fail.

**GatewayDispatch.** `slots` is the binding store's map, `timers` its pending
`setTimeout`s (by slot and runtime, as their closures hold them), `registry` the
open turns, `queue` the rows of `inbound_queue`, `seen` the de-duplication
window; `link` and `bridge` say which connections exist and who registered over
them. `pushed` and `replies` are history. Actions: `RegisterRuntime` is
`registerRuntime` with its bind and drain; `HandleInbound` is the channel
manager's duplicate check followed by dispatch, parking or refusal;
`NotifyConnectionClosed`, `ExpireStaleBinding`, `UnregisterRuntime`,
`HandleTurnComplete`; `Restart` keeps only the durable queue. Abstractions: the
agent of a message is a constant of its location, so `no_default_agent` does not
occur; a connection registers one runtime; a push is at most once, as in the
code.

**OutboundDelivery.** `first` follows the first send of each reply, `outbox` is
the table, `drains` what each running drain has read and not yet tried,
`trying` the row it awaits, `draining` the re-entry flag. A send is two steps:
the channel takes the message (`FirstTaken`, `AttemptTaken`), then the daemon
learns of success or failure, and it may learn of a failure although the
channel took it. `Ticks` names overlapping runs of the drain timer; that a
second one cannot start is what the flag is for, and checked rather than
assumed. `Stop` (graceful) lets a running drain go on over its batch, as the
code does; `GoesDown` loses everything in memory. Total sends of a reply are
1 + `maxAttempts`, since the first one is not counted.

**AtLeastOnce** is what the caller of `dispatch` may rely on: a reply in hand
ends confirmed, owed or lost with the process; an owed one ends confirmed only
after the channel has shown it, or given up after all its failures. The mapping
(`StatusOf`) is computed from `first`, the row and the give-up history.

**RelayCoordinator.** `call` is one `relayPermission`/`relayQuestion` of a bridge
with its retries; `wire` the requests under way; `entries` the
`PendingRegistry`; `sending`, `pending` and `listeners` the adapters' side: a
prompt being sent, a prompt that can be answered, an abort listener in place.
A broadcast is numbered, because an id may be broadcast again; `late` is history,
the prompts that were shown after their broadcast had settled. Kind and
fingerprint are one payload. `SlowSend` distinguishes telegram, which awaits
`sendMessage` before it listens for the abort, from the console, which does both
in one step. Registration is atomic with `Reconnect`; a lost slot that another session
took ends the bridge (`ReconnectRefused`).

**RunStream.** A frame is its number. `mode` is the publisher's state, `ws`,
`resumed`, `retry` and `heard` the client's (`resumeResolved`, the reconnect
timer, `serverTerminated`); `up` and `down` are the two directions of the present
connection and `late` what the server may still read of broken ones. The
server is not in the repository; its rules are those of the stand-in that
`runStreamClient.test.ts` runs against (in-order only, duplicates acknowledged
again, `sequence_gap` otherwise, close with `run_terminated` after a terminal
frame). The heartbeat watchdog is one cause of `LinkDrops`. Once the publisher
has fallen back to the instance socket the stream is out of use.

**ExecRun.** `phase` is where `runExec` is, `latch` its failure latch, `timer` and
`signal` what may end it early, `status`, `iterations` and `loopCount` the workflow
runner's, `busy` and `killed` the process of the present turn, `tracker` the tracker
file as `loopManager.ts` classifies it, `stored` the row of the run, which a failing
write (`degraded`) leaves behind. The end of a turn, the reading of the tracker and
the start of the next turn are one chain of promise callbacks, hence one action.

**DashboardDaemon.** Every call of `connectOnce` has a number, which is also its
socket's. `task` is where each call is (the token, the socket, the fetch), `client`
the socket the daemon uses, `loop` the waiting reconnect loop; `failures` and
`cooling` are the circuit breaker. A list of attachments is its version: `mirror`,
`latestPush`, `answer` and the dashboard's `list`; `pushes` and `revAtStart` are the
revision counter that tells a push during a fetch. `pending` is the buffer of the
intake, `active`, `aborted` and `awaited` the runs. Admission is one operator on a
record (`Admit`), because the buffer is drained through it. The dashboard is
external: it pushes to the open socket, sends an assignment and sends it again
on the next socket until it has an answer, as the protocol document asks.

**HookServer.** What handlers change in one go is one record, `world`: the sockets,
the server's pending requests and timers, the prompts on the screen, the feed's
open run and correlation, and history (decisions announced, requests that saw a
run begin). Operators map a world to the next (`Admitted`, `Prompted`, `Mapped`,
`SendDecisions`, `OnClose`), and an action composes them in the order of the code's
calls: an arriving request is admitted, shown, mapped and, if a rule applies,
decided within one event. What a request is about (`kind`) decides on timers, prompts
and waiting. The relay to a chat and the dashboard's inbox are reduced to
their effect on the request; their own races are `RelayCoordinator`'s.

**FeedOutbox.** An event carries its number; its id, as in the code, is its run and
sequence number. `mapper` is the feed mapper of the session process, whose counters
resume from `stored`; `outbox` the rows by the number of their event, which is
the order of `delivery_seq`. Storing and enqueueing write two databases: each may
fail, and the process may be killed between them. `hosted` distinguishes a session
inside the daemon from one in a terminal. A kill in the middle of a drain leaves one
row sent and not marked. The dashboard acknowledges in any order, and what it
acknowledged may be lost with the connection.

**SessionTurns.** Everything happens in one thread, so what promises resolved in one
step do is part of that step, in the order of their callbacks: the exit of a process
resolves the newest kill, whose caller goes on, and the run's result, whose waiters go
on (`Finalize`, `RunnerEnds`). `turns` is one record because these operators pass it on.
`kills` holds the calls of `kill()` that wait, of which only the newest is told of an exit
(`exitResolverRef` is one variable); the others run into their timeout. `waiters` holds the
runs whose `cancelCurrentRun` awaits a run's result, in the order in which they go on:
those that get to `spawn` in one step have all looked for a process before one of them
starts (`BaseSpawn`, `Launch`). A render copies
`isRunning` and the feed's length, and its effects run later (`RunEffects`): the drain of
the queued dispatch, then the watch for a reply. A prompt, its run and its process share
a number: one turn per run. `rushed` is history.

**CodexTurns.** `phase` says which request each prompt awaits, `turnId`, `pendingTurn`,
`timers`, `loaded` and `threadId` are the variables of `createCodexServer`, `runnerRef` and
`awaits` the controller's: which run would be replaced, and for which each waiting prompt
waits. `Answered` continues `sendPrompt` from the request that was answered, refused or
timed out to its next one; `Return` and `Throw` end it, for one prompt or, when the
process exits, for all whose requests are rejected, and the prompts that waited
for one of them begin in the same step (`StartRuns`). A completion that arrives before turn/start is
answered is remembered in `early`, as the settled promise does. `Requests` are the
awaits that the properties tell apart: the reload of MCP servers and the list of skills
change nothing and are one with `"load"`. Codex is external: it reports a turn it was
asked for, and its completion, at any time or never. `astray` is history and names the
circumstances in which the code promises less.

Composition. Each module's environment is the neighbour's interface: the replies
`GatewayDispatch` hands out are the messages `OutboundDelivery` is given; both
share the daemon's restart. They are kept apart because neither reads the
other's state; the only shared object is the SQLite file, in different tables.
`OutboundDelivery` is composed with its specification through `INSTANCE
AtLeastOnce`. `GatewayDispatch`'s push of a turn is
`SessionTurns`' `Dispatch`, and the completion there `HandleTurnComplete` here; their
composition over a breaking connection is part of the plan.

## Runs

| run | instance | what it shows |
|---|---|---|
| `dispatch` | 2 runtimes for one slot, a second slot that nobody takes, 2 connections, 2 messages (3 arrivals), one restart, fair timers | through takeovers, refusals, late closes and parked messages: messages are parked only while nobody is there, dispatched once and in order, a reply answers its turn, a live slot is lost only for a cause and a stale one is resolved |
| `relay` | 3 calls of a session, two with one id, the first of them on telegram and console, 2 broadcasts, 2 dropped connections, grace period, fairness | each entry settles once; nothing stays pending for a runtime that was given up; waiters get their broadcast's result and, unless it was given to a prompt that was shown late, a verdict for their own question; a call with a ttl ends if its bridge is not cut off for ever |
| `outbound` | 2 replies, 2 overlapping ticks, 2 retries, 2 crashes, fairness | implements `AtLeastOnce`; no stale snapshot, duplicates have causes, queued replies end |
| `run_stream` | 3 events, queue of 2, 2 broken connections, 4 frames in flight, fairness | replay loses and reorders nothing; gaps only after the cap dropped a frame; every frame is counted, the run ends or the publisher gives up |
| `exec_run` | loops of up to 3 iterations and runs without | what is reported as success is completed, the run's row fits what is reported, artifacts are published of successes only |
| `dashboard_daemon` | 2 runs of a runner with a cap of 1, 1 failure of any kind, 1 change of the list | one connection; a mirror that is what it claims; what the dashboard takes for accepted was started |
| `dashboard_live` | one usable and one unusable assignment, 1 failure, fairness | every assignment sent is answered or goes back to the queue |
| `hook_server` | a permission request, a user prompt and a third request of any kind, 1 dashboard decision | one answer per hook; whoever waits has a prompt; prompts go away; decisions are recorded once |
| `feed_outbox` | batches of 2, 3 events, 1 restart of each process, 1 failing write, fairness | a published event is lost only to one that was never stored; first sends are in order; acknowledged means received; queued rows are acknowledged in the end |
| `session_turns` | 2 prompts, 2 dispatches, 1 interrupt, 2 messages in the feed, fairness | the newest dispatch is kept; undisturbed, an answer is of its own run; replaced one at a time, runs have one process; a session shown as running is; every prompt is started |
| `codex_turns` | 3 prompts, 1 interrupt, fair time-outs | replaced one at a time, prompts do not overlap; each succeeds by its own turn; the turn given up is the one interrupted; a replaced turn that was interrupted is not waited for for ever |
| `session_two_processes` | 3 prompts, violation | two prompts that wait for the same run both start a process |

Run: `tlc -config <cfg> <module>`, both named in `PROJECT.json`.

Bounds. Each is named in its module (`MaxArrivals`, `MaxRestarts`, `MaxCrashes`,
`MaxBroadcasts`, `MaxDrops`, `MaxEvents`, `MaxInFlight`) and appears in the guard of the
step it bounds. They are chosen so that each interesting case happens: two
connections are the fewest for a rebind whose old connection closes late, and two
runtimes for one that waits for the slot; three arrivals of two messages overfill the
window of one and redeliver a message; a full queue (three messages), three connections
and two slots in use are among the further configurations; two drains, two rows and two crashes are enough for an overlap,
a row left in a stopped batch and a second crash in the recovery of the first;
two broadcasts and two dropped connections let a call be asked again, join or broadcast
anew, and be cut off a second time, and let a telegram prompt outlive the first broadcast of
an id and be answered in the second; that sessions do not disturb each other is checked
by further configurations and proved; three
events over a queue of two reach the cap, and two broken connections let old
frames reach the server after a replay of the same frames. Two runs and a cap of one
are the fewest for a refusal; one failure (`MaxTroubles`) breaks the first connection
at any point and leaves a second one. Three requests let one wait while
another is answered and a run begins. Three feed events over batches of two need a
second batch; one restart resumes the numbering, one failing write separates the
two databases. Two prompts and two dispatches let a run be replaced while its process is
being killed and a dispatch be queued behind a pending one, and two messages let both
dispatches be answered, or one by what an earlier run said late; a larger instance is among
the further configurations. The theorems below remove the bounds for the properties they cover.
Three prompts on Codex let one wait while another's turn is left
over from a third. Symmetry is used only in `dashboard_daemon`, which checks no liveness property.

`CHECK_DEADLOCK FALSE`: in each module the environment may be finished (all
messages arrived, all sessions stopped, the run over), and then nothing is
left to do.

Fairness. `GatewayDispatch`: pending grace timers fire (Node runs due timers).
`RelayCoordinator`: timers fire, frames of a live connection arrive, a closed
connection is noticed (the socket's close event). No reconnect has to succeed: `kickReconnect`
only tries again, for as long as the gateway is away, and `TimedCallEnds` therefore names
what it needs, a bridge that is again and again connected, refused or stopped. Nobody is
required to answer, cancel or stop. `OutboundDelivery`: the drain timer keeps ticking, sends return with
whatever outcome, a stopping daemon goes down and a daemon is started again;
without that nothing would be promised. `RunStream`: timers fire, the network
accepts and delivers what it has not dropped; connections break a bounded
number of times. `DashboardDaemon`: the event loop runs what is due and the network
delivers; one fairness condition on the disjunction suffices because each of its
steps happens finitely often within the bounds; neither users nor runs have to do
anything. `FeedOutbox`: the daemon is started again and reconnects, its timer ticks,
backoffs elapse and the dashboard acknowledges what it receives. `SessionTurns`: timers
fire, the screen is drawn and its effects run, and a process that was started or
signalled ends; a turn of Claude Code that never ends keeps its session busy.
`CodexTurns`: a request is answered or times out (`REQUEST_TIMEOUT_MS`), and the settle timer
fires; Codex owes no report of any turn.

## Further configurations

These are kept beside the runs and hold their own instances. The first group holds:

| configuration | module | property | |
|---|---|---|---|
| `MCGatewayDispatchOneSlot.cfg` | `MCGatewayDispatch` | `ParkedOnlyWhileInactive`, `ActiveSlotLostForCause` | 3 connections, 3 messages over a queue of 2 |
| `MCGatewayDispatchRestart.cfg` | `MCGatewayDispatch` | `AcceptedExactlyOnce`, `DispatchedInArrivalOrder`, `ReplyAnswersItsTurn`, `StaleSlotResolves` | two slots in use, one restart |
| `MCRelayCoordinatorRace.cfg` | `MCRelayCoordinator` | `SettledOnce`, `PendingIsOwned`, `OrphansWereLate` | two sessions, both channels, three broadcasts |
| `MCRelayCoordinatorShared.cfg` | `MCRelayCoordinator` | `WaitersHaveTheirBroadcast`, `VerdictIsForTheQuestion`, `TimedCallEnds` | three calls of two sessions on one id |
| `MCRelayCoordinatorLive.cfg` | `MCRelayCoordinator` | `TimedCallEnds`, `StoppedSessionIsForgotten` | two calls alike |
| `MCSessionTurnsDeep.cfg` | `SessionTurns` | `TypeOK` and the four safety properties | three dispatches, three messages |

The second group states what a document, a comment or a reader would expect and the
code does not keep; TLC shows how:

| configuration | property | expectation, and what happens |
|---|---|---|
| `MCGatewayDispatchLost.cfg` | `NoTurnOfALostRuntime` | `gateway/sessionRegistry.ts:109-112`: open dispatches are cleared when a runtime's connection is lost. Only unregister clears them |
| `MCRelayCoordinatorOrphan.cfg` | `NoOrphanPrompt` | `shared/gateway-protocol/adapter.ts:110-115`: adapters tear a prompt down on abort. Telegram misses an abort during its awaited send |
| `MCRelayCoordinatorStray.cfg` | `NoStrayVerdict` | a reader expects the check of fingerprint and owner (`gateway/relay/pendingRegistry.ts:45-61`) to keep verdicts of one question from another. An orphan of telegram that is answered after its id was used again settles the new question (`gateway/adapters/telegram/relay.ts:118`) |
| `MCRelayCoordinatorDeadline.cfg` | `DeadlineBoundsReconnects` | `app/channels/sessionBridge.ts:363-365`: with a ttl "reconnect retries are bounded by that deadline". The deadline is looked at only after the reconnect (`:378-381`), which waits without one (`:451-453`), for ever while the gateway is away |
| `MCRelayCoordinatorDangling.cfg` | `LastPromptGoneSettles` | `gateway/adapters/console/adapter.ts:101-103`: prompts are cancelled so that callers do not dangle. The coordinator ignores the cancellation |
| `MCRelayCoordinatorBlanket.cfg` | `ConnectionLostIsItsOwn` | `gateway/daemon.ts:155-156`: a blanket dispose is safe for a single runtime. The binding store admits one per slot |
| `MCOutboundDeliveryTwice.cfg` | `ShownOnce` | `gateway/state/outbox.ts:9-11`: adapters honour the idempotency key. The telegram adapter does not use it |
| `MCExecRunCancelled.cfg` | `KilledOnceFailed` | `app/exec/runner.ts:243-244`: a request blocks until the timeout or an abort. The latch kills the process of the present turn (`:211-218`); the loop (`core/workflows/workflowRunner.ts:228-231`) may start another, which nobody kills |
| `MCExecRunStuck.cfg` | `RowEnds` | a reader expects the row of a run that is over not to say `running`. It does when the composed prompt cannot be written after the row was (`core/workflows/workflowRunner.ts:191-198`): nothing writes the row again |
| `MCDashboardDaemonTwice.cfg` | `ExecutedOnce` | `docs/plans/2026-05-09-remote-runtime-daemon-ux.md:443`: a duplicate assignment "does NOT duplicate execution". It does, once the first execution has ended (`dashboardPairedExecution.ts:157`) |
| `MCDashboardDaemonMirror.cfg` | `MirrorIsCurrent` | `docs/protocol/runtime-dashboard-protocol.md:133`: a full fetch comes before "the CLI claims its local mirror is current". A fetch that outlived its connection may write an older list afterwards (`attachmentReconciler.ts:102`) |
| `MCHookServerStale.cfg` | `PromptIsWaiting` | `harnesses/claude/runtime/server.ts:306-307`: the decision on close is there "to prevent stale permission requests in the TUI". It does not take away that of a permission request after a run has begun: its correlation was forgotten (`decisionCorrelation.ts:57`) |
| `MCCodexTurnsHang.cfg` | `ReplacementNeverHangs` | `docs/plans/2026-03-10-harness-review-fix-plan.md:321`: "interrupt/restart cannot hang on stale turn promises". A run whose turn id is not known yet is not interrupted and no timer is set (`harnesses/codex/runtime/server.ts:810`): the prompt that replaces it waits for the end of its turn |
| `MCCodexTurnsCrash.cfg` | `NeverCrashes` | a reader expects every failure to end its prompt. When the process exits, the runtime stops or the settle timer fires while turn/start is unanswered, the rejected completion has no handler, and `shared/utils/processRegistry.ts:134` ends the program |
| `MCFeedOutboxSeq.cfg` | `SequenceIsGlobal` | `docs/plans/2026-02-23-journal-integrity-fixes.md:54-57`: every visible event is stored, and sequence numbers are global to the session. Notifications and events whose write failed are published and not stored; after a restart their numbers are given out again |

## Where code and its documentation differ

`session_two_processes`: `useProcess.ts:312` ("Kill existing process if running and wait
for it to exit") holds for calls of its own `spawn` one after the other. In a session the
controller calls it, and two prompts typed while the process of a third is being killed
wait for the same runner; both go on when it ends, both find no process, and two of them
run in one project. The handle of the first is lost: no interrupt reaches it, and its exit
clears the handle of the second. The second group above lists the other divergences.

Observed while modelling, without a configuration of their own:

- `sessionBridge.ts:358-363` says a replay after a reconnect does not prompt again.
  That holds while the entry is pending; a verdict that is lost with the
  connection has already settled it, and the question is shown a second time.
- `runStreamClient.ts:69-72` promises at-least-once delivery; at its cap the
  queue drops the oldest unacknowledged frame (381-387), and the server refuses
  every later frame of the run. `GapOnlyAfterEviction` and `UnackedIsQueued` show
  that this is the only way to lose one.
- A run stream numbers from 1 in every process, while the server's count
  belongs to the run: `RunStream` starts from a server that has counted nothing.
- `close()` of the stream client also resolves `whenTerminated()`, hence the
  condition on `mode` in `HeardIsEnded`.
- Verdicts across questions (`MCRelayCoordinatorStray.cfg`) need an id that is used twice. Ids
  are generated per request unless the caller names one (`sessionBridge.ts:326`). The model
  identifies a prompt with what the adapter holds under the id. In telegram a message of an
  earlier prompt of the id may still show its buttons, as its edit is not awaited
  (`adapters/telegram/relay.ts:306`); pressing them answers the present prompt, since the
  callback carries only the id.
- Interactive sessions. An interrupted run whose process does not exit leaves a `kill()`
  whose timeout drops the handle of the process started meanwhile; the late exit of a
  process clears the handle of its successor; a cancelled run that waits in `kill()` still
  starts its process. A dispatch whose run ends without a root message stays pending:
  later ones are only queued, in one slot (`docs/plans/gateway-channels-plan.md:20`), and
  the next message of any run is posted as its answer.
- Codex. The late completion of a turn that was given up ends the prompt that is pending
  then. An answer to turn/start that comes after the turn leaves its id behind, and the next
  interrupt names a turn that is over. Two prompts that wait for one run overlap, and the
  check for a turn in progress (`server.ts:538`) lets both through.
- Dashboard daemon. A cancel of a buffered assignment is dropped. A socket that opens
  after `stop()` stays open, and frames that arrive on a closing one still admit runs. A
  failing fetch of an old connection marks a new one stale. A connection counts as ready
  even if its fetch failed.
- Exec runner. A process killed by a foreign signal (no exit code) counts as a success.
- Hook server. `elicitation.request` has no adapter timer although
  `runtimeController.ts:128` says so; the chat prompt of a permission that a rule or the
  terminal decided is not cancelled.
- Feed. Rows that were acknowledged are never deleted; unacknowledged ones are sent again
  every 30 s without end. `stop()` closes the publisher before hosted runs end, and their
  last events are not sent. A process killed between the two databases leaves stored
  events that are never published.
- Locks. Two gateways that find the same stale lock file can both replace it, and an
  empty one reads as stale (`gateway/lock.ts:88-94`); a reaped refresh lock is unlinked by
  its first holder (`infra/config/dashboardAuth.ts`).

## Proofs

All theorems hold for every value of the constants that satisfies the named
assumptions; no fact is assumed besides those. Finiteness facts come from
`FiniteSetTheorems`. A module of proofs extends the module it is about; `RunProofs`
and `TurnProofs` extend two each, whose behaviours they never mix: to that end `ExecRun` and
`CodexTurns` name theirs `ExecSpec` and `CodexSpec` (`ExecInit`, `CodexInit`, …).

**GatewayDispatchProofs.** `IInv` = `TypeOK` ∧ `BindingInv` ∧ `MessageInv`.
`PushHandleIsLive` alone is not inductive: an arbitrary slot could share its
connection with another, and the close of one would leave the other active; a
slot must also be tied to the connection its runtime's bridge registered over
(`SlotInv`), and timers to stale slots. `DispatchedInArrivalOrder` needs that
rows still parked are newer than every dispatched turn of their slot, and that
ids and arrival numbers are below their counters (`RowsInv`, `TurnsInv`); draining a
batch then uses that ranks in it agree with arrival order (`RankBound`,
`RankOrder`). `ParkedOnlyWhileInactive` needs no more than that a drain leaves no row
of the slot it is for, and that what becomes parked has no active slot (`ParkedCorrect`).
Proved besides: `TypeCorrect`, `AcceptedOnce`, `ArrivalOrder`,
`ReplyCorrect`, `BindingCorrect`. The two action properties follow from the same
invariant by one lemma that lists what a step may do to an occupied slot and
why (`SlotChanges`): `ActiveSlotCorrect`, `EpochCorrect`.

**RelayCoordinatorProofs.** `SettledOnce` is not inductive: nothing in it keeps a
number from being given twice. `IInv` adds that a pending entry is its opener's
and numbered below the counter (`EntryInv`), that pending numbers are distinct and
settled ones not zero (`GenInv`), and that a call waits on a real number
(`CallInv`). All steps that settle something go through one lemma (`SettledBy`,
with the operator's effect spelled out in `SettlePointwise`); what differs is
only which entries and which result. Proved for every constant: `TypeCorrect`,
`SettledCorrect`, `WaitersCorrect`, `OwnedCorrect`, `CancelCorrect`.
`VerdictIsForTheQuestion` is not inductive either: whose answer a verdict is depends on the
prompts. `AnswerInv` adds that a prompt, sent or shown, carries the number of a broadcast
that was opened for its call (`NumbersInv`), and that a prompt that was not shown late is the
pending broadcast's, with its listener in place (`PromptInv`), so that settling takes it
down. `OrphanCorrect` and `VerdictCorrect` follow for every `SlowSend`: the awaited send is
the only source of the orphans and stray verdicts that `MCRelayCoordinatorOrphan.cfg` and
`MCRelayCoordinatorStray.cfg` show.

**OutboundDeliveryProofs.** `IInv` adds to the type that at most one drain runs
while the flag is set (`OneDrain`), that what it has read and what it is trying
are distinct rows of the outbox (`SnapshotInv`), that a row's attempt counts the
failures seen so far (`RowsInv`), the state of each message's first send
(`MessageInv`), that a taken send shows (`TakenShows`), and that shown sends are
bounded by recorded ones (`CauseInv`). The freshness of the snapshot is what
makes the others inductive: a success deletes, and a failure rewrites, exactly
the row that was read. `RefinementCorrect` maps every step to one of
`AtLeastOnce` or to a stutter (`StatusKept`, `StatusChange`, `TakesShows`,
`StepRefines`).

**RunProofs**, the stream. The queue holds consecutive numbers ending at
`nextSeq - 1`, so what is missing from it was trimmed or evicted (`QueueInv`);
the server has counted only published frames (`CountInv`); every ack and resume
under way names a number the server has counted, every gap the one it expects
or an earlier one (`AnswersInv`); and, as long as nothing was evicted, the
frames under way on a resumed connection are consecutive, end at the newest one
and start no later than the one the server expects (`FlightInv`), which is why
frames of broken connections, read late, open no gap. `LinkInv` ties `resumed` to the answers of the present connection and
`EndInv` the publisher's knowledge to the server's state. Proved: `TypeCorrect`,
`UnackedCorrect`, `GapCorrect`, `HeardCorrect`.

**RunProofs**, the run. `ExecInv` = `ExecTypeOK` ∧ what holds before, during and after the turns
(`BeforeTurns`, `WhileTurns`, `AfterTurns`: status, latch, tracker and stored row of each
phase) ∧ `LoopIsBounded` ∧ `ArtifactsOnlyOfSuccess`. `RowFitsReport` compares two things that
are written at different times, the row at the end of the last turn and the latch until the
end; `AfterTurns` carries what the one says of the other through the phases between, and tells
the runs without a turn from those with one. Proved: `ExecTypeCorrect`,
`ExecSuccessCorrect`, `ExecBoundCorrect`, `ExecRowCorrect`, `ExecArtifactsCorrect`.

**DashboardDaemonProofs.** `CInv` = `ConnTyped` ∧ `Single` ∧ `Numbered`: until the daemon
stops, a socket is open if and only if it is the client, and a call of `connectOnce`
without a socket is the last one, with neither a client nor a waiting loop beside it;
`ConnectionCorrect` follows. `MInv` says that the newest list is the last one on the wire of
the client or, if that is quiet, what the fetch will return or the mirror holds
(`InOrder`); `MirrorCorrect` follows from both. `AInv`, of the assignments, says that every
answer on its way and every run the dashboard takes for accepted is of a run that was
started (`Honest`), and that no runner has more runs under execution than its cap.
A buffer of assignments is admitted one after the other (`AdmitAll`, a recursive
function); that each of its values keeps `AInv`'s part of it is proved with the least
number for which it does not (`UpTo`, from `WFMin`). `Rest` completes the types. Proved
besides: `AcceptanceCorrect`, `TypeCorrect`.

**HookServerProofs.** `OneAnswer` says nothing of requests still pending: they must be
undecided in every respect (`Single`), with typed and fresh state, and correlated with
their events as long as no run began (`Sound`). To that `IInv` adds `Waiting`, and `Timely`
while the server runs. An action composes several operators on `world`, so each
operator has lemmas on what it keeps. Proved: `TypeCorrect`, `AnswerCorrect`,
`PromptedCorrect`, `TimelyCorrect`, `RecordedCorrect`.

**FeedOutboxProofs.** `IInv` = `TypeOK` ∧ `NumbersInv` (numbers are below their counters,
and a restored mapper is at least where the stored events end) ∧ `RowsInv` (rows are of
published events and in order, and what is on the wire was tried) ∧ `LostOnlyToUnstored` ∧
`AckedWasHeard`. Proved: `TypeCorrect`, `LostCorrect`, `OrderCorrect`, `AckCorrect`.

**TurnProofs**, a session on Claude Code. `SessionInv` is the conjunction of six parts.
`AskedOnce`: runs are numbered in the order they are asked for, and no two are for one
dispatch; that the numbers suffice is a counting argument (`Counting`, `RoomToAsk`).
`Inbox`: a dispatch that is buffered or queued has no run yet, and what is buffered is
in order. `NewestKept`, from which `LatestIsKept`. `TurnsInv`: no interleaving of kills, exits and
timeouts leaves a handle without a process, an exit resolver without a kill, or a run
that is shown without a process that is there or coming (`GoodTurns`, `UnderWay`); and while
no prompt overtakes another and no kill times out, the process is the handle's and a kill
under way ends in the run that is shown (`Orderly`: `OrderlyOneProcess` alone says nothing of
the kill, and is not inductive). `UiInv`: what is rendered and answered is there.
`Own`: as long as nobody touches the terminal, nothing is killed, the run that is under way
is the last one asked for, what is pending is its dispatch, and only its messages come after
the mark. Every operator on `turns` has a lemma on what it makes of a good record
(`Killed`, `Spawned`, `Freed`, `Told`), which the actions cite. Proved: `TypeCorrect`,
`ShownCorrect`, `OrderlyCorrect`, `LatestCorrect`, `AnswerCorrect`.

**TurnProofs**, a session on Codex. `CodexInv` is layered like the history `astray`, which says
what the code does not promise after. Always (`CodexTyped`): a pending turn belongs to a prompt
that awaits turn/start or the completion, and did not complete early. Until prompts overlap
(`One`): one prompt is in progress and one waits for it, and the one in progress has the pending
turn once it has asked for one (`Chain`, `Pending`); `OneTurnAtATime` alone is not inductive,
as a prompt that waited for a run other than the one in progress would join it. Until a
prompt is given up with its turn under way (`OwnTurn`): while the process runs, a turn that is
under way is the pending one. Until turn/start is answered after the turn (`OwnId`): the
turn id is the pending turn's, or none. Every operator on `server` has a lemma (`Over`, `Reaction`,
`Rejected`, `Resolved`, `Halted`), which the actions cite. Proved: `CodexTypeCorrect`, `OneTurnCorrect`,
`SuccessCorrect`, `InterruptCorrect`.

The type invariants of the proved modules are theorems and not repeated in the runs;
`HeardIsEnded`, `AckedWasHeard`, `SnapshotIsFresh` and `OrphansWereLate` are theorems too. Where a bound of a queue is part of the type (`maxEntries`, the cap of a
run stream) the theorem covers the off-by-one.

Only model-checked: the liveness properties (`StaleSlotResolves`, `TimedCallEnds`,
`QueuedEnds`, `PublishedIsCounted`, `AssignmentIsAnswered`, `QueuedIsAcked`,
`PromptIsStarted`, `ReplacementGoesOn`): liveness under fairness and `ENABLED` are out of
the prover's reach, and so are inductions by the library's theorems that take an operator
as a parameter; where one is needed it goes through least elements, as for `AdmitAll`.
Every invariant of a passing run is a theorem. No module that is proved about
declares a `RECURSIVE` operator.

## Plan

Done, in this order: `GatewayDispatch` and `RelayCoordinator` with their proofs,
`AtLeastOnce` and `OutboundDelivery` with the refinement proved, `RunStream`, `ExecRun`,
`DashboardDaemon`, `HookServer`, `FeedOutbox`, `SessionTurns` and `CodexTurns` with their
proofs. Next, by importance:

1. `SessionBridge`, composed with `GatewayDispatch` and `SessionTurns`: completion over a
   connection that closes, stop during a reconnect. Abstract specification: each turn
   handed to a session is reported at most once, and at least once unless its connection
   was lost.
2. `ChannelLifecycle`: reconciler and channel manager, two reloads, start
   failures, and redelivery by a channel after a refused message or a restart.
3. `PidLock` and `RefreshLock`: lock files created, read, reclaimed and removed
   by several processes, at the granularity of file operations.
4. `CodexTurns` with approvals, the loop of turns of a workflow, and the start of the process.

Runs stay small (seconds to three minutes), and each module's run has fairness where the
module promises progress.

## Not modelled

- Framing and sockets (`transport/`), parsing of telegram updates and of agent output,
  rendering, setup wizards, telemetry, diagnostics, plugins and marketplaces: sequential
  or pure input/output, where a model would repeat the code.
- Channel reconciliation, the daemon's lock and the refresh lock, the local IPC of the
  dashboard daemon and its process management, the approvals of Codex: concurrent, and left
  to the plan above.
- Feed projections and the timeline: a function of the events, with no second actor.
- The dashboard's server, the chat services and Claude Code are external and appear only
  as far as the code's use of them says.
- Security checks (tokens, bind guards) are outside the scope.

`PROJECT.json` states for every component how far it is modelled.
