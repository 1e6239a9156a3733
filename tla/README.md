# Telegraph: models, checks and proofs

Telegraph is an Electron desktop workspace in which AI agents run in processes
of their own, called pagelets, and are started, watched, approved and stopped
from a window, a command line or a chat channel. This directory holds TLA+
models of the part of it that has to stay right while processes die, calls
overlap and several clients act on the same run: the stores, queues and
workers that carry an agent run from request to outcome. TLC checks the models
on small instances; TLAPS proves the most important invariants for every value
of the constants. Paths below are relative to the repository.

1. [The system](#1-the-system)
2. [Components](#2-components)
3. [Modules and the code they model](#3-modules-and-the-code-they-model)
4. [Runs](#4-runs)
5. [Fairness](#5-fairness)
6. [Proofs](#6-proofs)
7. [Where code and documents disagree](#7-where-code-and-documents-disagree)
8. [What the models leave out](#8-what-the-models-leave-out)
9. [What could come next](#9-what-could-come-next)
10. [Running the checks](#10-running-the-checks)

## 1. The system

```
 renderer      CLI, MCP          Slack, Telegram, HTTP
    |             |                      |
    |           socket                   |
    |             |                      |
    |   cli-gateway pagelet       remote-control pagelet
    |     RunBrokerSocketGateway         |
    |             |                      |
    |             +------ RPC -----------+
    |                     |
    |        +------------v-----------+
    |        | Shared process         |
    |        |   RunBrokerStore       |
    |        |   snapshot file        |
    |        +------------^-----------+
    |                     |  publish, poll, subscribe
 +--v---------------------v---+
 | Chat / Design pagelet      |     Main process: windows, orchestrator of the
 |   worker, agent harness    |     pagelets; Daemon: supervisor of the Shared
 |   event writer, run ledger |     process and of the pagelets
 |   record.json events.jsonl |
 +----------------------------+
```

A run's **ledger**, in the pagelet that executes it, is authoritative: a
record with the run's status and event count, and a log of its events. The
**run broker** of the Shared process is the control plane. It holds intents
(requests for a run, queued until a pagelet claims them), projections (a view
of a run's status and cursor, published by its pagelet), approvals and control
commands, each with a bounded history of changes that clients replay.

A run goes through these hands:

1. The renderer calls the worker, or a client creates an intent and a pagelet's
   poll lists and claims it. `handleSend` creates the run in the ledger.
2. The harness yields events; they are buffered, joined, appended to the log
   in batches, and counted in the record. After each flush, and when the run
   is created, the pagelet publishes a projection.
3. The broker tells its listeners of the projection and saves it; the gateway
   of the cli-gateway pagelet, one of them, sends the change to every subscribed
   client. A client that lost its connection attaches again with the cursor it
   saw last, and changes after it are replayed. The gateway's sockets outlive the
   Shared process, its listeners in that process do not.
4. A client sends a command (pause, cancel, stop). The broker accepts it if the
   run's status allows; the pagelet applies it and marks it applied. Approvals
   go the opposite way: requested by the pagelet, decided by a client.
5. After a crash the pagelet marks every run found `queued` or `running` as
   failed by recovery and publishes it as `recovered`; the broker reads its
   snapshot.

The processes are single-threaded JavaScript: what runs between two `await`s
is one step, and everything hard is in what other calls, timers, processes or
failures do at the awaits.

**Hard behaviours**, each listed as a hazard in `PROJECT.json` with its line:

- *crash and restart* between a change and its save, between log and record,
  between claim and creation, between terminal event and publication;
- *ordering* of publications that nobody awaits, of a flush and what is
  appended during it, of replay and live events;
- *overlap* of polls, of creations of one run, of callers of a ledger that is
  being loaded, of parents that share the subagents' slots;
- *redelivery and retry*: a channel posts a message again while its first call
  is awaited; Telegram hands out again what a restart left unconfirmed;
- *resuming*: a graph's thread goes on from a checkpoint whose channel versions
  must still tell what each node has seen;
- *partial failure*: a batch taken out of the buffer and not written, a snapshot
  write that throws after memory changed and listeners were told, a step
  performed and not recorded, a poll that fails without a trace;
- *files shared by writers that overlap*: a temporary file emptied by one save
  while another is about to rename it;
- *limits*: histories cut at 500, replays cut at 100, slots of subagents;
- *liveness*: commands answered, intents turned into runs, buffers drained,
  orphans settled, parked subagents woken.

## 2. Components

For each component: its state, its operations, what makes it correct, and the
module that models it.

| Component | State | Operations | Correct when | Module |
|---|---|---|---|---|
| Run broker store (`apps/shared`, `packages/run-protocol`) | intents, projections, approvals, commands, three change histories, two cursors, snapshot file | create/claim intent, register/delete projection, request/decide approval, request/apply command, save, hydrate | what was answered is in the file, but for writes that threw; decisions are final; no two changes kept bear one cursor; a replay ends in the present; no command outlives its run | `RunBroker` |
| Socket gateway (`apps/shared`, run by `apps/cli-gateway`) | subscriptions of each socket | subscribe with replay, live events, close | no change falls between replay and live events | `RunBrokerGateway` (partly) |
| Agent run ledger (`packages/agent/src/persistence`) | record and log of each run, write queues, buffers, timers | create, append, update, delete, import, recover; buffered append, flush | text neither lost nor reordered; record counts only logged events; orphans settled | `AgentRunLedger` |
| Durable step engine (`packages/agent/src/durable`) | ledger file, temporary file, map in memory | executeStep: get, put running, perform, put outcome | a recorded step is not repeated; each fault costs at most one repetition | `DurableSteps`, `StepMemo` |
| Chat pagelet worker (`apps/chat`) | active runs and their controllers, polls, publications, subscription to commands | send, cancel, poll and claim, publish, apply command, delete session, recover | broker never ahead of the ledger and current at rest; commands answered; intents become runs | `ChatPagelet` (partly) |
| Design pagelet (`apps/design`) | calls of a run and their controllers, run store, text streamed and not written, polls | send, stream, write text, read, cancel, poll and claim, delete session | text neither lost, repeated nor behind what closes it; the running call can be cancelled; store and ledger agree | `DesignPagelet` (partly) |
| Subagents (`extensions/telegraph-subagents`) | records of children, slots, queue of parked children | spawn, wait, run, abort, set limit, dispose | slots given in the order of asking and within the limit; nobody parked beside a free slot; stopped stays stopped; disposal ends | `SubagentPool`, `SlotLine` (partly) |
| Remote control pagelet (`apps/remote-control`) | messages seen, poll offset and batch, reply of each run | submit, track, reply per projection, poll, forget | no message runs twice while it is remembered; no update is lost or stands in the way for ever; replies reach the run's last projection | `RemoteControl` (partly) |
| Graph engine (`packages/orchestrator-core`) | channels and their versions, what nodes have seen, joins, checkpoint of the thread | invoke, superstep, interrupt, resume, pause, fail | each superstep runs what the edges ask for, across resumptions; an invocation that returns has followed every edge | `PregelGraph` (partly) |

Not modelled, with the reason:

- **Agent harness** (`packages/agent/src/harness`): hooks and set-up of one run
  at a time. `ChatPagelet` and `DesignPagelet` take from it what a run may yield;
  its run controllers (`AgentRunControl`) are in `DesignPagelet`.
- **Permission broker**: the tools that ask are chosen by a model at run time;
  to the pagelets a prompt is a step that takes longer, which every step of the
  models may.
- **Computer use**: its checks surround screenshots and input of the operating
  system, whose failures and delays only that system defines.
- **Agent runtimes**: provider streams. That one terminal event ends a run is
  what `ChatPagelet` takes from them; the graphs they build run on the engine of
  `PregelGraph`.
- **Tool coordination and memory**: pure functions over one call, with unit
  tests, and SQLite.
- **Pagelet host, daemon, main process**: wiring over the supervisor of the
  x-oasis libraries, which are not in the repository. The models take from it
  that a dead process is started again and that a call can be lost.
- **Restate engine**: an adapter; the journal is an external service's.
- **Remote control adapters and device binding**: parsing, signatures, roles.
- **Extension and capability hosts**: ordered activation, nothing concurrent.
- **Command line client**: the protocol it speaks is in `RunBrokerGateway`.
- **User interfaces, protocols and policies**: rendering, types, schemas.

## 3. Modules and the code they model

`PROJECT.json` maps every definition to its lines; this is the outline.
A definition whose comment starts with `fault:` is not part of a
specification: it is a plausible mistake in the definition that follows it,
kept to show that a property notices it.

### RunBroker (`RunBrokerStore.ts`, `RunBrokerStateRepository.ts`, `control.ts`)

Maps from identifiers to records (`intents`, `projections`, `approvals`,
`commands`), the histories, and `disk`, the snapshot. One action per mutating
method. Every method is synchronous, then saves; no other method runs between,
but the process can die between, so a method sets `unsaved` and only
a step of the file can follow: `Save`, `SaveFails` or `Restart`. Listeners are
called before the save, as in the code. A write that throws (`SaveFails`) leaves
memory ahead of the file and the broker answering from it: a retry of the call
finds the record in memory and writes nothing, and the next write of any method
brings the file level. `failedWrites` counts the writes that have thrown since
the last that did not.
`DeleteRunProjectionsForSession` persists run by run: `doomed` holds the runs
still to delete. `Restart` is `hydrate`: it keeps the histories of the file, cut
to the limit, and recomputes both cursors from what they hold: a cursor whose
change was deleted or never saved is given out again. `purged` is history: the
runs deleted since they were last in the file.

### RunBrokerGateway (`RunBrokerSocketGateway.ts`, composed with RunBroker)

EXTENDS RunBroker and adds clients that subscribe to one run, with or without
a cursor, receive a replay, then live events, are cut off and attach again.
The listener is registered first (`Attach`), the replay computed later
(`Replay`, `ReplayProjection`), and the broker may change in between. A replay
takes the changes after the cursor in the order of their time, then of their
cursor, and cuts them to `ReplayLimit` (`Selected`, `Later`). `listening` says
that the Shared process has the client's listener: `RestartShared` takes all
listeners and leaves the sockets, so a client may stay `on` and hear nothing
more; a subscription under way at that moment gets an error (`ReplayFails`). The
pagelet is a record of the run: `PublishRecord` publishes it, `PublishFlushed`
after events were counted, `PublishRecovered` with no event at all.

### AgentRunLedger (`AgentRunRepository.ts`, `BufferedAgentRunEventWriter.ts`)

Per run: `record` and `lines` (the files), `queue` with `step` and `held` (the
running task, the record it has read), `events`, `timer` and `flushing` (the
writer's buffer). A task is a few file operations, each an action
(`ReadRecord`, `AppendLines`, `WriteRecord`, `RemoveRun`), any of which may
fail (`Fault`) or be the last before `Crash`. `CreateRun`/`WriteNewRecord` and
`ImportRecord`/`ImportEvents` go round the queue, as in the code.
`compactBufferedEvents` joins deltas of one stream; an event carries the range
of text it stands for (`from`, `to`), so that loss, repetition and reordering
show without any text. Recovery is `ListOrphans`, then `RecoverNext` run by run.
`harmed` and `bundled` are history: the runs that met a crash, a fault, a
deletion or a race, and those whose files came from a bundle.

### StepMemo and DurableSteps (`DurableRunEngine.ts`, `FileDurableStepLedger.ts`, `DesignBuildDurableSpike.ts`)

`StepMemo` is the promise: a step is performed only while no result of it is
remembered and after all earlier ones are; what is remembered stays.
`DurableSteps` is `executeStep` await by await: load the ledger (`Execute`,
`ReadFile`, `Fill`), look up (`Reuse`, `Begin`), put `running`, perform, put the
outcome. A put changes the map, then saves it: `StartWrite` takes its text,
`OpenTemp` empties the one temporary file that all runs of the process share,
`WriteBytes` writes into whatever that file has become by then, since another
save may have renamed it (`handle`), and `Rename` moves what the temporary file
holds, empty (`Blank`), mixed (`Torn`) or whole, over the ledger file; each step
may fail. `clashed` and `spoilt` are history: the saves under way that met
another one, and that such a meeting has happened and no save that met no other
has been renamed since. It implements `StepMemo` through
`INSTANCE StepMemo WITH done <- {k : file[k] = "completed"}` for a run that has
the ledger to itself; two runs that share it do not (section 7). `effects` and
`repeats` are history: how often each side effect happened, and how often one
did that had happened before.

### ChatPagelet (`ChatPageletWorker.ts`)

The worker between its ledger and the broker, both reduced to one step per
operation, since their own steps are the two modules above. `sends` is where
each `handleSend` call is, `flight` the flush in flight and what it will
publish, `early` the publications nobody waits for, `activeRuns` the call whose
controller is registered, `polls`, `handler` and `deletion` the awaits of
`consumeQueuedRunIntents`, `handleRunControlCommand` and `deleteSessionRuns`.
The broker is `projection`, `intent` and `command` of each run. `past`,
`dropped`, `lost` and `late` are history the properties speak of: what a record
has been, and where a call was lost or overtaken.

### DesignPagelet (`DesignPageletWorker.ts`, `DesignRunLedgerWriter.ts`, `AgentRunControl.ts`, `DesignRunStore.ts`)

One run and the calls of `handleSendAgent` made for it, of which the code lets
several overlap, since a poll that listed an intent claims it again. `activeRun`
is the one controller `AgentRunControl` keeps per run, `store` the status the
renderer is shown. The text of streamed deltas is gathered per model request
(`text`; deltas are numbered as they come) and made messages by whoever flushes:
the loop before a closing event, a reader, a deletion. A flush takes the text
in one step and appends the messages one by one, awaiting each, so `job` is what
each caller has still to append, `waiting` who awaits the flush in flight and
`ready` whose promise has settled. What is ready goes on before the event loop
takes up a task (`Resume` before `Task`), in the order of the promise queue.
`StoreAfter` is what the run store makes of an event. `mixed` and `stray` are
history: a flush took the text of several requests, and calls whose controller
another call's end removed (section 7).

### SlotLine and SubagentPool (`SubagentManager.ts`, `SubagentRunner.ts`)

Each child is a generator at one of its awaits (`at`): parked for a slot,
granted one, running, closing. `active`, `maxConcurrent` and `queue` are the
manager's fields. What runs without an await is one step: `Close` gives the
slot back and wakes the next, `SetMaxConcurrent` drains the queue, `DisposeAll`
aborts the children and resolves all parked promises without counting them, so
that each then gives back a slot it never took (`returned` counts those).
`CancelParent` aborts any set of children, `Spawn` starts any child that is
not under way: the chains and parallel groups of the orchestrator are among
the orders this allows.

`SlotLine` is the promise to the children: a line and those that hold a slot. A
slot is taken at once only if the line is empty, else given from its head,
within the limit and the spare slots, and nobody is left in line while fewer
than the limit are held. `SubagentPool` implements it with `holding` the
children that are granted, running or closing, `line` its queue, `limit` its
`maxConcurrent` and `spare` its `returned`; that `active` is not a variable of
`SlotLine` is the point: the promise is about who holds a slot, not about the
manager's count.

### RemoteControl (`RemoteControlWorker.ts`, `RemoteControlIngressPolicy.ts`, `RemoteControlReplyOutbox.ts`, `TelegramBotApiAdapter.ts`)

The worker between its channels and Shared. A message is a member of `Posts`
(channels that call in) or an update of the Telegram bot, numbered as Telegram
numbers them. `loop`, `offset`, `batch` and `current` are the poll loop at its
awaits: fetching, between two updates, in a submission, in a reply. An update
that throws drops the batch (`DropBatch`), and what lies before `offset` is
`confirmed` by the next request only. `seen` is the guard, `calls` the
`createRunIntent` calls it let through. Shared is `intents` and `furthest`; what it
answers and what its subscription tells come over one connection, `inbox`, in
order, so a projection may be there before the pagelet tracks the run but not
before Shared has answered. `told` is the outbox: the last cursor each tracked
run was replied with. `Restart` empties all that is in memory. `memories` counts
how often the guard knew nothing of a message, `attempted` what a handler got.

### PregelGraph and MCPregelGraph (`engine/pregel.ts`, `graph/state.ts`, `channels/*`, `interrupt.ts`)

One thread of a compiled graph. A channel is named after what it triggers: the
channel `branch:to:n` is `n`, a join is its record of sources and target. The
channels that a superstep updates get one new version; a node runs when a
channel it listens to holds a value of a version it has not `seen`. `Invoke`
restores versions and `seen` from the newest checkpoint, with new input
(`InvokeInput`), the answer to an interrupt (`InvokeResume`) or a Command that does
neither (`InvokeCommand`); `Prepare` finds
the superstep's tasks, or nothing to do, or a pause before one; nodes return
in any order (`NodeReturns`) until all have (`FinishStep`) or one finds no answer
to its question (`NodeInterrupts`) or throws a `NodeInterrupt` (`NodeThrows`), at
which what has returned is applied and the rest is never heard of. The first
pause names its node; the second names none (`Unnamed`), and resuming it finds
nothing to run (`Unguided`, section 7). `Fail` may come anywhere. None of this looks at
edges. The history does: `owed` is what the edges ask to run next, `heard`
the sources a join has had, and `forgot` says that a pause left more behind
than the one node that resuming runs (section 7). `MCPregelGraph` is the graph
the run uses: two nodes joined before a third, a fourth that leads back or to
a fifth and sixth, two that ask, one that may throw a `NodeInterrupt`, one paused
before and one paused after.

## 4. Runs

Every run finishes on its whole state space; the counts are distinct states.
Each bound is a constant of the cfg, and a guard of the module where it caps
something the code leaves open.

| Run | Instance | States | What it shows |
|---|---|---|---|
| `broker` | 1 run of 1 session, 1 intent, 2 approvals, 1 command, histories of 2, cursors to 3, 1 write that throws between two that do not | 6,347,724 | what was answered is in the file, unless a write has thrown since the last that did not; no two changes in memory or file bear one cursor; a replay ends in the present record, also after trimming, deletion and restart; no command outlives its run; outcomes are final |
| `gateway` | 1 run, 1 client, histories of 3, replays of 2, cursors to 4, times to 2, 1 write that throws | 1,961,404 | no change is lost between replay and live events but what the replay limit cuts off; a client without a cursor ends with the present projection, unless its replay was cut or a time went back |
| `ledger` | 1 run, 3 events, batches of 2, 2 overlapping creations, a bundle of the run's name, 1 failing file operation, 1 crash | 1,132,960 | buffer, joining, timer and queue lose nothing undisturbed, and repeat and reorder nothing whatever fails; the log is numbered without a gap; the record counts only logged events; buffers drain and orphans are settled |
| `ledger_terminal` | 1 run, 4 events, no fault, no crash | | violation: see section 7 |
| `durable_restart` | 1 run of 3 steps, 2 crashes, 2 failing writes | 26,913 | implements `StepMemo`; at most one repetition per fault |
| `durable_shared` | 2 runs of 1 step, 1 crash, 1 failing write, 1 failing read | 11,178,160 | an executor runs only with a record of its step in a readable file, except from the meeting of two saves to the next save that met none; the file says completed only of what was done, always |
| `durable_reload` | 2 runs of 1 step, 1 crash | | violation: see section 7 |
| `chat` | 1 run, 1 `handleSend` call, 1 poll, 1 crash, 1 failing call | 637,470 | the broker is never ahead of the ledger and is current at rest; commands are answered, intents become runs |
| `design` | 1 run, 2 calls, 2 polls, 2 model requests, 2 deltas, 1 deletion | 2,855,391 | text is in one place from memory to log and not behind what closes it; cancelling reaches the call that runs; run store and ledger end with the same outcome |
| `subagents` | 3 children, limits 1 and 2, 1 `disposeAll` | 206,061 | implements `SlotLine`: slots in the order of asking; nobody waits beside a free slot, the limit holds for every grant, stopped children stay so, parked ones proceed, disposal ends |
| `remote` | 2 updates, 1 other message, 2 intents, 2 projections with cursors to 2, 1 message forgotten, 1 restart | 954,601 | no message runs twice while it is remembered; no update is lost or blocked for ever; replies reach the furthest a run has got |
| `graph` | 6 nodes with a join, a loop, questions, pauses and a thrown interrupt, 7 supersteps, 4 invocations | 185,589 | comparing versions finds exactly the nodes the edges ask for; who returns has followed every edge; after a `NodeInterrupt` neither is so, and a resumption runs nothing |

Why the bounds are enough:

- *Broker.* A history of two is trimmed by the third change, which three cursors
  allow; a deletion, a crash before the save or a write that threw makes a
  restart give out cursors again below that. One thrown write in a row leaves
  memory ahead of the file with every method still open; a second leaves it as
  far ahead. Two approvals share one history, so trimming one
  of them away while the other stays occurs. Records of different kinds touch
  only through their run and the snapshot. Two runs are beyond TLC here; the
  theorems of section 6 are for any number of them.
- *Gateway.* A history of three, filled by up to four publications, is trimmed
  once and more by restarts; a replay of two is shorter than it, as the code's
  100 of 500 is, and what is cut off may be one change or all but two. Three times
  are enough for a change to be earlier than the one before it and later than the
  one before that. Clients do not touch each other.
- *Ledger.* Two requests' deltas, a tool result and the outcome are the kinds
  of event that are buffered, joined, not joined, and flushed at once. Three
  events over batches of two give a flush in flight, deltas joined in it, and
  an event that arrives meanwhile; a fourth would wait like the third, as the
  theorems say for any number. Runs share nothing but the order of recovery.
- *Durable steps.* Three steps have a first, a middle and a last; the second
  crash meets a recovery. What runs sharing a ledger do to each other takes
  two: every meeting of two saves, at each of the four steps of a save, with a
  failure or a crash in between. Three saves meet pairwise, and `spoilt` does not
  tell how many met.
- *Chat.* Runs share only polls and the deletion, which hold sets of runs. One
  crash and one lost call reach every window between two awaits; a second
  meets the state the first left.
- *Design.* Two calls are one and its successor, claimed by two polls; two
  requests are what it takes for a flush to have two messages to append, and
  with two deltas one of them can come before and one after any flush. Calls,
  polls and requests are symmetric, which is sound for invariants.
- *Subagents.* Three children over two slots have one parked; over one slot
  two, which shows the order of the queue.
- *Remote control.* Two updates are one that fails and one behind it; a
  message posted twice, forgotten once and cut off by a restart meets every
  order of call, answer and repetition. Two projections are one that is late
  and one that is behind it. Two intents may be of one message.
- *Graph.* Four invocations are a start, a resumption, one that is paused
  again or fails, and one after it; seven supersteps take the loop round and
  end at the recursion limit. The graph has each kind of edge once, two
  questions in one node, a question beside a sibling, and a sibling that may
  throw.

Deadlock is checked in the broker, durable and subagent runs. `CHECK_DEADLOCK
FALSE` stands where the system stops: a run's events are used up, every run is
over (chat, design), the pagelet has nothing to publish (gateway), updates and
messages are used up (remote), or the thread is not invoked again (graph).

Every property has a mutant in `PROJECT.json`: a change to a mapped definition,
such as a dropped guard or an order reversed, under which the run finds it
violated.

## 5. Fairness

Liveness is checked only where the code schedules what it needs.

- *Ledger* (`LedgerFairness`): a file operation completes, well or not; an
  armed timer fires; `markRunningRunsRecovered` is called at start and goes on
  after each update. No caller has to append anything, so `BufferDrains` rests
  on the timer alone. `OrphansSettle` excuses runs that met a failed file
  operation, since recovery gives up at the first one, and runs that a bundle
  was imported under.
- *Chat* (`Fairness`): file operations and calls complete; timers fire; polls
  come round (an interval of 1.5 s); an aborted run ends; a dead pagelet is
  restarted by the supervisor. A run nobody aborts need not end, and no user
  has to do anything. `CommandAnswered` and `IntentBecomesRun` excuse exactly
  the losses that `lost` and `dropped` record.
- *Subagents* (`Fairness`): a resolved promise continues, a generator whose
  runner ended is read to its end, a runner whose signal is aborted stops. A
  child nobody aborts need not end, so `ParkedProceeds` says that a parked child
  gets its turn if no child runs for ever.
- *Remote control* (`FairSpec`): the poll loop goes on, what Shared has sent is
  taken, a call is answered or rejected. Nothing has to succeed: every reply
  may fail, and so may the call for every update. No user has to write.

All of it is weak fairness: once enabled, these steps stay enabled until taken
or until a crash takes their cause away.

## 6. Proofs

Each `*Proofs` module EXTENDS its component's module; its theorems are of the
same `Spec` the runs check, for every value of the constants that satisfies
the module's ASSUME: any number of runs, clients, events, crashes and faults.

| Theorem | Says |
|---|---|
| `BrokerTypeOK` | every map, log and counter keeps its type |
| `BrokerAnsweredIsSaved` | whenever a caller can be answered, the file is the memory, unless a write has thrown since the last that did not |
| `BrokerLogCursorsSound` | of the changes kept in memory or file no two bear one cursor; the next is larger than all |
| `BrokerReplayEndsInPresent` | a log's newest change of a record is the record |
| `BrokerHistoriesBounded` | no history outgrows the limit, nor outlives its run |
| `BrokerProjectionHistoryCurrent` | a projection history ends in the projection held |
| `BrokerLiveCommandsHaveRun` | no live command outlives its run's projection |
| `BrokerOutcomesFinal` | claims, decisions and verdicts are final: once in the file for good, in memory until a restart that forgets them |
| `GatewayTyped` | what clients are sent is typed, and of projections that were there |
| `GatewayNothingMissed` | nothing kept falls between replay and live events but what a full replay cut off, for any limits |
| `GatewayFreshSeesPresent` | a client without a cursor ends with the present, unless more is kept than a replay holds or has a later time, for any limits |
| `LedgerTypeOK` | files, queues and buffers keep their types |
| `LedgerNothingLost` | file, flush and buffer carry each appended event once, in order; after crashes and faults, some of them |
| `LedgerNumberedInOrder` | an undisturbed log is numbered without gap, and counted |
| `LedgerCountedIsLogged` | a record counts only logged events |
| `DurableTypeOK` | files, map and calls keep their types, also when shared |
| `DurableFileTellsOfSteps` | nothing is performed that the file has no record of, but between a meeting of saves and the next that met none; what it says completed was done |
| `DurableAnsweredIsOnFile` | a completed answer is on file, for a run alone |
| `DurableRepeatsBounded` | each crash and failed write costs at most one repetition, for a run alone |
| `DurableRemembersSteps` | `DurableSteps` implements `StepMemo`, for a run alone |
| `ChatTypeOK` | records, flushes, calls and polls keep their types |
| `ChatNeverAhead` | a projection is something the run's record has been |
| `ChatRestsCurrent` | at rest it is the record, unless a call was lost or overtaken |
| `DesignCancelReaches` | cancelling reaches the call that runs, but for stray ones |
| `DesignTextKept` | every delta is in one place, or a deletion took its record |
| `DesignTextBeforeEvents` | what closes text is behind it, unless a flush mixed requests |
| `DesignStoreTellsLedger` | store and ledger end with one outcome, for a run called once |
| `PoolTypeOK` | types; no slot counter below zero |
| `PoolNobodyWaitsInVain` | no child is parked while a slot is free |
| `PoolGrantsWithinLimit` | no grant beyond the limit, but for disposal's slots |
| `PoolStoppedStays` | a stopped child is not running or completed again |
| `PoolServedInLine` | `SubagentPool` implements `SlotLine` |
| `RemoteTypeOK` | types; replies are tracked of intents that exist |
| `RemoteOncePerMemory` | one intent for each time the guard knew nothing of a message |
| `RemoteConfirmedWasHandled` | what Telegram will not hand out again was handled |
| `RemoteNothingUntold` | what a channel is told, or will be, reaches the run's furthest |
| `GraphTypeOK` | types; a pause is of a node of the graph or names none |
| `GraphRunsWhatIsOwed` | comparing versions finds exactly what the edges ask for, and nothing where a pause without a node is resumed |
| `GraphEdgesFollowed` | an invocation that returns has followed every edge, unless it resumed a pause without a node or one that left more than its node |

**Broker.** What the theorems say of the maps in memory is not inductive:
`Restart` replaces them by the file. `IInv` says the same of both
(`SnapshotOK(Snapshot)`, `SnapshotOK(disk)`), that they are equal when nothing is
unsaved and no write has thrown (`AnsweredIsSaved`), and that in memory and file
together cursors are unique and within the counters (`CountersOK`): while writes
throw, the two logs drift apart, and a change that is only in memory must not
bear the cursor of one that is only in the file. `Final(disk, Snapshot, purged)`
says that memory overturns no outcome of the file, which is what the next write
that succeeds needs, however many threw before it. `Restart` then has what it
needs for the maps, and recomputes the counters from logs known to have unique
cursors. The lemmas on
logs (an event recorded, a log trimmed, a run taken out) are stated once for
both kinds of event. `OutcomesFinal` is the step property that follows. A
second layer, `HInv`, says of memory and file how long each history is and that
it ends in its projection. A trimmed log loses an event of lowest cursor, which
its cursors being unique makes one event; that there is one (`Oldest`) follows
from the library's well-foundedness of the naturals.

**Gateway.** `BrokerInv` is the broker's invariant, carried through the
composition by the lemmas about the broker in the same module, action by action. What a
client is promised once its replay is through holds from the replay of the
changes on, also while the projection is still to be fetched (`HistorySeen`,
`FreshCurrent`). A publication adds one change, which is the run's projection
and the event that every listener gets; trimming and restarts only shorten what
is owed. The replay itself takes the first `ReplayLimit` of what is selected, in
the order of `Later`. If it takes fewer, it takes all; if it is full, each change it
leaves is later than all it takes, and their events are as many as they are
because no two changes of the history have one event (`RecordAhead`, which bounds
history and file by the pagelet's record): that is `CutBefore`. The last change
taken is the newest of the history, so the projection, unless it was cut or one
of the others has a later time.

**Ledger.** `CountedIsLogged` needs the same of the record a task holds in
memory (`Backed(r, held[r])`), because `WriteRecord` writes that one, possibly
after creations and deletions went by. The step that matters is `AppendLines`:
held record and log grow by one batch, numbered from the held count. The other
parts of `IInv` (`EventsSound`, `QueuesSound`) say only that buffers and batches
are sequences. Lengths and elements of concatenations and tails are lemmas.
For `NumberedInOrder` (`NInv`) the record a task holds is also as long as the
log, or ahead of it by the batch just appended. `NothingLost` (`LInv`) follows
the pieces of text through file, flush and buffer as one chain, in which each
piece begins where the one before ends; a flush turns a chain into the chain of
its joined pieces. That joining covers exactly what it was given rests on where
the k-th stretch of deltas starts, which counts the starts before it: every
start is the k-th for one k, because of those below a given count there is a
least that is missing (`LeastNatural`, from the library's well-foundedness of the
naturals), and none can be. Of a disturbed run pieces may be missing, so its
chain has gaps: `KInv` says that its pieces rise from file to flush to buffer
(`Rising`), for every run but those a bundle was imported under. Joining keeps
that because a stretch ends before the next one starts, and a crash, a rejected
task or a deletion only takes pieces out.

**Durable steps.** `FileInv` follows a completed status through every place it
can be in: file, map, temporary file, what was read (`Sound`), and the record
of a started step from the map to the temporary file to the file (`Recorded`).
It holds for runs that share the ledger, as far as their saves let it: `Apart`
says that saves under way together are `clashed`, and that one that met no other
has the temporary file it emptied to itself, so that its rename brings a file
with all records the map had when it began. While saves clash nothing is claimed
of the file's records (`spoilt`), and only that no text, map or readable file says
completed of what was not done. For a run alone with a ledger it can
read (`Alone`), `AloneInv` adds where map and file may differ (`Loading`,
`Agree`) and that earlier steps are on file (`InOrder`). Refinement is one case
per action: `Perform` is StepMemo's `Perform`, the `Rename` of a completed record
its `Remember`, everything else a stutter. A repetition is of a step whose side
effect happened and whose record is neither on file nor on its way there: a
*lost* one (`Lost`). `Paid` says that repetitions are no more than crashes and
failed writes, and one fewer while a side effect is lost. Only those faults lose
one, and there is one at most (`OneLost`), since a run performs a step only when
those before it are recorded (`PerformedInOrder`) and records stay
(`FileKeeps`); so no sum over the steps is needed. `Alone` is an assumption of
these three theorems because without it the claims are false (section 7).

**Chat.** `NeverAhead` is inductive once it is known of all publications under
way (`NewsSound`): what a flush will send, and what nobody waits for.
`RestsCurrent` needs three things more (`Sound`), of runs no publication of
which was lost or overtaken: what a flush sends is the record as it is, what
nobody waits for is no newer, and while the broker has not got the record it is
on its way in one of the two. Counts decide, so the proof rests on batches that
are never empty (`NonEmpty`): each makes the count grow. A pagelet that is down
has nothing in memory (`Down`), so its restart begins from projections that are
current. That `patchForEvent` makes a record of a batch (`PatchedTyped`) takes a
greatest element of a set of numbers, which exists since the naturals are
well-founded. The theorems cover any number of overlapping sends and polls.

**Design.** `CancelReaches` is inductive with the types of `calls`. A beginning
call aborts the registered one, which by the invariant is the only one that can
run unaborted; an ending one takes the controller, whosever it is, and makes its
owner stray. `TextKept` rests on `LInv`: log, dropped text, flush in flight,
buffer, what each caller holds and the text of each request part the deltas
`1..heard` among them (`Located`), a call holds items only at the awaits where
it may (`Idle`), and before there is a record there is no text (`Unborn`). Each
action moves a set of deltas from one of these places to the next; that joining
assistant messages, cutting a batch or making items of the text moves just that
set is a lemma each. `TextBeforeEvents` adds the order (`NInv`): each item *fits*
behind the text ahead of it (`Fits`), those on their way to the log and those
the callers hold, who hold no text unless a flush mixed requests.
`StoreTellsLedger` asks what the record will be once all is written: only the
last of the items that tell of the status matters (`Patched`), and from the
moment the only call has told an outcome that is the one the store has, or gets
when the call goes on (`SInv`).

**Subagents.** `NobodyWaitsInVain` needs that the queue is exactly the parked
children, without repeats (`QueueSound`); `GrantsWithinLimit` that the children
holding a slot are at most those counted and those given back without one
(`SlotsCounted`); `StoppedStays` that a stopped child's signal is aborted before
its runner starts (`SignalSound`). The lemma `Drained` about `DrainQueue` serves
the three actions that call it. `ServedInLine` is the refinement of `SlotLine`,
one lemma per kind of step: a spawn takes a slot or waits, a generator's end
releases one or adds a spare one, a new limit serves, disposal dismisses, all
else stutters. `SlotLine` counts those who hold a slot where the manager counts
in `active`, so it needs that `active` is never more than the holders
(`SlotsTaken`), beside that it is never too few (`SlotsCounted`).

**Remote control.** `OncePerMemory` needs that what the guard does not remember
still has a memory to spend (`MemorySpent`). `ConfirmedWasHandled` needs that all
before the offset was handled, and before an update of the batch all that is
not in the batch too (`BatchSound`): dropping the batch then loses nothing, since
the offset stands at the first update not handled. For `NothingUntold`,
`NewsFollows` says that no message of the inbox is ahead of `furthest`, and that
behind an answer not yet taken there is the furthest projection, if there is
any: what is dropped because its run is not tracked was never the last.

**Graph.** The engine compares numbers, the property speaks of edges. `IInv`
ties the two: versions are at most `maxVersion`, which some channel has, so the
next is new to all (`Tops`), and what a node has seen is at most the channel's
version; a channel that can trigger a node has a version that node has not seen
(`Fresh`); between supersteps the channels that hold values, and the joins, are
what `owed` and `heard` say (`Matched`). During one, a full join has brought its
node (`CameBy`) and differs from `heard` only where a resumed node came by it
(`HeardOf`). The checkpoint keeps the versions' bounds and, after a pause, that
nothing but the one node is owed, unless `forgot` or the pause names no node
(`SavedOK`); that is what makes the next invocation's comparison mean anything.
Resuming a pause without a node restores no channel that could trigger anything
(`UnguidedRunsNothing`), so it never gets to a superstep.

**Model-checked only.** Liveness (`BufferDrains`, `OrphansSettle`,
`CommandAnswered`, `IntentBecomesRun`, `ParkedProceeds`, `DisposalEnds`,
`EveryUpdateAttempted`), since TLAPS does not reason about fairness. Every other
property of a passing run is stated by a theorem. No module here has a RECURSIVE
operator.

## 7. Where code and documents disagree

Two runs are expected to find a violation of a statement in the repository's
documents.

- `ledger_terminal`, `ReturnedIsSettled`. The ledger's design
  (`codebase-wiki/discussion/20260522-durable-execution-agent-run-ledger.md:128`)
  asks that critical events and the final status are on disk before a run's
  terminal event returns. `flushRun` returns the promise of the flush already in
  flight (`BufferedAgentRunEventWriter.ts:55`), so a terminal event appended
  meanwhile is answered for while it waits in memory for the 250 ms timer.
- `durable_reload`, `CompletedNotRepeated`. The roadmap
  (`codebase-wiki/roadmap/20260522-remote-agent-os-implementation-roadmap.md:376`)
  asks that recovery does not repeat a completed side effect. `ensureLoaded` sets
  the map to empty before it reads the file (`FileDurableStepLedger.ts:27`), so
  after a restart a second caller finds no record and performs the step again.

Met while modelling, without a run of their own:

- The roadmap (lines 188 and 218 of the same document) says that changes made
  while a client was away are replayed after its cursor. A recovered run is
  published with the cursor of its last event (`ChatPageletWorker.ts:697`), and a
  replay takes what is later than the cursor, so a client that had seen that
  event is not told that the run is over.
- `StateGraph.invoke` promises to continue from where the last invocation left
  off (`orchestrator-core/src/graph/state.ts:148`). Resuming runs the node of
  the last interrupt and no other (`engine/pregel.ts:249`), over ephemeral
  channels and joins that are restored empty: its siblings of that superstep and
  the sources a join had heard are lost without an error. `forgot` marks these
  threads, and `RunsWhatIsOwed` and `EdgesFollowed` except them.
- On resuming, the interrupted node is re-executed (`engine/pregel.ts:26`), and
  throwing a `NodeInterrupt` is functionally identical to calling `interrupt()`
  (`interrupt.ts:107`). But what it carries has no `nodeId`
  (`interrupt.ts:110`-`115`), so a resumption looks for triggered nodes over
  restored channels, of which the ephemeral ones are empty, finds none
  (`engine/pregel.ts:193`, `:249`, `:264`) and returns the state as if the graph
  were done; the node does not run again. `RunsWhatIsOwed` states this (`Unguided`)
  and `EdgesFollowed` excepts it.
- A test says that assistant text is flushed before a tool call
  (`DesignRunLedgerWriter.test.ts:41`), and it is, for one request. Where several
  requests stream at once, as parallel subagents do, a reader's flush takes the
  text of all out of memory and then appends the messages one after another,
  awaiting each. The run's next tool call, or later text, finds no text to
  flush and is appended in between. `mixed` marks such runs.
- `design-run-ledger.ts:5` promises one `assistant_message` per request; every
  read of a run or of its events flushes what has come of it
  (`DesignPageletWorker.ts:145` and `:152`), so a run that is watched while it
  streams has as many as it was read, under one message id.
- The plan of the design page says that the cancel button ends the run
  (`codebase-wiki/roadmap/20260521-design-page-agent-generation-implementation-plan.md:80`).
  Between the call and `startRun` lie two awaits, one of them the activation of
  the extensions; a cancellation then finds no controller, answers false, and
  the run goes on.
- A poll that listed an intent before another claimed it is handed it again
  (`RunBrokerStore.ts:72`) and begins the run a second time. The new call aborts
  the old one, as `AgentRunControl.test.ts:30` asks; but when the old one ends it
  removes the controller of the new one (`AgentRunControl.ts:50`), which nothing
  can cancel from then on. `stray` marks these calls.
- The answer to an interrupt is for the interrupted node (`engine/pregel.ts:26`),
  but `resumeValues` are handed to every node of every superstep of the
  invocation (`engine/pregel.ts:735`): a later node's own question takes them.
- After `interruptAfter` the graph is to resume (`graph/types.ts:97`), but what
  is re-executed is the node that had finished, after which it is paused again.
- Whether a superstep triggers a later one is asked of every updated channel
  (`engine/pregel.ts:876`), and its answer decides about deferred nodes only,
  which is why they are left out here.

Smaller limits of what holds are in the properties' comments and in the hazards'
notes: lines that a failed update of the record left uncounted share their
numbers with the lines after them (`NumberedInOrder` excepts such runs), replays
shorter than the history miss the newest changes and may end in one that is not
the latest, clients of the gateway hear nothing after a restart of Shared until
they attach again, a broker write that throws leaves callers with an answer a
crash takes back, two saves of a shared step file may leave it empty or mixed
until the next one, overlapping polls can leave a
command unanswered, a failed recovery update leaves the runs after it `running`,
a message whose call failed is refused until the guard forgets it.

## 8. What the models leave out

- *Files.* writeFile of a temporary file nobody else writes, rename over its
  target, an append of a batch and removal of a directory are one step each, done
  or not done; a torn append is not modelled.
- *Broker.* What a throwing write leaves of the temporary file, which the next
  one writes anew. Listeners that throw, expiry times, paging of lists. Histories of
  approvals and commands are sets of events that carry their cursor, since they
  are read only in its order; that cursors are unique is checked, not assumed.
- *Gateway.* One run is followed; channels are ordered; a connection breaks or
  delivers. Approvals and commands are subscribed to the same way and not
  modelled apart. No deletion happens in the composition. A crash of the
  cli-gateway pagelet is one of the ways a connection breaks. A client whose
  listener is gone with a restart of Shared is promised nothing until it attaches
  again.
- *Ledger.* Artifact references, previews, trace bundles beyond their record
  and events. Two main loops of one run are one, which appends in turn.
- *Durable steps.* Outputs, errors, times and emitted events. The bytes of a
  writeFile go out in one step after the file was emptied; a file that two of
  them write holds the text of the last or `Torn`.
- *Chat.* An operation of the ledger or the broker is one step; a call counts as
  sent when it takes effect. Deltas are left out, since they change no status.
  The harness is external: events until one terminal event, an error even after
  that, no end unless aborted. Not modelled: permission prompts, the bridge of
  the approval log, pause, extensions, streaming, trace bundles, `createRun`
  that rejects, a Shared process that restarts under a living pagelet.
- *Design.* Creating a run, a batch, a deletion and a call of Shared are one
  step each. Publications, approvals and control commands are left to
  `ChatPagelet`; a command appends, flushes and aborts, as reads and
  cancellations do here. Failing writes other than for want of a record, crashes,
  the trimming of the run store at a hundred runs, the run store's reading of an
  error whose text is `Cancelled` (`DesignRunStore.ts:45`) as a cancellation,
  subagent snapshots, text of nothing but spaces, artifact patches and exports,
  the build pipeline.
- *Subagents.* A child's id is not used twice while it is under way; a
  parent's children are any set of children; listeners and `resultConsumed`.
- *Remote control.* Acknowledgement of replies, the delivery file and the
  replies that are rebuilt from it after a restart (so `told` starts empty),
  eviction at a thousand replies, approvals and control commands that come from
  a channel; a submission that device binding or the rate limit refuses is one
  that fails. One bot, whose updates Telegram hands out in order.
- *Graph.* The values of the state (a write conflict is one of the causes of
  `Fail`), deferred nodes, `Send`, streaming, resuming an older checkpoint,
  invocations of one thread that overlap, graphs without a checkpointer.

## 9. What could come next

What is not modelled at all, and why, is at the end of section 2. Of what is
partly modelled, in the order of what it would show:

1. *RemoteControl*: the delivery file and reconstruction after a restart; that
   every outcome is replied to at least once over a crash.
2. *ChatPagelet*: a creation that fails, a Shared process that restarts, pause,
   a second call per run. The instance is near what TLC can do in minutes, so
   this would come with a smaller broker side.
3. *RunBrokerGateway*: a socket that closes during the subscription.
4. Theorems: that `ChatPagelet`'s one-step views of broker and ledger are
   implemented by `RunBroker` and `AgentRunLedger`.

## 10. Running the checks

```
tlc -config RunBroker.cfg MCRunBroker
tlc -config Ledger.cfg MCAgentRunLedger
tlc -config ChatPagelet.cfg ChatPagelet
tlapm RunBrokerProofs.tla
```

`PROJECT.json` lists module and cfg of every run, and of every theorem its
module. The proofs use Z3, Zenon and LS4 only.
