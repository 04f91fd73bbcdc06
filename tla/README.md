# A TLA+ model of Gurt's main process

Gurt runs coding agents in Docker containers. A *task* (the UI says scope) holds
*sessions*; a session is one agent, one container and one conversation, and all
sessions of a task share one *clone* (working tree) per repository. The promise
of the README of the repository is "No two agents on one working tree", and much
of what is hard in the main process follows from it: a queue, a scheduler,
stops that free a clone, prompts that wait for one, and recovery of all that
after a restart. The rest follows from files and processes that outlive the
call that made them: containers, proxies, host servers, logs, archives.

This directory models that process, checks it with TLC, and proves what matters
most about it with TLAPS. Paths below are relative to the repository, whose
code is in `src/main`, `src/shared`, `src/plugins`, `src/preload` and
`src/renderer`.

| file | what it is |
|---|---|
| `CloneClaims.tla` | who claims which clone, and which claims conflict |
| `QueueViews.tla` | the handlers of the queue as functions of the state |
| `SessionQueue.tla` | the queue, its scheduler, starts, turns, stops, restart: one action per step |
| `AdmissionQueue.tla` | what the queue promises: a readers-writer lock with a waiting line |
| `QueueRefinement.tla` | the refinement mapping from `SessionQueue` to `AdmissionQueue` |
| `SchedulerPass.tla` | the loop of `scheduleSync`, shown to compute `Schedule` of `QueueViews` |
| `SessionTurn.tla` | one session's prompts, turns and writes, await by await |
| `ContainerLife.tla` | one session's container, proxy and agent process, Docker command by Docker command |
| `ScopeFiles.tla` | sessions.json, logs and archives under renames, deletions and crashes |
| `HeldWrites.tla` | the operator's writes to the MCP registry and what is held back |
| `McpServers.tla` | host servers of sessions: reconcile passes and stdio bridges |
| `ProactiveRuns.tla` | a proactive agent's runs, the scopes they raise, the index of refs |
| `SessionQueue_proofs.tla`, `SchedulerPass_proofs.tla`, `SessionTurn_proofs.tla`, `ContainerLife_proofs.tla`, `ScopeFiles_proofs.tla`, `HeldWrites_proofs.tla`, `McpServers_proofs.tla`, `ProactiveRuns_proofs.tla` | theorems, one module per component |
| `MC*.tla`, `*.cfg` | the instances TLC checks |
| `PROJECT.json` | components, runs, mutants, source map, hazards, theorems |

## Inventory

### The core

**SessionManager** (`src/main/sessions.ts`).
*State*: a map of `Session` records (state draft/queued/starting/started,
`queuedAt`, container record, live adapter, `pending` prompts, `busy`,
`draining`, `recovering`, `interrupted`, `turnComplete`), task caps, plan-limit
holds, timers of debounced writes.
*Operations*: create, run, enqueue, cancelQueue, delete, prompt, clearPending,
cancelPending, resumeInterrupted, setTaskCap, `scheduleSync`, startSession,
attach, sendTurn/runPrompt, the adapter's close handler, restore.
*Interacts* with ContainerManager by calls, with the kernel through the domain
bus, whose handlers run synchronously inside the operation that emits.
*Hard*: every operation is cut by awaits, and the scheduler may run in any gap;
handlers nest; a check of the clone is stale after an await; a write may fail
or a crash happen between taking a message and sending it.
*Right when*: starts exclude each other on a clone; the queue is FIFO per clone
and always moves; the cap holds; no accepted message is lost, doubled, reordered
or stuck; turns do not overlap; interrupted work waits for its user.

**Kernel** (`src/main/kernel.ts`). *State*: the set of sessions a handoff stop is
in flight for. *Operations*: `reapForQueue` stops idle sessions the queue waits
for, `idle` arms the grace period, `restoreSessions` orders restore, container
reconcile, scheduling and reaping at boot. *Hard*: a stop that fails, a session
that starts to work while it is being stopped, boot with containers still up.
*Right when*: a stop hits only a session at a boundary, and whatever fails
leaves something that will try again.

**ContainerManager** (`src/main/containers.ts`). *State*: the container record
of each session (status building/post/running/stopped/error), coalesced
launches, idle timers. *Operations*: ensure, stop, release, noteIdle and
autoStopIfIdle, reconcile at boot, retention sweep, orphan removal. *Hard*: the
record and the daemon disagree while docker runs; teardown races launch; a
release waits for a launch. *Right when*: a session with a live agent is never
recorded as down; no container outlives its session.

**Store** (`src/main/store.ts`). *State*: files under `~/.gurt`, a chain of
writes per file. *Operations*: `writeJson` (temporary file, fsync, rename,
fsync of the directory), `readSessions`, `writeSessions`. *Hard*: a snapshot is
taken when the write is asked for and lands later; a write may fail after its
rename; a crash between. *Right when*: what was accepted is on disk, in order.

**Session log** (`src/main/sessions.ts`, `src/main/store.ts`). Append-only JSONL
with a tail that is flushed and retried. *Right when*: no record is lost or
written twice by a failed append, and none is left behind by a rename, a
deletion or an archive.

**Domain bus** (`src/main/bus.ts`, `src/shared/events.ts`). A synchronous
emitter without state.

**Archive** (`src/main/archive.ts`). *State*: the frozen scopes, pairs of data
and metadata files. *Operations*: archive and restore a scope or a session,
delete an archive, one at a time. *Hard*: freezing, flushing, packing and
retiring are many awaits, and a crash may fall into any of them. *Right when*: a
scope is retired only once a whole copy is committed, and nothing is written to
it in between.

**MCP servers** (`src/main/mcp/*`). *State*: who holds which server, the local
bridges and their processes, the built-in's listener. *Operations*: resolve on
attach, stop, reconcile passes, requests. *Hard*: passes work on snapshots while
sessions come and go; processes die under requests. *Right when*: nothing is left
running for nobody, and no agent is told of a server that is not there.

**Held writes** (`src/main/adminWrites.ts`). *State*: fragments of entries held
back per revision, a chain of calls per workspace. *Operations*: write,
apply_held, confirm, deny, the user's own saves. *Hard*: a confirmation is open
while everything it shows may change. *Right when*: what runs on the host changes
only as the user saw it.

**Proactive agents** (`src/main/proactive.ts`). *State*: the run in progress, the
history, the refs each raised scope is bound to and their index, the inbox.
*Operations*: start, time out and end runs, collect their sessions, propose and
attach scopes, follow what the user does to them. *Hard*: calls of a run await
inside their lock, and the user's renames, deletions and archives do not take it.
*Right when*: a ref has one scope, a run one end, and the inbox its limit.

### Around it

| component | state and operations | what would make it right |
|---|---|---|
| Provisioning (`provision.ts`) | docker and git command lines, image builds | a failed launch leaves nothing the record does not know |
| Proxy and networks (`proxy/*`, `resources/proxy/gurt-proxy.mjs`) | live proxies; ensure, pushScope, revokeScope, stop, remove, sweepOrphans | scope pushed before the agent runs, revoked before a stop |
| OAuth, credentials (`oauth/*`, `credentials.ts`) | credential records, refreshes in flight | a rotating refresh token is spent once and its successor stored |
| Git and host credentials (`git/*`, `changes.ts`, `localRepo.ts`) | a loopback broker, child processes | a token is given to the session it belongs to |
| PII masking (`pii*.ts`) | token tables | the same value, the same token; unmasking inverts masking |
| Usage and plan limits (`planUsage.ts`, `usage.ts`) | last reading per account, ledger | a hold lifts when its window resets |
| ACP (`jsonrpc.ts`, `acp.ts`, `acpClient.ts`) | requests awaiting a reply | each request settles once |
| Housekeeping (`gc.ts`, `update.ts`, `shutdown.ts`) | single-flight jobs, a deferred update | nothing in use is removed; no update over running work |
| Terminals, files, notifications, logs | I/O | |
| IPC and shell, agent plugins, renderer | forwarding, data, views | |

## The modules and the code

### SessionQueue and QueueViews

Claims and the cap are keyed by task, so **one task is the system**; its
sessions, clones and how each session mounts each clone are constants.

An action is **what runs between two awaits** of the main process, with every
bus handler it reaches synchronously. Those handlers nest: an enqueue reaps the
idle holders, then schedules; the end of a turn arms a timer, reaps, then drains
the next prompt. So the whole state is a record, a `View`, and a handler is a
function from a View to the View it leaves (`QueueViews`); `SessionQueue` applies
it with `Become`.

| in the model | in the code |
|---|---|
| `state`, `before` | `SessionInfo.state`; the order of `queuedAt` |
| `cont` / `box` | the container record as `isActive` reads it / the daemon's container |
| `step` | the await its start, resume or turn is in: `attach` (about to check the clone), `resolve` (`resolveLaunch`), `provision`, `wire` (adapter, ACP session), `turn`, `failed` (on the way to a catch), and the `Lulls`: `config` (the agent of a start is told its picks and mode), `open` (a start prompt or a nudge is masked), `mask` (a waiting prompt is) |
| `agent` | a live adapter is attached |
| `pend`, `nudging`, `recovering` | `pending`, the contract's nudge, the pause after a restart |
| `held`, `cap` | `limitHold`, `maxConcurrentSessions` |
| `armed`, `stop` | idle timers; container stops in flight and how far each has got |
| `Holders`, `Startable`, `Admitted`, `Schedule` | `repoConflict`, `scheduleSync` |
| `Drainable`, `Drain` | `drainPending` |
| `BlockingQueue`, `Reap`, `NoteIdle` | `holdersBlockingQueue`, `reapForQueue`, `idle` |
| `TurnOver`, `AgentGone`, `FailedStart` | the tail of `runPrompt`, the adapter's close handler, the catch of `startSession` |

In a lull the session is started and not yet busy, and the handlers see that: an
idle policy armed before, or a handoff, may stop its container under it.

A stop has three kinds of step: `begun` (detached, awaiting docker), `down`
(docker returned, the record not yet written), `settle` (recorded, the handoff's
`.finally` still to run). A launch and any number of stops of one container may
be in flight together, as in the code.

`Admitted` says a pass in one formula. The code's pass is a loop with a map of
claims and two counters. `SchedulerPass` is that loop, and the run `pass` checks
that from every situation the loop ends where `Schedule` says.

Abstractions: writes of the store are instantaneous here (`SessionTurn` opens
them). The daemon serialises what it does to one container, so a `docker stop`
that took effect is recorded before a later start finishes (`Provisioned`).
"stopped", "error" and no record are one status, which this code never tells
apart; `building` includes `post`. Prompts are counted, not named: a prompt that
replaces the session's own continuation is a choice of `n` in `Prompt`. The
removal of a deleted session's container is one step with the deletion.
Two turns of one session at once are `SessionTurn`'s: here nothing is typed before
a start has its own prompt out, and a prompt that waits behind a start's turn waits
behind its nudge too. A configuration pick that wakes a session (`sessions.ts:3326`)
is `ContainerLife`'s. `missingRepoReason`, frozen tasks, templates, permission requests and a failing
`docker rm` are left out. `queuedAt` is a strict order (ties ignored).

### AdmissionQueue and QueueRefinement

`AdmissionQueue` is the promise without the mechanism: sessions are out, waiting
or in; a line orders those who wait; a step lets a set of waiting sessions in if
each of them fits beside everybody inside or at work, nobody it conflicts with
waits before it, and slots are left. It knows no containers, prompts, stops or
timers, and says nothing of how long anybody stays.

`QueueRefinement` maps the queue's state to it: "queued" waits, "starting" is
in, any other session the scheduler sees as active is at work, and `before` is
the line. Every step of `SessionQueue` is then a `Turnstile` of the lock, however
many handlers nest in it, but for two calls of the user: Run now passes the line,
and queueing a waiting session anew sends it to the end. `ImplementsAdmission`
says all that, initial state included. `Phase` and `Using` of the mapping name what
the two state functions read of a session, so that the proof can say when a handler
leaves them alone.

### SessionTurn

One session, await by await. `mem` is the process, `disk` the record in
`sessions.json`, `mem.writes` the store's chain. Two coroutines can run a turn:
the start prompt's and the drain loop's (`Owners`). A turn goes `open` (the
start configures its agent), `mask`, `mark` (the marker's write), `attach`,
`agent`, `clear` (the marker's write), and a nudge goes round once more. A write
carries the snapshot taken when it was asked for; what its caller goes on to do
is `Landed` or `Rejected`. `Crash` loses `mem` and may lose or keep the write at
the head of the chain. `typed`, `accepted`, `refused`, `taken`, `sent` and
`told` record what became of each message; no action reads them.

Abstractions: getting a container is `RunNow` and `Attached` (SessionQueue has
the detail); a clone held by another session and a plan limit are one flag,
`blocked`; at most one debounced write waits in the chain (a bound); a late
`complete` may arrive while the turn's marker is being cleared; each message is
typed at most once.

### ContainerLife

One session between its record and Docker. `host` is what the process remembers,
`docker` what the daemon has, `disk` what the last write kept. An action is a
coroutine's way from one await to the next: a Docker command and the code that
reads its answer.

| in the model | in the code |
|---|---|
| `launch[f].at` | the await `attach`, `ensure`, `provision`'s creation and restart, `connection` are in; `f` is a prompt (or start) and a configuration pick |
| `host.attaching`, `wait` | the coalesced attach; `Ensuring`: `ensureInFlight` |
| `fit`, `proxy` | the adapter's installation and `proxies.ensure`, side by side |
| `stop`, `rm` | the two ways of `teardown` |
| `Collect`, `CollectStale` | the retention sweep, on either side of its await |
| `Persist`, `Reconciled`, `Swept`, `Reboot` | sessions.json; `reconcile` and the removal of orphans, with a store that may be unreadable and a daemon that may be silent |

Abstractions: the steps of a build, a clone and a setup script are one command
each; a failing command is a choice, bounded by `MaxFaults`; Docker never reuses
an id; other sessions are not there, so a clone is always free; what was pushed
to the proxy is a flag. Containers, networks and proxies carry the session's
labels, which is all the boot goes by.

### ScopeFiles

Where sessions are: `live` in memory, `disk` by directory, `archive`. Timers,
write chains and flushes are kept by the scope's *name*, as in the code, and that
is the point: a rename, a deletion, an archive and a restore take the name away
while they are under way. A log is a sequence of record numbers, so that
`ReadLog` can do what `readSessionLog` does to a tail that was appended twice.

| in the model | in the code |
|---|---|
| `timers`, `writes`, `TimerFires`, `WriteLands` | `persistTimers`, the store's chains, the debounced write, `writeJson` |
| `flush`, `FlushOf`, `AppendLands`, `AppendFails`, `erase` | `flushLog`, its failure and retry, `deleteSessionLog` |
| `scope`, `DeleteTask`..., `RenameTask`... | `deleteTask` and `renameTask` of the kernel, the store and the manager, await by await |
| `op`, `ArchiveScope`... `OpRemovesMeta` | the archive's operations, one at a time, with commit and retirement apart |
| `Protected`, `Changing`, `Steady` | what hides a scope from the user, and blocks another operation of it; what only the window "changing" lets in |
| `Crash` | boot: the scopes' files become memory; a session in two of them is taken from one |

Abstractions: the other contents of a record, checksums and the archive's format
are left out; a session is created with its scope; containers only patch the
record (`StatusChanges`). An archive of a whole scope and a deletion or a rename of
it keep each other out in the code; an archive of one session, its return, a restore
and a creation do not, and may fall on a name that is changing. That is the window
"changing", as "emptied" is a session that comes back to a scope whose last records
are not written yet.

### HeldWrites

One registry entry, two fields, the operator's agent and the user. `frag` are
objects with identity, since the code shares them between the map and open
confirmations and changes them in place. `chain` is the promise chain per
workspace: `write` and the second half of `applyHeld` take their turn on it, the
first half and the user's saves do not. A revision *is* the entry (the code
hashes its JSON). `Plan` splits a write into what lands and what is held;
`Refused` is the rule about credential links.

Abstractions: one entry of one workspace; a field's value is the user's or the
agent's text; the dialog is `Ask`, then `Confirm` or `Deny`.

### McpServers

`holders` is `localHolders`, `pass` the reconcile that runs with the snapshot it
took, `queue` the reconciles chained behind it, `bridges` the map of stdio
bridges with the processes each has, `resolve` a session's `resolveMcpServers`.
A stop takes the bridge off the map first and kills its process after, so that a
request may find either half (`stray` counts processes the map has forgotten).

Abstractions: one registry entry, one credential, both by version; the wire
protocol is a request that is spawned for, sent or late.

### ProactiveRuns

One agent. `active`, `outcome` and `sess` are its runs and their sessions;
`dir` is the task.json of each scope, `origin` and `index` the two maps of
`proactive.ts`, `call` the calls under the workspace's lock, `move` and `edit`
the user's operations that do not take it, cut at their awaits. `unindexed` is
history: scopes that came back from an archive since the last boot. A run's session is
`opening` from the moment the code has it started until its prompt is with the agent,
and again when it is nudged (`Nudges`); `working` is the time in which a cancel ends
something.

Abstractions: the schedule is `StartRun` at any time; prompts, the journal and
notices are left out; a scope's sessions are one value of `box` (drafts, drafts
put back, acted on, none).

## What is checked

| run | instance | properties | what it shows |
|---|---|---|---|
| `writers` | 2 sessions writing one clone; masking; one is configured and may hit its plan limit, one is prompted; failing launches, dying adapters, failing handoff stops | `TypeOK` `QueueMoves` `PromptsMove` `StopsAtABoundary` | nothing waits for an event that will not come; stops hit boundaries, or lulls |
| `clones` | 3 sessions over 2 clones (reader, writer of both, reader-and-writer), cap 0, 1, 2, one to configure | `StartsNeverCollide` `ImplementsAdmission` | the queue implements the lock: claims all or none, FIFO per clone, within the cap |
| `outages` | 2 writers, one to configure; the user stops and releases a container, one restart | `AgentIsVisible` `PausedUntilAsked` | no agent out of the scheduler's sight; interrupted work stays paused |
| `starvation` | reader, writer, reader; contract, configuration and prompts; fair | `EveryoneGetsATurn` | every queued session leaves the queue |
| `pass` | 3 sessions, 2 clones, every situation, order, hold and cap 0..3 | `PassIsSchedule` | the loop is the formula |
| `turns` | 2 messages, a session at work or about to start, masking, contract; fair | `TypeOK` `NothingStalls` `ContractPerTurn` `EveryPromptSettles` | messages are settled; a turn is judged by its own `complete` |
| `crashes` | 2 messages, contract, one failed write of any kind but the recovery's, one crash | `MarkedWhileWorking` `SentInOrder` `AcceptedIsSafe` | recovery neither doubles nor reorders, and the marker is there in time |
| `launches` | 1 session, 2 containers, a prompt and a pick; stop, edit, collect, delete; one fault | `TypeOK` `NoContainerOutlives` `OneAgent` `AgentIsIsolated` `AgentIsServed` `AgentIsRecorded` `BootKeepsSessions` | one agent, isolated, served and recorded, and no container left behind |
| `archives` | 2 sessions, 2 names, 1 archive, 3 operations, one failure or crash | `TypeOK` `NothingLost` `DiskIsMemory` `ArchivedWhole` | no record lost; nothing deleted comes back |
| `held` | 2 fields, 2 writes, 2 saves, 2 confirmations at once | `TypeOK` `HeldIsCurrent` `LandsAsShown` `LinkStaysPut` | what runs on the host changes only as shown |
| `servers` | 2 sessions, one edit, one fault | `TypeOK` `NothingLeft` `OneProcess` `ToldWhatIs` | passes leave nothing for nobody; agents are told of what is there |
| `proactive` | 2 runs, 2 calls, 2 refs, 2 names, 2 moves, one restart, an inbox of one | `TypeOK` `RefsBelong` `RunsSettle` `InboxBounded` | a ref has one scope, a run one end, the inbox its limit |

`QueueMoves` and `PromptsMove` are invariants in place of liveness: in a state in
which nothing is in flight and no timer runs (`Quiet`), nobody is left waiting
for anything but a plan limit or the user. They need no fairness, so they are
checked under every interleaving of user calls and faults.

Deadlock is not checked: the process really stops when all is idle or deleted
and every bound is used up. `QueueMoves`, `PromptsMove` and `NothingStalls` say
what a deadlock check would: that it stops only when there is nothing to do.

Every property has a mutant, a plausible bug in one mapped definition, that TLC
finds by that property (`PROJECT.json`). They sit beside the definition they
mutate, marked "Mutant".

### Bounds

* Two sessions show every interaction of a holder with one who waits for it;
  three are needed for order (one overtaking another behind a third), for
  starvation by a stream of readers, and for the cap; two clones for claims
  taken together. What holds of so few is proved for any number.
* `MaxPend = 1`: the queue module tells only whether a prompt waits. Order and
  identity of messages are in `SessionTurn`, where two suffice to be swapped,
  doubled or overtaken.
* One restart or crash, one failed write, command or append: a fault can meet
  every other step, and the state after recovery is itself a state without
  faults. A failed write and a crash do meet in `crashes`.
* `MaxCalls = 1`: one stop or release by the user in flight per container,
  beside one idle stop and one handoff stop. The code keeps a single handoff stop
  itself; a second idle stop would need docker to outlast the grace period, and
  `IdleTimerFires` leaves it out.
* `Faulty`, `Handled`, `Prompted`, `Contracted`, `Configured`, `Limitable`,
  `FailingStops` and `Masking` choose who meets which event, so that each run stays
  within minutes.
* `ContainerLife`, `MaxBoxes = 2`: one container to lose sight of and one that
  replaces it. `Overlaps = FALSE` keeps a stop by hand and the sweep out of a
  launch: see the deviations.
* `ScopeFiles`: three operations are enough to archive, restore and delete, or to
  rename away and back; one record per log and one archive are enough to lose one
  or to keep one twice. `HeldWrites`: two confirmations, two writes and two saves
  can each meet the others in any order. `McpServers`: one request per session at
  a time. `ProactiveRuns`: two refs, so that a call may hold one of another
  scope's; one run that ends while the next begins; `KeepRuns = 1`, so that runs
  are collected; an inbox that one scope fills.
* `Windows = {}` and `Races = {}` leave out the interleavings listed under
  Deviations; each is a named member of the constant, to be put back by hand.

### Fairness

`SessionQueue!Fairness`: an await ends (docker, the agent start, a stop), an
armed timer fires, a turn ends. The first two hold because every such call in the
code is a child process or a socket with an end, and timers are `setTimeout`.
That turns end is an assumption about the agent, which the user can cancel; no
fairness is assumed of users, faults or restarts. It is stated of states
(`[]<>(step[s] # p)`): a session is not forever at the same await, which weak
fairness of its actions amounts to here because each of them can always go on.
`FairSpec` lets users create, queue, cancel, delete and prompt (`Orderly`), but
neither jump the queue with Run nor queue a waiting session anew: with those a
user can starve a session on purpose.

`SessionTurn!FairSpec`: a write lands, a turn's await ends, a hold on the clone
passes. It assumes no fairness of users, nor of `complete`.

`ContainerLife!FairSpec`, which shows a deviation only: Docker commands and
requests to the agent time out, timers fire.

## What is proved

**The queue** (`SessionQueue_proofs`), for every set of sessions and clones, all
mount modes, caps, limits and bounds, from `ModeAssumption`, `ViewAssumption` and
`BoundsAssumption` (which only type the constants):

* `TypeCorrect == Spec => []TypeOK`. The state is always a `View`. Not by shape:
  `pend` is decremented by drains and incremented by limits within `0..MaxPend`.
* `NoCollision == Spec => []StartsNeverCollide`. A start never shares a clone
  with another start, nor with a session that has never run, whatever fails,
  stops or restarts around it.

`StartsNeverCollide` is not inductive. The invariant is
`Inv == TypeOK /\ Apart /\ StepsFit /\ Ordered`:

* `Apart` is the property itself, of a View. A pass starts several sessions at
  once, so it must know that two conflicting ones are not both startable:
* `Ordered`: of any two queued sessions one is before the other, so the later
  one is kept back by the earlier one's reserved claim. Every operation that
  queues or unqueues has to keep it.
* `StepsFit`: a session with a step in flight is starting or started. Without
  it a container could come up under a queued session and make it active beside
  a start.

The proof has two layers, as the model has: lemmas that each handler maps a View
to a View and a Safe View to a Safe View (`ScheduleSafe`, `TurnOverSafe`, ...),
then one lemma per group of actions, and `NextSafe`. Most handlers leave the part
of the state the invariant reads (`Core`) alone, and `SafeByCore` settles those.

What the theorem does not say is in its last words: a session that *had* run may
be woken after the start was admitted. That is the first of the deviations.

**The queue never stalls** (`SessionQueue_proofs`, on top of `Inv`):

* `AgentsAreSeen == Spec => []AgentIsVisible`, whatever is stopped, released, fails
  or restarts. `Visible` relates the agent, the record, the daemon and the stops: an
  agent's record says running and its container is up, and no stop has taken effect
  in Docker beside a record and a container that both say running.
* `WorkIsNotCut == Spec => StopsAtABoundary` and
  `PausedWorkWaits == Spec => PausedUntilAsked`, action properties. Handlers nest,
  so each has to be shown `Courteous`: no session goes back, a handoff stop it begins
  is of a session between awaits that is not starting, and a drain passes paused
  sessions by. `Mannered` puts that together per action. What `StopsAtABoundary`
  excepts are the lulls before a turn: there the code does begin to stop a container
  (`StartsAreLeftAlone`, see the deviations).
* `QueueNeverStalls` and `PromptsNeverStall`: `QueueMoves` and `PromptsMove`, if
  nobody stops or releases by hand, no idle stop fails, and there is no restart
  (`Undisturbed`); for any cap, any plan limits, failing launches, dying adapters
  and failing handoff stops. Each part of the hypothesis is necessary: see the
  deviations.

The argument for the last two: where nothing is in flight and no timer runs, no
container is recorded as running, so no session is active, and beside nobody active
nobody waits. `Fit` is the first half: a running container has a step under way, an
armed timer or a stop that will be recorded (`Watched`); a start and a building
container have the step that will end them, and only a started session has prompts
(`Shaped`). `Settled` is the second: when no session is active the queue is empty but
for those a limit holds, and no prompt could be drained. Each action is shown to keep
both, or to end in the handlers that restore them.

**The refinement** (`SessionQueue_proofs`), from the same assumptions;
`ViewAssumption` has `Session` finite, which the cap's count of slots needs:

* `QueueIsAdmission == Spec => ImplementsAdmission`.

A handler moves the line only in three ways: some leave it, one joins at its end,
and a pass lets some in. `Edited` says the first two of any handler, `Served` that
whoever a pass admits is not in conflict with anyone inside, at work, or before it
in line, `Room` that the slots suffice; each handler has a lemma for it, and
handlers that nest compose. `Lined`, a strict order of the queued, is inductive
beside `Inv`.

**The pass** (`SchedulerPass_proofs`):

* `LoopComputesPass == Spec => []PassIsSchedule`: the loop of `scheduleSync`, from any
  View whose line is a strict order, any cap and any limits, ends where the formula
  `Schedule` says. `LoopInv`: of the items met so far those the formula admits are
  started and nothing else has changed; while there is room, the map of claims is
  what the items met, and not held by a limit, claim; and once the cap is reached it
  stays so, whatever the map says.

**Runs of a proactive agent** (`ProactiveRuns_proofs`), from `ProactiveAssumption`:

* `RunsAreSettled == "opening" \notin Windows /\ Spec => []RunsSettle`: the four
  other windows may be open. With that one, TLC violates it. The property
  is inductive once `active`, `outcome` and `sess` are typed (`RunsInv`); the
  rest of the state does not matter to it. The core of the proof is `Settles`:
  whatever becomes of a session, the handlers either end the run it belongs to or
  leave it a session that can still end it; and `Collect`, which deletes sessions,
  takes only those of ended runs.
* `RefsBelongToOne == Windows = {} /\ Spec => []RefsBelong`, for any number of
  refs, scopes, calls, moves and restarts. Its hypothesis is necessary: each of the
  four windows about scopes alone has a counterexample.
* `InboxStaysBounded == Windows = {} /\ Spec => []InboxBounded`: the limit is
  checked when a call begins and the scope is there several awaits later.
* `ProactiveTypeCorrect == Windows = {} /\ Spec => []TypeOK`.

The invariant `RefsInv` says what the code relies on without saying it:
`Indexed`, the index is the origins turned around; `Filed`, an origin is what the
scope's file says, but for a scope that is going, being written, or back from an
archive, and under a rename it is kept by the old name (`Owner`); `Disjoint`,
scopes share no ref, those back from an archive included; `OneCall` and
`CallHolds`, a call under the lock still has, after its await, what it looked up
before it; `EditHolds`, settings being written carry the refs of the file;
`Moved`, what a rename, a deletion and an archive stand on halfway. `BoxInv` adds
`Seen`, every untouched scope is one the count of the inbox sees, and `Counted`:
while a scope is being raised, there is one place left for it. There is one lemma
per action, and `FrameRefs` for those that leave it all alone.

**Turns, prompts and recovery** (`SessionTurn_proofs`), from `TurnAssumption`, for
any number of messages, failures and restarts:

* `TurnTypeCorrect == Spec => []TypeOK`, with every kind of write failing.
* `AcceptedStaySafe`: `AcceptedIsSafe`, if the recovery's write does not fail.
* `MarkerIsThere`: `MarkedWhileWorking`, if it does not fail and no session starts
  as a draft.
* `MessagesInOrder`: `SentInOrder`, if the recovery's write does not fail.
* `EachTurnByItsOwn`: the action property `ContractPerTurn`, if no draft has the
  contract; whatever fails or crashes.
* `SendersKeepGoing`: `NothingStalls`, without restarts and with no write failing
  but the debounced one.

Every hypothesis is necessary: TLC violates the property without it (Deviations).
The common base is `Chain`: who has a write in the chain, of what kind, and in
which order, and that a turn whose marker is being written has exactly one.
On it stand five invariants, each of a memory and a file:

* `Safe`: an accepted message that is still queued is in the file *and in every
  write to come*, and one whose own write is still in the chain is in all writes
  behind it. The property itself says nothing of the writes, and any of them may
  be the next to land.
* `Marked`: while the marker's write is on its way, the writes from it on carry the
  marker; from its landing on, the file does and so do all writes. A write asked
  for before, without the marker, can therefore only land before it.
* `InOrder`: what was sent, the message under way, and the queue in memory, in the
  file and in every write are in the order of `typed` (`Waits`, `Ahead`); a message
  that is about to be sent is before everything the file could bring back, from
  the landing of its marker on (`Comes`). `Once`: nothing is typed twice.
* `Judged`: during a turn what the session holds of `complete` is what this turn
  did, from the reset before its marker to the marker's removal.
* `Moving`: a session that can send has a turn or a write that will
  send (`Goes`), the drain loop is always on a turn (`Loops`), and a turn is
  announced for as long as it is under way (`Still`).

`Without`, the filter of the queue, is a recursive function. That it takes an entry
out and keeps the order of the rest is proved by induction over its length; see
below how.

**Containers** (`ContainerLife_proofs`), from `LifeAssumption`, for any
containers, faults and restarts:

* `LifeTypeCorrect`, `NeverTwoAgents`, `AgentsAreIsolated`, with every interleaving
  (`Overlaps` and any `Interrupts`);
* `NoneOutlives == Spec => []NoContainerOutlives`, likewise;
* `AgentsAreRecorded`, if no stop or removal overlaps a launch (`~Overlaps`);
* `AgentsAreServed`: `AgentIsServed`, under the same hypothesis;
* `BootKeepsTheirs == Spec => BootKeepsSessions`, an action property.

`Safe` is about agents: `Alone`, one launch at a time (the coalesced attach, or the
start); `Owned`, a launch is the one the session is waiting for; `Spoken`, a
connection is live only once its launch has got there; `Closed`, no container past
the switch of networks is on the open one. `Kept` is about containers: there is one
at most (`Single`), a creation finds none (`Cleared`), a removal has listed those
there are (`Emptied`), and without overlaps the one that is up is the one on record
(`Ready`, `Live`).

`AgentIsServed` speaks of runs without a fault, and so does its invariant,
`Untroubled => Order`: what is untroubled has always been so (`TroubleStays`). The
question is who may take from an agent the proxy, the network and the scope its
launch fetched, when stops and removals go by what the record said before their
awaits. `Halting`: a stop under way is of the one container there is, and nobody
removes it. `Named`, `Placed`: the record names that container, or the launch that
is creating it will; so a stop that begins finds no launch setting one up, and a
removal finds the container stopped. `Furnished`, `Served`: from the moment a launch
asks for it, what it fetched stays until a stop that takes the launch's own
container with it. `Raising`, `Raised`: without a fault a session's first start
cannot fail, so that no draft has a container for an edit to remove.

**Files** (`ScopeFiles_proofs`), from `FilesAssumption` and `Windows = {}` (each
of the six windows has a counterexample, see the deviations), for any sessions, names, archives, operations, failures and crashes:

* `SessionsAreNeverLost`: `NothingLost`; `DiskFollowsMemory`: `DiskIsMemory`;
  `ArchivesAreWhole`: `ArchivedWhole`; `SessionsHaveAScope`: `InAScope`;
  `FilesTypeCorrect`: `TypeOK`.

Two invariants, of one lemma per action each. `NamesInv` is about names: whatever
names a scope (a timer, a write, a flush, a session) finds its directory
(`Rooted`), operations under way share no name (`Apart`), and the last write in a
chain, or else the file, says what memory says, but for a scope somebody has still
to write (`Current`, `Behind`). `Apart` is what "changing" breaks, and with "emptied"
closed a flush of a scope without sessions finds nothing waiting to be written. `LogsInv` is about records: every log reads as the
records up to one (`Readable`), a flush appends at its end or before, never past a
gap (`Appending`), and each session that is not deleted is at home (`AtHome`), on its
way, or in a complete archive that is not the one being deleted (`Shelved`).

**Held writes** (`HeldWrites_proofs`), from `HeldAssumption`:

* `HeldTypeCorrect`, and `HeldStaysCurrent == Spec => []HeldIsCurrent`, with every
  race: each change of the entry drops what is held, or replaces it by what is held
  for the new revision.
* `LinksStayPut`: the action property `LinkStaysPut`, if the user does not save
  between a call's check and its store (`"edit" \notin Races`).
* `WhatLandsWasShown`: the action property `LandsAsShown`, if `Races = {}`.

The invariants: `Serial`, a call is on the chain once and past its check only at its
head; `Unlinked`, nothing held, planned or confirmed touches a linked entry; `Shown`,
an open confirmation shows of each field what is in the entry and what it will write,
and two of one fragment name different fields.

**Servers** (`McpServers_proofs`), from `ServersAssumption`:

* `ToldAsItIs == Spec => ToldWhatIs`, with overlaps and any number of requests.
* `NeverTwo`: `OneProcess`, if an agent's requests do not overlap.
* `NothingIsLeft`: `NothingLeft`, if besides no session is stopped while it attaches.
* `ServersTypeCorrect`: `TypeOK`, if none is stopped while it attaches. The bound on
  the queue of passes is what needs a proof: each pass in it is owed to
  another session (`Owed`).

The invariants: `InLine`, an attach is waited for by one pass; `Current`, the pass an
attach waits for and the bridge it finds are of an entry and a credential that were
current since the attach began; `Released`, who is down holds nothing, and a bridge
nobody holds is up only while the pass that stops it is under way.

### Induction

The provers cannot instantiate the library's induction theorems, which take a
predicate as a parameter. Induction is available in another form: a set of numbers
with 0 and with `n + 1` for each `n` it has is all of `Nat` (`NatBySteps` in
`SessionTurn_proofs`, from `WFMin` and `NatLessThanWellFounded`); so what a recursive
function computes can be proved, if it is a function and not an operator. The same
holds of finite sets by their cardinality.

### Only model-checked

Liveness, `EveryoneGetsATurn` and `EveryPromptSettles`: under fairness, out of the
prover's reach. Every invariant and every action property the runs check has its
theorem. What a property of the runs does not cover is in the properties of the
tables below, which are there to be violated.

## Deviations

While modelling, the code was found to do other than what its documents, comments
or the property say. The models exhibit each of these, under the constants given;
the runs above are bounded so as not to meet them, and show that *nothing else*
breaks the property within their bounds.

**Queue** (base: the constants of the run in parentheses)

| what happens | property | where it shows |
|---|---|---|
| `attachUncoalesced` checks the clone and then awaits before its container record says "building"; a start admitted in between is the second agent on the tree (`sessions.ts:2359`; the comment at `sessions.ts:2356` and `README.md:27` promise otherwise) | `CloneExclusive` | `writers` |
| a release drops the container record without an event, so the queue does not learn that the clone is free (`containers.ts:988`, against `kernel.ts:387`) | `QueueMoves` | `writers`, `Handled = {a}` |
| a pass counts a session it has just started both as active and in `startedThisPass`; a slot of the cap stays empty until another event (`sessions.ts:1410`, against the comment at 1390) | `NothingOverlooked` | 3 sessions, `Mode <- Readers`, `Caps = {0, 1, 3}` |
| the handoff runs inside the event that ends a turn and stops the container before the contract's nudge is sent (`sendTurn`) | seen in a trace: a `nudging` session whose stop has begun | `writers`, `Contracted = {a}` |
| a session is "started" and not yet busy while its agent is configured (`sessions.ts:1789`-1792) and its text masked (2483, before 2494): the handoff takes it for an idle holder and stops its container under the start; the prompt then wakes it again (against the comment at 1594, "A holder that is mid-start or mid-turn is doing real work and is never listed") | `StartsAreLeftAlone` | `writers` (8 states), also with `Configured = {}` or `Masking = FALSE` |
| after a restart a queued session that still owns a running container is neither started nor stopped, and blocks an earlier one | `QueueMoves` | `writers`, `Faulty = {a}`, `MaxRestarts = 1` |
| `resumeInterrupted` drains, but does not signal that its prompt is kept waiting by an idle holder | `PromptsMove` | `writers`, `Prompted = {a}`, `MaxRestarts = 1` |
| a handoff stop fails, then so does the idle stop it fell back to, and no timer is left | `QueueMoves` | `writers`, `FailingStops = {"idle", "queue"}` |
| `cancelQueue` does not schedule what the cancelled item was blocking | `NothingOverlooked` | 3 sessions, `Mode <- ReadersWriter` |

**Turns**

| what happens | property | where it shows |
|---|---|---|
| the start prompt's turn does not run under the drain loop, so a message sent while the agent is being configured begins a second turn that shares `turnComplete` (`sessions.ts:1798`, against the comment at 3041) | `ContractPerTurn` | `turns`, `Starts <- Contracted` |
| a crash between taking a message and sending it loses the message | `AcceptedIsKept` | `MaxRestarts = 1` |
| so does a marker that cannot be written | `AcceptedIsKept` | `FailingWrites = {"mark"}`, `MaxFailures = 1` |
| for the same reason a loop's turn that ends clears the marker while the start prompt's turn is at work | `MarkedWhileWorking` | `Starts <- WorkingOrStarting` |
| a failed recovery write puts back messages that were sent meanwhile, and the state of before | `SentInOrder`, `AcceptedIsSafe`, `MarkedWhileWorking` | `FailingWrites = {"resume"}`, both maxima 1 |
| a marker that cannot be cleared leaves a turn whose end is never announced; one that cannot be set, and a prompt that cannot be saved, leave messages nothing will send | `NothingStalls` | `FailingWrites = {"clear"}`, `{"mark"}` or `{"prompt"}`, `MaxFailures = 1` |
| after a restart the automatic "continue" is put in front of a restored message; if a limit blocks and the user cancels the "continue", the hold lifts but nothing drains (`sessions.ts:3145`-3152) | `NothingStalls` | `MaxRestarts = 1` |
| a prompt that was refused stays queued and is sent | `RefusedIsNotSent` | `FailingWrites = {"prompt"}`, `MaxFailures = 1` |

**Containers** (base: `launches`)

| what happens | property | where it shows |
|---|---|---|
| a crash during a container's setup leaves it without a record; the boot adopts it by its label and the next start restarts it in place (`containers.ts:1146`-1151, against `docs/architecture.md:302`) | `UnfinishedIsNotAdopted` | `Interrupts = {}` |
| a configuration pick wakes a sleeping session; no turn follows it, so no idle timer is armed and the container stays up (`sessions.ts:3318`-3326, `kernel.ts:356`) | `IdleRests` | `FairSpec`, `MaxBoxes = 1`, `Internal = FALSE` |
| a session deleted while its launch readies the proxy: the removal is over first, and the proxy or its network stays | `NothingOutlives` | `Interrupts = {"delete"}` |
| a stop by hand that cuts into a launch stops the proxy, or revokes the scope, of the agent that comes up | `AgentIsServed` | `Overlaps = TRUE`, `Interrupts = {"stop"}` |
| a session that starts while its old container is being removed loses its new record to the removal's last step | `AgentIsRecorded` | `Overlaps = TRUE`, `Interrupts = {"edit"}` (with one fault) or `{"collect"}` |

**Files** (base: `archives`)

| what happens | property | where it shows |
|---|---|---|
| a crash between a renamed scope's directory and its records, or before the records a restored session was deleted from are written, leaves sessions in a scope that is not there (`store.ts:1319`-1322, `sessions.ts:2065`-2067, 743) | `InAScope` | `Windows = {"unsaved"}` |
| work while a renamed scope's branches are renamed is written under the old name (`sessions.ts:2069`-2072) | `NothingLost`, `DiskIsMemory` | `{"branches"}` |
| `removeTaskDir` waits for the appends but not for the write chain: a second write behind the first makes the directory again | `DiskIsMemory` | `{"queued"}` |
| a timer between a restored session's write and its return to memory writes the file without it | `NothingLost` | `{"restoring"}` |
| a session is archived, or comes back, while its scope is deleted or renamed: `archiveSession` and `restoreSessionIntoScope` only freeze the scope (`archive.ts:221`, 339), and `deleteTask` and `renameTask` look at the freeze once, when they begin (`kernel.ts:495`, 521). The return makes the deleted directory again, without a task.json, and removes the archive: the session is lost at the next restart. A scope that is created or restored under the new name of a rename under way is in the same window | `NothingLost`, `DiskIsMemory`, `ArchivedWhole`, `InAScope` | `{"changing"}` |
| a flush of a scope whose last session was deleted takes the timer away and writes nothing (`sessions.ts:1942`-1957); the session that then comes back is added to the old file (`archive.ts:349`, 359), and the deleted one is there again after a restart | `DiskIsMemory` | `{"emptied"}` |

**Held writes, servers, proactive agents**

| what happens | property | where it shows |
|---|---|---|
| of two open confirmations that name one field, the user refuses one: the field leaves the shared fragment, and confirming the other removes it from the entry (`adminWrites.ts:592`-614, against `docs/requirements-session-operator.md` §4.4(b)) | `LandsAsShown` | `held`, `Races = {"names"}` |
| a save of the user between the check of a call and its write is overwritten (`adminWrites.ts:596`-598) | `LandsAsShown` | `held`, `Races = {"edit"}` |
| two requests that find the process dead each start one (`stdioBridge.ts:584`-589; "one process per session", `manager.ts`) | `OneProcess` | `servers`, `Request = {r1, r2}` |
| a session that is stopped while it attaches keeps its servers | `NothingLeft` | `servers`, `Overlaps = TRUE` |
| refs of a scope in an archive are free, and it comes back with them (`archive.ts:296`-335, against `docs/design-proactive-agents.md:124` "while a scope exists, each of its refs is bound to it alone") | `RefsBelong` | `proactive`, `Windows = {"restored"}` |
| a call on a scope that is being renamed or archived writes under the old name (`proactive.ts:348`-378, `kernel.ts:520`-541) | `RefsBelong` | `{"moving"}` |
| a deletion frees the refs, then the directory goes: a crash between them brings both back (`kernel.ts:494`-506) | `RefsBelong` | `{"deleting"}` |
| a run that times out when it is started but its prompt, or its nudge, is not with the agent is cancelled, which ends nothing: it comes up, or on, unwatched; so does one that was asked to stop and whose turn ends before the cancel arrives, by a nudge (`sessions.ts:1789`-1792, 2483-2519, `proactive.ts:281`-285, against the comment at `proactive.ts:282` "deleted instead of left to come up unwatched") | `RunsSettle` | `{"opening"}` |
| a scope's cap is written with the origin it was read with (`kernel.ts:575`-583) | `RefsBelong` | `{"edited"}` |

Two more of `ProactiveRuns` follow the code against the words of
`docs/design-proactive-agents.md`: drafting into a scope that was emptied ignores
the inbox's limit (`proactive.ts:421`-428, docs 137-139), which `InboxBounded`
therefore does not count; and a run that ends while its proposal is prepared
still creates the scope (docs 110).

`docs/requirements-session-queue.md` §3.1 still has the queue of prompts "in
memory only"; `docs/requirements-session-recovery.md` supersedes it, and the
models follow the code, which persists it.

## Not modelled

Most of the repository's lines are not control: the renderer is a view; `provision.ts`
is the command lines whose order and failure `ContainerLife` has; the proxy program
is a filter in another process; `shared/types.ts` and `shared/mcp.ts` are
vocabulary and validation of input; the plugins are data. Masking, redaction,
parsing of agents' messages and usage accounting are computations on text. None of
these has state that several actors share.

Left for later because a model would say something: the OAuth refresh (one shared
promise per credential against edits of its record), ACP's matching of replies and
permission requests, `gc.ts` and the deferred update against running work, and
several sessions' containers at once.

## What is left

The model has the parts whose state several actors share, and every safety property
the runs check of them is proved. In the order of what it would say:

1. The OAuth refresh: one shared promise per credential, against edits of its record
   and two launches that refresh one rotating token (`oauth/index.ts:99`).
2. The hazards that no property covers as the code is: a failed idle stop that is only
   logged, a release that wakes no queue, a clone that is checked before the awaits of
   a resume, a message taken off the queue before a crash, a recovery's write or a
   marker's that fails, a session started and not yet busy. The deviations show what goes wrong there; a property would need the code
   to change first.
3. `gc.ts` and the deferred update against running work; permission requests and
   ACP's matching of replies; several sessions' containers at once.
