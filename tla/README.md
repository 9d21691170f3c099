# A verification of The Q-Simulator

The Q-Simulator is a quantum circuit editor with a server side: an API
(`apps/api`) that accepts circuits too large for the browser, a worker
(`apps/worker`) that runs them in a pool of child processes, Postgres for the
rows, Redis with BullMQ for the queue between the two, and WebSockets for the
progress of a run and for editing a circuit together. This directory holds
TLA+ models of the parts whose correctness depends on the order in which things
happen, the TLC runs that check them on small instances, and proofs of the
results that matter most for every instance.

Contents: [the system](#the-system), [the modules](#the-modules),
[the runs](#the-runs), [fairness](#fairness), [the proofs](#the-proofs),
[disagreements found](#disagreements-found),
[what is left out](#what-is-left-out), [the plan](#the-plan).

## The system

| component | source | state | operations | what is hard | what makes it correct |
|---|---|---|---|---|---|
| simulation run rows | `packages/db/src/runs.ts`, `packages/jobs/src/run.ts` | a row per run: status, failure code | create, claim, complete, fail, discard, fail the stale ones; each a compare-and-set | several writers per row, lost replies | a final status stays; moves follow the transition table |
| queue port and job options | `apps/api/src/plugins/queue.ts`, `packages/jobs/src/queue.ts` | BullMQ lists and locks, a deduplication key per work, a completion key per run | claim and release a work, enqueue, depth, wait for completion | SET then GET, TTL against backlog, retries and stalls | one job per work; accepted work ends |
| `POST /simulate` | `apps/api/src/routes/simulate.ts` | one request: ten awaits over rows, key and queue | check depth, create, claim, collapse onto a winner, enqueue, wait | every other request between two awaits, a process that dies in the middle | the loser's row is forgotten; the winner exists |
| processor and consumer | `apps/worker/src/processor.ts`, `queue.ts` | one delivery: job, re-delivery flag, outcome | parse, claim, run, write, announce, signal, report | two executions of one job, lost claims | announced once and truthfully; no completed job over an open row |
| reaper | `apps/worker/src/reaper.ts` | a timer and a batch | read stale rows, end them | the rows move between the read and the write | every run ends; nothing that ended is overwritten |
| child process pool | `apps/worker/src/pool.ts` | slots, forks under way, a line of calls | run, pump, spawn, release, retire, close | events of a child in any order, forks that fail, kills | the size is never exceeded; every call settles |
| hardware jobs | `apps/worker/src/hardware.ts`, `hardware-queue.ts`, `packages/db/src/hardware.ts`, `apps/api/src/routes/hardware.ts` | a row per job, ticks in a queue, a job at a provider | submit, poll, collect, cancel, resume, abandon, reap | a submission cannot be undone and its answer can be lost; cancel against submit; a tick's number is its id | one submission at a time, a bounded number in all; an ended job is final; every job ends |
| provider client | `packages/ibm/src` | a cached token | exchange, submit, read, cancel | a token that expires in use | |
| run events | `apps/api/src/plugins/events.ts`, `apps/api/src/ws/session.ts`, `apps/worker/src/events.ts` | subscriptions per socket, listeners per channel, commands on their way to Redis | subscribe, read the row, open or share a channel, deliver, re-check, release | a run that ends while its channel is being opened; UNSUBSCRIBE is per connection, not per listener; a decision cached for two seconds | who watches comes to read the end of a run; who was revoked hears nothing |
| collaboration relay | `apps/api/src/ws/documents.ts`, `apps/api/src/plugins/collab.ts`, `apps/api/src/ws/session.ts` | documents in memory and their peers, timers and saves; a row; attachments of sockets | build, attach, apply, save, settle a version, drop, detach, close; join, re-check, end | saves against edits, against leaving and against versions, builds against leaving, several API processes | an accepted edit is saved; nobody is left in a document that is no longer handed out; only the owner writes |
| shared circuit document | `packages/collab/src`, `apps/web/src/features/collab/circuitDocument.ts` | a replicated document, its projection, the store it is tied to | write as a difference, merge, project, carry in, adopt | edits that are legal alone; ids from several allocators; deleted against never seen | every replica projects a legal circuit; work is not lost in joining |
| collaboration client | `apps/web/src/features/collab/collabSession.ts` | one session: socket, token, join, pending edits, timers | connect, authenticate, join, reconcile, flush, rejoin, end | frames, tokens and timers in any order | joined means together; the status is true; it opens or ends |
| circuit storage | `packages/db/src/circuits.ts`, `apps/web/src/features/circuit-storage` | a row with a version, the browser's binding to it | save, fork, publish | two tabs, a save in flight | no save is silently lost |
| browser scheduler | `apps/web/src/features/simulation`, `packages/qsim/src/runner.ts` | a web worker with a cache of checkpoints, the latest request, what is dirty | edit, scrub, dispatch, resume, cancel, supersede | a worker that cannot be interrupted, stale answers, a cache that outlives the circuit it describes | the answer shown is that of the circuit shown, and exact |
| server-run client | `apps/web/src/features/simulation/serverRun.ts`, `runSocket.ts` | one run being driven, a socket that survives runs | submit, poll, watch, reconnect | frames against polls, tokens against ready frames | settles once; what is wanted is subscribed to |
| editor and undo | `apps/web/src/features/circuit-editor` | history stacks | edit, undo, redo, coalesce | transient edits | undo returns to what was there |
| authentication, API keys | `apps/api/src/auth`, `api-keys` | a key-set cache | verify | rotation | |
| challenges, gallery, comments, tags | `packages/db/src`, `apps/api/src` | rows | single-statement reads and writes | little | |
| engine, kernel, transpiler, serialisers, contract | `packages/qsim`, `qsim-wasm`, `transpile`, `qasm`, `schema`, `contract` | none | pure functions | floating point | |

How they interact: a request to `POST /simulate` writes a row, takes a
deduplication key and adds a job whose id is the row's id. A worker takes the
job with a lock it must renew, claims the row, hands the circuit to a child of
the pool, writes the answer conditionally on the row being open, publishes a
frame and sets the completion key a waiting request polls. The reaper ends rows
nothing else will. A hardware job is a row too, moved by a chain of short poll
ticks, each booking the next; a sweep on a timer books a tick for a row that
went quiet, and the same reaper ends rows two days old.

The editor asks a Web Worker first, and the server for what a tab cannot afford.
A run on the server is polled and, over a WebSocket, listened to: the API
subscribes a channel of Redis for each run somebody watches and re-checks, every
two seconds at most, whether they may. Over the same kind of socket a tab joins
the session of a circuit: the relay keeps one document per circuit and process,
saves it after a pause, hands updates to the other peers and, through Redis, to
the other processes, and a saved version is settled into it. In the tab a bridge
keeps the document and the editor's store the same circuit.

No two of these steps share a transaction, so each can be separated from the
next by any step of the others, and by a failure.

## The modules

| module | models | lines it stands for |
|---|---|---|
| `Environment` | run ids, and a budget of failures by kind | none, it is the setting |
| `RunRows` | the table and the repository's calls | `packages/db/src/runs.ts`, `packages/jobs/src/run.ts` |
| `JobQueue` | BullMQ as configured: lists, lock, counters | external; `add` and `depth` of `plugins/queue.ts` |
| `SimulateRoute` | the submission handler, one action per await | `routes/simulate.ts`, `claimWork` and `releaseWork` |
| `RunProcessor` | the consumer and the processor, one action per await | `processor.ts`, `apps/worker/src/queue.ts` |
| `Reaper` | the sweep: a read, then a write | `reaper.ts`, `failStaleRuns` |
| `RunSystem` | all of these together, the fairness and the properties | |
| `RunContract` | what a holder of a run id may rely on | the transition table, the frames |
| `RunSystem_proofs` | the proofs | |
| `SimPool` | the pool | `apps/worker/src/pool.ts` |
| `SimPool_proofs` | its proofs | |
| `HardwareRow` | one row of the hardware jobs and the repository's writes | `packages/db/src/hardware.ts`, the tables of `packages/jobs/src/hardware.ts` |
| `HardwareTicks` | the queue of poll ticks, by number | external; `plugins/hardware-queue.ts`, `scheduleOn` |
| `HardwareProvider` | the provider's jobs and its answers | external, as `packages/ibm/src/client.ts` calls it |
| `HardwarePoll` | a tick, one action per await, the consumer and the resume sweep | `apps/worker/src/hardware.ts`, `hardware-queue.ts` |
| `HardwareRoutes` | `POST` and `DELETE` of a job | `apps/api/src/routes/hardware.ts` |
| `HardwareSystem` | these together, the reaper, the clock, the fairness and the properties | `reaper.ts` |
| `HardwareSystem_proofs` | its proofs | |
| `Checkpoints` | the engine's cache of statevectors and the run that resumes from it | `packages/qsim/src/runner.ts` |
| `SimulationWorker` | the worker's message loop | `simulation.worker.ts`, `job.ts` |
| `SimulationScheduler` | what is dispatched, invalidated and believed | `scheduler.ts`, `invalidation.ts` |
| `ServerBackend` | one run on the server, from submission to answer | `serverRun.ts` |
| `BrowserSimulation` | these together, the reader and what goes wrong | `useSimulation.ts` |
| `BrowserSimulation_proofs` | its proofs | |
| `DocumentRegistry` | the relay's documents; the session's row, the head version, one connection per process | `apps/api/src/ws/documents.ts`; `packages/db/src/circuits.ts`, as `plugins/collab.ts` calls it |
| `DocumentSystem` | peers, versions, processes | `plugins/collab.ts`, `routes/circuits.ts` |
| `DocumentSteps_proofs` | the parts of its invariant, its steps, the maps, queues and inboxes | |
| `DocumentSystem_proofs` | the rest of its proofs, and the theorems | |
| `CollabClient` | the browser's end of a session | `collabSession.ts` |
| `RelaySession` | the relay's end of its sockets | `apps/api/src/ws/session.ts`, `routes/ws.ts` |
| `CollabSession` | these together, and what is lost, refused and revoked | |
| `CollabSession_proofs` | its proofs | |
| `RunSocket` | the browser's end of the progress feed | `runSocket.ts`, the callbacks of `serverRun.ts` |
| `SocketFeed` | subscriptions of one API process and the bus they share | `ws/session.ts`, `plugins/events.ts` |
| `RunFeed` | these together, the worker that publishes, the faults | `apps/worker/src/events.ts`, `processor.ts` |
| `RunFeed_proofs` | its proofs | |
| `CircuitDocument` | the value of a key of a Y.Map (external, yjs); a circuit in a document: read, write, merge | `packages/collab/src/document.ts`, `project.ts`, `write.ts`, `update.ts` |
| `CircuitBridge` | the editor's store tied to a replica | `circuitDocument.ts`, the edits of `useCircuitStore.ts` |
| `SharedCircuit` | tabs that edit one circuit, alone, joined and reloaded | `collabSession.ts`, `useCircuitUrl.ts` |
| `MC*` | values for the constants, symmetry | |

### The life of a run

`RunRows` is extended by each module that calls the repository, so
`CreateRow`, `ClaimRow`, `FinishRows` and `DiscardRow` are the four shapes of
`updateMany` the code has, each guarded by the statuses in its `where`. The
count a call answers is the same test in the same state, which is how the
callers branch on it (`status[r] \in NonTerminal` beside `FinishRows`).

A submission is a process named by the run id it will create; `pc` is the await
it is at. `winner`, `seen` are the two values the handler keeps across awaits,
and they are as stale in the model as in the code. `dedupe` is the value under
the work's key. Every command of Redis or Postgres may fail, and then may have
been applied or not: the handler sees the same exception. Where the code has no
`catch` the request ends at "500" or "503" with the row as it is.

An execution is a process `e` with the job it holds. The library is modelled by
what the options ask of it: a job has a list, a lock with a holder, and the
counters `attemptsMade`, `attemptsStarted` and `stalledCounter` from which
`queue.ts` computes `recovery`. `Starves` lets a live execution lose its lock
and carry on, so that two executions of one job are at any two steps;
`WorkerDies` ends any set of executions at any step. The pool is a choice of
outcome here and has its own module.

The reaper's clock is `RunAges`. A row is stale after thirty minutes, while a
request lasts seconds and a key five minutes, so a run ages only when its own
request is over and no request still names it as a winner, and ageing takes its
key away. Without this the model would allow sweeps the clock rules out.

Left out because no decision here reads it: progress, the RUNNING frame, the
result column, the retention of ended jobs, validation before the row exists.

### The pool

Everything in the parent happens on one event loop, so one action of `SimPool`
is one event with all that follows synchronously from it: the pool is a record
`p` and the functions of `pool.ts` (`Pump`, `Retire`, `Release`, `Finish`) map a
record to a record in the order of the calls. What is not synchronous is the
children: a process that died or was killed stays "gone" until its `exit` event
is delivered, the startup timer and the wall-clock timer fire when they like,
and a "ready" may be delivered after the timer wrote the child off. `spawning`
is the set of forks some pump awaits (`pending` in the code is its size).
"ready" is not delivered after `exit`, which Node orders for one child's channel
in all but a corner that leads to the same state as a late "ready" and an exit.
`First` is `slots.find` and `Without` is `splice(indexOf)`, so which slot a
pump takes is the code's choice and not the model's. `Children` bounds the
process ids: a fork that finds none unused is not made.

What the pool promises beside its size is a balance (`NoIdleChildWhileWaiting`).
A child that says "ready" after its startup timer killed it joins the slots all
the same, dead and free, and `find` may hand it the head of the line while a live
child idles behind it. The call is settled when the dead child's `exit` arrives,
and that `exit` pumps. So it is not true that nobody waits while a child is free;
it is true that each live free child is then matched by a dead child that holds a
call. Every release or exit owes the line one pump, and a pump pays it. With two
children the live free one is always found first, so the run meets the case
where both counts are zero; the theorem is about every size. `NobodyIsForgotten`
ties the states of the calls to the line and to the slots.

### The contract

`RunContract` has no queue, lock or retry: a run is queued, handed over,
started, ended and announced, in an order a client can rely on. `RunSystem`
implements it with `handedOver` mapped to the runs the queue knows. The reaper's
batch is one `End` of several runs, which is why `End` takes a set.

### The hardware job

A job on a quantum computer is one row, and no write of the code looks at two
rows, so one row is modelled; the ticks of other jobs only matter to it through
the retention of failed ticks (`ForgetFailed`).

A tick is an execution `e` at the await `exec[e].at`. Like the code it reads the
row once, in `Find`, and keeps of that reading what later steps use: the
provider's id and the poll count. Every write is a compare-and-set of
`HardwareRow`, and what the code does with its count is the branch on the same
condition (`Claimable`, `Recordable`, `Observable`, `IsOpen`). The provider has
no idempotency key: `PostJob` always makes a job, also when the answer is lost.
A database failure while the provider's client is made, or while it exchanges
its token, is classified by `failFromProvider` as a refusal, as in the code.

The queue knows a tick by its number alone (`hardwareTickId`): `AddTick` on a
number it still knows is a no-op. A tick that completes is forgotten at once, a
failed one keeps its number until `removeOnFail` drops it. The sweep numbers its
tick `pollCount + 1`, which is not the count of the ticks; the two disagree in
[several ways](#disagreements-found).

Time is three observations of it: `quiet` is whether the row was polled (or
submitted) less than `SUBMIT_CLAIM_MS`, less than `RESUME_IDLE_MS` or longer
ago; `old` is whether it was submitted `HARDWARE_STALE_AFTER_MS` ago. When these
may advance depends on the timing assumptions of a setting (`outside.timely`),
which also says what may fail and how often (`outside.kinds`, `outside.max`):

- "calls": ticks, sweeps and requests are over within the claim window of a
  minute. The transport aborts a call after ten seconds, and a tick makes at
  most three.
- "queue": a booked tick starts, and a request ends, within the five idle
  minutes. The longest delay of the schedule is two minutes.
- "poll": nothing that must happen takes two days.
- "results": the results of a job the provider calls done can be read some day.

The reasoning of the code's own comments makes these assumptions; without
"calls" a claim expires under the tick that holds it and exclusivity is lost.

Left out because no decision reads it: the program, the queue position, the
status frames, the hardware result beyond which provider job it came from, and
everything `POST` refuses before it creates a row.

### The simulation in the browser

`Checkpoints` is the incremental engine with a statevector reduced to what it
went through: the list of columns and what each held. Two of them are equal
when the same operations were applied, which is all a cache has to be right
about. The circuit has three columns; a column is empty, holds one operation of
several, or measures. The cache is thinned to `Limit` as in the code.

The scheduler is a record and its methods map a record to a record; what they
send, a request and the cancel of the one it replaces, stays in it until the step
that called them posts it. A worker
runs one task of its event loop per step, so that messages may arrive between a
job and the timer with which it yields. An outcome carries the question it was
computed for, which no code reads: `OutcomeIsExact` compares the state it shows
with the state the whole circuit of that question has, and `ReadyIsCurrent` the
question with the newest. A call to the API stays outstanding when its run was
released, and its answer is ignored when it comes.

### The relay's documents

A live document is an object that may be in its process's map, or out of it and
still held by a timer, a save, a subscription or a peer: `relay.lives` numbers
them in the order they were built, and a step is everything `documents.ts` does
before the next await. A process has one database connection, so its statements
are a queue; a reply is a step of its own. A document is the set of edits it has
and the set a version took back, and documents merge by union.

The ghosts `accepted`, `kept`, `owed` and `late` say what the relay has taken,
what it still answers for, what a subscriber must have been given and whether a
version met a document that everybody had left.

### A session and its sockets

`CollabClient` is one record per browser, `RelaySession` one per connection. A
browser has one connection after another, and an old one lives on at the relay
until its close is noticed. Frames travel in order in each direction; the relay
takes one frame of a socket at a time and awaits the access decision and the
document separately. A decision is cached (`fresh`) and `Age` ends that. An update
that meets an old one waits (`busy = "checking"`) with the answer as the row was
when it was asked (`found`); when it comes, only the attachment and the socket are
looked at again, not the credential. A read that fails (`found = "unknown"`) leaves
the decision in force and as old as it was, so the update passes and the next one
asks again, for as long as the database is away. The re-checks of a delivery and of
the sweep are each one step: what queues behind a delivery waits for it anyway. `Age`
fires only when the row has changed, because an answer that repeats the decision
changes nothing. A document is the set of edits in it: what Yjs guarantees
(union, cumulative updates, a state vector says what is missing) is assumed
here and used; `SharedCircuit` looks inside.

### The feed of a run

`SocketFeed` has the subscriptions of one API process (`subs`), with what is
queued on each and the event that waits for a re-check (`checks`), the bus with
its reference counts, and the SUBSCRIBE and UNSUBSCRIBE commands on their way to
Redis in order. `RunSocket` keeps what is wanted, which survives a connection,
apart from what was claimed on this one. The worker reports, writes the row and
announces in three steps, with nothing between them promised.

A delivery is one step on a young decision (`DeliverEvent`) and two on an old one:
`AskAgain` reads the row, `AnswerArrives` ends the subscription or sends. Between
the two the token may expire, the readers change, the tab unsubscribe or the socket
close; as in the code, only the last two keep the frame back. Every event records
for whom it was published too late (`late`): whose token had expired, or who
could not read the run while no decision in their favour was young or on its way.
This bookkeeping changes no step. A decision ages only where that can be seen: it
is wrong, or an event is queued.

A tab is `excused` when
the feed owes it nothing any more: the announcement was lost or carried an older
time than the last progress, it was served before Redis had confirmed the
channel, or its socket was closed for good because a row could not be read. The tabs also
poll, which `ServerBackend` has; here no poll is assumed.

### The shared circuit

A slot of the document holds an operation: its id, its wires, its column, and
`work`, which says who made it and stands for the gate and its parameters. Its
Lamport stamp never changes after it entered. A key of a Y.Map has the value Yjs
gives it (`Rightmost`): writes are known by the path of clients that leads to
them, and of two concurrent writes that of the larger client is the later. Slots
that were deleted stay deleted.

`Projection` is `projectCircuit`: order the slots by stamp and key, rename every
holder of a shared id, place what fits and defer the rest. `WriteCircuit` is the
difference the bridge writes, deleting only what its baseline had placed.
`Attach` is the carry: what the tab shows and neither the document nor the saved
version knows by id is appended, and the whole is written only if the contract
accepts it. The store's allocator (`TakenId`, `FirstFreeId`) is modelled with
it, because the carry depends on what an id means. `Merge` is Yjs over whole
replicas: updates are cumulative, so what two replicas owe each other can be
sent at any moment and in any order.

## The runs

| run | instance | what it shows |
|---|---|---|
| `redelivery` | 1 submission, 2 executions, up to 4 failures of any kind, 3 attempts, 1 stall | completed jobs, the signal, the inductive invariant, the contract (a final status is never changed nor announced twice); accepted work ends without the reaper |
| `submissions` | 3 identical submissions, 1 execution, 1 failure of any kind | losers are forgotten, winners exist, stranded rows have a cause, identical work is queued twice only by a lost key |
| `ends` | 2 submissions (one with a payload that does not parse), 1 execution, 1 failure | every row ends, with the reaper |
| `pool` | 3 calls, 2 in flight, 2 children, recycling after 2 jobs, 4 process ids | size, one job per child, no idle child beside a waiting call that a dead one does not answer for, nobody forgotten (`PoolInvariant`); every call settles; close leaves no child alive |
| `hardware_faults` | 1 job, 2 executions, 1 failure of any kind | an exclusive claim, a true answer and true final frames (`HardwareInvariant`), no orphan without a failure, final rows, a provider id that stays, nothing sent after it is known |
| `hardware_ends` | 1 job, 1 execution; 1 failure of any kind, or 2 outside the worker and its storage | every job ends, with the reaper or, in the second setting, without it; it is sent at most `MAX_SUBMIT_ATTEMPTS` times |
| `browser` | 3 columns, checkpoints every column and 2 kept, 2 edits or other acts, 1 fault, with and without a server | resumed runs are exact, clean checkpoints are true, "ready" is current, a driven run is awaited (`BrowserInvariant`), every question ends |
| `documents` | 1 process, 2 peers, 2 edits, 2 incidents; or 2 processes, a peer each, 1 edit, 1 incident; 2 builds, 1 version | edits outlive the session, nobody is left behind (`DocumentInvariant`), subscribers have everything, every join is answered |
| `collab_session` | 2 tabs of the owner, the owner and a guest, or 1 tab; 1 or 2 edits, up to 2 incidents, 1 rejoin, a delivery queue of 1 | joined is together, the status is true, no attachment outlives its socket (`SessionInvariant`), who has lost the circuit only reads (`LostMeansReadOnly`), every session settles |
| `run_feed` | 2 tabs, 1 tab over 2 runs, 1 tab with progress, with 2 incidents, or of nobody | listeners are counted and who wants to be told is subscribed (`FeedInvariant`), what was published too late for a viewer is not said to that viewer (`RevokedHearsNothing`), every watcher learns |
| `shared_circuit` | 2 tabs over a saved circuit of 2 wires and 1 gate, 3 edits, 1 reload | legal projections, only users remove, nothing doubled (`SharedCircuitInvariant`), older claims stand, work is carried, stores converge |

One run ends in a violation: `anonymous_join`, the disagreement of the
[first list](#disagreements-found).

An invariant with a composite name is the conjunction of named parts, each
stated and commented on its own: the type invariant and the relations that no
single component owns.

The bounds, and why they are enough:

- `MaxFaults` counts failures of every kind in one behaviour. One run needs
  four: a lost claim, a starved lock, a dead worker and a lost write are the
  most that any property of one run combines. The runs with several submissions
  have one, because what they ask is how the submissions interfere, and so have
  the hardware settings with all kinds of failure.
- `JobAttempts` is 3 in the code and in `redelivery`, and 2 elsewhere: one
  retry, and one that is the last. `MaxStalledCount` is 1 as in the code.
- Three submissions are the least for which the re-claim after a failed winner
  can be lost to a third party. `MaxQueueDepth` is as large as the number of
  submissions except in `ends`, where it is 1 and a submission may be refused.
- `ReaperBatch` is 1, so a sweep may leave a stale row for the next.
- The pool has two children: with one, no call can be given a child while
  another is being forked. Children are numbered and reused after `exit`, four
  numbers for two children and the gone ones not yet reported.
- `MaxPollAttempts` is 3 and `MaxSubmitAttempts` 2 for 800 and 3: one retry and
  one that is the last, and a tick below the ceiling, at it and above it.
  `TickBound` is 7, which no run of the sweep reaches before the ceiling stops
  it; `MaxIds` is one more than `MaxSubmitAttempts`, so that a third submission
  could be seen. The setting without the reaper leaves out a dead worker and a
  failed Postgres or Redis call in the worker: after those the sweep may book
  under a number that is still taken or past the ceiling (see
  [below](#disagreements-found)), and only the reaper ends the job.
- Three columns and two checkpoints are the least for which the cache must be
  thinned while a run resumes from its middle; two acts are an edit and what
  overtakes it.
- In `documents` two builds let a document be rebuilt while the first still has
  a timer, a save or a subscription. A version is written once, because a
  document takes an edit back once.
- In `collab_session` and `run_feed` the settings (`MCSettings`) share a budget
  of incidents: everything that is lost, refused, expired or revoked, and a
  drop, a restart or a change of owner, costs one. `MaxDown` bounds the frames
  under way when a rejoin timer fires again.
- In `collab_session` a failed re-check costs no incident: the database may be away
  for any time. `barred` remembers who did what after they had lost the circuit: no
  longer the owner, with no decision in their favour fresh or being read. The
  circuit coming back to them, or an answer that fails to come for the very update,
  ends that; nothing else does. The circuit goes from the owner to a guest who watches
  it, with both at work, in the third setting, and away and back in the fourth.
- In `shared_circuit` the clients of the tabs lie on both sides of each other
  and the slot keys are ordered the other way, so that neither order decides
  both a write and a place. Three edits are the least for two tabs to contest a
  cell after one of them made room.

`CHECK_DEADLOCK` stays on for the run life cycle, the pool and the hardware
job; the system at rest is the stutter `AllOver` (`Rest` in the pool), whose
guard says that nothing is owed. In the hardware system a `DELETE` may always be
sent again, so there is no rest to allow for. The browser, the relay, the feed
and the shared circuit do stop: the readers have done what the bounds let them,
and their liveness properties say in what state.

## Fairness

- A submission's next step (`RouteMoves`) and an execution's next step
  (`ExecutorMoves`) are weakly fair: an event loop takes the next step of what
  it holds, and the pool settles every call, which `pool` checks.
- `QueueMoves`, the elapse of a backoff and the stalled check, is weakly fair:
  both are timers of the library.
- `ReaperActs` is weakly fair in `FairSpec` only. `QueueSpec` leaves it out, so
  that in `redelivery` accepted work does not owe its end to the reaper.
- No failure, no expiry of a lock, no death and no act of a person is ever owed.
- The pool assumes that exits are reported and timers fire. One weak fairness
  condition over all children is enough because the calls are finitely many. No
  child owes an answer, and no fork owes a "ready".
- `HardwareFairness` is the same for the hardware job: the steps of requests,
  ticks and sweep, the stalled check, the reaper, and the passing of time. The
  provider owes no progress at all: a job it never ends is abandoned at the
  ceiling. Only the setting without the reaper asks one thing of it ("results");
  without that the sweep asks for ever, until the reaper. That the queue drops a
  failed tick is never owed.
- In the browser the worker's event loop and the debounce are fair together,
  the API answers or refuses, the poll timer fires and a server run ends.
- In the relay statements are executed and answered, the bus delivers and
  builds go on, as one weakly fair disjunction: each of them takes finitely
  many steps between two acts of a peer.
- In `collab_session` and `run_feed` one weak fairness condition covers `Moves`:
  sockets open or fail, tokens come or do not, frames and timers are served. It
  is weaker than fairness of each part; the liveness properties hold under it
  because the moves between two incidents are finitely many.
- In `shared_circuit` the same is asked of `Exchange`, joins and updates under
  way. `FairSpec` spells weak fairness out with `Owed` for `ENABLED Exchange`,
  which TLC would otherwise evaluate by trying every merge.

## The proofs

### The life of a run, proved

TLAPS checks these for every number of runs, executions, attempts, stalls and
failures, from the constants' assumptions alone (`EnvironmentAssumption`,
`QueueAssumption`, `RouteAssumption`, `ProcessorAssumption`):

| theorem | statement |
|---|---|
| `Invariance` | `Spec => []Ind` |
| `TypeCorrect` | `Spec => []TypeOK` |
| `CompletedJobsAreOver` | `Spec => []CompletedJobHasEndedRow` |
| `AnnouncementsAreTrue` | `Spec => []AnnouncedOnceAndTruly` |
| `SignalsFollowWrites` | `Spec => []SignalFollowsWrite` |
| `DiscardedRowsAreForgotten` | `Spec => []DiscardedIsForgotten` |
| `WinnersAreReadable` | `Spec => []WinnerIsReadable` |
| `StrandedRowsHaveACause` | `Spec => []StrandedHasACause` |
| `DuplicatesCostAKey` | `Spec => []DuplicateNeedsLostKey` |
| `EndedRowsAreFinal` | `Spec => TerminalIsFinal` |
| `LifeCycleImplementsContract` | `Spec => ImplementsContract` |

None of these properties is inductive. `Ind`, at the end of `RunSystem`, adds what
they rest on, from the queue up:

- `QueueInd`: counters below their limits, a lock held only on an active job by
  an execution of it, no start before an add.
- `ExecInd`, `DeliveryInd`: two executions of one job mean two starts. So a
  delivery that is not a recovery and holds its lock is the only execution there
  has ever been, and the row it is about to claim is not RUNNING. This is what
  makes a refused claim safe to acknowledge, and why `recovery` must count
  starts and not only stalls.
- `RouteInd`, `RowInd`: a request has a row from `claim` on, its run is named by
  no key and no job before `enqueue`, and a winner is a run past that point, so
  it can no longer be discarded.
- `EndingInd`, `FrameInd`: who signals or announces does so for a row that has
  ended, and at most one execution announces, because only the write that moved
  the row leads there.

The proof of preservation is split by actor. `WorkersUndisturbed` says that a
step which moves rows only as the table allows and at most adds a job keeps all
that the executions rely on; `RequestsUndisturbed` is its counterpart. The steps
of an execution that keep its job share one shape (`InPlace`), for which the
queue's and the requests' parts are proved once. `EndedRowsAreFinal` needs one
lemma on the repository's four calls, and the refinement maps each action to an
action of the contract or a stutter; `HandOver` needs `RouteInd`, `Announce`
needs `FrameInd`, `Discard` needs that the job is absent.

`DuplicatesCostAKey` has an invariant of its own, `KeyInd` (in `RunSystem_proofs`):
a submission that is past its claim and whose row is open holds the key of its
work, unless that key expired or a claim found it gone; and whoever is about to
release a key has read that the run it names FAILED. So a claim sets a key that
was nobody's, a release deletes the key of a row that has ended, and two open
submissions of one work would have to hold one key.

`Ind` is also an invariant of the run `redelivery`.

`TypeOK`, `AnnouncedOnceAndTruly` and `TerminalIsFinal` are proved and are in no
run's list: `Ind` and the contract imply them.

### The pool, proved

`PoolIsInvariant` is `Spec => []PoolInvariant`, for every set of calls and of
process ids, every size, concurrency and recycling count, from `PoolAssumption`.
The invariant is `Sound` and `Balanced` (module `SimPool_proofs`):

- `SlotInd`: a child is in the slots once, and only after its "ready", so it is up
  or gone and nobody awaits it any more; only such a child is marked busy.
- `ChildInd`: a child that lives is awaited or in the slots, a killed one is
  gone, and one that is not killed has a job left.
- `CallInd`, `LineInd`: a running call has a child of its own in the slots, busy;
  the line holds the waiting calls, once each; a closed pool has none.
- `SizeInd`: no more than `Size` children live. A fork is made only when slots
  and forks under way are fewer (`slots.length + pending`), and by `ChildInd`
  these are more than the children that live.
- `Balanced`: while somebody waits, the live children that are free are at most
  the dead ones that hold a call.

`Balanced` does not survive the middle of a callback. A slot that is released, or
a child that leaves, makes it `Owing` by one; `PumpPays` shows that a pump turns
`Owing` into `Balanced`, and each such callback ends in one. Each function of the
model gets a lemma that says what it makes of the record (`KillMakes`,
`GiveMakes`, `ForkMakes`) and one that says what it keeps; each action then has
one lemma, in the order of the calls.

### The hardware job, proved

Without a timing assumption, for every number of executions, ticks, provider
jobs and failures and every setting:

| theorem | statement |
|---|---|
| `HardwareTypes` | `Spec => []TypeOK` |
| `RowsOnlyAdvance` | `Spec => RowOnlyAdvances` |
| `AnswersAreTheJobs` | `Spec => []DoneHasTheAnswer` |
| `FinalFramesAreTrue` | `Spec => []FinalFrameIsTrue` |

They rest on `AnswerInd`: whoever goes on with a provider's job goes on with the
one the row names (`HandleOf`), the id is written as the row leaves SUBMITTED
(`HandleInd`), and a frame was published only of a row that ended (`FrameInd`).
`AdvanceKeeps` is the argument in one lemma: whatever moves the row forward and
lets the devices move on as the provider does preserves what every other
execution relies on, so each action only has to be shown to be such a step.

Where calls are timely:

| theorem | statement |
|---|---|
| `HardwareIsInvariant` | `Spec => []HardwareInvariant` |
| `TheAllowanceIsBounded` | `Spec => []SubmissionsAreBounded` |
| `OrphansCostFailures` | `Spec => []OrphansNeedFailures` |
| `OneProviderJobAtATime` | `Spec => NothingIsSentTwice` |

under the hypothesis `CallsAreTimely`, that each setting says "calls": both
settings of the runs do. It is what the code relies on: the transport aborts a
call after ten seconds and a tick makes at most three, while a claim is good for
`SUBMIT_CLAIM_MS`, a minute. Without it the claim is taken over under the tick
that holds it, and the three statements are false. `TimelyInd` adds to
`AnswerInd`:

- `ClaimInd`: at most one tick is between its claim and the end of its
  submission, and while one is the claim is fresh.
- `CountInd`: a submission was counted before it was made, and a tick that may
  still win the claim has read the count as it is, so the counter of polls, which
  is all the row has, bounds the submissions.
- `OrphanInd`: every orphan was paid for by a failure that happened. A credential
  that is deleted costs one failure and may cost an orphan only later, when the
  submission under way, or the next, is answered: `Debt` is that orphan.

### A session and its sockets, proved

For every set of browsers, every setting, any number of incidents, connections
and edits, from `RejoinsAssumption`, `PendingAssumption` and `OwnersAssumption` (a
circuit belongs to somebody) alone:

| theorem | statement |
|---|---|
| `SessionIsInvariant` | `Spec => []SessionInvariant` |
| `JoinedHoldTheSession` | `Spec => []JoinedIsTogether` |
| `StatusIsAlwaysTrue` | `Spec => []StatusIsTrue` |
| `LostOwnersDoNotWrite` | `Spec => []LostMeansReadOnly` |

`JoinedIsTogether` and `StatusIsTrue` speak of a wire that is empty; what is
inductive, `IInv` (theorem `WiresAreSound`), says what a wire that is not empty
carries. TLC finds it true on the 650,027 states of the run. For a browser that reads
from an open connection, `Live` is:

- `PeerInd`: who is joined, or has a frame under way that carries edits, is a peer
  of the document, unless a frame that ends the attachment comes after it.
- `CompleteInd`: every edit of the document is in the browser that is joined, in a
  frame on its way, or in the relay's queue behind a re-check; and once a
  `collab:joined` is on its way, in the browser, in that frame or after it.
- `GenuineInd`: what a frame says the document holds, it holds. This is what fails
  when a document is dropped, and why every peer is told (`Gone`): what comes
  before that frame promises nothing.
- `GivenInd`: an edit of a writer who says that all it wrote arrived is in the
  document, waits to be sent, or is on the wire. A refusal under way (`Denied`) is
  the exception, and takes the claim back when it is read.
- `AnsweredInd`: who connects waits for a token, for the frame that answers it, or
  for a join that the relay has or has answered; the greeting of an accepted
  socket is not such an answer.

A connection the relay closed carries nothing to anybody, but it ends with
`close` (`Link`). `LostMeansReadOnly` is inductive only with what could let a barred
edit in (`Allowed`): no connection of somebody who has lost the circuit holds a fresh
decision to write or waits for one (`Guarded`), an update whose answer will not come
carries nothing that is barred, and a barred edit is on the connections and in the
tabs of the one who made it only (`Fit`, `Own`), so that an update let in for somebody
else does not carry it. `SessionInd` and `ConnectionInd` are what the two ends are by
themselves.

A step changes one browser and one connection, or every connection at once (an
accepted update, a document that goes). The proof therefore never treats a step
of the whole system before it has to. Every function of `CollabClient` and
`RelaySession` gets a lemma that says what it makes of the wires it touches. A
browser's step is of one of four shapes: it reads no frame and stays (`Stays`),
it takes the head of the wire (`Takes`), it sends (`Works`), or it parts with
its connection (`Parts`). The relay's step keeps a wire or tells its browser
something (`Keeps`, `Moves2`). `ClientKeeps`, `RelayOneKeeps` and
`RelayStepKeeps` lift these shapes to the specification, and `StepIsSound` has
one lemma per group of actions.

### The simulation in the browser, proved

For circuits of any size, any columns and registers, any interval and limit of
the cache, any budget, and any number of edits, failures and remounts, from
`CheckpointsAssumption` and `PositionsAssumption` (the scrubber stands on a
column, before the first or at the end):

| theorem | statement |
|---|---|
| `BrowserIsSound` | `Spec => []BrowserInvariant` |
| `AnswersAreExact` | `Spec => []OutcomeIsExact` |
| `CheckpointsAreTrue` | `Spec => []CleanCheckpointsAreTrue` |
| `ReadyMeansCurrent` | `Spec => []ReadyIsCurrent` |

None of these is inductive, because each speaks of the cache or of the panel as it
is, and what decides them is on its way: requests the worker has not read, or
may drop unrun, and answers the page has not read. The invariant, `IInv`, was
checked on the 378,609 states of the run before it was proved. `Wanted` are the
requests that may still run, `Done` what was computed and not yet read:

- `WarmInd` says that the cache is true of every circuit that may still be asked
  of it, before the column that request names as stale: the one on the canvas
  before `dirty`, a wanted request's before its `fromColumn`. A run changes the
  cache, so two wanted requests must agree before the `fromColumn` of the later
  one: whichever of the earlier ones ran, the later one finds nothing false.
  This is why a request names everything that is stale since the last analytic
  answer and not since the last request.
- `FlightInd`: whatever carries the id in flight is about a circuit that agrees
  with the one on the canvas before `sinceDispatch`, and about that very
  question if no other is scheduled.
- `ExactInd`: what was computed is exact, and an analytic answer in flight left
  a cache that is true of its circuit throughout. With `FlightInd` it is what
  allows `receive` to set `dirty` back to `sinceDispatch`, and why no other kind
  of answer does.
- `WorkerInd`: ids ascend from what was computed to what waits; so when the
  answer in flight arrives nothing else is wanted, and no request can undo what
  it proved.
- `ServerInd`: the run that is driven is the one in flight, or its cancel is in
  the scheduler's hands. It holds in the middle of a step, before what the
  scheduler sends is posted.

The engine is proved first: a run that resumes from a checkpoint of its circuit
goes through the whole circuit (`AppliedFacts`), what it stores are states of its
circuit (`EvolveFacts`), and a cache that is thinned after each copy stays within
its limit (`SurvivorsFacts`). The last is a recursion over the columns; it is
proved from the table of its values, by the least column at which the claim
would fail (`TableIsThere`). `RunJobFacts` puts them together for a job that may
break at any column. Then each method of the scheduler has a lemma that says what
it makes of the record, and there are few things it can make: the request in
flight is given up (`Idles`, and `Tells` whoever holds it), a question is asked
(`AsksFor`), a request is sent (`Sends`), the cache is known to have caught up
(`CatchesUp`). Each of these has one lemma that says the invariant is kept, and
`PostKeeps` that it is still kept when the messages are posted. The worker rests
(`Rests`) or runs a request (`Runs`); the server's run goes on (`GoesOn`) or is
released. `StepIsSound` has one lemma per action.

### The feed of a run, proved

For any tabs and runs, every setting, any number of connections, progress events
and incidents, from `SettingsAssumption` alone (finitely many runs; a setting
watches only those, at those tabs):

| theorem | statement |
|---|---|
| `FeedIsInductive` | `Spec => []Ind` |
| `FeedIsSound` | `Spec => []FeedInvariant` |
| `RevokedIsToldNothing` | `Spec => []RevokedHearsNothing` |

TLC finds `Ind` true on the 772,346 states of the run. It has two halves that
hardly meet, and a third about the frames:

- `BusInd` is about the process and Redis, for one run at a time (`ChannelInd`).
  Whoever is in a channel is subscribed or waits for Redis, and one connection
  at most waits. A channel is not empty exactly when Redis sends the run or
  will (`Sending`): a SUBSCRIBE is on its way, or the run is sent and nothing on
  its way speaks of it. `Orderly` says why the second case cannot be confused
  with the first: nothing about a run follows its SUBSCRIBE, because the channel
  is not given up before it was confirmed. While one is on its way, whoever is
  subscribed was served early; this is what `RedisRefuses` needs, which takes
  the channel from all of them.
- `PipeInd` is about a tab and the connection it reads from. What the tab wants
  is claimed, or it waits for a token or for the frame that answers it
  (`Answering`); and what it has claimed is at a `Stage`: a frame on its way, a
  read, a SUBSCRIBE that is not confirmed, a subscription, an error or a refusal
  on its way back, or a frame on its way that makes the tab read a run that has
  ended. A stage is never skipped, and the last one is that the tab was told.
  `WatchedIsSubscribed` is what is left of this when nothing is on its way.
  A connection the process closed ends with `close` (`Linked`).
- `CleanInd` is about one connection: a frame on it is late for nobody; an event
  that waits for a re-check and is late for the viewer waits for a refusal; and one
  that is queued and late finds, while it is, an expired token, or neither a reader,
  a young decision nor one on its way (`Timely`). A connection speaks for who is at
  the tab or for nobody, and what was late for nobody in particular is not late for
  who authenticates afterwards (`Apt`).

`WatchedIsSubscribed` is not inductive because an `unsubscribe` under way would
end the subscription it finds; `Linked` rules it out for what is still wanted: the
tab has a run at a time, and a tab that unwatches it says goodbye.

The helpers come first: what each makes of a connection, of its queue, of the bus
and of a tab. A step of the process is one of a few shapes. It takes a turn of
one connection (`Turns`, `Kept`), which is good when it says nothing improper
(`Proper`: it keeps `Clean`), keeps whoever
speaks to it linked (`Links`) and served (`Serves`). Those two quantify over
every record a tab may be, so that the lemmas about the process never mention the
tabs. A step of a tab changes its record and what it says on its own connection
(`TabKeeps`, `Speaks`), and the process has no part in it. `StepKeeps` has one
lemma per action.

### The relay's documents, proved

For any processes, peers, edits and deployments, and any number of builds,
versions, shutdowns and faults, from `DeploymentsAssumption` alone (finitely
many processes, one at least; a deployment serves peers and edits that there
are; no document is `NoRow`):

| theorem | statement |
|---|---|
| `CoreHolds` | `Spec => []Core` |
| `DocumentsHold` | `Spec => []DocumentInvariant` |
| `SubscribersHold` | `Spec => []SubscribersHaveEverything` |
| `SystemHolds` | `Spec => []SystemInd` |
| `EditsHold` | `Spec => []EditsOutliveTheSession` |

`Core` is what holds with any number of processes, and its parts were checked on
the states of the run before they were proved. Besides `TypeInd`, the kinds of
everything:

- `AcceptedInd`: no document, message, statement or row holds an edit that was not
  accepted.
- `MapsInd`: what the map names, what is being built and what a socket is attached
  to are live documents of that process; a document has the peers that are in
  it; documents and lookups under way are at most `MaxBuilds` (`RoomInd`), so the
  number a build is promised is there when it ends.
- `BusInd`: one document at most waits for a channel to open, and while the
  channel is open, what a subscribed document is owed is in it or waits in the
  inbox. The channel closes only with the last listener; this is what
  `SubscribersHaveEverything` needs.
- `QueueInd`: only the first statement of a process can have been executed; one
  lookup at most is under way, and it is there exactly while a build waits
  for it.
- `UntoldInd`: where no other process wrote a version, whoever is in a document is
  in the one the map has, and a save that will let a document go does not let
  go of another one (`TogetherInd`). `NobodyIsLeftBehind` alone is not inductive:
  the save that detach awaits deletes the entry of the circuit whatever it names
  by then, so that nothing must be built while such a save is behind the lookup.

`SystemInd` adds `SoloInd`, for a process alone and as long as no version met a
document that everybody had left (`late`, which is a disagreement below):

- `AnswerInd`: a lookup that was executed and not yet read has found what is
  still stored.
- `TimerInd`: a timer belongs to the document that is handed out, none runs while
  the row is looked up, and whatever follows a lookup in the queue is a version.
  So no save is about to overwrite what is found.
- `KeptInd`: an edit the relay answers for, and that no version on its way takes
  back, is in every document that may still be saved, and in what the row will be
  when the queue has run, or a timer will save it (`Has`). `Lasting` says
  this of the stored state before any statement of the queue, by the last writing
  statement before it: a save must carry the edit, a drop must leave it to the
  head version. A lookup must find it where it stands in the queue. This is the
  argument that `flush` before the map forgets a document, one connection per
  process and the deletion in `appendVersion`'s transaction are enough together;
  with `Asleep` the queue is empty and nothing is armed, so the row has it.

An action changes the map, a document, the queue and the bus at once, and each part
of the invariant speaks of several of them. So what the functions of the
registry make of the state is said first (`Freed`, `Dropped`, `FlushedTo`,
`SettledTo`, `MergedTo`, `BuiltTo`), and every action is shown to be one of some
thirty steps of a single process (`Attaches`, `Seeds`, `Fires`, `Finishes`, `Settles`, `LetsGo`, `Overgrows`, `Dies` and so on, gathered in `Inner`), the
execution of a statement (`Performs`), an edit (`Integrates`) or a lost message
(`Ignores`). Such a step answers at most one statement and asks at most one
(`Runs`); each part of the invariant has a lemma per kind of step, and `CoreStep` and
`SoloStep` put them together. The proof is in two modules because of its length.

### What is not proved

Only model-checked: the liveness properties, which need fairness and ENABLED
and are out of the prover's reach; and the safety of the shared circuit
(`SharedCircuitInvariant`, `OlderClaimsStand`). What a tab shows there is a fold
over the slots in the order `SetToSortSeq` gives them: `CircuitDocument` and
`CircuitBridge` declare no RECURSIVE operator, so that lemmas about them can be
stated, but what a fold computes for every input is induction over data and
stays with TLC.

## Disagreements found

Shown by a run:

- `anonymous_join`. The session waits for the second ready frame, "joining on
  the first would ask the relay to authorise the circuit against an anonymous
  viewer" (`collabSession.ts`). The flag that makes it wait is set when the
  token has arrived; if the first ready frame arrives before, the join is sent
  at once, and the owner of a private circuit is told that it is not there.
  `runSocket.ts` has the same race, and a subscription refused that way is not
  asked for again.

Met while the models were built.

The life of a run:

- `routes/simulate.ts` retries the claim when the winner it lost to has FAILED.
  If that retry is lost as well, the request is answered 200 with the row read
  before the retry: the failed run (line 413, against 393 and 401).
- `claimWork` explains a key missing at its GET by expiry, and `releaseWork` is
  a compare-and-delete so that two identical jobs never run. The release itself,
  between another caller's SET and GET, leads there: that caller enqueues
  without setting the key, and the next claims it. (`missed` in
  `DuplicateNeedsLostKey`.)
- The route's header has one window it cannot close, a process that dies between
  the row and the job. A `releaseWork` that rejects leaves the handler after the
  row was created and before anything would fail it: the row waits half an hour
  for the reaper with no process having died. (The "500" of `StrandedHasACause`.)
- The depth is read three awaits before the job is added, so the bound on stored
  payloads that `packages/jobs/src/queue.ts` states is exceeded by as many as
  read it together.
- A fork that fails answers one waiter, and nothing pumps for the next. The
  consumer never keeps more calls in flight than there are children, where every
  call settles; with `Concurrency` above `Size` the pool leaves a call in line
  for ever, against its own comment.
- "A waiter must not be left holding a dead slot" (`retire`, `pool.ts`). A child
  that answers "ready" after its startup timer killed it is pushed to the slots
  as a free one, and `find` gives it the next call, also beside a live child that
  is free. The call fails as `WORKER_CRASHED` when the dead child's `exit`
  arrives. (`NoIdleChildWhileWaiting` without its right-hand side fails at three
  children and four calls.)

The hardware job:

- `DELETE` decides whether to tell the provider by the row it read before its
  write (`routes/hardware.ts:607`). A submission recorded in between is neither
  told nor taken back, and a second `DELETE` finds a row that has ended.
- A database failure while the credential is read ends the job as refused by the
  provider, even one that is queued on a device (`worker/hardware.ts:229`).
- The sweep can book a number the payload schema refuses to parse
  (`hardware-queue.ts:243`); the job that should be abandoned waits for the
  reaper. A tick that fails before it counted a poll is resumed under its own
  number, which the failed tick still holds: nothing is added.
- A cancel between the claim and the submission does not stop the submission,
  although the worker's header says that such a job is never sent: it is sent
  and then cancelled at the provider.
- A job that is failed because its first tick could not be booked may be sent
  all the same: the booking was applied and its reply lost.
- A tick delivered again reads the last attempt's row before its id is recorded,
  and fails, as SUBMIT_ABANDONED, a job that is queued at the provider and whose
  id the row then holds.
- `collect` answers "polled", which the outcome's comment explains as another
  tick having been booked, when the samples are not readable yet; no tick is
  booked, and the next is the sweep's.
- The tick after a retryable failure of a submission comes within seconds,
  inside the claim's minute, and loses the claim, unless the queue delays it: a
  submission is in practice retried by the sweep.

The simulation in the browser:

- A worker that is lost is not replaced while the editor stays open
  (`useSimulation.ts:214`, against the comment at 192): `EveryQuestionEnds`
  excuses it.

The relay's documents (`apps/api/src/ws/documents.ts`):

- Settling the version of an ordinary save takes back the edits that were
  accepted between the saver's snapshot and the commit.
- The flush of the last detach does nothing while a save is in flight, and the
  document leaves the map before that save has landed. A peer that joins during
  the flush is attached to a document that has given its channel back, and a
  subscription leaks when everybody leaves while it is being opened.
- A version settled into a document that everybody has left arms a timer, which
  can overwrite a newer row (`late`).
- The header says that a later write wins and is a superset; with two processes
  it need not be. It says that peers rebuild from the last good persisted state
  after a drop; a drop deletes the row.
- A save that failed is not tried again before the next edit. A process that
  joins a circuit asks the others for what it lacks and does not offer what they
  lack. The bus serves a second listener before Redis confirmed the first.

A session and its sockets:

- `rejoinAttempt` is not reset by `collab:joined`, although its comment says so.
  A refusal that arrives while a rejoin timer is armed is not counted.
- `FORBIDDEN` drops the pending edits without saying so in `reconciled`.
- A re-check that fails keeps the attachment because "the cached decision was true
  two seconds ago" and "the window it would close is two seconds wide"
  (`session.ts:1150-1165`, and the test at `session.test.ts:1348`). The decision
  keeps its old time, every further update asks, fails and is let in: the window is
  the outage, however long. (`RechecksFail`; without its last conjunct
  `LostMeansReadOnly` fails.)
- What a tab flushes as it stops is lost when the close of its socket overtakes
  the frames still queued at the relay.

The feed of a run:

- A second listener is told `subscribed` before the first one's SUBSCRIBE was
  confirmed, and stays deaf if Redis refuses it.
- `run:complete` is dropped by the order guard when the clocks of two publishers
  differ.
- "A socket's authority ends at its token's `exp`" (`session.ts:81`, and 792), and
  the credential is looked at before the row is read again, not after: a token that
  expires during the read of `stillAllowed` still gets that frame (834 asks for
  `ended` and `closed` only), and, in the collaboration channel, that update gets
  in. (`AnswerArrives`, `UpdateFrame`.)
- A read that fails in a re-check is caught nowhere, unlike the one of the
  collaboration channel, and ends the process (`RecheckFails`). One that fails
  in `subscribe` closes the socket with a code after which the browser does not
  try again (`ReadFails`).

The shared circuit:

- The carry compares ids, and every allocator counts `op_1`, `op_2`, and so on.
  A gate placed before the join under an id the session has used meanwhile is
  dropped without a word; an operation that was renamed (`op_4#slot`) is carried
  in again, as a duplicate, by a tab that held it under its own id.
  (`HasNamesake`.)
- The merged circuit is refused by the contract as soon as one gate drawn before
  the join shares a cell with one of the session, and then nothing of it is
  carried, while the comment says that only a full document can be refused.
  (`Contested`.)
- "An id that has been deleted is never handed out again"
  (`useCircuitStore.ts`) holds within one page: after a reload the counter
  starts behind the highest id held, so the next gate may take the id of a
  deleted one, with the comments anchored to it. A draft from which the highest
  saved operation was deleted gives that id to its next gate, which a join then
  takes for something a peer deleted.
- An operation that was placed after the last save, deleted by a peer, and is
  still in the draft of an address comes back with it.
- `writeOperations` says that an edit re-creates an operation a peer deleted. The
  bridge's baseline is always its replica's, so that branch is not reached: the
  edit is lost.
- Adding and removing a wire moves the projected operations only; a deferred one
  keeps its wires.
- Deleting what held a cell lets an older operation back in, over a younger one
  somebody was looking at.

## What is left out

- The provider, Postgres, Redis, BullMQ and Yjs are modelled by what the code
  asks of them. A compare-and-set is atomic, a lock expires, an id is not added
  twice, a merge is commutative.
- Numeric code: the engine, the WASM kernel, histograms, noise. They are pure
  functions over floating point, whose hazards are rounding and cost.
- Parsers, lowering, the transpiler, serialisers, the wire contract: pure
  functions over unbounded data, with reference tests of their own.
- Pure input and output: HTTP validation, rendering, texts, lessons, i18n.
- Token verification, which is cryptography over one request; rate limits.
- Rows that are read and written by one statement: challenges, gallery,
  comments, collections, tags, profiles.
- Of the shared circuit: undo, definitions, labels, parameters and the classical
  register, the ceilings, updates that do not decode, seeding an empty document.
- Of the sockets: presence, frame budgets, the idle timeout, hardware frames,
  payloads that do not decode, the life of the bus's own connection.
- The shutdown of a worker process: its exit is `WorkerDies`, the order in which
  it closes things is not modelled.

## The plan

1. Done: the life of a run, its contract and proofs; the pool; the hardware
   job; the browser's simulation and its server run; the relay's documents, a
   session and its sockets; the feed of a run; the shared circuit.
2. Proofs. Done: the life of a run, `PoolInvariant`, `HardwareInvariant` and
   the rest of the hardware job's safety,
   `DuplicateNeedsLostKey`, the safety of a session and its sockets, of the
   simulation in the browser, of the feed of a run and of the relay's documents.
   Left: the shared circuit, whose projection is a fold (see What is not proved).
3. An abstract specification of the hardware job, the status a client sees and
   the jobs that were paid for, and the refinement.
4. The undo of a shared session, and of the editor alone, as an algorithm
   against a reference definition; versions and conflicts of two tabs that save
   (`appendVersion` with its retries, `useSaveCircuit.ts`, `documentBinding.ts`).
   The property is that no unforced save lands after a version its author has not
   seen without being refused or reported. What the source suggests a model will
   have to decide, none of it checked yet: a page reloaded with a draft in `?c=`
   binds the newest version as its base although the draft descends from an older
   one (`useCircuitDocument.ts:23-27` expects a stale save to be detected all the
   same); a reply that comes back after the reader went to another circuit rebinds
   the base then open (`useSaveCircuit.ts`, `onSuccess`); a forced save skips
   `racedOn`, so a version written between the conflict shown and the forced write
   is unseen; a version whose reply is lost is met by the next save as somebody
   else's.
5. Token caches (`iam.ts`, the JWKS cache): single flight and expiry.
