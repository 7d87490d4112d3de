# Verification of the SmartFactory AI platform

TLA+ models of the concurrent and failure-prone core of the platform, their TLC runs
and the TLAPS proofs about them. Paths are relative to the repository root (with `src/`
in front in `PROJECT.json`). `PROJECT.json` lists components, runs, mutants, findings,
hazards and theorems, and maps each modelling definition to the lines it translates.

## 1. The system

| Part | State it keeps | Operations | Interacts with |
|---|---|---|---|
| Inspection endpoints (`services/api/routes.py`, `services/inference/`) | the coroutine of each request, one inference lock per model runtime, the thread pool | `POST /v1/predictions`, `/v1/known-defects`, `/v1/combined-inspections` | decision policy, persistence, broadcasters (background tasks) |
| Decision policy (`services/decision/`) | none | truth table from two model results to PASS / REVIEW / REJECT | called between inference and persistence |
| Inspection persistence (`services/persistence/`) | PostgreSQL rows, one session per call | `create`, `get`, `list` of three repositories | called from pool threads |
| Event broadcaster (`services/api/websockets.py`) | the set of registered sockets, per channel | `connect`, `disconnect`, `broadcast`, `close_all` | WebSocket routes, background tasks |
| Live Monitor page (`apps/live_monitor/`) | visible window, buffer, socket, generation, reconnect timer and counter, indicator; one set per channel | connect-and-synchronise, message, open, close, timer, offline, online, unload | REST history, WebSocket |
| Live observation publisher (`services/streaming/yolo_deepstream_service_publisher.py`) | one pending slot, counters, stop and closed flags, delivery thread | `start`, `submit`, `close`, `wait_until_idle`, `metrics_snapshot` | streaming ingest endpoint over HTTP |
| Queued line simulator (`pipelines/simulate_queued_inspection_line.py`) | bounded queue, stop event, producer and worker state | produce, work, stop, discard, report | prediction API over HTTP |
| RTSP drills (`services/streaming/yolo_rtsp_*`) | health tracker with retry budget and back-off gauge, a server process, a client pipeline, the evidence file | start, stream, stop the server, notice, reconnect or give up, tear down | the machine's ports, a child process |
| Final-test seal (`ml/evaluation/yolo_final_test.py`) | one directory with `run_state.json`, staging and completed evidence | preflight, reserve, materialise, unlock, evaluate, publish, fail; manual cleanup by the operator | trust anchors (manifest, package, configs, dataset, Git commit) |
| Artifact builders (33 functions under `ml/`, `services/rag/`, `services/streaming/`, `pipelines/`) | a directory or file under an immutable ID, mostly with a hidden staging directory | look, verify, hash, claim, write, rename, clean up | each other, through the file system |
| API lifespan (`services/api/app.py`) | the runtimes, repositories and broadcasters of the process | startup, shutdown | all of the above |
| GPU pipelines, training, evaluation, drift, tracking, RAG serving, dashboard, demo | models and numbers | batch jobs and presentation | artifact builders |

An inspection goes endpoint -> runtimes -> policy -> one transaction -> HTTP response ->
background broadcasts -> pages. A page never trusts the broadcast alone: it synchronises
with the REST history on each connection. Live DeepStream observations bypass the
database: publisher -> ingest endpoint -> broadcaster -> page. Everything else the
platform produces is published once under an ID that must never change.

### What is hard, and what makes each part correct

* **Publisher.** Three kinds of threads share one condition; the HTTP call and the
  back-off happen outside the lock; a timed-out POST may still be accepted. Correct
  means: the counters of every snapshot add up and tell the fate of every event, no
  wake-up is lost, closing strands nothing, retry budget and capped back-off are kept,
  the worker ends.
* **Live channel.** A commit, its broadcast, a history query and a reconnect run in any
  order; the API may crash between the commit and the broadcast; the acknowledgement of
  a commit may be lost, and then no broadcast follows; sends to one socket may time
  out; offline and online events are queued behind other tasks. Correct means: a LIVE
  page shows the newest announced rows or has them on the way, rows are not taken back,
  a page without connection always has a reconnect coming, and it recovers.
* **Endpoints and persistence.** Two branches run in a bounded pool with two locks;
  either may fail; a transaction writes four kinds of rows; the process may die
  anywhere. Correct means: all rows or none, nothing told before it is durable, the
  decision tells the evidence of this request, no thread or lock is leaked and each
  request is answered.
* **Queued line.** Producer and worker poll a bounded queue and a stop event, each may
  fail, both may, and Ctrl-C may come at any step. Correct means: no drop and no
  overtaking, exact queue bookkeeping, the caller is told a failure and not only that the
  worker had stopped, nothing runs after a failure, no deadlock.
* **RTSP drills.** The server and other programs come and go on a port; frames are under
  way while the connection is already lost. Correct means: the retry budget and the
  gauge tell what happened, evidence is only written for what was seen, no process or
  pipeline outlives its drill, and each drill ends.
* **Final-test seal.** The only lock is a directory, and its marker tells the operator
  whether the directory may be removed. Correct means: the test split is opened once,
  no marker permits a cleanup after it was, and the evidence names what was evaluated.
* **Artifact builders.** Two executions race for one ID; steps raise; processes die;
  sources change between the hash and the build. Correct means: what is visible is whole,
  it is published at most once and stays, its metadata tells its lineage as far as the
  order of hash, read and check allows, and a failure leaves nothing and touches nothing
  of others.

## 2. Modules

| Module | Models | Correspondence |
|---|---|---|
| `Publisher` | `LatestEventWinsPublisher` and the service behind its POST | one action per `with self._condition` block and per step outside it; `waitSet` is the set of threads inside `Condition.wait`; `fate` is a history variable |
| `PublisherPromise` | what the publisher promises | latest event wins, one delivery at a time, delivered only if accepted, at most one copy per attempt |
| `EventBroadcaster` | one channel's broadcaster | one action per stretch of a coroutine between two awaits |
| `LiveMonitor` | one durable channel of the page | one action per event listener up to its next await; the newest socket stands for the current generation |
| `LiveChannel` | the two composed, with PostgreSQL, the history endpoint, the WebSocket, faults and crashes | each action joins one action of each side; a create request commits in its pool thread (`Commit`), then schedules its broadcast on the loop (`Announce`), or loses the acknowledgement and does not (`CommitUnacknowledged`) |
| `CombinedInspection` | the three endpoints, runtimes, pool, policy and repositories | program counter per request; `Flush` inserts the rows in the order of `create()` |
| `InspectionPromise` | what the API promises about a request | durable as a whole, then answered, then announced |
| `QueuedLine` | the simulator | one action per queue or event operation of both threads; `ProducerFails` is an exception of the producer's own (sleep, sleeper, clock) |
| `LinePromise` | what a line run promises | inspected in schedule order, passed only if all were |
| `RtspReconnect` | the recovery drill and the exhaustion drill, the fixture server, the port | program counter of the drill; any step may raise into the `finally` block |
| `FinalTestSeal` | `execute_yolo_final_test`, its markers and its directory, several executions, the operator | one action per file operation or decision of the function; an atomic write is one step |
| `SealPromise` | what the seal promises | opened once, one evidence, never replaced |
| `ArtifactPublication` | the claim-write-rename protocol | one action per kind of step; a `program` is the order in which one function takes them, with its `try` block and what its `except` block removes |
| `ArtifactPrograms` | the 33 builder functions | one program each, mapped to the lines of its function |
| `PublishOncePromise` | what publication under an ID promises | published at most once, never replaced, never removed |
| `*Proofs` | theorems about the module they extend | section 5 |

`MC*` modules hold the values TLC needs; each `.cfg` is one run. Operators under a
`\* Mutant:` comment are plausible bugs that no specification uses; they show that each
property can fail.

Abstractions: payloads are numbers, a model's result is positive, negative or failed,
and time is a timeout that may happen. In `LiveMonitor` the number of an event is its
`created_at`, the reconnect counter saturates at `AttemptCap` (the delay does so at 5 s),
a WebSocket identity is reused once both ends have forgotten it, and `KeepWindow`
distinguishes the inspection channel (history and buffer replace the window) from the
other two (they are merged into it). The wire to a socket is a set: messages may be
received in any order, more than TCP allows, and the properties hold all the same. In
`ArtifactPublication` the content of a source is a version that does not come back, a
file is absent, partial or whole, `rmtree(ignore_errors=True)` succeeds, and
`KeyboardInterrupt`, which no builder catches, is a crash. In `FinalTestSeal` the
write of a marker is atomic because `_write_atomic` replaces the file.

## 3. Runs

| Run | Checks | Bounds and why they are enough |
|---|---|---|
| `publisher` | `TypeOK`, `Conservation`, `CountersTellFates`, `NoLostWakeup`, `NothingStranded`, `BackoffPolicy`, `ImplementsPromise`, `EventsSettle`, `WorkerEnds` | 2 events (one in flight, one pending; the second can be overwritten only before the first is taken), 2 retries (the third attempt meets the cap: 100, 150 ms), 2 closers (the second `close` after a join timeout), 1 waiter |
| `live_sync` | `RegisteredMeansCurrent`, `NothingVanishes` | 2 events and a window of 1, so that late and old rows meet a full window; 2 sockets (stale and current); 2 faults, so that one row goes unacknowledged and a connection drops, or two rows go; slow clients |
| `live_recovery` | `ReconnectIsComing`, `Recovers` | 1 event, 2 faults and an offline/online pair, so that a fault hits a recovery |
| `live_slow_client` | violation of `LiveMeansCurrent` | 1 event, no fault |
| `line` | `NoDropInOrder`, `BookkeepingExact`, `NoConsequenceReported`, `ImplementsPromise`, `FailedEventIsLast`, `RunEnds` | 6 events through a queue of 3, so that the queue fills, drains and fills again; a failing worker, a failing producer or both; Ctrl-C at any step |
| `line_interrupt` | violation of `WorkerNeverLeftBehind` | 1 event |
| `inspection` | `TypeOK`, `WholeOrNothing`, `AnnouncedMeansDurable`, `DecisionTellsEvidence`, `NothingLeaks`, `CountsOnlyPersisted`, `ImplementsPromise`, `EveryRequestAnswered` | one request per endpoint on 2 threads, which together want four threads and each lock twice; 1 crash |
| `final_test` | `FlagsTellTheTruth`, `EvidenceTellsTheTruth`, `ImplementsPromise` | 3 executions (a holder, a rival, and one after a cleanup), 2 changes of the anchors (before and during the evaluation), an operator who waits for live runs |
| `final_test_live_cleanup` | violation of `OneTimeAccess` | the same with an operator who does not wait |
| `artifacts` | `ClaimsHold`, `VisibleIsWhole`, `CleanFailure`, `LineageTrue`, `ImplementsPromise` | 3 executions of each of the 33 programs (one that publishes or fails, one that cleans up, one that comes later), 1 change of the sources |
| `evidence_race` | violation of `PublishedStays` | 2 executions of the DeepStream evidence commands |
| `rtsp` | `TypeOK`, `MetricsTellTheTruth`, `EvidenceTellsTheTruth`, `NothingLeftRunning`, `DrillEnds` | the committed policy (10 and 30 frames, 5 attempts, 500 to 8000 ms), 3 frames under way, 2 programs that take the port |

Where a run does not list a type invariant (`live_sync`, `line`, `final_test`,
`artifacts`), that invariant is proved instead.

Deadlock checking is off where the modelled system may rest: a closed publisher, an
unloaded page, answered requests, an ended run. That these are the only resting places
is what the liveness properties say.

### Fairness

* `Publisher`: weak fairness of the worker thread only. The operating system runs it,
  `post_json` has a timeout, and the sleep ends. Callers and service owe nothing.
* `LiveChannel`: weak fairness of the two event loops' steps (per socket), of a handler that announces
  its row, of `Restart`
  (the API runs under a supervisor), of refused requests, and of coming back online.
  Faults, commits, going offline and unload are never forced.
* `QueuedLine`: weak fairness of each thread. Each wait has a timeout of 50 ms, and a
  request one of its own. Nothing forces an interrupt.
* `CombinedInspection`: weak fairness of each request's next step, and of `Restart`.
  Models and database return. Weak fairness is enough for the two contended locks
  because a finite number of requests is served.
* `RtspReconnect`: weak fairness of the drill. Each of its waits has a timeout. The
  server, the network and other programs owe nothing.
* `FinalTestSeal` and `ArtifactPublication` state no liveness: a process may die at any
  step, and nothing in the code starts it again.

### What the violations show

* `live_slow_client`: `broadcast()` forgets a socket whose send timed out once, but
  leaves it open. The page has no close event, stays LIVE and misses later rows until
  some other reason makes it reconnect. The send timeout is one of two ways to miss a
  row; the other is a lost commit acknowledgement (`MaxFaults = 0` keeps it out of this
  run). `RegisteredMeansCurrent` is the part of the contract that does hold.
* `line_interrupt`: `KeyboardInterrupt` passes `except Exception`, so neither
  `stop_event` is set nor the non-daemon worker joined.
* `final_test_live_cleanup`: the marker `READY` permits the removal of the namespace
  while its run is alive and about to call the evaluator. Whoever removes it then lets
  a second run open the test split. The documentation allows that removal by the marker
  alone; `final_test` shows that waiting for the run to end is what is missing.
* `evidence_race`: `open("xb")` stands inside the `try` block whose `except` block
  unlinks the file, so a run that loses the race removes the evidence of the winner.
  All other builders with a cleanup claim their place before the `try` block
  (`Classification` in `MCArtifactPublication`).

Known behaviours that the passing runs contain and no property of them forbids:
`start()` of the publisher tests `_closed` only, so one that runs between the two locked
blocks of a `close()` leaves a worker delivering after `close()` has returned;
the online handler does not cancel a reconnect timer, so the indicator may stay LIVE
without a connection until that timer fires; a commit whose acknowledgement is lost is
answered as a persistence failure although its rows are durable, no broadcast follows it,
and a LIVE page on a healthy connection shows that row only after its next history
request; if producer and worker of the queued line both fail, the worker's failure is
told also when the producer's came first, because the code prefers it; a clock that
raises between `put` and the timestamp of the entry leaves a worker waiting for
`enqueue_ready` and the main thread joining it (`Stranded`, which `RunEnds` exempts);
builders that read a source and read it again to hash it may name a version newer than
the one they used, and those that hash after the identity check may name an identity that
was replaced before the hash.

## 4. Hazards

`PROJECT.json` lists them at their lines with the properties that cover them. One has
no property: the NVMM and compatibility evidence is written without a claim, so the
second of two runs overwrites the first and nothing in the repository promises otherwise.
Three carry a note on what their properties leave out: a lost commit acknowledgement, a
clock that fails between `put` and the timestamp, and a source replaced between the
identity check and the hash. Two more were met while reading and are not listed: `pipelines/evaluate_yolo_segmentation.py` leaves its claimed directory
behind when it fails (a fact of its program, which has no cleanup), and the
INT8 build removes containers by label, whoever started them.

## 5. Proofs

Each theorem holds for every value of the constants that satisfies the module's
`ASSUME`s; these say that bounds are naturals, flags Booleans, and markers such as
`None` are not data. TLC evaluates them on every run. One assumption is arithmetic
instead: `PowerLaws` of `Publisher` says that the powers of the multiplier start at 1 and
grow by the multiplier. It is the definition of `^`, which the provers do not know and
which no induction available here could supply.

* **`PublisherProofs`.** `IInv` is inductive: one lemma per action, one step per conjunct
  that the action can disturb. `Conservation` is not inductive alone, it needs to know
  that an event is in flight exactly while the worker's program counter says so
  (`WorkerShape`); `NothingStranded` needs what each `close()` may rely on
  (`CloseShape`). Proved: types, `Conservation`, `NoLostWakeup`, `NothingStranded`.
  `BackoffPolicy` speaks of sleeping workers only; `Scheduled` extends it to the whole
  attempt, and `DelayGrows` shows that capping each product gives the capped power, also
  when the cap is below the first wait. `DeliveriesEnd`: with an event in hand
  the worker's steps lower a number of at most `4 * MaxRetries + 4`, which no submitter,
  closer or waiter raises.
* **`PublisherRefinementProofs`.** `PromiseInv` adds that the fields of the publisher
  tell the fate of each event (`FateShape`) and that accepted plus outstanding copies of
  an event never outnumber its attempts (`CopiesShape`). Proved: `CountersTellFates`,
  and that `Publisher` implements `PublisherPromise`.
* **`LiveChannelProofs`.** `ChannelInv`: what travels is committed, the phases of a
  generation follow each other, and as long as the current connection is registered and
  unbroken each newest announced row is shown, buffered, or on its way (`Current`). A row of
  the newest window is among the newest of any smaller set
  (`NewestOfPart`), so merging never drops it. The last queued network event tells
  whether the browser is online (`QueueShape`). Proved: types,
  `RegisteredMeansCurrent`, `ReconnectIsComing`, for any sockets, rows, window and faults.
  `NothingVanishes`: a row that a merge drops has a full window of newer rows above it.
  `LiveMeansCurrent`, which `live_slow_client` refutes, is proved without slow clients
  in every state where no unacknowledged row is unread, and for the announced rows in
  every state: then an open connection is never unregistered. A send timeout and a lost
  acknowledgement are thus the two ways to miss a row.
* **`CombinedInspectionProofs`.** A session holds a prefix of the rows of its endpoint
  and is committed only when it holds all; a handler answers ok only past its commit; a
  branch is under way only while its handler waits for it. Proved: types,
  `WholeOrNothing`, `AnnouncedMeansDurable`, `NothingLeaks`, `DecisionTellsEvidence`,
  the refinement of `InspectionPromise`, and `CountsOnlyPersisted` for finitely many
  requests (the theorem's only extra assumption). `NobodyWaitsInACycle`: of the requests
  that wait, one can move, since a queued branch waits for a pool thread, a started one
  for a lock, and the holder of a lock for nobody. `RequestsAreBounded`: a request takes
  at most 18 steps of its own, and the others give it none back.
* **`QueuedLineProofs`.** Entries leave the queue in the order of their numbers, the stop
  signal last, and the worker's program counter tells whether the entry it took has its
  result; `stop_event` is set only for a failure that the worker has recorded or that the
  producer had itself. Proved: types, `NoDropInOrder`, `BookkeepingExact`,
  `NoConsequenceReported`, `FailedEventIsLast`, and the
  refinement of `LinePromise`. `WaitsHaveAnEnd`: whoever blocks on the timestamp, the
  queue or the join blocks on something still to come, unless an interrupt has taken the
  main thread or the run is `Stranded`. `WorkerNeverLeftBehind`, which `line_interrupt` refutes, is proved without
  interrupts.
* **`RtspReconnectProofs`.** Until the drill notices that its server is gone nothing is
  charged to the budget; from then on the program counter tells how many reconnects were
  begun, and a healthy frame is one since the last of them. Proved: types,
  `MetricsTellTheTruth`, `EvidenceTellsTheTruth`, `NothingLeftRunning`, for any policy.
  `Terminates`: every step of a drill lowers `Remaining`, a number that starts at
  `MaxSteps`, a sum of the policy's thresholds, and that server and strangers never raise.
* **`FinalTestSealProofs`.** From its rename on a run holds the namespace, and there is
  one holder at most. While the holder has not called its evaluator nobody has;
  afterwards the marker forbids removal, so no later rename succeeds. Proved:
  types; and, under `OperatorWaits`, that at most one run opens the split
  (`SealHolds`), `FlagsTellTheTruth`, and the refinement of `SealPromise`.
  The run `final_test_live_cleanup` shows that `OperatorWaits` cannot be dropped.
  `EvidenceTellsTheTruth` (same hypothesis): anchors only move on and a changed artifact
  does not heal (a change and back during an evaluation is not modelled), so a run that finds both as planned after its evaluator returned knows
  what the evaluator saw.
* **`ArtifactPublicationProofs`.** A program is careful when every write, rename and
  cleanup comes after a claim of its own. From its mkdir to its rename a builder owns its
  place; what an owner wrote is whole; a whole artifact is out of reach of every later
  write and cleanup. Proved for any builders and any programs: types, and for
  careful ones `ClaimsHold`, `VisibleIsWhole`, and the refinement of
  `PublishOncePromise`. `Classification` says which of the 33 are careful: all but four
  evidence commands. Two theorems need more of the programs: `CleanFailure`, that the
  `except` block of those that clean up covers all between claim and rename
  (`TidyPrograms`); `LineageTrue`, that each reads its source once and checks before its
  artifact is complete (`SettledPrograms`). `Classification` states both of the 33
  programs and TLC confirms it. What `LineageTrue` says depends on the program's order of
  steps: those that hash what they keep, verify after the work, or compare with a hash
  taken before the check name what they used (`AnchoredPrograms`); those that hash,
  build and compare used what they hashed (`RecheckedPrograms`); those that read their
  source and read it again to hash it used nothing newer than what they name
  (`RereadPrograms`). `Classification` lists who is what; two programs,
  `YoloEvaluation` and `Predictions`, check before they read and nothing after, and
  `LineageTrue` is silent about them. `PublishedStays`, which `evidence_race` refutes, is
  proved when all programs are careful.

Every invariant, action property and refinement of a passing run is the subject of a
theorem, and every property that a run refutes is proved under the hypothesis that
excludes the cause. Only model-checked are the liveness properties `EventsSettle`,
`WorkerEnds`, `RunEnds`, `EveryRequestAnswered`, `DrillEnds` and `Recovers`: they need
fairness and `ENABLED`, which the prover lacks. What can be stated of them without
fairness is proved: the measures that each step lowers, and that what is waited for can
still come. For `Recovers` it is `ReconnectIsComing`.

## 6. Not modelled

* Most of the repository is numeric or descriptive: model arithmetic, thresholds,
  parity, drift statistics, GPU pipelines, validation of reports and configurations,
  notebooks. It is sequential code over floating-point data and JSON documents; a model of
  it would repeat it. Of these files the modules cover the order of checks, file
  operations and failures, and leave the rest. This is why the map covers a small
  part of the lines.
* `close_all` of the broadcaster: the lifespan calls it after the server has already
  closed every WebSocket. A crash, which loses all of them at once, is modelled.
* The API lifespan: sequential startup and teardown, one `try`/`finally` per resource.
* The live-only streaming channel of the page and the ingest endpoint between it and the
  publisher; the controlled experiment command and the tracking server; RAG serving, which
  is stateless; histograms and HTTP middleware; rendering and presentation; request
  validation before an endpoint has decoded its upload.

## 7. Next

1. `StreamingDelivery`: `Publisher`, ingest and `EventBroadcaster` composed with the
   live-only channel of the page; at most one copy per attempt from end to end.
2. `AppLifespan`: partial startup and its teardown.
3. The merge functions of `state.js` against a reference definition.
4. Proofs about the modules of 1 to 3; the live channel against a promise of its own
   (a page that converges to the newest rows).
