# A TLA+ development of effect-resonate

effect-resonate is a durable-execution SDK: functions survive crashes because
every step they take is recorded in a *durable promise* on a server, and a
*task* lets one worker at a time execute a function and fences out the others.
This directory specifies that machinery in TLA+, model-checks it with TLC and
proves its main safety properties with TLAPS.  Paths below are relative to the
repository root.

## 1. The system

| Component | Code | State | Operations |
|---|---|---|---|
| Local server | `src/network/Local.ts` | promises, tasks, their timeouts, schedules, outbox, message queue | 20 request kinds, the tick fiber |
| Protocol | `src/Protocol.ts` | none | schemas of records, requests, responses, messages |
| Worker | `src/Worker.ts` | the `held` map of claims, one message loop, one heartbeat fiber | `handleExecute`, `runAcquired`, the suspend loop, heartbeat |
| Execution engine | `src/ResonateContext.ts` | per run: sequence number, cache, awaiting, attached remotes, child fibers | `run`, `beginRun`, `sleep`, `rpc`, `beginRpc`, `detached`, `promise`, `all`, `execute` |
| Client | `src/ResonateClient.ts` | none | `beginRun`, `run`, `beginRpc`, `rpc`, `resolve`, `reject`, `cancel` |
| Promise client | `src/DurablePromise.ts` | none | `get`, `create`, `settle`, `awaitSettled` |
| Task and schedule clients | `src/Task.ts`, `src/Schedule.ts` | none | one request and one response each |
| HTTP network | `src/network/Http.ts` | the event-stream subscription | `send`, reconnect with backoff |
| Retry policy | `src/RetryPolicy.ts` | none | `next(policy, attempt)` |
| Registry and definitions | `src/Registry.ts`, `src/*Definition.ts` | a table built at start-up | lookup |
| Codec, errors | `src/Codec.ts`, `src/Errors.ts` | none | encode, decode |

**How they interact.**  A client creates a promise with a target address
(`promise.create`), or creates it and claims its task at once (`task.create`).
The server stores promise and task and offers an *execute* message to its
queue.  A worker takes the message, claims the task (`task.acquire`), which
bumps the task's version and starts a lease, and runs the handler from the top.
Each step of the handler creates a child promise through `task.fence`, which
checks the version and the deadline first; a child that is settled already is
not executed again.  When only pending children are left the worker parks the
task (`task.suspend`), and the settlement of any of them makes the task pending
and sends execute again.  `task.fulfill` settles the promise and ends the task.
Every request is one `Ref.modify`, so requests are atomic with respect to each
other; the clock is read before, the messages are offered after.  A tick fiber
persists the deadlines that have passed, redelivers execute messages, takes
claims back whose lease ran out and creates the promises schedules owe.

**What is hard.**  The same fact lives in several tables (a promise, its task,
the registrations on other promises, two timeout tables) and every request has
to move all of them; deadlines take effect for readers before they are
persisted; leases expire while the holder works; settlements cascade, several
in one tick; wake-ups reach tasks in every state; schedules catch up late.
`PROJECT.json` lists each hazard at the line where it bites, with the
properties that would catch it.

**What makes each component correct.**  The server: a settled observation is
final, versions fence, no wake-up is lost, every suspended task has something
to wake it, every deadline is armed, no occurrence of a schedule is skipped,
every task ends.  The worker: every claim it runs is heartbeated, no result of
a lost claim is recorded, the message loop never stalls.  The engine: replay
observes what the first run observed, a root ends only after its attached
children, nothing suspends on nothing.  `awaitSettled`: a settlement is
returned once it exists, whoever takes the messages.

## 2. Modules

| Module | Role |
|---|---|
| `LocalServer` | the server: state, one action per request, the tick, properties |
| `DurableTask` | abstract: what a client of the server may rely on |
| `LocalServerRefinement` | the mapping, `ImplementsDurableTask` |
| `MCLocalServer` | instances for TLC |
| `RetryPolicy` | the four policies and the pause before the next attempt, pure |
| `DurablePromises` | extends `LocalServer`: `awaitSettled` on the local network |
| `ExecutionEngine` | extends `LocalServer`: the replay of a handler under a claim |
| `Worker` | composes the engine, `awaitSettled`, the workers and the clients with the server |
| `MCWorker` | instances for TLC: the handlers, as scripts |
| `NetworkHttp` | extends `DurablePromises`: requests and the event stream over a network that fails |
| `MCNetworkHttp` | an instance for TLC |
| `LocalServer_proofs` | types, the inductive invariant and five safety theorems of the server |
| `LocalServerMoves_proofs` | what a step may do to one promise and one task; fencing, wake-ups, final observations, the refinement |
| `LocalServerDispatch_proofs` | every pending task is announced, no occurrence of a schedule is missed |
| `DurablePromises_proofs` | what the requests of workers, clients and waiters do to the server and the queue, and what a waiter is told |
| `NetworkHttp_proofs` | the theorems over the network that fails |
| `WorkerMoves_proofs` | every step of the composition, by what it does to the server and to one fiber |
| `Worker_proofs` | claims, fencing, attempts, replays and answers, for every script |
| `WorkerScripts_proofs` | what holds of the handlers: steps run once, failures have causes, children end first, types |

### LocalServer and the code

| Variable | In `ServerState` |
|---|---|
| `promises` | `promises`, with `absent` where the map has no key |
| `tasks` | `tasks`, same |
| `promiseTimeouts`, `taskTimeouts`, `scheduleTimeouts` | the three timeout maps |
| `schedules` | `schedules` |
| `outbox` | `outbox`: the last message of each key |
| `queue` | the messages in the `Queue` of the layer, as a set |
| `now` | the clock |

Each request kind that can change the state is one action, named after its
handler (`taskSuspend` has two: `TaskSuspend` for 200 and `TaskSuspendRefused`
for 300, which clears the buffered resumes; `taskCreate` has three for its
branches).  A request that is answered without a change (404, 409, 422, an
idempotent replay, `get`, the unimplemented searches) is a stuttering step.
`Gate` is `taskGate`, `Fresh` is `taskFresh` and the deadline test the promise
handlers share, `Projected` is `PromiseObject.projected`.  `Settle` is the
common tail of `promise.settle` and `task.fulfill`: it writes what
`settlementCascade` and `enqueueResume` write, for a *set* of promises that
settle together, so that `Tick` uses the same operators.  `Tick` does in one
step what `tick` does in one: settle the due promises, cascade, redeliver or
take back the due tasks, catch the due schedules up.

Abstractions, all of data: values and params are left out; callbacks, listeners
and resumes are sets (the code keeps duplicate-free arrays and no guard looks at
the order); a cron expression is a period, so the cron times are its multiples;
an id template is the operator `OccurrenceId`; a request carries one of a finite
set of tags and timeouts.  Time is a counter.  A handler's timestamp `t` is any
of `Stamps`, at most `ClockLag` behind `now`: the code reads the clock before
the atomic section.  With `ClockLag = 0` no time passes in between.  `DebugTimes`
is the set of times `debug.tick` may be called with, empty where the debug
requests are not used.  Bounds on the model: `MaxTime` on the clock,
`MaxVersion` on the claims of one task, and in `TaskNext` one reference per
heartbeat request (`TaskHeartbeat` itself takes any set).

### Engine, worker, clients and the code

`ExecutionEngine` and `Worker` extend `LocalServer` and use its actions as the
requests of their callers, so a step of a fiber that sends a request is one
step of the server and of the fiber.

| Variable | In the code |
|---|---|
| `runs[f].task`, `.version` | the claim in `RuntimeState` |
| `runs[f].cache` | `RuntimeState.cache`: the state each child was last answered with |
| `runs[f].handle` | what each handle yields; of a local step also its forked fiber (`running`, `waiting` between attempts) and its `Deferred` (`lost`: never completed) |
| `runs[f].attempt`, `.retryAt` | where `runWithRetry` of a step stands |
| `runs[f].attached`, `.awaited` | `attachedRemote`, and what the `SuspendedExecution` names |
| `runs[f].stage`, `.exit`, `.pc` | where the fiber of the claim stands |
| `batch` | the chunk the message loop has taken from the queue and not handled yet |
| `held` | the `held` map of `WorkerRuntime`, per process |
| `waits` | where each caller of `awaitSettled` stands, its timer and its answer |

A fiber `f` is the message loop of a worker, or a *guest*: the detached fiber
in which `client.beginRun` runs the task it claimed, inside the process
`HostOf[f]`.  A handler is a sequence of engine calls (`Script`); the child of
a call is the same in every replay, as the sequence counter makes it.  Awaiting
a child that failed ends the handler with that failure; `await` of a set of
handles is `ctx.all`, which fails with a failure before it suspends.  A local
step runs in its own fiber between `Opened` and `LocalSettles` and does not hold
the handler up; `LocalRetries` and `NextAttempt` are the rounds of
`runWithRetry`.  The effect of a step may wait for other handles itself
(`AttemptEnds`).  `OpenCached`, `OpenFenced` and `FenceRefused` are the branches
of the four create functions of the engine; `Cached` is what `fence` leaves in
the cache: the preload as stored, then the answer.  `CancelFenced` settles the
promise of a handle and leaves the handle as it is.  `DrainedStage` is the end
of `execute`.

Every request of a worker may end in a transport error while `MayFail`, before
the server has handled it or after; on the local network it cannot
(`FaultsBefore = 0`).  `FenceUnanswered` fails the handler like any other error,
`LocalLost` ends the fiber of a step before its `Deferred` is completed,
`FinishFails` and `SuspendFails` release the claim, `AcquireFails` drops the
message.  A heartbeat that fails is one that is not sent.

Clients settle promises from outside.  `SettleExternal` is `client.resolve` and
`client.reject`, on the external promises of handlers: what a declaration is for
(the code does not stop a client from naming another id, the model does).
`ClientCancel` is `client.cancel` and the `cancel` of a client's handle, of any id
in `Cancellable`: roots, calls and local steps too, while they run.
`BeginRunLost` leaves a claim no fiber works on: the client is not told of it, or has
no co-located worker to run it (`ResonateClient.ts:299-305`), which is no fault at
all.

`TakeChunk`, `NextMessage`, `Acquire` and `AcquireFails` are the message loop
(the stream of a queue hands out everything that is in it at once), `Suspend`,
`SuspendStartsOver` and `SuspendFails` the outcomes of `runAcquiredUntilBlocked`,
`Release` and `Close` its `onError` and `ensuring`.  `Acquire` includes the
first steps of `runAcquired` (the entry in `held`, the checks of `execute`):
the fiber neither waits nor sends anything between them.  `Restart` is a process that
stops without a release, as the code does on interruption too, while the server
goes on.  `AwaitSettled` is a client that waits for its root: it registers,
subscribes, takes what the queue holds, messages of others included, and
registers again when its fallback fires.  The queue is a set, messages are taken
in any order: the code offers them after the atomic section, in no fixed order.

Constants that bound or assume: `ListenBefore`, `CrashBefore`, `FaultsBefore` and
`LoneBefore` are the times at which waiters cease to take messages, processes to be
restarted, requests to fail and clients without a worker to claim; `Cancellable` is
the set of ids clients cancel, in the theorems any set;
`HeartbeatsOnTime` keeps the clock from passing the end of a lease the next
heartbeat would extend.  It is TRUE only where progress is asked for.  A timer
that would fire past the end of the clock fires at its end (`Timer`).

### NetworkHttp and the code

| Variable | In the code |
|---|---|
| `conn` | the connection of `connectMessages` with the state of the backoff schedule |
| `last` | the take that `replay: 1` hands to a new subscriber |
| `inbox` | the subscription of each reader to `messagesPubSub` |
| `loop` | the message loop: the claim it is making, running or giving up |
| `faults` | how often the network has failed, bounded by `MaxFaults` |

`Connect`, `ConnectionLost`, `Reconnect`, `ConnectUnauthorized` and `StreamEnds`
are the life of a connection, `DeliverFrame`, `MalformedFrame` and `FrameLost`
what becomes of a message of the server.  Every request may fail before the
server has handled it or after: `LoopClaims`, `LoopFulfills`, `LoopReleases` and
`RegisterFails` have both, so a claim or a listener may exist of which its owner
knows nothing.  `ReadTake` is the stream inside `awaitSettled`, whose rounds are
the actions of `DurablePromises`; on this network a subscriber sees every message
published after it subscribed, and the one before.  It races the fallback, for the
first success: a stream that fails is no answer and the wait lasts what remains of
the fallback (`DurablePromise.ts:136-151`), and only a request that fails is tried
again after the pause of `Effect.retry`.  The server is not part of
the repository: `LocalServer` stands for it, as both speak the protocol of
`src/Protocol.ts`.  `FaultsBefore` and `MaxFaults` bound when and how often the
network fails.

## 3. Runs

| Run | Question | Instance |
|---|---|---|
| `server_tasks` | Is the server consistent under every promise and task request, do tokens fence, is no wake-up lost, does it implement `DurableTask`? | 2 promises, 1 worker, 1 address, 3 tag sets, deadlines 1 and 2, clock 0..2, 2 claims per task |
| `server_schedules` | Does catch-up create every occurrence, however late the tick? | 2 schedules of period 1 and 2, 2 ids, clock 0..3, `debug.tick` at 2, `debug.reset` |
| `server_liveness` | Does every task end? | 2 promises, immediate and delayed dispatch, clock 0..2 |
| `stale_clock` | Is a settled observation final when timestamps can be old? It is not. | 2 promises, `ClockLag` 1 |
| `worker_replay` | Does every replay see what earlier ones saw, and does one fiber at most pass the fence, with late heartbeats, restarts, failing requests and a worker that lacks a function? | 2 workers; a local step and a detached call, awaited together, and a cancel; requests fail at time 0, clock 0..2, lease 1 |
| `worker_client` | The same when a client claims the task itself; are steps tried as often as their policy says, and does an execution fail only because something it called has? | 1 worker, 1 guest; a step that may fail, die or be retried once, an external promise that is settled or cancelled; clients cancel the root and the step, and leave claims at time 0 |
| `worker_progress` | Is an invocation executed to its end and its client answered, through suspensions, messages taken by the other reader and restarts? | 1 worker, 1 waiter; a sleep and a call; a claim nobody runs at time 0; clock 0..3, lease 2 |
| `http` | The same when connections, frames, requests and answers are lost | 1 loop, 1 waiter, 2 faults before time 2, clock 0..3, lease 1, pauses 1 and 2, fallback 2 |
| `worker_hang` | Does every run end? It does not. | 1 worker, one local step, late heartbeats |
| `worker_transport` | The same question of failures when requests fail in transport. It fails without a cause. | 1 worker, one local step, requests fail at time 0 |
| `worker_nested` | Does a wait inside a step suspend the run? It does not. | 1 worker, a call, a step that awaits it |
| `http_ends` | Does the message loop listen until its scope closes? It does not. | as `http` |

**Why the bounds are enough.**  Two promises are one awaiter and one awaited;
what three add, the chain and the fan that settle in one tick, the theorems cover
for any number.
Two claims make a stale holder and a current one.  A clock of three
values gives a moment before, at and after a deadline, and leases and retries
of one tick expire inside it.  Promises are interchangeable, so the runs
without schedules use symmetry; the liveness run does not.  In the worker runs
leases of one tick inside a clock of three values let a claim be lost, claimed
again and lost again at its deadline, at any step of a run.  The handlers cover each kind
of engine call, before and after the awaits that suspend it, and are short: a
replay depends on the recorded children only, not on how many came before.
Two claims per task are a run and its replay; `worker_progress` and
`http` allow six and nine, which their behaviours do not exhaust.  Two faults are
one in a request and one in its repetition, or one in a request and one in the
stream that would tell of it; the clock leaves room for the lease, the
redelivery and the backoff that follow the last of them.  One waiter is enough:
waiters do not see each other except through the queue, where the loop is the
other reader.  The steps of a policy with one retry are its first, its last and
the refused attempt.  `AsleepAtTheBound` excuses there an
invocation whose timer lies past the end of the clock.

**Fairness.**  `FairSpec` asks that the clock moves (`WF(Advance)`) and that the
tick runs (`WF(Tick(now))`): the layer forks it with `Effect.forever`
(`src/network/Local.ts:2073-2080`).  Nothing is asked of clients and
workers: `TasksEnd` holds whatever they do.  `FairWorkerSpec` adds that every
fiber takes its next step and every heartbeat is sent: Effect's scheduler runs
every fiber that can run, and the heartbeat is scheduled for ever
(`src/Worker.ts:95-102`).  A fiber that waits for a `Deferred` has no step, so fairness
asks nothing of it.  `awaitSettled` goes on as any fiber does.  Clients and restarts owe nothing.
`FairHttpSpec` asks the same of the stream, the loop, the waiters, the server's
tick and the clock; a message in the server's buffer is written to an open
connection at some time.  No failure is ever owed, and the failing ones stop at
`FaultsBefore`: liveness is about a network that comes back.

**What the violations show.**  `docs/DESIGN.md:49` says settled states are
immutable and that a promise past its deadline is seen settled by every path.
`stale_clock`: a `promise.settle` whose timestamp was read before the deadline
(`Local.ts:2065`) and which commits after another reader saw the promise timed
out makes it resolved.  `ObservationStable` holds in `server_tasks`, and is
proved, where `ClockLag = 0`.

`worker_hang`: a local step whose claim is lost fails before it completes its
`Deferred` (`ResonateContext.ts:902-910`); the handler waits for ever, and since
the loop runs one message at a time (`Worker.ts:205`) the worker is dead without
having stopped.  `docs/DESIGN.md:695` says a 409 stops the claim.  A late heartbeat is
one way there, a client that cancels the root is another (`Cancellable = {r}` and
`HeartbeatsOnTime = TRUE` show it).

`worker_transport`: a fence that is not answered fails the handler, and `execute`
stores that error in the root (`ResonateContext.ts:1068`): one lost answer and the
execution is rejected for good.  `docs/DESIGN.md:466` says transport errors are
never stored in promises.  `FailureHasCause` holds where requests do not fail
(`worker_client`), lost claims included: what is refused with the claim's version
cannot be stored with it.

`worker_nested`: a step whose effect awaits a pending call fails with the
suspension, which `runWithRetry` cannot tell from an error, and is recorded as
rejected (`ResonateContext.ts:897-902`); `docs/plan/specs/14-suspend-resume.md:25`
says it contributes the awaited ids.  `http_ends`: only failures of the stream
are retried (`Http.ts:119-121`), so a response that ends cleanly ends the
subscription and the loop with it, while the heartbeats go on;
`docs/plan/specs/07-http-network.md:29` says it ends with its scope only.
`Answered` holds even then: a waiter falls back on its registration.

Six more disagreements with the documents were met and have no run.
`held` is keyed by task id and the end of a run removes the entry whichever claim it
is of (`Worker.ts:147`).  Where a client in the process claims under the process's
id, its run may be parked, the awaited call end and the loop claim the task again,
with an entry of its own, before the `ensuring` of the parked run removes that entry:
the current claim is left out of the list that `docs/DESIGN.md:225` calls the actual
one, and ends with its lease.  The gap is wide where the answer to a suspend travels,
and narrow on the local network.  `RunIsHeld` is checked and proved only where a
process has one claim at a time.

`docs/plan/specs/13-worker-runtime.md:40-41` says that tasks execute concurrently, each
in its own fiber, and that a graceful shutdown releases all held tasks.  The code
runs one message at a time (`Worker.ts:205`) and does not release a claim whose run
is interrupted (`Worker.ts:146`), and so do the models: `NextMessage` needs an idle
loop, `Restart` leaves the claims to their leases.

`task.create` on a pending task looks at the task only (`Local.ts:914`) and
claims it although its promise is observably settled, where `task.acquire`
answers 409: the claim cannot do anything (`ImplementsDurableTask`).  A failing
handler rejects its root without looking at the attached children
(`ResonateContext.ts:1068`), which `docs/plan/CONFORMANCE.md:90` excludes;
`ReturnsLast` holds of handlers that return.  It needs answered requests too:
`drainChildren` ignores how a forked step ended (`ResonateContext.ts:850`), so
where the settle of a step nobody awaits is lost the root is fulfilled with that
child pending (`FaultsBefore = 1` and a script of one `run` show it); a lost
claim is no such case, as its fulfill is refused.  `awaitSettled` retries a refused
authorization like any error (`DurablePromise.ts:152`), which
`docs/plan/CONFORMANCE.md:78` excludes.

## 4. Proofs

`IInv == TypeOK /\ Consistent`, where `Consistent` conjoins `Lockstep`,
`DeadlineArmed`, `TimeoutDiscipline`, `SuspendedIsAwaiting` and
`RegistrationsLive`.  No conjunct is inductive alone.  A suspended task stays
registered on a pending promise because a settlement either wakes or fulfils
the awaiter and scrubs registrations of exactly the awaiters it ends
(`RegistrationsLive`); the awaiter it ends is the promise's own task
(`Lockstep`); and a suspended task has no timeout that could move it
(`TimeoutDiscipline`).

The proof goes through what a step does to one promise and one task, in
`LocalServer_proofs`: `CascadePromisesShape` and `CascadeTasksShape` say
what settling a set of promises leaves of each record, `CascadeConsistent` that
the result is consistent, `Newborn` what the create requests add, and one lemma
per kind of step carries `IInv` over it; `ConsistentStep` collects them.

| Theorem | Says |
|---|---|
| `TypeCorrect` | `Spec => []TypeOK` |
| `Invariance` | `Spec => []IInv` |
| `TasksInLockstep` | `Spec => []Lockstep` |
| `DeadlinesStayArmed` | `Spec => []DeadlineArmed` |
| `TimeoutsFollowTasks` | `Spec => []TimeoutDiscipline` |
| `NoForgottenTask` | `Spec => []SuspendedIsAwaiting` |
| `NoLeftoverRegistration` | `Spec => []RegistrationsLive` |

They assume `ServerAssumption` only: any sets of ids, workers, addresses and
schedules, any bounds, any `ClockLag`, with or without the debug requests.

**Steps.**  `LocalServerMoves_proofs` says what one step of the server may do to
one promise (`PromiseMoves`: its outcome stays, it is created, or it goes from
pending to an outcome under a timestamp that saw it fresh or expired), to one
task (`TaskMoves`: the edges of its state machine, with the version along each)
and to those registered on a promise that settles (`WakesAll`).  `StepMoves`
proves the three of every action of `Next`, one lemma per group; `TickMoves`
reduces the tick to the cascade of the due promises (`TickIsCascade`) and what
it does to the due tasks.  The rest follows without looking at an action again.

| Theorem | Says | Assumes |
|---|---|---|
| `MovesInvariance` | `Spec => []MInv` | `DebugTimes = {}` |
| `TokensFence` | `Spec => FencingTokens` | `DebugTimes = {}` |
| `WakeupsArrive` | `Spec => NoLostWakeup` | `DebugTimes = {}` |
| `ObservationsAreFinal` | `Spec => ObservationStable` | `DebugTimes = {}`, `ClockLag = 0` |
| `ServerImplementsDurableTask` | `Spec => ImplementsDurableTask` | `DebugTimes = {}`, `ClockLag = 0` |
| `PendingTasksAreDispatched` | `Spec => []Dispatched` | `DebugTimes = {}` |
| `OccurrencesAreCreated` | `Spec => []NoMissedOccurrence` | |

Both conditions are needed where they stand.  `debug.reset` forgets promises,
tokens and registrations, and `debug.tick` is given a time of its own;
`stale_clock` is the counterexample for a clock that lags.

`LocalServerDispatch_proofs` holds the last two.  For `Dispatched`, `StepTells`
says of every step that there is a set of messages which are sent (`Emit`), of
the versions the step leaves (`Timely`), and that reaches each pending task it
did not find waiting (`Reached`); a message sent replaces only those of its
key, so the one that announces a pending task stays (`TellsKeep`).  For
`NoMissedOccurrence`, `NextIsNext` is the arithmetic: the multiples of a period
below the next run are those up to now.  The tick creates them (`TickPays`), no
request takes a created promise back (`RequestRemains`), and `debug.reset`
drops the schedules with the promises.

**Workers.**  The steps of `Worker` use the server's actions, with tags and
timeouts that need not be in the sets `Next` chooses from and messages taken out
of the queue, so its theorems do not follow from those of `Spec` by implication.
Instead `DurablePromises_proofs` defines `Served`: the step is a request with the
timestamp `now`, a tick, or leaves the records alone; and the lemmas
on the server's actions, stated for any tags and timeouts, carry the invariant
and the moves over each (`ServedTypes`, `ServedConsistent`, `ServedMoves`).
`WorkerServed` and, in `NetworkHttp_proofs`, `HttpServed` say of every step of the
two compositions that it is `Served`, so everything said of the server's steps
holds under both.

`WorkerMoves_proofs` then forgets which step was taken.  `RunsMove` says of
every step that a run goes on under the claim it has (`Proceeds`: each child of
the cache and each handle keeps its value, or is given one the server's state
answers for, `Learned`; the attempts grow within the budget), a claim begins
with the version the task has just been given, ends, is interrupted, or nothing
happens to it.  The invariants follow by cases of `RunsMove`:

| Theorem | Says | Inductive with | Assumes |
|---|---|---|---|
| `WorkerInvariance` | `[]WInv`: the server's `MInv` and the types of the fibers, `Shape` | itself | |
| `WorkerTokensFence` | `FencingTokens` | | |
| `WorkerWakeupsArrive` | `NoLostWakeup` | | |
| `WorkersImplementDurableTask` | `ImplementsDurableTask` | | `ClockLag = 0` |
| `HeldClaimsAreRun` | `[]HeldIsRun` | itself | |
| `ClaimsAreHeld` | `[]RunIsHeld` | `LoopHolds` | `Guests = {}` |
| `OneHolderOnly` | `[]OneHolder` | `Granted`: no claim is of a version not granted yet; `Distinct`: no two are of one | |
| `AttemptsStayInBudget` | `[]AttemptsInBudget` | `InBudget`: a step between attempts has one left | |
| `ReplaysAreFaithful` | `[]ReplayFaithful` | `Faithful`: the same of every child, running or not | `ClockLag = 0` |
| `AnswersAreTrue` | `[]AnswerTrue` | `QueueTrue`: an unblock in the queue is of a settled promise; `WaitsShape` | `ClockLag = 0` |

All of `WorkerSpec`, for every script, policy, number of workers, clients and
waiters, with restarts and failing requests at any time, from the
ASSUMEs of `LocalServer`, `ExecutionEngine`, `DurablePromises` and `Worker`.
Debug requests are not among the steps.  `ClockLag = 0` comes with the lemma on
observations and excludes nothing: every request of `WorkerSpec` carries `now`.  `Guests = {}` is needed: with a
client in the process the end of a stale run removes the entry of a current one.  The provers know nothing of exponentiation, so `Shape` says of
the time of a retry only that it is a pause after some time (`Moment`).

**Handlers.**  `WorkerScripts_proofs` looks into the scripts.  It needs two more
views of a step.  `Touched` says of each promise that it is kept, opened by a
client or by the step a handler is at (`OpenedBy`), or ended by its deadline, by
the fiber whose task or local step it is, by the cancel of a handler or a client, or
as an external promise (`EndedBy`); `WorkerTouches` proves it of every action.  `RunTurn` says of each
run that it stays, starts anew from a preload, or takes one turn: opens a child,
passes an await or a cancel, exits, moves a local step, or leaves the handler
(`WorkerTurns`).  From these come, in this order,

- `Tagged`: what exists has the tags of the one step that opens it, so a promise
  with a target is never a local step, a timer or an external promise;
- `Replayed`: in a run, exactly the steps before `pc` have handles, the handles of
  awaits passed are resolved, and a pending call is attached; `Seen`: whatever
  has a handle or an entry in the cache exists;
- `Unstarted`: a local step that a current claim has not come to, and whose
  preload was pending, is still pending or has been cancelled by a client
  (`Unrecorded`).  Of the runs, only the fiber of a current claim can end it
  (`StillUnrecorded`), two fibers never hold one task (`Distinct`), and a claim that is
  current was current before (`HoldsStable`);
- `NothingLost` and `Caused`, where every request is answered: a current claim has
  no lost step, and its run only fails after one of its calls has.

The first three, with `Granted` and `Distinct`, are `SInv`.

| Theorem | Says | Inductive with | Assumes |
|---|---|---|---|
| `HandlersInvariance` | `[]SInv` | itself | `OwnNames`, `OwnHandles`, `RootsApart` |
| `StepsRunOnce` | `NoRepeatedStep` | `SInv` | the same |
| `FailuresHaveCauses` | `[]FailureHasCause` | `SInv`, `Faithful`, `Caused` | and `FaultsBefore = 0`, `ClockLag = 0` |
| `HandlersReturnLast` | `[]ReturnsLast` | `SInv`, `Faithful`, `NothingLost` | and `SleepsAwaited` |
| `WorkerTypeCorrect` | `[]WorkerTypeOK` | `SInv`, `QueueTrue`, `Versions`, `Vacant`, `Timed` | `OwnNames`, `OwnHandles`, `RootsApart`, `PowersAreNaturals` |

The first four hypotheses say what a script is when the engine makes it.
`OwnNames`: the id of a child is that of its parent and its number
(`ResonateContext.ts:291-293`), so two steps never open one promise.
`OwnHandles`: what is awaited or cancelled is a handle an earlier step returned.
`SleepsAwaited`: `ctx.sleep` awaits its timer at once.  `RootsApart`: no client
invokes what is named like the child of a handler.  They are hypotheses and not
assumptions of the modules because the code lets a program break the first and
the last: `options.id` overrides the name of a child (`ResonateContext.ts:553`).  A
program that names two steps alike gets one promise for both.  `MCWorker` assumes
all four of every script it defines, so TLC checks that the runs are instances
of the theorems.  `FaultsBefore = 0` is the local network; `worker_transport` is
the counterexample without it.  `PowersAreNaturals` is arithmetic: the provers do
not know that a power of naturals is a natural, and the pause of an exponential
policy is one.

**The failing network.**  `NetworkHttp_proofs` has the same parts: `StreamMoves`,
`LoopMoves` and `ClientMoves` say what a step makes of the stream, the loop and the
waiters, and `HInv` is `MInv`, `QueueTrue`, the types, and `TakesTrue`: every take on its way
in the client, replayed or late, tells the truth when it is read, as outcomes
and versions stay.

| Theorem | Says | Assumes |
|---|---|---|
| `HttpInvariance` | `[]HInv` | |
| `HttpTypeCorrect` | `[]HttpTypeOK` | |
| `HttpAnswersAreTrue` | `[]AnswerTrue` | `ClockLag = 0` |
| `HttpTokensFence` | `FencingTokens` | |
| `HttpWakeupsArrive` | `NoLostWakeup` | |
| `HttpImplementsDurableTask` | `ImplementsDurableTask` | `ClockLag = 0` |

**Model-checked only.**  Liveness (`TasksEnd`, `Executed`, `Answered`,
`HttpExecuted`) is out of the prover's reach.  Every invariant and action property
of a passing run is a theorem.

## 5. Not modelled

Codec, errors, registry and definitions hold no state that changes.  The
clients of tasks and schedules are one request and one response each.  Of the
engine, `panic`, `poll` of a handle and handlers that catch errors are left out:
a handler is a script, so what it does with an error it catches is not
expressible.  `NetworkLocal` and
`NetworkHttp` take the place of every other network.

Most of the source tree is not this program.  `repos/` holds vendored
third-party repositories (the effect library and others, 99% of the lines),
the rest is documents, examples, lint rules and tests.  Where the program relies on
the library (streams, queues, schedules, fibers) the models have what its use in
`src/` shows, and nothing else of it is modelled.

## 6. Plan

1. Handlers with error handling: a `catch` around a call, `panic`.
2. Of the theorems on handlers: what of `FailureHasCause` and `ReturnsLast` is left
   when requests fail, as a weaker property with its own theorem; the local
   server with `debug.tick`, whose time is its own.
3. A fair run of a handler that cancels a pending call and returns.  Its return is
   parked on the cancelled call (`ResonateContext.ts:757`) and refused, and the
   handler replayed.  `worker_progress` has no cancel, so that the replays end there
   is not checked; `ReplayFaithful` and `NoRepeatedStep` are proved of such handlers.
