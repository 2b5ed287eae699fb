-------------------------------- MODULE Worker --------------------------------
(***************************************************************************)
(* The workers of src/Worker.ts and the clients of src/ResonateClient.ts    *)
(* against the local server, over a network whose requests may fail.  A     *)
(* worker process has one message loop, which runs one claim at a time, a   *)
(* map of the claims it holds and one heartbeat fiber; client.beginRun      *)
(* claims a task itself and runs it in a detached fiber of a worker         *)
(* process; client.rpc and client.run wait in awaitSettled.                 *)
(***************************************************************************)
EXTENDS ExecutionEngine, DurablePromises

CONSTANTS
  Workers,       \* worker processes; each is the fiber of its message loop
  Guests,        \* detached fibers of client.beginRun
  HostOf,        \* [Guests -> Workers]: the co-located worker of a client
  ClientPid,     \* the process id clients claim under
  Roots,         \* the ids clients invoke
  RootTimeout,   \* their timeoutAt
  Ttl,           \* lease duration
  Cancellable,   \* the ids clients cancel
  CrashBefore,   \* bound: when processes cease to be restarted
  LoneBefore,    \* bound: when clients without a worker cease to claim
  HeartbeatsOnTime   \* no lease of a held claim ends before its heartbeat

ASSUME WorkerAssumption ==
  /\ Workers \cap Guests = {}
  /\ Fibers = Workers \cup Guests
  /\ HostOf \in [Guests -> Workers]
  /\ Workers \subseteq Pids
  /\ ClientPid \in Pids
  /\ Roots \subseteq Ids
  /\ RootTimeout \in Nat
  /\ Ttl \in Ttls
  /\ Cancellable \subseteq Ids
  /\ CrashBefore \in Nat
  /\ LoneBefore \in Nat
  /\ HeartbeatsOnTime \in BOOLEAN

VARIABLES
  batch,   \* [Workers -> execute messages taken from the queue, not yet handled]
  held     \* [Workers -> [Ids -> version, NotSet if the id is not held]]

system == <<promises, tasks, promiseTimeouts, taskTimeouts, schedules,
            scheduleTimeouts, outbox, queue, now, runs, batch, held, waits>>

Process(f) == IF f \in Workers THEN f ELSE HostOf[f]
Fiberless(w) == [f \in Fibers |-> IF Process(f) = w THEN NoRun ELSE runs[f]]

WorkerInit ==
  /\ Init
  /\ WaitersInit
  /\ runs = [f \in Fibers |-> NoRun]
  /\ batch = [w \in Workers |-> {}]
  /\ held = [w \in Workers |-> [id \in Ids |-> NotSet]]

\* runAcquired: the claim enters the held map and the engine starts.
\* Mutant: under the version of the message, one before the claim's.
StartRunAsAnnounced(f, id, version) ==
  /\ runs' = [runs EXCEPT ![f] =
                NewRun(f, id, version, Projected(promises'[id], now).state,
                       Preload(id, promises'))]
  /\ held' = [held EXCEPT ![Process(f)][id] = version - 1]
StartRun(f, id, version) ==
  /\ runs' = [runs EXCEPT ![f] =
                NewRun(f, id, version, Projected(promises'[id], now).state,
                       Preload(id, promises'))]
  /\ held' = [held EXCEPT ![Process(f)][id] = version]

-----------------------------------------------------------------------------
(* The message loop. *)

\* The stream of the queue hands out all that is in it as one chunk, of which
\* the execute messages are kept: nobody else sees them from then on.
TakeChunk(w) ==
  /\ runs[w].stage = "idle" /\ batch[w] = {}
  /\ queue # {}
  /\ queue' = {}
  /\ batch' = [batch EXCEPT ![w] = {m \in queue : m.kind = "execute"}]
  /\ UNCHANGED <<store, crons, outbox, now, runs, held, waits>>

\* Stream.runForEach: the next message once the loop is free.
NextMessage(w) ==
  /\ runs[w].stage = "idle"
  /\ \E m \in batch[w] :
       /\ batch' = [batch EXCEPT ![w] = @ \ {m}]
       /\ runs' = [runs EXCEPT ![w].stage = "claiming", ![w].task = m.id,
                               ![w].version = m.version]
  /\ UNCHANGED <<server, held, waits>>

Acquire(w) ==
  /\ runs[w].stage = "claiming"
  /\ TaskAcquire(runs[w].task, runs[w].version, w, Ttl, now)
  /\ StartRun(w, runs[w].task, runs[w].version + 1)
  /\ UNCHANGED <<batch, waits>>

\* A message whose claim is refused or not answered is dropped.
Claimable(id, version) ==
  tasks[id].state = "pending" /\ tasks[id].version = version /\ Fresh(id, now)
AcquireFails(w) ==
  /\ runs[w].stage = "claiming"
  /\ \/ /\ ~Claimable(runs[w].task, runs[w].version) \/ MayFail
        /\ UNCHANGED server
     \/ /\ MayFail
        /\ TaskAcquire(runs[w].task, runs[w].version, w, Ttl, now)
  /\ runs' = [runs EXCEPT ![w] = NoRun]
  /\ UNCHANGED <<batch, held, waits>>

\* runAcquiredUntilBlocked on EngineSuspended: one task.suspend for all that
\* is awaited.  A refused one starts the engine over on the preload.
\* Mutant: the attached calls a handler returned without awaiting are left out.
AwaitsAwaited(f) == runs[f].awaited
Awaits(f) == runs[f].awaited \cup runs[f].attached

Suspend(f) ==
  /\ runs[f].stage = "suspending"
  /\ TaskSuspend(runs[f].task, runs[f].version, Awaits(f), now)
  /\ runs' = [runs EXCEPT ![f].stage = "closing"]
  /\ UNCHANGED <<batch, held, waits>>

SuspendStartsOver(f) ==
  /\ runs[f].stage = "suspending"
  /\ TaskSuspendRefused(runs[f].task, runs[f].version, Awaits(f), now)
  /\ runs' = [runs EXCEPT ![f] =
                NewRun(f, runs[f].task, runs[f].version, "pending",
                       Preload(runs[f].task, promises'))]
  /\ UNCHANGED <<batch, held, waits>>

SuspendFails(f) ==
  /\ runs[f].stage = "suspending"
  /\ \/ (~Holds(f) \/ MayFail) /\ UNCHANGED server
     \/ /\ MayFail
        /\ \/ TaskSuspend(runs[f].task, runs[f].version, Awaits(f), now)
           \/ TaskSuspendRefused(runs[f].task, runs[f].version, Awaits(f), now)
  /\ runs' = [runs EXCEPT ![f].stage = "failed"]
  /\ UNCHANGED <<batch, held, waits>>

\* releaseBestEffort
Release(f) ==
  /\ runs[f].stage = "failed"
  /\ \/ TaskRelease(runs[f].task, runs[f].version, now)
     \/ (~Holds(f) \/ MayFail) /\ UNCHANGED server
  /\ runs' = [runs EXCEPT ![f].stage = "closing"]
  /\ UNCHANGED <<batch, held, waits>>

\* Effect.ensuring: the entry of the task leaves the held map, whichever
\* claim it is of.
\* Mutant: the entry stays.
WithoutKept(entries, id) == entries
Without(entries, id) == [entries EXCEPT ![id] = NotSet]

Close(f) ==
  /\ runs[f].stage = "closing"
  /\ held' = [held EXCEPT ![Process(f)] = Without(@, runs[f].task)]
  /\ runs' = [runs EXCEPT ![f] = NoRun]
  /\ UNCHANGED <<server, batch, waits>>

\* The heartbeat fiber sends the pairs it holds.
HeldPairs(w) == {<<id, held[w][id]>> : id \in {i \in Ids : held[w][i] # NotSet}}
Heartbeat(w) ==
  /\ TaskHeartbeat(w, HeldPairs(w), now)
  /\ UNCHANGED <<runs, batch, held, waits>>

-----------------------------------------------------------------------------
(* Clients, and what else happens. *)

RootTags == [NoTags EXCEPT !.target = TRUE, !.global = TRUE]

\* No client invokes what is named like a step of a handler.
RootsApart == \A id \in Ids : Roots \cap Calls(id) = {}

BeginRpc(id) ==
  /\ PromiseCreate(id, RootTags, RootTimeout, now)
  /\ UNCHANGED <<runs, batch, held, waits>>

BeginRun(g, id) ==
  /\ runs[g].stage = "idle"
  /\ \/ TaskCreateAcquired(id, RootTags, RootTimeout, ClientPid, Ttl, now)
     \/ TaskCreateReacquire(id, ClientPid, Ttl, now)
  /\ StartRun(g, id, tasks'[id].version)
  /\ UNCHANGED <<batch, waits>>

\* A claim no fiber works on: the client has no co-located worker, or is not
\* told of its claim.
BeginRunLost(id) ==
  /\ now < LoneBefore \/ MayFail
  /\ \/ TaskCreateAcquired(id, RootTags, RootTimeout, ClientPid, Ttl, now)
     \/ TaskCreateReacquire(id, ClientPid, Ttl, now)
  /\ UNCHANGED <<runs, batch, held, waits>>

BeginRunExpired(id) ==
  /\ TaskCreateExpired(id, RootTags, RootTimeout, now)
  /\ UNCHANGED <<runs, batch, held, waits>>

\* client.resolve and client.reject on an external promise of some handler.
SettleExternal(c, outcome) ==
  /\ \E id \in Ids : \E k \in DOMAIN Script[id] :
       Script[id][k].op = "promise" /\ Script[id][k].child = c
  /\ PromiseSettle(c, outcome, now)
  /\ UNCHANGED <<runs, batch, held, waits>>

\* client.cancel and the cancel of a client's handle, of any id: a root, a
\* call or a local step, whether it runs or not.
ClientCancel(c) ==
  /\ c \in Cancellable
  /\ PromiseSettle(c, "rejected_canceled", now)
  /\ UNCHANGED <<runs, batch, held, waits>>

\* handle.await of a client.
AwaitSettled(a) ==
  /\ WaiterNext(a)
  /\ UNCHANGED <<runs, batch, held>>

\* A worker process stops without releasing its claims and starts again.
Restart(w) ==
  /\ now < CrashBefore
  /\ runs' = Fiberless(w)
  /\ held' = [held EXCEPT ![w] = [id \in Ids |-> NotSet]]
  /\ batch' = [batch EXCEPT ![w] = {}]
  /\ runs' # runs \/ batch' # batch
  /\ UNCHANGED <<server, waits>>

ServerTick == Tick(now) /\ UNCHANGED <<runs, batch, held, waits>>
\* A heartbeat is sent every half lease: where it is never late, the clock
\* does not pass the end of a lease it extends.
ClockMoves ==
  /\ HeartbeatsOnTime =>
       \A w \in Workers, id \in Ids :
         Gate(id, held[w][id], now) => taskTimeouts[id].at > now + 1
  /\ Advance
  /\ UNCHANGED <<runs, batch, held, waits>>

FiberNext(f) ==
  \/ EngineNext(f) /\ UNCHANGED <<batch, held, waits>>
  \/ Suspend(f)
  \/ SuspendStartsOver(f)
  \/ SuspendFails(f)
  \/ Release(f)
  \/ Close(f)

LoopNext(w) ==
  \/ TakeChunk(w)
  \/ NextMessage(w)
  \/ Acquire(w)
  \/ AcquireFails(w)

ClientNext ==
  \/ \E id \in Roots : BeginRpc(id)
  \/ \E id \in Roots : BeginRunLost(id)
  \/ \E id \in Roots, g \in Guests : BeginRun(g, id) \/ BeginRunExpired(id)
  \/ \E c \in Ids, outcome \in Outcomes : SettleExternal(c, outcome)
  \/ \E c \in Ids : ClientCancel(c)

WorkerNext ==
  \/ \E f \in Fibers : FiberNext(f)
  \/ \E w \in Workers : LoopNext(w) \/ Heartbeat(w) \/ Restart(w)
  \/ ClientNext
  \/ \E a \in Waiters : AwaitSettled(a)
  \/ ServerTick
  \/ ClockMoves

WorkerSpec == WorkerInit /\ [][WorkerNext]_system

\* Every fiber takes its next step, the heartbeat and the tick keep running,
\* time passes.  Clients and processes that stop owe nothing.
FairWorkerSpec ==
  /\ WorkerSpec
  /\ \A f \in Fibers : WF_system(FiberNext(f))
  /\ \A w \in Workers : WF_system(LoopNext(w)) /\ WF_system(Heartbeat(w))
  /\ \A a \in Waiters : WF_system(AwaitSettled(a))
  /\ WF_system(ServerTick)
  /\ WF_system(ClockMoves)

-----------------------------------------------------------------------------
(* Properties. *)

\* Runs and the held map hold values of their types.
WorkerTypeOK ==
  /\ EngineTypeOK
  /\ waits \in [Waiters -> Waiting]
  /\ batch \in [Workers -> SUBSET Message]
  /\ held \in [Workers -> [Ids -> Nat \cup {NotSet}]]

Claimed(f) == runs[f].stage \notin {"idle", "claiming"}

\* No claim is heartbeated that no fiber of the process runs: a claim nobody
\* works on is not kept from the other workers.
HeldIsRun ==
  \A w \in Workers, id \in Ids : held[w][id] # NotSet =>
    \E f \in Fibers : /\ Process(f) = w /\ Claimed(f)
                      /\ runs[f].task = id /\ runs[f].version = held[w][id]

\* Every current claim that a fiber of the process works on is heartbeated:
\* the list the process sends is the list of its real claims.
RunIsHeld ==
  \A f \in Fibers : Claimed(f) /\ runs[f].stage # "closing" /\ Holds(f) =>
    held[Process(f)][runs[f].task] = runs[f].version

\* Of all the fibers that believe they hold a task, in every process and in
\* every client, at most one passes the fence.
OneHolder ==
  \A f, g \in Fibers :
    /\ Claimed(f) /\ Claimed(g) /\ runs[f].task = runs[g].task
    /\ Holds(f) /\ Holds(g)
    => f = g

\* The effect of a local step only starts under a current claim if no earlier
\* run has recorded its outcome: the step is pending then, or a client has
\* cancelled it while the run was told that it is pending.  A step past its
\* deadline is not settled by the tick, so what is not pending has been recorded.
NoRepeatedStep ==
  [][\A f \in Fibers, c \in Ids :
       /\ Holds(f)
       /\ runs[f].handle[c] \notin {"running", "waiting"}
       /\ runs'[f].handle[c] = "running"
       => \/ promises'[c].state = "pending"
          \/ /\ runs[f].cache[c] = "pending"
             /\ c \in Cancellable
             /\ promises'[c].state = "rejected_canceled"]_<<server, runs>>

\* Every run ends: a refused request stops the claim (docs/DESIGN.md:695), the
\* engine returns and the loop takes the next message.
RunsEnd == \A f \in Fibers : Claimed(f) ~> ~Claimed(f)

\* Every invocation is executed to its end by the workers, through every
\* suspension, lost message and restart; an invocation that sleeps past the
\* end of the bounded clock is still asleep there.
AsleepAtTheBound == \E c \in Ids :
  promises[c].state = "pending" /\ promises[c].tags.timer
                                /\ promises[c].timeoutAt > MaxTime
Executed == \A id \in Roots :
  (promises[id].state = "pending") ~>
    (promises[id].state = "resolved" \/ AsleepAtTheBound)
==============================================================================
