-------------------------- MODULE WorkerMoves_proofs --------------------------
(***************************************************************************)
(* What the fibers of Worker make of their claims: which run is whose, for  *)
(* every number of workers, clients, faults and restarts, and for every     *)
(* script.                                                                 *)
(***************************************************************************)
EXTENDS Worker, DurablePromises_proofs

-----------------------------------------------------------------------------
(* Runs by their fields.  The prover knows nothing of exponentiation, so the *)
(* time of a retry is only known to be a pause after some time.              *)

Moment ==
  Int \cup {t + RetryNext(LocalStep(id, c).policy, n) :
              t \in Int, id \in Ids, c \in Ids, n \in Nat}
HandleStates == {"none", "running", "waiting", "lost"} \cup PromiseStates
RunShape ==
  [stage : Stages, task : Ids \cup {NoId}, version : Int, pc : Nat \ {0},
   cache : [Ids -> PromiseStates], handle : [Ids -> HandleStates],
   attempt : [Ids -> Nat], retryAt : [Ids -> Moment],
   attached : SUBSET Ids, awaited : SUBSET Ids,
   exit : {"none", "suspended", "failed"}]
\* The forked fibers of a run end before its handler stage does.
Quiet(run) ==
  run.stage # "handler" => \A c \in Ids : run.handle[c] \notin {"running", "waiting"}
Shape ==
  /\ runs \in [Fibers -> RunShape]
  /\ \A f \in Fibers : Quiet(runs[f])
  /\ \A f \in Fibers : runs[f].stage # "idle" => runs[f].task \in Ids
  /\ batch \in [Workers -> SUBSET Message]
  /\ held \in [Workers -> [Ids -> Nat \cup {NotSet}]]

Under(run) == run.stage \notin {"idle", "claiming"}

LEMMA ShapeOf ==
  ASSUME Shape, NEW f \in Fibers
  PROVE  /\ runs[f] \in RunShape
         /\ Claimed(f) <=> Under(runs[f])
         /\ runs[f].stage # "idle" => runs[f].task \in Ids
         /\ Quiet(runs[f])
  BY DEF Shape, Claimed, Under

LEMMA NoRunShape == NoRun \in RunShape /\ ~Under(NoRun) /\ Quiet(NoRun)
  BY EngineAssumption DEF NoRun, RunShape, Stages, HandleStates, PromiseStates,
     Moment, NotSet, Under, Quiet

LEMMA ProcessIsWorker ==
  ASSUME NEW f \in Fibers
  PROVE  Process(f) \in Workers
  BY WorkerAssumption DEF Process

\* The step a handler is at, and the call that makes a local step.
LEMMA StepType ==
  ASSUME Shape, NEW f \in Fibers, NEW ops, AtStep(f, ops)
  PROVE  /\ StepOf(f) \in Step
         /\ StepOf(f).op \in ops
         /\ runs[f].task \in Ids
  <1>1. runs[f] \in RunShape /\ runs[f].task \in Ids
    BY ShapeOf DEF AtStep
  <1>2. Script[runs[f].task] \in Seq(Step)
    BY <1>1, EngineAssumption
  <1>3. runs[f].pc \in 1..Len(Script[runs[f].task])
    BY <1>1, <1>2 DEF AtStep, Exited, RunShape
  <1>4. QED
    BY <1>1, <1>2, <1>3 DEF StepOf, AtStep

LEMMA LocalStepType ==
  ASSUME NEW id \in Ids, NEW c \in Locals(id)
  PROVE  LocalStep(id, c) \in Step
  <1>1. Script[id] \in Seq(Step)
    BY EngineAssumption
  <1>2. \E k \in DOMAIN Script[id] : Script[id][k].op = "run" /\ Script[id][k].child = c
    BY DEF Locals
  <1>3. \A k \in DOMAIN Script[id] : Script[id][k] \in Step
    BY <1>1
  <1>4. QED
    BY <1>2, <1>3 DEF LocalStep

LEMMA TagsOfSteps ==
  ASSUME NEW op \in Creates
  PROVE  StepTags(op) \in Tags
  <1>1. NoTags \in Tags
    BY DEF NoTags, Tags, NotSet
  <1>2. CASE op = "run"
    BY <1>1, <1>2 DEF StepTags
  <1>3. CASE op \in {"rpc", "detached"}
    BY <1>1, <1>3 DEF StepTags, Tags
  <1>4. CASE op = "sleep"
    BY <1>1, <1>4 DEF StepTags, Tags
  <1>5. CASE op = "promise"
    BY <1>1, <1>5 DEF StepTags, Tags
  <1>6. QED
    BY <1>2, <1>3, <1>4, <1>5 DEF Creates

-----------------------------------------------------------------------------
(* Every step of the composition is one request to the server, a tick or    *)
(* time that passes.                                                        *)

\* A step that leaves the server alone.
LEMMA ServerLeftAlone ==
  ASSUME UNCHANGED server
  PROVE  Served
  BY NothingIsServed DEF server, vars

LEMMA FencedCreateServed ==
  ASSUME MInv, Shape, NEW f \in Fibers, AtStep(f, Creates), FencedCreate(f)
  PROVE  Served
  <1>1. /\ StepOf(f).op \in Creates /\ StepOf(f).child \in Ids
        /\ StepOf(f).duration \in Nat /\ runs[f].task \in Ids
    BY StepType DEF Step
  <1>2. ClampedTimeout(runs[f].task, StepOf(f)) \in Int
    <2>1. promises[runs[f].task].timeoutAt \in Int /\ now \in Int
      BY <1>1 DEF MInv, IInv, TypeOK, Promise
    <2>2. QED
      BY <1>1, <2>1 DEF ClampedTimeout
  <1>3. StepTags(StepOf(f).op) \in Tags
    BY <1>1, TagsOfSteps
  <1>4. QED
    BY <1>1, <1>2, <1>3, ServerLeftAlone
    DEF FencedCreate, TaskFenceCreate, Served, Requested, Stores

LEMMA FencedSettleServed ==
  ASSUME NEW f \in Fibers, NEW c \in Ids, NEW outcome \in SettledStates,
         FencedSettle(f, c, outcome)
  PROVE  Served
  BY ServerLeftAlone
  DEF FencedSettle, TaskFenceSettle, PromiseSettle, Served, Requested

LEMMA CancelServed ==
  ASSUME Shape, NEW f \in Fibers, AtStep(f, {"cancel"}),
         FencedSettle(f, StepOf(f).child, "rejected_canceled")
  PROVE  Served
  BY StepType, FencedSettleServed DEF Step, SettledStates

LEMMA FulfilServed ==
  ASSUME Shape, NEW f \in Fibers, runs[f].stage = "finishing", Fulfil(f)
  PROVE  Served
  <1>1. runs[f].task \in Ids
    BY ShapeOf
  <1>2. (IF runs[f].exit = "failed" THEN "rejected" ELSE "resolved") \in SettledStates
    BY DEF SettledStates
  <1>3. QED
    BY <1>1, <1>2 DEF Fulfil, TaskFulfill, Gate, Served, Requested

LEMMA SettledAsType ==
  ASSUME NEW outcome
  PROVE  SettledAs(outcome) \in SettledStates
  BY DEF SettledAs, SettledStates

LEMMA EngineServed ==
  ASSUME MInv, Shape, NEW f \in Fibers, EngineNext(f)
  PROVE  Served
  <1>1. CASE OpenFenced(f)
    BY <1>1, FencedCreateServed DEF OpenFenced
  <1>2. CASE CancelFenced(f)
    BY <1>2, CancelServed DEF CancelFenced
  <1>3. CASE FenceUnanswered(f)
    <2>1. CASE UNCHANGED server
      BY <2>1, ServerLeftAlone
    <2>2. CASE StepOf(f).op = "cancel" /\ FencedSettle(f, StepOf(f).child, "rejected_canceled")
      BY <1>3, <2>2, CancelServed DEF FenceUnanswered, SendsFence, AtStep, StepOf
    <2>3. CASE StepOf(f).op # "cancel" /\ FencedCreate(f)
      BY <1>3, <2>3, FencedCreateServed DEF FenceUnanswered, SendsFence, AtStep, StepOf
    <2>4. QED
      BY <1>3, <2>1, <2>2, <2>3 DEF FenceUnanswered
  <1>4. ASSUME NEW c \in Ids, NEW outcome,
               LocalSettles(f, c, outcome) \/ LocalLost(f, c, outcome)
        PROVE  Served
    BY <1>4, SettledAsType, FencedSettleServed, ServerLeftAlone
    DEF LocalSettles, LocalLost
  <1>5. CASE Finish(f) \/ FinishFails(f)
    BY <1>5, FulfilServed, ServerLeftAlone DEF Finish, FinishFails
  <1>6. CASE \/ OpenCached(f) \/ FenceRefused(f) \/ AwaitHandles(f)
             \/ (\E c \in Ids : LocalRetries(f, c) \/ NextAttempt(f, c))
             \/ Drain(f)
    BY <1>6, ServerLeftAlone
    DEF OpenCached, FenceRefused, AwaitHandles, LocalRetries, NextAttempt, Drain
  <1>7. QED
    BY <1>1, <1>2, <1>3, <1>4, <1>5, <1>6 DEF EngineNext

LEMMA SuspendServed ==
  ASSUME Shape, NEW f \in Fibers, runs[f].stage = "suspending",
         \/ TaskSuspend(runs[f].task, runs[f].version, Awaits(f), now)
         \/ TaskSuspendRefused(runs[f].task, runs[f].version, Awaits(f), now)
  PROVE  Served
  <1>1. runs[f].task \in Ids /\ Awaits(f) \in SUBSET Ids
    BY ShapeOf DEF Awaits, RunShape
  <1>2. QED
    BY <1>1 DEF Served, Requested

LEMMA FiberServed ==
  ASSUME MInv, Shape, NEW f \in Fibers, FiberNext(f)
  PROVE  Served
  <1>1. CASE EngineNext(f)
    BY <1>1, EngineServed
  <1>2. CASE Suspend(f) \/ SuspendStartsOver(f) \/ SuspendFails(f)
    BY <1>2, SuspendServed, ServerLeftAlone DEF Suspend, SuspendStartsOver, SuspendFails
  <1>3. CASE Release(f)
    <2>1. runs[f].task \in Ids
      BY <1>3, ShapeOf DEF Release
    <2>2. QED
      BY <1>3, <2>1, ServerLeftAlone DEF Release, Served, Requested
  <1>4. CASE Close(f)
    BY <1>4, ServerLeftAlone DEF Close
  <1>5. QED
    BY <1>1, <1>2, <1>3, <1>4 DEF FiberNext

LEMMA AcquireServed ==
  ASSUME NEW id \in Ids, NEW version, NEW w \in Workers,
         TaskAcquire(id, version, w, Ttl, now)
  PROVE  Served
  BY WorkerAssumption DEF TaskAcquire, Served, Requested

LEMMA LoopServed ==
  ASSUME Shape, NEW w \in Workers, LoopNext(w)
  PROVE  Served
  <1>1. w \in Fibers
    BY WorkerAssumption
  <1>2. CASE TakeChunk(w)
    BY <1>2 DEF TakeChunk, Served, Passes
  <1>3. CASE NextMessage(w)
    BY <1>3, ServerLeftAlone DEF NextMessage
  <1>4. CASE Acquire(w) \/ AcquireFails(w)
    BY <1>1, <1>4, ShapeOf, AcquireServed, ServerLeftAlone DEF Acquire, AcquireFails
  <1>5. QED
    BY <1>2, <1>3, <1>4 DEF LoopNext

LEMMA HeartbeatServed ==
  ASSUME Shape, NEW w \in Workers, Heartbeat(w)
  PROVE  Served
  <1>1. HeldPairs(w) \in SUBSET (Ids \X Int)
    BY DEF Shape, HeldPairs
  <1>2. QED
    BY <1>1, WorkerAssumption DEF Heartbeat, Served, Beats

LEMMA TaskCreateServed ==
  ASSUME NEW id \in Ids,
         \/ TaskCreateAcquired(id, RootTags, RootTimeout, ClientPid, Ttl, now)
         \/ TaskCreateReacquire(id, ClientPid, Ttl, now)
         \/ TaskCreateExpired(id, RootTags, RootTimeout, now)
         \/ PromiseCreate(id, RootTags, RootTimeout, now)
  PROVE  Served
  <1>1. RootTags \in Tags
    <2>1. NoTags \in Tags
      BY DEF NoTags, NotSet, Tags
    <2>2. QED
      BY <2>1 DEF RootTags, Tags
  <1>2. RootTimeout \in Int /\ ClientPid \in Pids /\ Ttl \in Ttls
    BY WorkerAssumption
  <1>3. QED
    BY <1>1, <1>2 DEF TaskCreateReacquire, Served, Requested, Stores

LEMMA ClientServed ==
  ASSUME ClientNext
  PROVE  Served
  <1>1. Roots \subseteq Ids /\ Outcomes \subseteq SettledStates
    BY WorkerAssumption, ServerAssumption
  <1>2. ASSUME NEW id \in Ids, NEW g \in Guests,
               BeginRpc(id) \/ BeginRunLost(id) \/ BeginRun(g, id) \/ BeginRunExpired(id)
        PROVE  Served
    BY <1>2, TaskCreateServed DEF BeginRpc, BeginRunLost, BeginRun, BeginRunExpired
  <1>3. ASSUME NEW id \in Ids, BeginRpc(id) \/ BeginRunLost(id)
        PROVE  Served
    BY <1>3, TaskCreateServed DEF BeginRpc, BeginRunLost
  <1>4. ASSUME NEW c \in Ids, NEW outcome \in Outcomes, SettleExternal(c, outcome)
        PROVE  Served
    BY <1>1, <1>4 DEF SettleExternal, PromiseSettle, Served, Requested
  <1>5. ASSUME NEW c \in Ids, ClientCancel(c)
        PROVE  Served
    <2>1. "rejected_canceled" \in SettledStates
      BY DEF SettledStates
    <2>2. QED
      BY <1>5, <2>1 DEF ClientCancel, PromiseSettle, Served, Requested
  <1>6. QED
    BY <1>1, <1>2, <1>3, <1>4, <1>5 DEF ClientNext

LEMMA WorkerServed ==
  ASSUME MInv, Shape, [WorkerNext]_system
  PROVE  Served
  <1>1. ASSUME NEW f \in Fibers, FiberNext(f)
        PROVE  Served
    BY <1>1, FiberServed
  <1>2. ASSUME NEW w \in Workers, LoopNext(w) \/ Heartbeat(w) \/ Restart(w)
        PROVE  Served
    BY <1>2, LoopServed, HeartbeatServed, ServerLeftAlone DEF Restart
  <1>3. CASE ClientNext
    BY <1>3, ClientServed
  <1>4. ASSUME NEW a \in Waiters, AwaitSettled(a)
        PROVE  Served
    BY <1>4, WaiterServed DEF AwaitSettled
  <1>5. CASE ServerTick
    BY <1>5 DEF ServerTick, Served
  <1>6. CASE ClockMoves
    <2>1. Passes
      BY <1>6 DEF ClockMoves, Advance, mail, Passes
    <2>2. QED
      BY <2>1 DEF Served
  <1>7. CASE UNCHANGED system
    <2>1. UNCHANGED server
      BY <1>7 DEF system, server
    <2>2. QED
      BY <2>1, ServerLeftAlone
  <1>8. QED
    BY <1>1, <1>2, <1>3, <1>4, <1>5, <1>6, <1>7 DEF WorkerNext

-----------------------------------------------------------------------------
(* The moves of a run.                                                      *)

\* A state a run learns of c is the stored one or the projected one.
Learned(c, state) ==
  state = promises'[c].state \/ state = Projected(promises'[c], now).state
CacheMoves(f, c) ==
  \/ runs'[f].cache[c] \in {runs[f].cache[c], "absent"}
  \/ Learned(c, runs'[f].cache[c])
HandleMoves(f, c) ==
  \/ runs'[f].handle[c] = runs[f].handle[c]
  \/ runs'[f].handle[c] \in {"none", "running", "waiting", "lost"}
  \/ runs'[f].handle[c] = runs[f].cache[c]
  \/ Learned(c, runs'[f].handle[c])
BudgetOf(f, c) == Budget(LocalStep(runs[f].task, c).policy)
AttemptMoves(f, c) ==
  \/ /\ runs'[f].attempt[c] = runs[f].attempt[c]
     /\ \/ runs'[f].handle[c] # "waiting"
        \/ runs'[f].handle[c] = runs[f].handle[c]
        \/ runs[f].attempt[c] <= BudgetOf(f, c)
  \/ /\ runs'[f].attempt[c] \in {0, 1}
     /\ runs'[f].handle[c] # "waiting"
  \/ /\ runs[f].handle[c] = "waiting" /\ runs'[f].handle[c] = "running"
     /\ runs'[f].attempt[c] = runs[f].attempt[c] + 1

Alone(f) ==
  /\ runs' \in [Fibers -> RunShape]
  /\ \A g \in Fibers \ {f} : runs'[g] = runs[g]
SameClaim(f) ==
  /\ Under(runs[f]) /\ Under(runs'[f])
  /\ runs'[f].task = runs[f].task
  /\ runs'[f].version = runs[f].version
Proceeds(f) ==
  /\ Alone(f)
  /\ SameClaim(f) /\ Quiet(runs'[f])
  /\ \A c \in Ids : CacheMoves(f, c) /\ HandleMoves(f, c)
  /\ \A c \in Locals(runs[f].task) : AttemptMoves(f, c)

LEMMA LocalsAreIds ==
  ASSUME NEW id \in Ids
  PROVE  Locals(id) \subseteq Ids
  <1>1. \A k \in DOMAIN Script[id] : Script[id][k] \in Step
    BY EngineAssumption
  <1>2. QED
    BY <1>1 DEF Locals, Step

\* Only the run of one fiber is written.
LEMMA AloneWith ==
  ASSUME Shape, NEW f \in Fibers, NEW r \in RunShape,
         runs' = [runs EXCEPT ![f] = r]
  PROVE  Alone(f) /\ runs'[f] = r
  BY DEF Alone, Shape

\* A run whose children are left alone.
LEMMA SameChildrenProceeds ==
  ASSUME Shape, NEW f \in Fibers, Alone(f), SameClaim(f),
         runs'[f].cache = runs[f].cache, runs'[f].handle = runs[f].handle,
         runs'[f].attempt = runs[f].attempt, Quiet(runs'[f])
  PROVE  Proceeds(f)
  BY DEF Proceeds, CacheMoves, HandleMoves, AttemptMoves

LEMMA FenceFailureProceeds ==
  ASSUME Shape, NEW f \in Fibers, runs[f].stage = "handler", HandlerFails(f)
  PROVE  Proceeds(f)
  <1>1. runs[f] \in RunShape
    BY ShapeOf
  <1>2. Alone(f)
    BY <1>1 DEF Shape, HandlerFails, Alone, RunShape
  <1>3. QED
    BY <1>1, <1>2, SameChildrenProceeds
    DEF Shape, HandlerFails, SameClaim, Under, RunShape, Quiet

\* What is written of one child has its type.
LEMMA ChildFields ==
  ASSUME NEW run \in RunShape, NEW c \in Ids, NEW h \in HandleStates, NEW n \in Nat,
         NEW m \in Moment
  PROVE  /\ [run.handle EXCEPT ![c] = h] \in [Ids -> HandleStates]
         /\ [run.attempt EXCEPT ![c] = n] \in [Ids -> Nat]
         /\ [run.retryAt EXCEPT ![c] = m] \in [Ids -> Moment]
         /\ run.attempt[c] \in Nat /\ run.attempt[c] + 1 \in Nat
  BY DEF RunShape

LEMMA NextAttemptProceeds ==
  ASSUME Shape, NEW f \in Fibers, NEW c \in Ids, runs[f].stage = "handler",
         NextAttempt(f, c)
  PROVE  Proceeds(f)
  <1> DEFINE r == [runs[f] EXCEPT !.handle[c] = "running", !.attempt[c] = @ + 1,
                                  !.retryAt[c] = NotSet]
  <1>1. runs[f] \in RunShape
    BY ShapeOf
  <1>2. r \in RunShape
    <2>1. "running" \in HandleStates /\ NotSet \in Moment
      BY DEF HandleStates, Moment, NotSet
    <2>2. QED
      BY <1>1, <2>1, ChildFields DEF RunShape
  <1>3. runs' = [runs EXCEPT ![f] = r]
    BY <1>1 DEF NextAttempt, Shape, RunShape
  <1>4. Alone(f) /\ runs'[f] = r
    BY <1>2, <1>3, AloneWith
  <1>5. SameClaim(f)
    BY <1>1, <1>4 DEF SameClaim, Under, RunShape
  <1>6. /\ runs'[f].cache = runs[f].cache
        /\ runs'[f].handle = [runs[f].handle EXCEPT ![c] = "running"]
        /\ runs'[f].attempt = [runs[f].attempt EXCEPT ![c] = @ + 1]
    BY <1>1, <1>4 DEF RunShape
  <1>7. \A d \in Ids : CacheMoves(f, d) /\ HandleMoves(f, d)
    BY <1>1, <1>6 DEF CacheMoves, HandleMoves, RunShape
  <1>8. \A d \in Ids : AttemptMoves(f, d)
    BY <1>1, <1>6 DEF AttemptMoves, RunShape, NextAttempt
  <1>9. QED
    BY <1>1, <1>4, <1>5, <1>7, <1>8, ShapeOf, LocalsAreIds DEF Proceeds, Quiet

LEMMA NextPc ==
  ASSUME NEW run \in RunShape
  PROVE  run.pc + 1 \in Nat \ {0}
  BY DEF RunShape

\* The attempt a step opens with, and the calls that are attached then.
FirstAttempt(step, state) == IF HandleOf(step.op, state) = "running" THEN 1 ELSE 0
AttachedWith(run, step, state) ==
  IF step.op \in {"rpc", "promise"} /\ state = "pending"
  THEN run.attached \cup {step.child} ELSE run.attached

\* What opening a child leaves in every field of the run.
OpenedAs(r, run, step, state) ==
  /\ r \in RunShape
  /\ r.stage = run.stage /\ r.task = run.task /\ r.version = run.version
  /\ r.cache = run.cache
  /\ r.handle = [run.handle EXCEPT ![step.child] = HandleOf(step.op, state)]
  /\ r.attempt = [run.attempt EXCEPT ![step.child] = FirstAttempt(step, state)]
  /\ r.pc = run.pc + 1 /\ r.retryAt = run.retryAt
  /\ r.exit = run.exit /\ r.awaited = run.awaited
  /\ r.attached = AttachedWith(run, step, state)

LEMMA OpenedFields ==
  ASSUME NEW run \in RunShape, NEW step \in Step, NEW state \in PromiseStates
  PROVE  OpenedAs(Opened(run, step, state), run, step, state)
  <1> DEFINE h == HandleOf(step.op, state)
             n == FirstAttempt(step, state)
             A == AttachedWith(run, step, state)
             r == [run EXCEPT !.pc = @ + 1, !.handle[step.child] = h,
                              !.attempt[step.child] = n, !.attached = A]
  <1>1. step.child \in Ids
    BY DEF Step
  <1>2. h \in HandleStates
    BY DEF HandleOf, HandleStates
  <1>3. n \in Nat
    BY DEF FirstAttempt
  <1>4. A \in SUBSET Ids
    BY <1>1 DEF RunShape, AttachedWith
  <1>5. Opened(run, step, state) = r
    BY DEF Opened, RunShape, FirstAttempt, AttachedWith
  <1>6. run.pc + 1 \in Nat \ {0}
    BY NextPc
  <1>7. /\ [run.handle EXCEPT ![step.child] = h] \in [Ids -> HandleStates]
        /\ [run.attempt EXCEPT ![step.child] = n] \in [Ids -> Nat]
    BY <1>1, <1>2, <1>3 DEF RunShape
  <1> HIDE DEF h, n, A
  <1>8. /\ r \in RunShape
        /\ r.stage = run.stage /\ r.task = run.task /\ r.version = run.version
        /\ r.cache = run.cache
        /\ r.handle = [run.handle EXCEPT ![step.child] = h]
        /\ r.attempt = [run.attempt EXCEPT ![step.child] = n]
        /\ r.pc = run.pc + 1 /\ r.retryAt = run.retryAt
        /\ r.exit = run.exit /\ r.awaited = run.awaited /\ r.attached = A
    BY <1>4, <1>6, <1>7 DEF RunShape
  <1> HIDE DEF r
  <1>9. OpenedAs(r, run, step, state)
    BY <1>8 DEF OpenedAs, h, n, A
  <1>10. QED
    BY <1>5, <1>9

LEMMA OpenedRun ==
  ASSUME NEW run \in RunShape, NEW step \in Step, NEW state \in PromiseStates
  PROVE  LET r == Opened(run, step, state)
         IN  /\ r \in RunShape
             /\ r.stage = run.stage /\ r.task = run.task /\ r.version = run.version
             /\ r.cache = run.cache
             /\ r.handle = [run.handle EXCEPT ![step.child] = HandleOf(step.op, state)]
             /\ \E n \in {0, 1} : r.attempt = [run.attempt EXCEPT ![step.child] = n]
  <1> DEFINE r == Opened(run, step, state)
             n == FirstAttempt(step, state)
  <1>1. n \in {0, 1}
    BY DEF FirstAttempt
  <1>2. /\ r \in RunShape
        /\ r.stage = run.stage /\ r.task = run.task /\ r.version = run.version
        /\ r.cache = run.cache
        /\ r.handle = [run.handle EXCEPT ![step.child] = HandleOf(step.op, state)]
        /\ r.attempt = [run.attempt EXCEPT ![step.child] = n]
    BY OpenedFields DEF OpenedAs
  <1> HIDE DEF r, n
  <1>3. QED
    BY <1>1, <1>2 DEF r

\* A run that opens a child on a cache it has learned something for.
LEMMA OpeningProceeds ==
  ASSUME Shape, NEW f \in Fibers, runs[f].stage = "handler", NEW step \in Step,
         NEW known \in [Ids -> PromiseStates], NEW state \in PromiseStates,
         \A c \in Ids : known[c] = runs[f].cache[c] \/ Learned(c, known[c]),
         state = runs[f].cache[step.child] \/ Learned(step.child, state),
         runs' = [runs EXCEPT ![f] =
                    Opened([runs[f] EXCEPT !.cache = known], step, state)]
  PROVE  Proceeds(f)
  <1> DEFINE run == [runs[f] EXCEPT !.cache = known]
             r == Opened(run, step, state)
  <1>1. runs[f] \in RunShape /\ runs[f].task \in Ids
    BY ShapeOf
  <1>2. /\ run \in RunShape /\ run.cache = known /\ run.handle = runs[f].handle
        /\ run.attempt = runs[f].attempt /\ run.stage = runs[f].stage
        /\ run.task = runs[f].task /\ run.version = runs[f].version
    BY <1>1 DEF RunShape
  <1> HIDE DEF run
  <1>3. /\ r \in RunShape
        /\ r.stage = run.stage /\ r.task = run.task /\ r.version = run.version
        /\ r.cache = run.cache
        /\ r.handle = [run.handle EXCEPT ![step.child] = HandleOf(step.op, state)]
        /\ \E n \in {0, 1} : r.attempt = [run.attempt EXCEPT ![step.child] = n]
    BY <1>2, OpenedRun
  <1>4. runs' = [runs EXCEPT ![f] = r]
    BY DEF run
  <1> HIDE DEF r
  <1>5. Alone(f) /\ runs'[f] = r
    BY <1>3, <1>4, AloneWith
  <1>6. SameClaim(f)
    BY <1>2, <1>3, <1>5 DEF SameClaim, Under
  <1>7. HandleOf(step.op, state) \in {"running", state}
    BY DEF HandleOf
  <1>8. \A c \in Ids : CacheMoves(f, c) /\ HandleMoves(f, c)
    BY <1>1, <1>2, <1>3, <1>5, <1>7 DEF CacheMoves, HandleMoves, RunShape
  <1>9. HandleOf(step.op, state) # "waiting"
    BY DEF HandleOf, PromiseStates, SettledStates
  <1>10. \A c \in Ids : AttemptMoves(f, c)
    <2>1. PICK n \in {0, 1} : r.attempt = [run.attempt EXCEPT ![step.child] = n]
      BY <1>3
    <2>2. QED
      BY <1>1, <1>2, <1>3, <1>5, <1>9, <2>1 DEF AttemptMoves, RunShape
  <1>11. QED
    BY <1>1, <1>2, <1>3, <1>5, <1>6, <1>8, <1>10, LocalsAreIds DEF Proceeds, Quiet

\* What a fence answers with is what the step left in the store.
LEMMA StatesAfter ==
  ASSUME MInv', NEW c \in Ids
  PROVE  /\ promises'[c].state \in PromiseStates
         /\ Projected(promises'[c], now).state \in PromiseStates
  <1>1. promises'[c] \in Promise
    BY DEF MInv, IInv, TypeOK
  <1>2. TimedOutState(promises'[c].tags) \in PromiseStates
    BY DEF TimedOutState, PromiseStates, SettledStates
  <1>3. QED
    BY <1>1, <1>2 DEF Promise, Projected

LEMMA CachedLearns ==
  ASSUME MInv', NEW run \in RunShape, NEW c \in Ids
  PROVE  LET known == Cached(run, c, Projected(promises'[c], now).state, promises')
         IN  /\ known \in [Ids -> PromiseStates]
             /\ \A d \in Ids : known[d] = run.cache[d] \/ Learned(d, known[d])
  <1> DEFINE known == Cached(run, c, Projected(promises'[c], now).state, promises')
  <1>1. \A d \in Ids : known[d] = run.cache[d] \/ Learned(d, known[d])
    BY DEF Cached, Preload, Learned
  <1>2. \A d \in Ids : run.cache[d] \in PromiseStates
    BY DEF RunShape
  <1>3. \A d \in Ids : known[d] \in PromiseStates
    BY <1>1, <1>2, StatesAfter DEF Learned
  <1>4. known = [d \in Ids |-> known[d]]
    BY DEF Cached
  <1>5. QED
    BY <1>1, <1>3, <1>4

LEMMA OpenCachedProceeds ==
  ASSUME Shape, NEW f \in Fibers, OpenCached(f)
  PROVE  Proceeds(f)
  <1> DEFINE known == runs[f].cache
             step == StepOf(f)
  <1>1. /\ runs[f] \in RunShape /\ step \in Step /\ runs[f].stage = "handler"
        /\ step.child \in Ids
    BY ShapeOf, StepType DEF OpenCached, AtStep, Step
  <1>2. known \in [Ids -> PromiseStates] /\ known[step.child] \in PromiseStates
    BY <1>1 DEF RunShape
  <1>3. [runs[f] EXCEPT !.cache = known] = runs[f]
    BY <1>1 DEF RunShape
  <1>4. runs' = [runs EXCEPT ![f] = Opened(runs[f], step, known[step.child])]
    BY DEF OpenCached, Shape
  <1> HIDE DEF step, known
  <1>5. QED
    BY <1>1, <1>2, <1>3, <1>4, OpeningProceeds DEF known

LEMMA OpenFencedProceeds ==
  ASSUME Shape, MInv', NEW f \in Fibers, OpenFenced(f)
  PROVE  Proceeds(f)
  <1> DEFINE step == StepOf(f)
             state == Projected(promises'[step.child], now).state
             known == Cached(runs[f], step.child, state, promises')
  <1>1. /\ runs[f] \in RunShape /\ step \in Step /\ runs[f].stage = "handler"
        /\ step.child \in Ids
    BY ShapeOf, StepType DEF OpenFenced, AtStep, Step
  <1>2. /\ known \in [Ids -> PromiseStates]
        /\ \A d \in Ids : known[d] = runs[f].cache[d] \/ Learned(d, known[d])
    BY <1>1, CachedLearns
  <1>3. state \in PromiseStates /\ Learned(step.child, state)
    BY <1>1, StatesAfter DEF Learned
  <1>4. runs' = [runs EXCEPT ![f] =
                   Opened([runs[f] EXCEPT !.cache = known], step, state)]
    BY DEF OpenFenced
  <1> HIDE DEF step, known, state
  <1>5. QED
    BY <1>1, <1>2, <1>3, <1>4, OpeningProceeds

LEMMA CancelFencedProceeds ==
  ASSUME Shape, MInv', NEW f \in Fibers, CancelFenced(f)
  PROVE  Proceeds(f)
  <1> DEFINE c == StepOf(f).child
             known == Cached(runs[f], c, Projected(promises'[c], now).state, promises')
             r == [runs[f] EXCEPT !.pc = @ + 1, !.cache = known]
  <1>1. /\ runs[f] \in RunShape /\ runs[f].stage = "handler" /\ c \in Ids
        /\ runs[f].task \in Ids
    BY ShapeOf, StepType DEF CancelFenced, AtStep, Step
  <1>2. /\ known \in [Ids -> PromiseStates]
        /\ \A d \in Ids : known[d] = runs[f].cache[d] \/ Learned(d, known[d])
    BY <1>1, CachedLearns
  <1>3. runs' = [runs EXCEPT ![f] = r]
    BY <1>1 DEF CancelFenced, Shape, RunShape
  <1> HIDE DEF c, known
  <1>4. /\ r \in RunShape /\ r.cache = known /\ r.handle = runs[f].handle
        /\ r.attempt = runs[f].attempt /\ r.stage = runs[f].stage
        /\ r.task = runs[f].task /\ r.version = runs[f].version
    BY <1>1, <1>2, NextPc DEF RunShape
  <1> HIDE DEF r
  <1>5. Alone(f) /\ runs'[f] = r
    BY <1>3, <1>4, AloneWith
  <1>6. SameClaim(f)
    BY <1>1, <1>4, <1>5 DEF SameClaim, Under
  <1>7. \A d \in Ids : CacheMoves(f, d) /\ HandleMoves(f, d) /\ AttemptMoves(f, d)
    BY <1>2, <1>4, <1>5 DEF CacheMoves, HandleMoves, AttemptMoves
  <1>8. QED
    BY <1>1, <1>4, <1>5, <1>6, <1>7, LocalsAreIds DEF Proceeds, Quiet

LEMMA AwaitHandlesProceeds ==
  ASSUME Shape, NEW f \in Fibers, AwaitHandles(f)
  PROVE  Proceeds(f)
  <1>1. runs[f] \in RunShape /\ runs[f].stage = "handler"
    BY ShapeOf DEF AwaitHandles, AtStep
  <1>2. PICK r \in RunShape :
          /\ runs' = [runs EXCEPT ![f] = r]
          /\ r.stage = "handler" /\ r.task = runs[f].task
          /\ r.version = runs[f].version /\ r.cache = runs[f].cache
          /\ r.handle = runs[f].handle /\ r.attempt = runs[f].attempt
    <2>1. CASE runs' = [runs EXCEPT ![f].pc = @ + 1]
      <3> DEFINE r == [runs[f] EXCEPT !.pc = @ + 1]
      <3>1. r \in RunShape
        BY <1>1, NextPc DEF RunShape
      <3>2. QED
        BY <1>1, <2>1, <3>1 DEF Shape, RunShape
    <2>2. CASE runs' = [runs EXCEPT ![f].exit = "failed"]
      <3> DEFINE r == [runs[f] EXCEPT !.exit = "failed"]
      <3>1. r \in RunShape
        BY <1>1 DEF RunShape
      <3>2. QED
        BY <1>1, <2>2, <3>1 DEF Shape, RunShape
    <2>3. ASSUME NEW G \in SUBSET Ids,
                 runs' = [runs EXCEPT ![f].exit = "suspended", ![f].awaited = G]
          PROVE  \E r \in RunShape :
                   /\ runs' = [runs EXCEPT ![f] = r]
                   /\ r.stage = "handler" /\ r.task = runs[f].task
                   /\ r.version = runs[f].version /\ r.cache = runs[f].cache
                   /\ r.handle = runs[f].handle /\ r.attempt = runs[f].attempt
      <3> DEFINE r == [runs[f] EXCEPT !.exit = "suspended", !.awaited = G]
      <3>1. r \in RunShape
        BY <1>1 DEF RunShape
      <3>2. QED
        BY <1>1, <2>3, <3>1 DEF Shape, RunShape
    <2>4. In(runs[f], StepOf(f).group, {"pending"}) \in SUBSET Ids
      BY StepType DEF AwaitHandles, Step, In
    <2>5. QED
      BY <2>1, <2>2, <2>3, <2>4 DEF AwaitHandles
  <1>3. Alone(f) /\ runs'[f] = r
    BY <1>2, AloneWith
  <1>4. QED
    BY <1>1, <1>2, <1>3, SameChildrenProceeds DEF SameClaim, Under, Quiet

\* A run that only passes to another stage.
LEMMA StageProceeds ==
  ASSUME Shape, NEW f \in Fibers, Claimed(f),
         NEW stage \in Stages \ {"idle", "claiming"},
         \A c \in Ids : runs[f].handle[c] \notin {"running", "waiting"},
         runs' = [runs EXCEPT ![f].stage = stage]
  PROVE  Proceeds(f)
  <1> DEFINE r == [runs[f] EXCEPT !.stage = stage]
  <1>1. runs[f] \in RunShape /\ Under(runs[f])
    BY ShapeOf
  <1>2. runs' = [runs EXCEPT ![f] = r]
    BY <1>1 DEF Shape, RunShape
  <1>3. /\ r \in RunShape /\ Under(r)
        /\ r.task = runs[f].task /\ r.version = runs[f].version
        /\ r.cache = runs[f].cache
        /\ r.handle = runs[f].handle /\ r.attempt = runs[f].attempt
    BY <1>1 DEF RunShape, Under
  <1> HIDE DEF r
  <1>4. Alone(f) /\ runs'[f] = r
    BY <1>2, <1>3, AloneWith
  <1>5. QED
    BY <1>1, <1>3, <1>4, SameChildrenProceeds DEF SameClaim, Quiet

LEMMA LocalLostProceeds ==
  ASSUME Shape, NEW f \in Fibers, NEW c \in Ids, runs[f].stage = "handler",
         runs' = [runs EXCEPT ![f].handle[c] = "lost"]
  PROVE  Proceeds(f)
  <1> DEFINE r == [runs[f] EXCEPT !.handle[c] = "lost"]
  <1>1. runs[f] \in RunShape /\ runs[f].task \in Ids
    BY ShapeOf
  <1>2. runs' = [runs EXCEPT ![f] = r]
    BY <1>1 DEF Shape, RunShape
  <1>3. "lost" \in HandleStates
    BY DEF HandleStates
  <1>4. /\ r \in RunShape
        /\ r.stage = "handler" /\ r.task = runs[f].task
        /\ r.version = runs[f].version /\ r.cache = runs[f].cache
        /\ r.handle = [runs[f].handle EXCEPT ![c] = "lost"]
        /\ r.attempt = runs[f].attempt
    BY <1>1, <1>3, ChildFields DEF RunShape
  <1> HIDE DEF r
  <1>5. Alone(f) /\ runs'[f] = r
    BY <1>2, <1>4, AloneWith
  <1>6. \A d \in Ids : CacheMoves(f, d) /\ HandleMoves(f, d) /\ AttemptMoves(f, d)
    BY <1>1, <1>4, <1>5 DEF CacheMoves, HandleMoves, AttemptMoves, RunShape
  <1>7. QED
    BY <1>1, <1>4, <1>5, <1>6, LocalsAreIds
    DEF Proceeds, SameClaim, Under, Quiet

LEMMA LocalSettlesProceeds ==
  ASSUME Shape, MInv', NEW f \in Fibers, NEW c \in Ids, NEW outcome,
         runs[f].stage = "handler", LocalSettles(f, c, outcome)
  PROVE  Proceeds(f)
  <1> DEFINE state == Projected(promises'[c], now).state
             known == Cached(runs[f], c, state, promises')
             r == [runs[f] EXCEPT !.handle[c] = state, !.cache = known]
  <1>1. runs[f] \in RunShape /\ runs[f].task \in Ids
    BY ShapeOf
  <1>2. /\ known \in [Ids -> PromiseStates]
        /\ \A d \in Ids : known[d] = runs[f].cache[d] \/ Learned(d, known[d])
    BY <1>1, CachedLearns
  <1>3. /\ state \in PromiseStates /\ Learned(c, state)
        /\ state \in HandleStates /\ state # "waiting"
    BY StatesAfter DEF Learned, HandleStates, PromiseStates, SettledStates
  <1>4. runs' = [runs EXCEPT ![f] = r]
    BY <1>1 DEF LocalSettles, Recorded, Shape, RunShape
  <1> HIDE DEF state, known
  <1>5. /\ r \in RunShape
        /\ r.stage = "handler" /\ r.task = runs[f].task
        /\ r.version = runs[f].version /\ r.cache = known
        /\ r.handle = [runs[f].handle EXCEPT ![c] = state]
        /\ r.attempt = runs[f].attempt
    BY <1>1, <1>2, <1>3, ChildFields DEF RunShape
  <1> HIDE DEF r
  <1>6. Alone(f) /\ runs'[f] = r
    BY <1>4, <1>5, AloneWith
  <1>7. \A d \in Ids : CacheMoves(f, d) /\ HandleMoves(f, d) /\ AttemptMoves(f, d)
    BY <1>1, <1>2, <1>3, <1>5, <1>6 DEF CacheMoves, HandleMoves, AttemptMoves, RunShape
  <1>8. QED
    BY <1>1, <1>5, <1>6, <1>7, LocalsAreIds
    DEF Proceeds, SameClaim, Under, Quiet

\* A failed attempt is only followed by another within the budget.
LEMMA LocalRetriesProceeds ==
  ASSUME TypeOK, Shape, NEW f \in Fibers, NEW c \in Ids, runs[f].stage = "handler",
         LocalRetries(f, c)
  PROVE  Proceeds(f)
  <1> DEFINE m == now + RetryIn(f, c)
             r == [runs[f] EXCEPT !.handle[c] = "waiting", !.retryAt[c] = m]
  <1>1. runs[f] \in RunShape /\ runs[f].task \in Ids /\ runs[f].attempt[c] \in Nat
    BY ShapeOf DEF RunShape
  <1>2. runs' = [runs EXCEPT ![f] = r]
    BY <1>1 DEF LocalRetries, Shape, RunShape
  <1>3. "waiting" \in HandleStates
    BY DEF HandleStates
  <1>4. m \in Moment
    BY <1>1 DEF RetryIn, Moment, TypeOK
  <1> HIDE DEF m
  <1>5. /\ r \in RunShape
        /\ r.stage = "handler" /\ r.task = runs[f].task
        /\ r.version = runs[f].version /\ r.cache = runs[f].cache
        /\ r.handle = [runs[f].handle EXCEPT ![c] = "waiting"]
        /\ r.attempt = runs[f].attempt
    BY <1>1, <1>3, <1>4, ChildFields DEF RunShape
  <1> HIDE DEF r
  <1>6. Alone(f) /\ runs'[f] = r
    BY <1>2, <1>5, AloneWith
  <1>7. \A d \in Ids : CacheMoves(f, d) /\ HandleMoves(f, d)
    BY <1>1, <1>5, <1>6 DEF CacheMoves, HandleMoves, RunShape
  <1>8. \A d \in Ids \ {c} : AttemptMoves(f, d)
    BY <1>1, <1>5, <1>6 DEF AttemptMoves, RunShape
  <1>9. ASSUME c \in Locals(runs[f].task)
        PROVE  AttemptMoves(f, c)
    <2>1. Budget(LocalStep(runs[f].task, c).policy) \in Nat
      BY <1>1, <1>9, LocalStepType DEF Step, Policy, Budget
    <2>2. RetryNext(LocalStep(runs[f].task, c).policy, runs[f].attempt[c]) # NoRetry
      BY DEF LocalRetries, Retries, RetryIn
    <2>3. runs[f].attempt[c] <= BudgetOf(f, c)
      BY <1>1, <2>1, <2>2 DEF RetryNext, BudgetOf
    <2>4. QED
      BY <1>5, <1>6, <2>3 DEF AttemptMoves
  <1>10. QED
    BY <1>1, <1>5, <1>6, <1>7, <1>8, <1>9, LocalsAreIds
    DEF Proceeds, SameClaim, Under, Quiet

LEMMA ForkedProceeds ==
  ASSUME MInv, MInv', Shape, NEW f \in Fibers, NEW c \in Ids,
         \/ LocalRetries(f, c) \/ NextAttempt(f, c)
         \/ \E outcome : LocalSettles(f, c, outcome) \/ LocalLost(f, c, outcome)
  PROVE  Proceeds(f)
  <1>1. runs[f].handle[c] \in {"running", "waiting"}
    BY DEF LocalRetries, NextAttempt, LocalSettles, LocalLost, LastAttempt
  <1>2. runs[f].stage = "handler"
    BY <1>1, ShapeOf DEF Quiet
  <1>3. ASSUME NEW outcome, LocalLost(f, c, outcome)
        PROVE  Proceeds(f)
    BY <1>2, <1>3, LocalLostProceeds DEF LocalLost
  <1>4. QED
    BY <1>2, <1>3, LocalRetriesProceeds, NextAttemptProceeds, LocalSettlesProceeds
    DEF MInv, IInv

LEMMA EngineProceeds ==
  ASSUME MInv, MInv', Shape, NEW f \in Fibers, EngineNext(f)
  PROVE  Proceeds(f)
  <1>1. CASE OpenCached(f) \/ OpenFenced(f) \/ CancelFenced(f) \/ AwaitHandles(f)
    BY <1>1, OpenCachedProceeds, OpenFencedProceeds, CancelFencedProceeds,
       AwaitHandlesProceeds
  <1>2. CASE FenceRefused(f) \/ FenceUnanswered(f)
    BY <1>2, FenceFailureProceeds DEF FenceRefused, FenceUnanswered, SendsFence, AtStep
  <1>3. CASE Drain(f) \/ Finish(f) \/ FinishFails(f)
    <2>1. DrainedStage(runs[f]) \in Stages \ {"idle", "claiming"}
      BY DEF DrainedStage, Stages
    <2>2. Claimed(f) /\ \A c \in Ids : runs[f].handle[c] \notin {"running", "waiting"}
      BY <1>3, ShapeOf DEF Drain, Finish, FinishFails, Claimed, Quiet
    <2>3. /\ "closing" \in Stages \ {"idle", "claiming"}
          /\ "failed" \in Stages \ {"idle", "claiming"}
      BY DEF Stages
    <2>4. QED
      BY <1>3, <2>1, <2>2, <2>3, StageProceeds DEF Drain, Finish, FinishFails
  <1>4. QED
    BY <1>1, <1>2, <1>3, ForkedProceeds DEF EngineNext

-----------------------------------------------------------------------------
(* How claims begin and end.                                                *)

\* A run that starts from the preload of its claim.
Blank(run) ==
  /\ run.stage \in {"handler", "failed", "closing"}
  /\ run.pc = 1 /\ run.attached = {} /\ run.awaited = {} /\ run.exit = "none"
  /\ \A c \in Ids : run.retryAt[c] = NotSet
RunStarts(f, id, version) ==
  /\ Alone(f) /\ Under(runs'[f]) /\ Quiet(runs'[f]) /\ Blank(runs'[f])
  /\ runs'[f].task = id /\ runs'[f].version = version
  /\ \A c \in Ids : /\ \/ runs'[f].cache[c] = "absent"
                       \/ Learned(c, runs'[f].cache[c])
                    /\ runs'[f].handle[c] = "none"
                    /\ runs'[f].attempt[c] = 0
ClaimBegins(f, id) ==
  /\ ~Under(runs[f])
  /\ RunStarts(f, id, tasks'[id].version)
  /\ tasks'[id].version = tasks[id].version + 1
  /\ held' = [held EXCEPT ![Process(f)][id] = tasks'[id].version]
\* The loop takes up a message, or drops the one it has.
TakesMessage(f) ==
  /\ f \in Workers /\ \E m \in batch[f] : runs'[f].version = m.version
  /\ runs'[f].handle = runs[f].handle /\ runs'[f].retryAt = runs[f].retryAt
LoopWaits(f) ==
  /\ Alone(f) /\ ~Under(runs[f]) /\ ~Under(runs'[f]) /\ Quiet(runs'[f])
  /\ runs'[f].stage # "idle" => runs'[f].task \in Ids
  /\ runs'[f] = NoRun \/ TakesMessage(f)
  /\ held' = held
ClaimEnds(f) ==
  /\ Alone(f) /\ runs'[f] = NoRun
  /\ held' = [held EXCEPT ![Process(f)][runs[f].task] = NotSet]
  /\ Under(runs[f])
RunsMove ==
  \/ UNCHANGED <<runs, held>>
  \/ \E f \in Fibers : \/ Proceeds(f) /\ held' = held
                       \/ \E id \in Ids : ClaimBegins(f, id)
                       \/ LoopWaits(f) \/ ClaimEnds(f)
  \/ \E w \in Workers : Restart(w)

LEMMA NewRunFields ==
  ASSUME MInv', NEW f \in Fibers, NEW id \in Ids, NEW version \in Int, NEW state
  PROVE  LET r == NewRun(f, id, version, state, Preload(id, promises'))
         IN  /\ r \in RunShape /\ Under(r) /\ Quiet(r) /\ Blank(r)
             /\ r.task = id /\ r.version = version
             /\ \A c \in Ids : /\ r.cache[c] = "absent" \/ Learned(c, r.cache[c])
                               /\ r.handle[c] = "none" /\ r.attempt[c] = 0
  <1> DEFINE preload == Preload(id, promises')
             stage == FirstStage(f, id, state)
             r == [NoRun EXCEPT !.stage = stage, !.task = id,
                                !.version = version, !.cache = preload]
  <1>1. NoRun \in RunShape
    BY NoRunShape
  <1>2. \A c \in Ids : preload[c] = "absent" \/ Learned(c, preload[c])
    BY DEF Preload, Learned
  <1>3. preload \in [Ids -> PromiseStates]
    <2>1. \A c \in Ids : preload[c] \in PromiseStates
      BY <1>2, StatesAfter DEF Learned, PromiseStates
    <2>2. QED
      BY <2>1 DEF Preload
  <1>4. /\ stage \in {"handler", "failed", "closing"}
        /\ stage \in Stages /\ stage \notin {"idle", "claiming"}
    BY DEF FirstStage, Stages
  <1>5. NewRun(f, id, version, state, preload) = r
    BY DEF NewRun
  <1> HIDE DEF preload, stage
  <1>6. /\ r \in RunShape /\ r.stage = stage /\ r.task = id /\ r.version = version
        /\ r.cache = preload /\ r.handle = NoRun.handle /\ r.attempt = NoRun.attempt
        /\ r.retryAt = NoRun.retryAt /\ r.pc = NoRun.pc /\ r.exit = NoRun.exit
        /\ r.attached = NoRun.attached /\ r.awaited = NoRun.awaited
    BY <1>1, <1>3, <1>4 DEF RunShape
  <1>7. /\ \A c \in Ids : /\ NoRun.handle[c] = "none" /\ NoRun.attempt[c] = 0
                         /\ NoRun.retryAt[c] = NotSet
        /\ NoRun.pc = 1 /\ NoRun.exit = "none"
        /\ NoRun.attached = {} /\ NoRun.awaited = {}
    BY DEF NoRun
  <1> HIDE DEF r
  <1>8. QED
    BY <1>2, <1>4, <1>5, <1>6, <1>7 DEF Under, Quiet, Blank, preload

LEMMA NewRunFresh ==
  ASSUME MInv', Shape, NEW f \in Fibers, NEW id \in Ids, NEW version \in Int, NEW state,
         runs' = [runs EXCEPT ![f] =
                    NewRun(f, id, version, state, Preload(id, promises'))]
  PROVE  RunStarts(f, id, version)
  <1> DEFINE r == NewRun(f, id, version, state, Preload(id, promises'))
  <1>1. /\ r \in RunShape /\ Under(r) /\ Quiet(r) /\ Blank(r)
        /\ r.task = id /\ r.version = version
        /\ \A c \in Ids : /\ r.cache[c] = "absent" \/ Learned(c, r.cache[c])
                          /\ r.handle[c] = "none" /\ r.attempt[c] = 0
    BY NewRunFields
  <1> HIDE DEF r
  <1>2. Alone(f) /\ runs'[f] = r
    BY <1>1, AloneWith DEF r
  <1>3. QED
    BY <1>1, <1>2 DEF RunStarts

LEMMA VersionsAfter ==
  ASSUME MInv', NEW id \in Ids
  PROVE  tasks'[id].version \in Nat
  BY DEF MInv, IInv, TypeOK, Task

LEMMA StartRunBegins ==
  ASSUME MInv', Shape, NEW f \in Fibers, NEW id \in Ids, ~Claimed(f),
         StartRun(f, id, tasks'[id].version),
         tasks'[id].version = tasks[id].version + 1
  PROVE  ClaimBegins(f, id)
  <1>1. tasks'[id].version \in Int
    BY VersionsAfter
  <1>2. RunStarts(f, id, tasks'[id].version)
    BY <1>1, NewRunFresh DEF StartRun
  <1>3. ~Under(runs[f])
    BY ShapeOf
  <1>4. QED
    BY <1>2, <1>3 DEF StartRun, ClaimBegins

LEMMA ClaimCounts ==
  ASSUME TypeOK, NEW id \in Ids, NEW pid, NEW ttl, NEW t, Claim(id, pid, ttl, t)
  PROVE  tasks'[id].version = tasks[id].version + 1
  BY DEF TypeOK, Task, Claim, Acquired

LEMMA AcquireBegins ==
  ASSUME MInv, MInv', Shape, NEW w \in Workers, Acquire(w)
  PROVE  \E id \in Ids : ClaimBegins(w, id)
  <1>1. w \in Fibers /\ runs[w].task \in Ids /\ ~Claimed(w)
    BY WorkerAssumption, ShapeOf DEF Acquire, Claimed
  <1>2. /\ tasks[runs[w].task].version = runs[w].version
        /\ tasks'[runs[w].task].version = tasks[runs[w].task].version + 1
    BY <1>1, ClaimCounts DEF Acquire, TaskAcquire, MInv, IInv
  <1>3. QED
    BY <1>1, <1>2, StartRunBegins DEF Acquire

LEMMA BeginRunBegins ==
  ASSUME MInv, MInv', Shape, NEW g \in Guests, NEW id \in Ids, BeginRun(g, id)
  PROVE  ClaimBegins(g, id)
  <1>1. g \in Fibers /\ ~Claimed(g)
    BY WorkerAssumption, ShapeOf DEF BeginRun, Claimed
  <1>2. tasks'[id].version = tasks[id].version + 1
    <2>1. CASE TaskCreateAcquired(id, RootTags, RootTimeout, ClientPid, Ttl, now)
      <3>1. tasks[id].version = 0
        BY <2>1, NoTaskYet DEF TaskCreateAcquired
      <3>2. tasks'[id] = Acquired(NoTask, ClientPid, Ttl)
        BY <2>1 DEF TaskCreateAcquired, MInv, IInv, TypeOK
      <3>3. QED
        BY <3>1, <3>2 DEF Acquired, NoTask
    <2>2. CASE TaskCreateReacquire(id, ClientPid, Ttl, now)
      BY <2>2, ClaimCounts DEF TaskCreateReacquire, MInv, IInv
    <2>3. QED
      BY <2>1, <2>2 DEF BeginRun
  <1>3. QED
    BY <1>1, <1>2, StartRunBegins DEF BeginRun

LEMMA NextMessageWaits ==
  ASSUME Shape, NEW w \in Workers, NextMessage(w)
  PROVE  LoopWaits(w)
  <1>1. w \in Fibers /\ runs[w] \in RunShape /\ runs[w].stage = "idle" /\ Quiet(runs[w])
    BY WorkerAssumption, ShapeOf DEF NextMessage
  <1>2. PICK m \in batch[w] :
          runs' = [runs EXCEPT ![w].stage = "claiming", ![w].task = m.id,
                               ![w].version = m.version]
    BY DEF NextMessage
  <1>3. m \in Message
    BY DEF Shape
  <1> DEFINE r == [runs[w] EXCEPT !.stage = "claiming", !.task = m.id,
                                  !.version = m.version]
  <1>4. /\ r \in RunShape /\ r.stage = "claiming" /\ r.task \in Ids /\ r.version = m.version
        /\ r.handle = runs[w].handle /\ r.retryAt = runs[w].retryAt
    BY <1>1, <1>3 DEF RunShape, Message, Stages
  <1>5. runs' = [runs EXCEPT ![w] = r]
    BY <1>1, <1>2 DEF Shape, RunShape
  <1> HIDE DEF r
  <1>6. Alone(w) /\ runs'[w] = r
    BY <1>1, <1>4, <1>5, AloneWith
  <1>7. QED
    BY <1>1, <1>2, <1>4, <1>6 DEF LoopWaits, TakesMessage, Under, Quiet, NextMessage

LEMMA AcquireFailsWaits ==
  ASSUME Shape, NEW w \in Workers, AcquireFails(w)
  PROVE  LoopWaits(w)
  <1>1. w \in Fibers
    BY WorkerAssumption
  <1>2. Alone(w) /\ runs'[w] = NoRun
    BY <1>1, NoRunShape, AloneWith DEF AcquireFails
  <1>3. ~Under(runs[w]) /\ NoRun.stage = "idle"
    BY DEF AcquireFails, Under, NoRun
  <1>4. QED
    BY <1>2, <1>3, NoRunShape DEF LoopWaits, AcquireFails

LEMMA CloseEnds ==
  ASSUME Shape, NEW f \in Fibers, Close(f)
  PROVE  ClaimEnds(f)
  <1>1. Alone(f) /\ runs'[f] = NoRun
    BY NoRunShape, AloneWith DEF Close
  <1>2. Process(f) \in Workers /\ runs[f].task \in Ids /\ Under(runs[f])
    BY ProcessIsWorker, ShapeOf DEF Close, Under
  <1>3. held' = [held EXCEPT ![Process(f)][runs[f].task] = NotSet]
    BY <1>2 DEF Close, Without, Shape
  <1>4. QED
    BY <1>1, <1>2, <1>3 DEF ClaimEnds

LEMMA StartsOverProceeds ==
  ASSUME MInv', Shape, NEW f \in Fibers, SuspendStartsOver(f)
  PROVE  Proceeds(f)
  <1>1. /\ runs[f].task \in Ids /\ runs[f].version \in Int /\ Under(runs[f])
    BY ShapeOf DEF SuspendStartsOver, Under, RunShape
  <1>2. RunStarts(f, runs[f].task, runs[f].version)
    BY <1>1, NewRunFresh DEF SuspendStartsOver
  <1>3. QED
    BY <1>1, <1>2, LocalsAreIds
    DEF RunStarts, Proceeds, SameClaim, CacheMoves, HandleMoves, AttemptMoves

LEMMA FiberMoves ==
  ASSUME MInv, MInv', Shape, NEW f \in Fibers, FiberNext(f)
  PROVE  RunsMove
  <1>1. CASE EngineNext(f) /\ UNCHANGED <<batch, held, waits>>
    BY <1>1, EngineProceeds DEF RunsMove
  <1>2. CASE Suspend(f) \/ SuspendFails(f) \/ Release(f)
    <2>1. /\ "closing" \in Stages \ {"idle", "claiming"}
          /\ "failed" \in Stages \ {"idle", "claiming"}
      BY DEF Stages
    <2>2. Claimed(f) /\ \A c \in Ids : runs[f].handle[c] \notin {"running", "waiting"}
      BY <1>2, ShapeOf DEF Suspend, SuspendFails, Release, Claimed, Quiet
    <2>3. Proceeds(f) /\ held' = held
      BY <1>2, <2>1, <2>2, StageProceeds DEF Suspend, SuspendFails, Release
    <2>4. QED
      BY <2>3 DEF RunsMove
  <1>3. CASE SuspendStartsOver(f)
    BY <1>3, StartsOverProceeds DEF RunsMove, SuspendStartsOver
  <1>4. CASE Close(f)
    BY <1>4, CloseEnds DEF RunsMove
  <1>5. QED
    BY <1>1, <1>2, <1>3, <1>4 DEF FiberNext

LEMMA WorkerMoves ==
  ASSUME MInv, MInv', Shape, [WorkerNext]_system
  PROVE  RunsMove
  <1>1. Workers \subseteq Fibers /\ Guests \subseteq Fibers /\ Roots \subseteq Ids
    BY WorkerAssumption
  <1>2. ASSUME NEW f \in Fibers, FiberNext(f)
        PROVE  RunsMove
    BY <1>2, FiberMoves
  <1>3. ASSUME NEW w \in Workers, LoopNext(w)
        PROVE  RunsMove
    BY <1>1, <1>3, AcquireBegins, AcquireFailsWaits, NextMessageWaits
    DEF LoopNext, TakeChunk, RunsMove
  <1>4. ASSUME NEW w \in Workers, Heartbeat(w) \/ Restart(w)
        PROVE  RunsMove
    BY <1>4 DEF Heartbeat, RunsMove
  <1>5. ASSUME NEW id \in Roots, NEW g \in Guests, BeginRun(g, id)
        PROVE  RunsMove
    BY <1>1, <1>5, BeginRunBegins DEF RunsMove
  <1>6. CASE \/ \E id \in Roots : BeginRpc(id) \/ BeginRunLost(id) \/ BeginRunExpired(id)
             \/ \E c \in Ids, outcome \in Outcomes : SettleExternal(c, outcome)
             \/ \E c \in Ids : ClientCancel(c)
    BY <1>6 DEF BeginRpc, BeginRunLost, BeginRunExpired, SettleExternal, ClientCancel,
       RunsMove
  <1>7. CASE \/ \E a \in Waiters : AwaitSettled(a)
             \/ ServerTick \/ ClockMoves
    BY <1>7 DEF AwaitSettled, ServerTick, ClockMoves, RunsMove
  <1>8. CASE UNCHANGED system
    BY <1>8 DEF system, RunsMove
  <1>9. QED
    BY <1>2, <1>3, <1>4, <1>5, <1>6, <1>7, <1>8 DEF WorkerNext, ClientNext

-----------------------------------------------------------------------------
(* The shape is kept.                                                       *)

LEMMA BatchShape ==
  ASSUME TypeOK, Shape, [WorkerNext]_system
  PROVE  batch' \in [Workers -> SUBSET Message]
  <1>1. ASSUME NEW w \in Workers, TakeChunk(w) \/ NextMessage(w) \/ Restart(w)
        PROVE  batch' \in [Workers -> SUBSET Message]
    <2>1. /\ batch \in [Workers -> SUBSET Message]
          /\ {m \in queue : m.kind = "execute"} \subseteq Message
      BY DEF Shape, TypeOK
    <2>2. CASE TakeChunk(w)
      BY <2>1, <2>2 DEF TakeChunk
    <2>3. CASE NextMessage(w)
      BY <2>1, <2>3 DEF NextMessage
    <2>4. CASE Restart(w)
      BY <2>1, <2>4 DEF Restart
    <2>5. QED
      BY <1>1, <2>2, <2>3, <2>4
  <1>2. CASE UNCHANGED batch
    BY <1>2 DEF Shape
  <1>3. ASSUME NEW f \in Fibers, FiberNext(f)
        PROVE  UNCHANGED batch
    BY <1>3 DEF FiberNext, Suspend, SuspendStartsOver, SuspendFails, Release, Close
  <1>4. ASSUME NEW w \in Workers, Acquire(w) \/ AcquireFails(w) \/ Heartbeat(w)
        PROVE  UNCHANGED batch
    BY <1>4 DEF Acquire, AcquireFails, Heartbeat
  <1>5. CASE ClientNext
    BY <1>5, <1>2 DEF ClientNext, BeginRpc, BeginRunLost, BeginRun, BeginRunExpired,
       SettleExternal, ClientCancel
  <1>6. CASE (\E a \in Waiters : AwaitSettled(a)) \/ ServerTick \/ ClockMoves
    BY <1>6, <1>2 DEF AwaitSettled, ServerTick, ClockMoves
  <1>7. CASE UNCHANGED system
    BY <1>7, <1>2 DEF system
  <1>8. QED
    BY <1>1, <1>2, <1>3, <1>4, <1>5, <1>6, <1>7 DEF WorkerNext, LoopNext

\* A restart empties the runs and the held map of one process.
LEMMA RestartFields ==
  ASSUME Shape, NEW w \in Workers, Restart(w)
  PROVE  /\ runs' \in [Fibers -> RunShape]
         /\ \A f \in Fibers : runs'[f] = IF Process(f) = w THEN NoRun ELSE runs[f]
         /\ held' = [held EXCEPT ![w] = [id \in Ids |-> NotSet]]
  BY NoRunShape DEF Restart, Fiberless, Shape

LEMMA RunsShape ==
  ASSUME MInv, MInv', Shape, RunsMove
  PROVE  /\ runs' \in [Fibers -> RunShape]
         /\ \A f \in Fibers : Quiet(runs'[f])
         /\ \A f \in Fibers : runs'[f].stage # "idle" => runs'[f].task \in Ids
  <1>1. ASSUME NEW f \in Fibers, Alone(f), Quiet(runs'[f]),
               runs'[f].stage # "idle" => runs'[f].task \in Ids
        PROVE  /\ runs' \in [Fibers -> RunShape]
               /\ \A g \in Fibers : Quiet(runs'[g])
               /\ \A g \in Fibers : runs'[g].stage # "idle" => runs'[g].task \in Ids
    BY <1>1 DEF Alone, Shape
  <1>2. ASSUME NEW f \in Fibers, Proceeds(f)
        PROVE  Alone(f) /\ Quiet(runs'[f]) /\ runs'[f].task \in Ids
    BY <1>2, ShapeOf DEF Proceeds, SameClaim, Under
  <1>3. ASSUME NEW f \in Fibers, NEW id \in Ids, ClaimBegins(f, id)
        PROVE  Alone(f) /\ Quiet(runs'[f]) /\ runs'[f].task \in Ids
    BY <1>3 DEF ClaimBegins, RunStarts
  <1>4. ASSUME NEW f \in Fibers, LoopWaits(f)
        PROVE  /\ Alone(f) /\ Quiet(runs'[f])
               /\ runs'[f].stage # "idle" => runs'[f].task \in Ids
    BY <1>4 DEF LoopWaits
  <1>5. ASSUME NEW f \in Fibers, ClaimEnds(f)
        PROVE  Alone(f) /\ Quiet(runs'[f]) /\ runs'[f].stage = "idle"
    BY <1>5, NoRunShape DEF ClaimEnds, NoRun
  <1>6. ASSUME NEW w \in Workers, Restart(w)
        PROVE  /\ runs' \in [Fibers -> RunShape]
               /\ \A g \in Fibers : Quiet(runs'[g])
               /\ \A g \in Fibers : runs'[g].stage # "idle" => runs'[g].task \in Ids
    <2>1. NoRun.stage = "idle" /\ Quiet(NoRun)
      BY NoRunShape DEF NoRun
    <2>2. QED
      BY <1>6, <2>1, RestartFields DEF Shape
  <1>7. CASE UNCHANGED <<runs, held>>
    BY <1>7 DEF Shape
  <1>8. QED
    BY <1>1, <1>2, <1>3, <1>4, <1>5, <1>6, <1>7 DEF RunsMove

LEMMA HeldShape ==
  ASSUME MInv', Shape, RunsMove
  PROVE  held' \in [Workers -> [Ids -> Nat \cup {NotSet}]]
  <1>1. ASSUME NEW f \in Fibers, NEW id \in Ids, ClaimBegins(f, id)
        PROVE  held' \in [Workers -> [Ids -> Nat \cup {NotSet}]]
    <2> DEFINE v == tasks'[id].version
    <2>1. v \in Nat /\ Process(f) \in Workers
      BY ProcessIsWorker, VersionsAfter
    <2>2. held' = [held EXCEPT ![Process(f)][id] = v]
      BY <1>1 DEF ClaimBegins
    <2> HIDE DEF v
    <2>3. QED
      BY <2>1, <2>2 DEF Shape
  <1>2. ASSUME NEW f \in Fibers, ClaimEnds(f)
        PROVE  held' \in [Workers -> [Ids -> Nat \cup {NotSet}]]
    <2>1. Process(f) \in Workers
      BY ProcessIsWorker
    <2>2. held' = [held EXCEPT ![Process(f)][runs[f].task] = NotSet]
      BY <1>2 DEF ClaimEnds
    <2>3. QED
      BY <2>1, <2>2 DEF Shape
  <1>3. ASSUME NEW w \in Workers, Restart(w)
        PROVE  held' \in [Workers -> [Ids -> Nat \cup {NotSet}]]
    <2>1. [id \in Ids |-> NotSet] \in [Ids -> Nat \cup {NotSet}]
      OBVIOUS
    <2>2. QED
      BY <1>3, <2>1, RestartFields DEF Shape
  <1>4. CASE held' = held
    BY <1>4 DEF Shape
  <1>5. QED
    BY <1>1, <1>2, <1>3, <1>4 DEF RunsMove, LoopWaits

LEMMA ShapeStep ==
  ASSUME MInv, Shape, [WorkerNext]_system
  PROVE  /\ MInv' /\ Moves /\ RunsMove /\ Shape'
         /\ now' \in {now, now + 1}
  <1>1. MInv' /\ Moves
    BY WorkerServed, ServedMoves
  <1>2. RunsMove
    BY <1>1, WorkerMoves
  <1>3. Shape'
    BY <1>1, <1>2, RunsShape, HeldShape, BatchShape DEF Shape, MInv, IInv
  <1>4. now' \in {now, now + 1}
    BY WorkerServed, ServedClock
  <1>5. QED
    BY <1>1, <1>2, <1>3, <1>4

================================================================================
