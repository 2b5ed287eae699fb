-------------------------- MODULE WorkerScripts_proofs --------------------------
(***************************************************************************)
(* The theorems of Worker that look into the handlers: what a replay leaves  *)
(* of the steps before it, who opens and who ends a promise, and so why an   *)
(* effect runs once, why a failure has a cause, why a handler that returns   *)
(* is the last of its children to end, and the types of the composition.     *)
(* They speak of the handlers whose children the engine names: OwnNames,     *)
(* OwnHandles, SleepsAwaited and RootsApart.                                 *)
(***************************************************************************)
EXTENDS Worker_proofs

-----------------------------------------------------------------------------
(* Scripts. *)

LEMMA ScriptSteps ==
  ASSUME NEW id \in Ids
  PROVE  /\ DOMAIN Script[id] = 1..Len(Script[id]) /\ Len(Script[id]) \in Nat
         /\ \A k \in DOMAIN Script[id] : Script[id][k] \in Step
  BY EngineAssumption

LEMMA OpensAreSteps ==
  ASSUME NEW id \in Ids, NEW k \in Opens(id)
  PROVE  /\ k \in Nat \ {0} /\ k \in DOMAIN Script[id] /\ k <= Len(Script[id])
         /\ Script[id][k] \in Step
         /\ Script[id][k].op \in Creates /\ Script[id][k].child \in Ids
         /\ Script[id][k].child \in Calls(id)
  BY ScriptSteps DEF Opens, Step, Calls

\* A local step is opened by a run, and by nothing else.
LEMMA LocalIsRun ==
  ASSUME OwnNames, NEW id \in Ids, NEW c \in Locals(id),
         NEW jd \in Ids, NEW j \in Opens(jd), Script[jd][j].child = c
  PROVE  jd = id /\ Script[jd][j].op = "run"
  <1>1. PICK k \in DOMAIN Script[id] : Script[id][k].op = "run" /\ Script[id][k].child = c
    BY DEF Locals
  <1>2. k \in Opens(id)
    BY <1>1 DEF Opens, Creates
  <1>3. QED
    BY <1>1, <1>2 DEF OwnNames

LEMMA LocalsAreCalls ==
  ASSUME NEW id \in Ids
  PROVE  Locals(id) \subseteq Calls(id)
  BY DEF Locals, Calls, Opens, Creates

-----------------------------------------------------------------------------
(* What a step of the composition may do to one promise, and who does it.    *)

Kept(p) ==
  /\ promises'[p].state = promises[p].state
  /\ promises'[p].tags = promises[p].tags
  /\ promiseTimeouts'[p] \in {promiseTimeouts[p], NotSet}
Born(p, tags) ==
  /\ promises[p].state = "absent"
  /\ promises'[p].state \in {"pending", TimedOutState(tags)}
  /\ promises'[p].tags = tags
  /\ promiseTimeouts'[p] # NotSet => External(tags)
  /\ tasks'[p].state # "absent" => tags.target
Ended(p) ==
  /\ promises[p].state = "pending"
  /\ promises'[p].tags = promises[p].tags
  /\ promiseTimeouts'[p] = NotSet
AllKept == \A p \in Ids : Kept(p)
OthersKept(id) == \A p \in Ids \ {id} : Kept(p)

LEMMA CreateTouches ==
  ASSUME MInv, NEW id \in Ids, NEW tags \in Tags, NEW timeoutAt \in Int,
         PromiseCreate(id, tags, timeoutAt, now)
  PROVE  Born(id, tags) /\ OthersKept(id)
  <1>1. TypeOK /\ now \in Nat
    BY NowIsStamp DEF MInv, IInv
  <1>2. OthersKept(id)
    BY <1>1 DEF PromiseCreate, TypeOK, OthersKept, Kept
  <1>3. /\ promises'[id] = NewPromise(tags, timeoutAt, now)
        /\ promiseTimeouts'[id] = NewPromiseTimeout(tags, timeoutAt, now)
        /\ tasks'[id] = NewTask(tags, timeoutAt, now)
        /\ promises[id].state = "absent"
    BY <1>1 DEF PromiseCreate, TypeOK
  <1>4. NewPromise(tags, timeoutAt, now).state \in {"pending", TimedOutState(tags)}
        /\ NewPromise(tags, timeoutAt, now).tags = tags
    BY DEF NewPromise, PendingPromise, BornSettled, NoPromise
  <1>5. tags.target \/ NewTask(tags, timeoutAt, now).state = "absent"
    BY DEF NewTask, NoTask
  <1>6. QED
    BY <1>2, <1>3, <1>4, <1>5 DEF Born, NewPromiseTimeout

LEMMA TaskCreateTouches ==
  ASSUME MInv, NEW id \in Ids, NEW tags \in Tags, tags.target, NEW timeoutAt \in Int,
         \/ \E pid \in Pids, ttl \in Ttls :
              TaskCreateAcquired(id, tags, timeoutAt, pid, ttl, now)
         \/ TaskCreateExpired(id, tags, timeoutAt, now)
  PROVE  Born(id, tags) /\ OthersKept(id)
  <1>1. TypeOK
    BY DEF MInv, IInv
  <1>2. OthersKept(id)
    BY <1>1 DEF TaskCreateAcquired, TaskCreateExpired, TypeOK, OthersKept, Kept
  <1>3. promises[id].state = "absent"
    BY DEF TaskCreateAcquired, TaskCreateExpired
  <1>4. \/ promises'[id] = PendingPromise(tags, timeoutAt)
        \/ promises'[id] = BornSettled(tags, timeoutAt)
    BY <1>1 DEF TaskCreateAcquired, TaskCreateExpired, TypeOK
  <1>5. promises'[id].state \in {"pending", TimedOutState(tags)} /\ promises'[id].tags = tags
    BY <1>4 DEF PendingPromise, BornSettled, NoPromise
  <1>6. QED
    BY <1>2, <1>3, <1>5 DEF Born, External

LEMMA SettleTouches ==
  ASSUME MInv, NEW id \in Ids, NEW state, Fresh(id, now), Settle(id, state, now)
  PROVE  Ended(id) /\ promises'[id].state = state /\ OthersKept(id)
  <1> DEFINE settled == [p \in {id} |-> Settled(promises[p], state, now)]
  <1>1. TypeOK /\ promises[id] \in Promise
    BY DEF MInv, IInv, TypeOK
  <1>2. \A p \in Ids : promises'[p] = CascadePromises(settled)[p]
    BY DEF Settle
  <1>3. promises'[id] = Settled(promises[id], state, now)
    BY <1>2 DEF CascadePromises
  <1>4. promises'[id].state = state /\ promises'[id].tags = promises[id].tags
    BY <1>1, <1>3 DEF Settled, Promise
  <1>5. \A p \in Ids \ {id} : /\ promises'[p].state = promises[p].state
                              /\ promises'[p].tags = promises[p].tags
    <2>1. TAKE p \in Ids \ {id}
    <2>2. promises[p] \in Promise /\ promises'[p] = CascadePromises(settled)[p]
      BY <1>1, <1>2 DEF TypeOK
    <2>3. \/ promises'[p] = promises[p]
          \/ \E left : promises'[p] = [promises[p] EXCEPT !.callbacks = left]
      BY <2>2 DEF CascadePromises
    <2>4. QED
      BY <2>2, <2>3 DEF Promise
  <1>6. /\ promiseTimeouts'[id] = NotSet
        /\ \A p \in Ids \ {id} : promiseTimeouts'[p] = promiseTimeouts[p]
    BY <1>1 DEF Settle, TypeOK
  <1>7. QED
    BY <1>4, <1>5, <1>6 DEF Ended, OthersKept, Kept, Fresh

\* Nobody makes a schedule here, so the tick creates nothing.
NoCrons == \A s \in ScheduleIds : schedules[s] = NoSchedule
Expires(p) ==
  /\ Ended(p) /\ promiseTimeouts[p] # NotSet
  /\ promises'[p].state = TimedOutState(promises[p].tags)

LEMMA TickTouches ==
  ASSUME MInv, NoCrons, Tick(now)
  PROVE  /\ \A p \in Ids : Kept(p) \/ Expires(p)
         /\ NoCrons'
  <1>1. TypeOK /\ now \in Nat
    BY NowIsStamp DEF MInv, IInv
  <1>2. DueSchedules(now) = {}
    BY DEF DueSchedules, NoCrons
  <1>3. FiredIds(now) = {}
    BY <1>2 DEF FiredIds, Firings
  <1>4. PICK fire \in [FiredIds(now) -> Firings(now)] : TickWith(fire, now)
    BY DEF Tick
  <1>5. \A p \in Ids : /\ promises'[p] = CascadePromises(TimedOut(now))[p]
                       /\ promiseTimeouts'[p] = IF p \in DuePromises(now) THEN NotSet
                                                ELSE promiseTimeouts[p]
    BY <1>3, <1>4 DEF TickWith
  <1>6. NoCrons'
    BY <1>2, <1>4 DEF TickWith, NoCrons
  <1>7. ASSUME NEW p \in DuePromises(now)
        PROVE  Expires(p)
    <2>1. /\ p \in Ids /\ promises[p].state = "pending" /\ promiseTimeouts[p] # NotSet
          /\ promises[p] \in Promise
      BY <1>1, <1>7 DEF DuePromises, TypeOK
    <2>2. promises'[p] = Settled(promises[p], TimedOutState(promises[p].tags),
                                 promises[p].timeoutAt)
      BY <1>5, <1>7, <2>1 DEF CascadePromises, TimedOut
    <2>3. QED
      BY <1>5, <1>7, <2>1, <2>2 DEF Settled, Promise, Expires, Ended
  <1>8. ASSUME NEW p \in Ids \ DuePromises(now)
        PROVE  Kept(p)
    <2>1. promises'[p].state = promises[p].state /\ promises'[p].tags = promises[p].tags
      <3>1. promises[p] \in Promise /\ p \notin DOMAIN TimedOut(now)
        BY <1>1, <1>8 DEF TypeOK, TimedOut
      <3>2. \/ promises'[p] = promises[p]
            \/ \E left : promises'[p] = [promises[p] EXCEPT !.callbacks = left]
        BY <1>5, <3>1 DEF CascadePromises
      <3>3. QED
        BY <3>1, <3>2 DEF Promise
    <2>2. QED
      BY <1>5, <1>8, <2>1 DEF Kept
  <1>9. QED
    BY <1>6, <1>7, <1>8

LEMMA SuspendTouches ==
  ASSUME MInv, NEW id \in Ids, NEW version, NEW A \in SUBSET Ids,
         TaskSuspend(id, version, A, now) \/ TaskSuspendRefused(id, version, A, now)
  PROVE  AllKept
  <1>1. TypeOK
    BY DEF MInv, IInv
  <1>2. QED
    BY <1>1 DEF TaskSuspend, TaskSuspendRefused, AllKept, Kept, TypeOK, Promise

LEMMA SamePromises ==
  ASSUME promises' = promises, promiseTimeouts' = promiseTimeouts
  PROVE  AllKept
  BY DEF AllKept, Kept

LEMMA ListenTouches ==
  ASSUME MInv, NEW id \in Ids, NEW address, PromiseRegisterListener(id, address, now)
  PROVE  AllKept
  <1>1. TypeOK
    BY DEF MInv, IInv
  <1>2. QED
    BY <1>1 DEF PromiseRegisterListener, AllKept, Kept, TypeOK, Promise

-----------------------------------------------------------------------------
(* Who opens a promise, and who ends it.                                     *)

FulfilsOwn(f, p) ==
  /\ runs[f].stage = "finishing" /\ runs[f].task = p
  /\ promises'[p].state = IF runs[f].exit = "failed" THEN "rejected" ELSE "resolved"
Cancels(f, p) ==
  /\ AtStep(f, {"cancel"}) /\ StepOf(f).child = p
  /\ promises'[p].state = "rejected_canceled"
IsExternal(p) ==
  \E id \in Ids : \E k \in DOMAIN Script[id] :
    Script[id][k].op = "promise" /\ Script[id][k].child = p
CancelledOutside(p) ==
  p \in Cancellable /\ promises'[p].state = "rejected_canceled"
OpenedBy(p) ==
  \/ p \in Roots /\ Born(p, RootTags)
  \/ \E f \in Fibers : /\ AtStep(f, Creates) /\ StepOf(f).child = p
                       /\ Born(p, StepTags(StepOf(f).op))
EndedBy(p) ==
  \/ Expires(p)
  \/ /\ Ended(p)
     /\ \/ \E f \in Fibers :
             /\ Holds(f)
             /\ FulfilsOwn(f, p) \/ Cancels(f, p) \/ runs[f].handle[p] = "running"
        \/ IsExternal(p)
        \/ CancelledOutside(p)
Touched == \A p \in Ids : Kept(p) \/ OpenedBy(p) \/ EndedBy(p)

LEMMA KeptIsTouched ==
  ASSUME AllKept
  PROVE  Touched
  BY DEF AllKept, Touched

LEMMA ServerAlone ==
  ASSUME UNCHANGED server
  PROVE  AllKept
  BY SamePromises DEF server

\* The claim a fiber presents to a request is its own.
LEMMA GateIsHolds ==
  ASSUME Shape, NEW f \in Fibers, runs[f].stage # "idle",
         Gate(runs[f].task, runs[f].version, now)
  PROVE  Holds(f)
  BY ShapeOf, EngineAssumption DEF Holds

LEMMA CreateTouched ==
  ASSUME MInv, Shape, NEW f \in Fibers, AtStep(f, Creates), FencedCreate(f)
  PROVE  Touched
  <1>1. /\ StepOf(f).op \in Creates /\ StepOf(f).child \in Ids
        /\ StepOf(f).duration \in Nat /\ runs[f].task \in Ids
    BY StepType DEF Step
  <1>2. ClampedTimeout(runs[f].task, StepOf(f)) \in Int
    <2>1. promises[runs[f].task].timeoutAt \in Int /\ now \in Int
      BY <1>1 DEF MInv, IInv, TypeOK, Promise
    <2>2. QED
      BY <1>1, <2>1 DEF ClampedTimeout
  <1>3. StepTags(StepOf(f).op) \in Tags
    BY <1>1, TagsOfSteps
  <1>4. CASE UNCHANGED server
    BY <1>4, ServerAlone, KeptIsTouched
  <1>5. CASE PromiseCreate(StepOf(f).child, StepTags(StepOf(f).op),
                           ClampedTimeout(runs[f].task, StepOf(f)), now)
    <2>1. Born(StepOf(f).child, StepTags(StepOf(f).op)) /\ OthersKept(StepOf(f).child)
      BY <1>1, <1>2, <1>3, <1>5, CreateTouches
    <2>2. QED
      BY <2>1 DEF Touched, OpenedBy, OthersKept
  <1>6. QED
    BY <1>4, <1>5 DEF FencedCreate, TaskFenceCreate

LEMMA SettleTouched ==
  ASSUME MInv, Shape, NEW f \in Fibers, runs[f].stage = "handler", NEW c \in Ids,
         NEW outcome, FencedSettle(f, c, outcome),
         \/ runs[f].handle[c] = "running"
         \/ /\ AtStep(f, {"cancel"}) /\ StepOf(f).child = c
            /\ outcome = "rejected_canceled"
  PROVE  Touched
  <1>1. CASE UNCHANGED server
    BY <1>1, ServerAlone, KeptIsTouched
  <1>2. CASE TaskFenceSettle(runs[f].task, runs[f].version, c, outcome, now)
    <2>1. Holds(f)
      BY <1>2, GateIsHolds DEF TaskFenceSettle
    <2>2. Ended(c) /\ promises'[c].state = outcome /\ OthersKept(c)
      BY <1>2, SettleTouches DEF TaskFenceSettle, PromiseSettle
    <2>3. EndedBy(c)
      BY <2>1, <2>2 DEF EndedBy, Cancels
    <2>4. QED
      BY <2>2, <2>3 DEF Touched, OthersKept
  <1>3. QED
    BY <1>1, <1>2 DEF FencedSettle

LEMMA CancelTouched ==
  ASSUME MInv, Shape, NEW f \in Fibers, AtStep(f, {"cancel"}),
         FencedSettle(f, StepOf(f).child, "rejected_canceled")
  PROVE  Touched
  BY StepType, SettleTouched DEF Step, AtStep

LEMMA FulfilTouched ==
  ASSUME MInv, Shape, NEW f \in Fibers, runs[f].stage = "finishing", Fulfil(f)
  PROVE  Touched
  <1> DEFINE id == runs[f].task
             outcome == IF runs[f].exit = "failed" THEN "rejected" ELSE "resolved"
  <1>1. id \in Ids /\ Gate(id, runs[f].version, now) /\ Settle(id, outcome, now)
    BY ShapeOf DEF Fulfil, TaskFulfill
  <1>2. Holds(f) /\ Fresh(id, now)
    BY <1>1, GateIsHolds DEF Gate
  <1>3. Ended(id) /\ promises'[id].state = outcome /\ OthersKept(id)
    BY <1>1, <1>2, SettleTouches
  <1>4. EndedBy(id)
    BY <1>2, <1>3 DEF EndedBy, FulfilsOwn
  <1>5. QED
    BY <1>1, <1>3, <1>4 DEF Touched, OthersKept

LEMMA EngineTouches ==
  ASSUME MInv, Shape, NEW f \in Fibers, EngineNext(f)
  PROVE  Touched
  <1>1. CASE OpenFenced(f)
    BY <1>1, CreateTouched DEF OpenFenced
  <1>2. CASE CancelFenced(f)
    BY <1>2, CancelTouched DEF CancelFenced
  <1>3. CASE FenceUnanswered(f)
    <2>1. CASE UNCHANGED server
      BY <2>1, ServerAlone, KeptIsTouched
    <2>2. CASE StepOf(f).op = "cancel" /\ FencedSettle(f, StepOf(f).child, "rejected_canceled")
      BY <1>3, <2>2, CancelTouched DEF FenceUnanswered, SendsFence, AtStep, StepOf
    <2>3. CASE StepOf(f).op # "cancel" /\ FencedCreate(f)
      BY <1>3, <2>3, CreateTouched DEF FenceUnanswered, SendsFence, AtStep, StepOf
    <2>4. QED
      BY <1>3, <2>1, <2>2, <2>3 DEF FenceUnanswered
  <1>4. ASSUME NEW c \in Ids, NEW outcome,
               LocalSettles(f, c, outcome) \/ LocalLost(f, c, outcome)
        PROVE  Touched
    <2>1. runs[f].handle[c] = "running" /\ runs[f].stage = "handler"
      BY <1>4, ShapeOf DEF LocalSettles, LocalLost, LastAttempt, Quiet
    <2>2. CASE UNCHANGED server
      BY <2>2, ServerAlone, KeptIsTouched
    <2>3. CASE FencedSettle(f, c, SettledAs(outcome))
      BY <2>1, <2>3, SettleTouched
    <2>4. QED
      BY <1>4, <2>2, <2>3 DEF LocalSettles, LocalLost
  <1>5. CASE Finish(f) \/ FinishFails(f)
    BY <1>5, FulfilTouched, ServerAlone, KeptIsTouched DEF Finish, FinishFails
  <1>6. CASE \/ OpenCached(f) \/ FenceRefused(f) \/ AwaitHandles(f)
             \/ (\E c \in Ids : LocalRetries(f, c) \/ NextAttempt(f, c))
             \/ Drain(f)
    BY <1>6, ServerAlone, KeptIsTouched
    DEF OpenCached, FenceRefused, AwaitHandles, LocalRetries, NextAttempt, Drain
  <1>7. QED
    BY <1>1, <1>2, <1>3, <1>4, <1>5, <1>6 DEF EngineNext

LEMMA FiberTouches ==
  ASSUME MInv, Shape, NEW f \in Fibers, FiberNext(f)
  PROVE  Touched
  <1>1. CASE EngineNext(f)
    BY <1>1, EngineTouches
  <1>2. CASE Suspend(f) \/ SuspendStartsOver(f) \/ SuspendFails(f)
    <2>1. runs[f].task \in Ids /\ Awaits(f) \in SUBSET Ids
      BY <1>2, ShapeOf DEF Awaits, RunShape, Suspend, SuspendStartsOver, SuspendFails
    <2>2. AllKept
      BY <1>2, <2>1, SuspendTouches, ServerAlone
      DEF Suspend, SuspendStartsOver, SuspendFails
    <2>3. QED
      BY <2>2, KeptIsTouched
  <1>3. CASE Release(f)
    <2>1. AllKept
      BY <1>3, SamePromises, ServerAlone DEF Release, TaskRelease, Redispatch
    <2>2. QED
      BY <2>1, KeptIsTouched
  <1>4. CASE Close(f)
    BY <1>4, ServerAlone, KeptIsTouched DEF Close
  <1>5. QED
    BY <1>1, <1>2, <1>3, <1>4 DEF FiberNext

LEMMA RootTagsType == RootTags \in Tags /\ RootTags.target /\ ~RootTags.timer
  <1>1. NoTags \in Tags /\ NoTags.timer = FALSE
    BY DEF NoTags, NotSet, Tags
  <1>2. QED
    BY <1>1 DEF RootTags, Tags

LEMMA RootTouched ==
  ASSUME MInv, NEW id \in Roots,
         \/ TaskCreateAcquired(id, RootTags, RootTimeout, ClientPid, Ttl, now)
         \/ TaskCreateReacquire(id, ClientPid, Ttl, now)
         \/ TaskCreateExpired(id, RootTags, RootTimeout, now)
         \/ PromiseCreate(id, RootTags, RootTimeout, now)
  PROVE  Touched
  <1>1. id \in Ids /\ RootTimeout \in Int /\ ClientPid \in Pids /\ Ttl \in Ttls
    BY WorkerAssumption
  <1>2. CASE TaskCreateReacquire(id, ClientPid, Ttl, now)
    BY <1>2, SamePromises, KeptIsTouched DEF TaskCreateReacquire, Claim
  <1>3. CASE ~TaskCreateReacquire(id, ClientPid, Ttl, now)
    <2>1. Born(id, RootTags) /\ OthersKept(id)
      BY <1>1, <1>3, RootTagsType, CreateTouches, TaskCreateTouches
    <2>2. QED
      BY <2>1 DEF Touched, OpenedBy, OthersKept
  <1>4. QED
    BY <1>2, <1>3

LEMMA ClientTouches ==
  ASSUME MInv, ClientNext
  PROVE  Touched
  <1>1. ASSUME NEW id \in Roots, BeginRpc(id) \/ BeginRunLost(id)
        PROVE  Touched
    BY <1>1, RootTouched DEF BeginRpc, BeginRunLost
  <1>2. ASSUME NEW id \in Roots, NEW g \in Guests, BeginRun(g, id) \/ BeginRunExpired(id)
        PROVE  Touched
    BY <1>2, RootTouched DEF BeginRun, BeginRunExpired
  <1>3. ASSUME NEW c \in Ids, NEW outcome, SettleExternal(c, outcome)
        PROVE  Touched
    <2>1. Ended(c) /\ OthersKept(c)
      BY <1>3, SettleTouches DEF SettleExternal, PromiseSettle
    <2>2. EndedBy(c)
      BY <1>3, <2>1 DEF SettleExternal, EndedBy, IsExternal
    <2>3. QED
      BY <2>1, <2>2 DEF Touched, OthersKept
  <1>4. ASSUME NEW c \in Ids, ClientCancel(c)
        PROVE  Touched
    <2>1. Ended(c) /\ OthersKept(c) /\ promises'[c].state = "rejected_canceled"
      BY <1>4, SettleTouches DEF ClientCancel, PromiseSettle
    <2>2. EndedBy(c)
      BY <1>4, <2>1 DEF ClientCancel, EndedBy, CancelledOutside
    <2>3. QED
      BY <2>1, <2>2 DEF Touched, OthersKept
  <1>5. QED
    BY <1>1, <1>2, <1>3, <1>4 DEF ClientNext

LEMMA WaiterTouches ==
  ASSUME MInv, NEW a \in Waiters, WaiterNext(a)
  PROVE  AllKept
  <1>1. AwaitedId[a] \in Ids
    BY WaiterAssumption
  <1>2. CASE RegisterPending(a)
    BY <1>1, <1>2, ListenTouches DEF RegisterPending
  <1>3. CASE ~RegisterPending(a)
    BY <1>3, SamePromises
    DEF WaiterNext, TakeMessages, RegisterFoundSettled, RegisterRefused, Subscribe,
        StopListening, TryAgain, vars, store
  <1>4. QED
    BY <1>2, <1>3

\* Every step, by the promises it touches.
LEMMA WorkerTouches ==
  ASSUME MInv, Shape, NoCrons, [WorkerNext]_system
  PROVE  Touched /\ NoCrons'
  <1>1. ASSUME ServerTick
        PROVE  Touched
    BY <1>1, TickTouches DEF ServerTick, Touched, EndedBy
  <1>2. ASSUME ~ServerTick
        PROVE  Touched
    <2>1. ASSUME NEW f \in Fibers, FiberNext(f)
          PROVE  Touched
      BY <2>1, FiberTouches
    <2>2. ASSUME NEW w \in Workers,
                 LoopNext(w) \/ Heartbeat(w) \/ Restart(w)
          PROVE  Touched
      <3>1. promises' = promises /\ promiseTimeouts' = promiseTimeouts
        BY <2>2 DEF LoopNext, TakeChunk, NextMessage, Acquire, AcquireFails, TaskAcquire,
           Claim, Heartbeat, TaskHeartbeat, Restart, store, server
      <3>2. QED
        BY <3>1, SamePromises, KeptIsTouched
    <2>3. CASE ClockMoves \/ UNCHANGED system
      <3>1. promises' = promises /\ promiseTimeouts' = promiseTimeouts
        BY <2>3 DEF ClockMoves, Advance, store, system
      <3>2. QED
        BY <3>1, SamePromises, KeptIsTouched
    <2>4. ASSUME NEW a \in Waiters, AwaitSettled(a)
          PROVE  Touched
      BY <2>4, WaiterTouches, KeptIsTouched DEF AwaitSettled
    <2>5. QED
      BY <1>2, <2>1, <2>2, <2>3, <2>4, ClientTouches DEF WorkerNext
  <1>3. Touched
    BY <1>1, <1>2
  <1>4. Tick(now) \/ UNCHANGED crons
    BY WorkerServed, ServedClock
  <1>5. ASSUME Tick(now)
        PROVE  NoCrons'
    BY <1>5, TickTouches
  <1>6. ASSUME UNCHANGED crons
        PROVE  NoCrons'
    BY <1>6 DEF crons, NoCrons
  <1>7. QED
    BY <1>3, <1>4, <1>5, <1>6

-----------------------------------------------------------------------------
(* The turns of a run.                                                       *)

SameSteps(f) ==
  /\ runs'[f].pc = runs[f].pc /\ runs'[f].handle = runs[f].handle
  /\ runs'[f].attached = runs[f].attached /\ runs'[f].retryAt = runs[f].retryAt
SameEnd(f) ==
  /\ runs'[f].stage = runs[f].stage
  /\ runs'[f].exit = runs[f].exit /\ runs'[f].awaited = runs[f].awaited

OpensChild(f) ==
  /\ AtStep(f, Creates) /\ SameEnd(f)
  /\ runs'[f].pc = runs[f].pc + 1 /\ runs'[f].retryAt = runs[f].retryAt
  /\ \E state \in PromiseStates \ {"absent"} :
       /\ \/ state = runs[f].cache[StepOf(f).child] /\ UNCHANGED server
          \/ state = Projected(promises'[StepOf(f).child], now).state
       /\ runs'[f].handle = [runs[f].handle EXCEPT
                               ![StepOf(f).child] = HandleOf(StepOf(f).op, state)]
       /\ runs'[f].attached = AttachedWith(runs[f], StepOf(f), state)
PassesStep(f) ==
  /\ AtStep(f, {"await", "cancel"}) /\ SameEnd(f)
  /\ runs'[f].pc = runs[f].pc + 1
  /\ runs'[f].handle = runs[f].handle /\ runs'[f].attached = runs[f].attached
  /\ runs'[f].retryAt = runs[f].retryAt
  /\ StepOf(f).op = "await" =>
       \A c \in StepOf(f).group : runs[f].handle[c] \in {"none", "absent", "resolved"}
AwaitsFailure(f) ==
  AtStep(f, {"await"}) /\ \E c \in StepOf(f).group : runs[f].handle[c] \in Failures
Exits(f) ==
  /\ runs[f].stage = "handler" /\ SameSteps(f)
  /\ runs'[f].stage = runs[f].stage
  /\ \/ /\ runs'[f].exit = "failed"
        /\ ~Holds(f) \/ MayFail \/ AwaitsFailure(f)
     \/ runs'[f].exit = "suspended" /\ runs'[f].awaited # {}
LocalTurn(f) ==
  /\ runs[f].stage = "handler" /\ SameEnd(f)
  /\ runs'[f].pc = runs[f].pc /\ runs'[f].attached = runs[f].attached
  /\ \E c \in Ids, h \in HandleStates :
       /\ runs[f].handle[c] \in {"running", "waiting"}
       /\ runs'[f].handle = [runs[f].handle EXCEPT ![c] = h]
       /\ \/ h \in {"running", "waiting"}
          \/ h = "lost" /\ (MayFail \/ ~Holds(f))
          \/ h = Projected(promises'[c], now).state /\ h # "pending"
       /\ \E m : /\ runs'[f].retryAt = [runs[f].retryAt EXCEPT ![c] = m]
                 /\ \/ m = runs[f].retryAt[c] \/ m = NotSet
                    \/ m = now + RetryIn(f, c) /\ RetryIn(f, c) # NoRetry
StageTurn(f) ==
  /\ SameSteps(f) /\ runs'[f].stage # "handler"
  /\ runs'[f].exit = runs[f].exit /\ runs'[f].awaited = runs[f].awaited
  /\ runs'[f].stage = "finishing" =>
       /\ runs[f].stage = "handler" /\ Exited(runs[f])
       /\ DrainedStage(runs[f]) = "finishing"
Turn(f) ==
  OpensChild(f) \/ PassesStep(f) \/ Exits(f) \/ LocalTurn(f) \/ StageTurn(f)

LEMMA OpeningTurns ==
  ASSUME Shape, NEW f \in Fibers, AtStep(f, Creates),
         NEW known \in [Ids -> PromiseStates], NEW state \in PromiseStates \ {"absent"},
         \/ state = runs[f].cache[StepOf(f).child] /\ UNCHANGED server
         \/ state = Projected(promises'[StepOf(f).child], now).state,
         runs' = [runs EXCEPT ![f] =
                    Opened([runs[f] EXCEPT !.cache = known], StepOf(f), state)]
  PROVE  Turn(f)
  <1> DEFINE run == [runs[f] EXCEPT !.cache = known]
             step == StepOf(f)
             r == Opened(run, step, state)
  <1>1. runs[f] \in RunShape /\ runs[f].task \in Ids /\ step \in Step
    BY ShapeOf, StepType DEF AtStep
  <1>2. /\ run \in RunShape /\ run.handle = runs[f].handle
        /\ run.stage = runs[f].stage /\ run.pc = runs[f].pc
        /\ run.attached = runs[f].attached /\ run.awaited = runs[f].awaited
        /\ run.exit = runs[f].exit /\ run.retryAt = runs[f].retryAt
    BY <1>1 DEF RunShape
  <1>3. runs'[f] = r
    BY DEF Shape
  <1> HIDE DEF run, step
  <1>4. OpenedAs(r, run, step, state)
    BY <1>1, <1>2, OpenedFields
  <1> HIDE DEF r
  <1>5. AttachedWith(run, step, state) = AttachedWith(runs[f], step, state)
    BY <1>2 DEF AttachedWith
  <1>6. OpensChild(f)
    BY <1>2, <1>3, <1>4, <1>5 DEF OpensChild, SameEnd, OpenedAs, step
  <1>7. QED
    BY <1>6 DEF Turn

LEMMA OpenCachedTurns ==
  ASSUME Shape, NEW f \in Fibers, OpenCached(f)
  PROVE  Turn(f)
  <1> DEFINE known == runs[f].cache
             state == runs[f].cache[StepOf(f).child]
  <1>1. /\ runs[f] \in RunShape /\ AtStep(f, Creates)
        /\ StepOf(f).child \in Ids
    BY ShapeOf, StepType DEF OpenCached, Step
  <1>2. known \in [Ids -> PromiseStates] /\ state \in PromiseStates \ {"absent"}
    BY <1>1 DEF RunShape, OpenCached
  <1>3. [runs[f] EXCEPT !.cache = known] = runs[f]
    BY <1>1 DEF RunShape
  <1>4. runs' = [runs EXCEPT ![f] = Opened(runs[f], StepOf(f), state)]
    BY DEF OpenCached, Shape
  <1>5. UNCHANGED server
    BY DEF OpenCached
  <1> HIDE DEF known
  <1>6. QED
    BY <1>1, <1>2, <1>3, <1>4, <1>5, OpeningTurns

\* A fence that passes leaves the child in the store.
LEMMA FencedChildExists ==
  ASSUME MInv, MInv', Shape, NEW f \in Fibers, AtStep(f, Creates), FencedCreate(f)
  PROVE  promises'[StepOf(f).child].state # "absent"
  <1>1. /\ StepOf(f).op \in Creates /\ StepOf(f).child \in Ids
        /\ StepOf(f).duration \in Nat /\ runs[f].task \in Ids
    BY StepType DEF Step
  <1>2. CASE promises[StepOf(f).child].state # "absent" /\ UNCHANGED server
    BY <1>2 DEF server
  <1>3. CASE PromiseCreate(StepOf(f).child, StepTags(StepOf(f).op),
                           ClampedTimeout(runs[f].task, StepOf(f)), now)
    <2>1. promises'[StepOf(f).child] =
            NewPromise(StepTags(StepOf(f).op), ClampedTimeout(runs[f].task, StepOf(f)), now)
      BY <1>1, <1>3 DEF PromiseCreate, MInv, IInv, TypeOK
    <2>2. QED
      BY <2>1 DEF NewPromise, PendingPromise, BornSettled, NoPromise, TimedOutState
  <1>4. QED
    BY <1>2, <1>3 DEF FencedCreate, TaskFenceCreate

\* What is observed of a stored promise.
LEMMA ObservedState ==
  ASSUME TypeOK', NEW c \in Ids, NEW t
  PROVE  /\ Projected(promises'[c], t).state = "absent" <=> promises'[c].state = "absent"
         /\ Projected(promises'[c], t).state = "pending" => promises'[c].state = "pending"
         /\ promises'[c].state \notin {"pending"} =>
              Projected(promises'[c], t).state = promises'[c].state
  <1>1. promises'[c] \in Promise
    BY DEF TypeOK
  <1>2. QED
    BY <1>1 DEF Projected, Promise, TimedOutState

LEMMA OpenFencedTurns ==
  ASSUME MInv, MInv', Shape, NEW f \in Fibers, OpenFenced(f)
  PROVE  Turn(f)
  <1> DEFINE step == StepOf(f)
             state == Projected(promises'[step.child], now).state
             known == Cached(runs[f], step.child, state, promises')
  <1>1. runs[f] \in RunShape /\ AtStep(f, Creates) /\ step.child \in Ids
    BY ShapeOf, StepType DEF OpenFenced, Step
  <1>2. known \in [Ids -> PromiseStates]
    BY <1>1, CachedLearns
  <1>3. state \in PromiseStates \ {"absent"}
    <2>1. promises'[step.child].state # "absent"
      BY <1>1, FencedChildExists DEF OpenFenced
    <2>2. QED
      BY <1>1, <2>1, StatesAfter, ObservedState DEF MInv, IInv
  <1>4. runs' = [runs EXCEPT ![f] =
                   Opened([runs[f] EXCEPT !.cache = known], step, state)]
    BY DEF OpenFenced
  <1> HIDE DEF known
  <1>5. QED
    BY <1>1, <1>2, <1>3, <1>4, OpeningTurns

LEMMA CancelTurns ==
  ASSUME Shape, NEW f \in Fibers, CancelFenced(f)
  PROVE  Turn(f)
  <1> DEFINE known == Cached(runs[f], StepOf(f).child,
                             Projected(promises'[StepOf(f).child], now).state, promises')
  <1>1. runs[f] \in RunShape /\ AtStep(f, {"cancel"})
    BY ShapeOf, StepType DEF CancelFenced
  <1>2. runs'[f] = [runs[f] EXCEPT !.pc = @ + 1, !.cache = known]
    BY <1>1 DEF CancelFenced, Shape, RunShape
  <1> HIDE DEF known
  <1>3. PassesStep(f)
    BY <1>1, <1>2 DEF PassesStep, SameEnd, AtStep, StepOf, RunShape
  <1>4. QED
    BY <1>3 DEF Turn

LEMMA FailureTurns ==
  ASSUME Shape, NEW f \in Fibers, FenceRefused(f) \/ FenceUnanswered(f)
  PROVE  Turn(f)
  <1>1. /\ runs[f] \in RunShape /\ runs[f].stage = "handler"
        /\ ~Holds(f) \/ MayFail
        /\ HandlerFails(f)
    BY ShapeOf DEF FenceRefused, FenceUnanswered, SendsFence, AtStep
  <1>2. runs'[f] = [runs[f] EXCEPT !.exit = "failed"]
    BY <1>1 DEF HandlerFails, Shape, RunShape
  <1>3. Exits(f)
    BY <1>1, <1>2 DEF Exits, SameSteps, RunShape
  <1>4. QED
    BY <1>3 DEF Turn

LEMMA AwaitTurns ==
  ASSUME Shape, NEW f \in Fibers, AwaitHandles(f)
  PROVE  Turn(f)
  <1> DEFINE G == StepOf(f).group
             failed == In(runs[f], G, Failures)
             pending == In(runs[f], G, {"pending"})
  <1>1. /\ runs[f] \in RunShape /\ runs[f].stage = "handler" /\ G \in SUBSET Ids
        /\ AtStep(f, {"await"}) /\ StepOf(f).op = "await"
    <2>1. AtStep(f, {"await"}) /\ runs[f] \in RunShape
      BY ShapeOf DEF AwaitHandles
    <2>2. StepOf(f) \in Step /\ StepOf(f).op \in {"await"}
      BY <2>1, StepType
    <2>3. QED
      BY <2>1, <2>2 DEF AtStep, Step
  <1>2. CASE failed \cup pending = {} /\ runs' = [runs EXCEPT ![f].pc = @ + 1]
    <2>1. runs'[f] = [runs[f] EXCEPT !.pc = @ + 1]
      BY <1>1, <1>2 DEF Shape, RunShape
    <2>2. In(runs[f], G, {"running", "waiting", "lost"}) = {}
      BY DEF AwaitHandles
    <2>3. \A c \in G : /\ runs[f].handle[c] \notin {"running", "waiting", "lost"}
                       /\ runs[f].handle[c] \notin Failures
                       /\ runs[f].handle[c] # "pending"
                       /\ runs[f].handle[c] \in HandleStates
      BY <1>1, <1>2, <2>2 DEF In, RunShape
    <2>4. \A c \in G : runs[f].handle[c] \in {"none", "absent", "resolved"}
      BY <2>3 DEF HandleStates, PromiseStates, Failures
    <2>5. PassesStep(f)
      BY <1>1, <2>1, <2>4 DEF PassesStep, SameEnd, AtStep, RunShape
    <2>6. QED
      BY <2>5 DEF Turn
  <1>3. CASE failed # {} /\ runs' = [runs EXCEPT ![f].exit = "failed"]
    <2>1. runs'[f] = [runs[f] EXCEPT !.exit = "failed"]
      BY <1>1, <1>3 DEF Shape, RunShape
    <2>2. AwaitsFailure(f)
      BY <1>1, <1>3 DEF AwaitsFailure, In
    <2>3. Exits(f)
      BY <1>1, <2>1, <2>2 DEF Exits, SameSteps, RunShape
    <2>4. QED
      BY <2>3 DEF Turn
  <1>4. CASE /\ pending # {}
             /\ runs' = [runs EXCEPT ![f].exit = "suspended", ![f].awaited = pending]
    <2> HIDE DEF pending
    <2>1. runs'[f] = [runs[f] EXCEPT !.exit = "suspended", !.awaited = pending]
      BY <1>1, <1>4 DEF Shape, RunShape
    <2>2. /\ runs'[f].exit = "suspended" /\ runs'[f].awaited = pending
          /\ runs'[f].stage = runs[f].stage
      BY <1>1, <2>1 DEF RunShape
    <2>3. SameSteps(f)
      BY <1>1, <2>1 DEF SameSteps, RunShape
    <2>4. Exits(f)
      BY <1>1, <1>4, <2>2, <2>3 DEF Exits
    <2>5. QED
      BY <2>4 DEF Turn
  <1>5. QED
    BY <1>2, <1>3, <1>4 DEF AwaitHandles

\* A settle that is let through, or finds nothing pending, leaves an outcome.
LEMMA SettledIsSeen ==
  ASSUME MInv, MInv', NEW f \in Fibers, NEW c \in Ids, NEW outcome \in SettledStates,
         FencedSettle(f, c, outcome)
  PROVE  Projected(promises'[c], now).state # "pending"
  <1>1. TypeOK /\ TypeOK' /\ now \in Int
    BY DEF MInv, IInv, TypeOK
  <1>2. CASE TaskFenceSettle(runs[f].task, runs[f].version, c, outcome, now)
    <2>1. promises'[c].state = outcome
      BY <1>2, SettleTouches DEF TaskFenceSettle, PromiseSettle
    <2>2. QED
      BY <1>1, <2>1, ObservedState DEF SettledStates
  <1>3. CASE ~Fresh(c, now) /\ UNCHANGED server
    <2>1. promises' = promises /\ promises[c] \in Promise
      BY <1>1, <1>3 DEF server, TypeOK
    <2>2. QED
      BY <1>1, <1>3, <2>1 DEF Fresh, Projected, Promise, TimedOutState
  <1>4. QED
    BY <1>2, <1>3 DEF FencedSettle

LEMMA LocalTurns ==
  ASSUME MInv, MInv', Shape, NEW f \in Fibers, NEW c \in Ids,
         \/ LocalRetries(f, c) \/ NextAttempt(f, c)
         \/ \E outcome : LocalSettles(f, c, outcome) \/ LocalLost(f, c, outcome)
  PROVE  Turn(f)
  <1>1. /\ runs[f] \in RunShape
        /\ runs[f].handle[c] \in {"running", "waiting"}
        /\ runs[f].stage = "handler"
    BY ShapeOf DEF LocalRetries, NextAttempt, LocalSettles, LocalLost, LastAttempt, Quiet
  <1>2. [runs[f].retryAt EXCEPT ![c] = runs[f].retryAt[c]] = runs[f].retryAt
    BY <1>1 DEF RunShape
  <1>3. CASE LocalRetries(f, c)
    <2> DEFINE m == now + RetryIn(f, c)
               handles == [runs[f].handle EXCEPT ![c] = "waiting"]
               times == [runs[f].retryAt EXCEPT ![c] = m]
               r == [runs[f] EXCEPT !.handle = handles, !.retryAt = times]
    <2>1. runs'[f] = r /\ RetryIn(f, c) # NoRetry
      BY <1>1, <1>3 DEF LocalRetries, Retries, Shape, RunShape
    <2>2. "waiting" \in HandleStates
      BY DEF HandleStates
    <2> HIDE DEF handles, times
    <2>3. /\ r.handle = handles /\ r.retryAt = times
          /\ r.stage = runs[f].stage /\ r.exit = runs[f].exit
          /\ r.awaited = runs[f].awaited /\ r.pc = runs[f].pc
          /\ r.attached = runs[f].attached
      BY <1>1 DEF RunShape
    <2> HIDE DEF r
    <2>4. LocalTurn(f)
      BY <1>1, <2>1, <2>2, <2>3 DEF LocalTurn, SameEnd, handles, times
    <2>5. QED
      BY <2>4 DEF Turn
  <1>4. CASE NextAttempt(f, c)
    <2> DEFINE handles == [runs[f].handle EXCEPT ![c] = "running"]
               times == [runs[f].retryAt EXCEPT ![c] = NotSet]
               attempts == [runs[f].attempt EXCEPT ![c] = @ + 1]
               r == [runs[f] EXCEPT !.handle = handles, !.attempt = attempts,
                                    !.retryAt = times]
    <2>1. runs'[f] = r
      BY <1>1, <1>4 DEF NextAttempt, Shape, RunShape
    <2>2. "running" \in HandleStates
      BY DEF HandleStates
    <2> HIDE DEF handles, times, attempts
    <2>3. /\ r.handle = handles /\ r.retryAt = times
          /\ r.stage = runs[f].stage /\ r.exit = runs[f].exit
          /\ r.awaited = runs[f].awaited /\ r.pc = runs[f].pc
          /\ r.attached = runs[f].attached
      BY <1>1 DEF RunShape
    <2> HIDE DEF r
    <2>4. LocalTurn(f)
      BY <1>1, <2>1, <2>2, <2>3 DEF LocalTurn, SameEnd, handles, times
    <2>5. QED
      BY <2>4 DEF Turn
  <1>5. ASSUME NEW outcome, LocalSettles(f, c, outcome)
        PROVE  Turn(f)
    <2> DEFINE state == Projected(promises'[c], now).state
               known == Cached(runs[f], c, state, promises')
               handles == [runs[f].handle EXCEPT ![c] = state]
               r == [runs[f] EXCEPT !.handle = handles, !.cache = known]
    <2>1. runs'[f] = r
      BY <1>1, <1>5 DEF LocalSettles, Recorded, Shape, RunShape
    <2>2. state \in HandleStates
      BY StatesAfter DEF HandleStates
    <2>3. state # "pending"
      BY <1>5, SettledAsType, SettledIsSeen DEF LocalSettles
    <2> HIDE DEF handles, known
    <2>4. /\ r.handle = handles /\ r.retryAt = runs[f].retryAt
          /\ r.stage = runs[f].stage /\ r.exit = runs[f].exit
          /\ r.awaited = runs[f].awaited /\ r.pc = runs[f].pc
          /\ r.attached = runs[f].attached
      BY <1>1 DEF RunShape
    <2> HIDE DEF r, state
    <2>5. LocalTurn(f)
      BY <1>1, <1>2, <2>1, <2>2, <2>3, <2>4 DEF LocalTurn, SameEnd, handles, state
    <2>6. QED
      BY <2>5 DEF Turn
  <1>6. ASSUME NEW outcome, LocalLost(f, c, outcome)
        PROVE  Turn(f)
    <2> DEFINE handles == [runs[f].handle EXCEPT ![c] = "lost"]
               r == [runs[f] EXCEPT !.handle = handles]
    <2>1. runs'[f] = r /\ (MayFail \/ ~Holds(f))
      BY <1>1, <1>6 DEF LocalLost, Shape, RunShape
    <2>2. "lost" \in HandleStates
      BY DEF HandleStates
    <2> HIDE DEF handles
    <2>3. /\ r.handle = handles /\ r.retryAt = runs[f].retryAt
          /\ r.stage = runs[f].stage /\ r.exit = runs[f].exit
          /\ r.awaited = runs[f].awaited /\ r.pc = runs[f].pc
          /\ r.attached = runs[f].attached
      BY <1>1 DEF RunShape
    <2> HIDE DEF r
    <2>4. LocalTurn(f)
      BY <1>1, <1>2, <2>1, <2>2, <2>3 DEF LocalTurn, SameEnd, handles
    <2>5. QED
      BY <2>4 DEF Turn
  <1>7. QED
    BY <1>3, <1>4, <1>5, <1>6

LEMMA StageTurns ==
  ASSUME Shape, NEW f \in Fibers,
         NEW stage, stage # "handler", runs' = [runs EXCEPT ![f].stage = stage],
         stage = "finishing" => /\ runs[f].stage = "handler" /\ Exited(runs[f])
                                /\ DrainedStage(runs[f]) = "finishing"
  PROVE  Turn(f)
  <1>1. runs[f] \in RunShape
    BY ShapeOf
  <1>2. runs'[f] = [runs[f] EXCEPT !.stage = stage]
    BY DEF Shape
  <1>3. SameSteps(f) /\ runs'[f].exit = runs[f].exit
        /\ runs'[f].awaited = runs[f].awaited /\ runs'[f].stage = stage
    BY <1>1, <1>2 DEF SameSteps, RunShape
  <1>4. QED
    BY <1>3 DEF StageTurn, Turn

LEMMA EngineTurns ==
  ASSUME MInv, MInv', Shape, NEW f \in Fibers, EngineNext(f)
  PROVE  Turn(f)
  <1>1. CASE OpenCached(f) \/ OpenFenced(f) \/ CancelFenced(f) \/ AwaitHandles(f)
    BY <1>1, OpenCachedTurns, OpenFencedTurns, CancelTurns, AwaitTurns
  <1>2. CASE FenceRefused(f) \/ FenceUnanswered(f)
    BY <1>2, FailureTurns
  <1>3. CASE Drain(f)
    <2>1. DrainedStage(runs[f]) # "handler"
      BY DEF DrainedStage
    <2>2. QED
      BY <1>3, <2>1, StageTurns DEF Drain
  <1>4. CASE Finish(f) \/ FinishFails(f)
    BY <1>4, StageTurns DEF Finish, FinishFails
  <1>5. QED
    BY <1>1, <1>2, <1>3, <1>4, LocalTurns DEF EngineNext

\* What a step of the composition makes of the run of one fiber.
StartsAnew(f) ==
  /\ Under(runs'[f]) /\ Blank(runs'[f])
  /\ \A c \in Ids : /\ runs'[f].handle[c] = "none"
                    /\ runs'[f].cache[c] = "absent" \/ Learned(c, runs'[f].cache[c])
RunTurn(f) ==
  \/ runs'[f] = runs[f]
  \/ SameClaim(f) /\ (\A c \in Ids : CacheMoves(f, c)) /\ Turn(f)
  \/ StartsAnew(f) /\ (SameClaim(f) \/ ~Under(runs[f]))
  \/ ~Under(runs'[f])

LEMMA StartsAreAnew ==
  ASSUME NEW f \in Fibers, NEW id, NEW version, RunStarts(f, id, version)
  PROVE  StartsAnew(f)
  BY DEF RunStarts, StartsAnew

LEMMA FiberTurns ==
  ASSUME MInv, MInv', Shape, NEW f \in Fibers, FiberNext(f), NEW g \in Fibers
  PROVE  RunTurn(g)
  <1>1. CASE EngineNext(f)
    <2>1. Proceeds(f) /\ Turn(f)
      BY <1>1, EngineProceeds, EngineTurns
    <2>2. QED
      BY <2>1 DEF Proceeds, Alone, RunTurn
  <1>2. CASE Suspend(f) \/ SuspendFails(f) \/ Release(f)
    <2>1. /\ "closing" \in Stages \ {"idle", "claiming"}
          /\ "failed" \in Stages \ {"idle", "claiming"}
      BY DEF Stages
    <2>2. Claimed(f) /\ \A c \in Ids : runs[f].handle[c] \notin {"running", "waiting"}
      BY <1>2, ShapeOf DEF Suspend, SuspendFails, Release, Claimed, Quiet
    <2>3. Proceeds(f)
      BY <1>2, <2>1, <2>2, StageProceeds DEF Suspend, SuspendFails, Release
    <2>4. Turn(f)
      BY <1>2, StageTurns DEF Suspend, SuspendFails, Release
    <2>5. QED
      BY <2>3, <2>4 DEF Proceeds, Alone, RunTurn
  <1>3. CASE SuspendStartsOver(f)
    <2>1. runs[f].task \in Ids /\ runs[f].version \in Int
      BY <1>3, ShapeOf DEF SuspendStartsOver, RunShape
    <2>2. RunStarts(f, runs[f].task, runs[f].version)
      BY <1>3, <2>1, NewRunFresh DEF SuspendStartsOver
    <2>3. Proceeds(f)
      BY <1>3, StartsOverProceeds
    <2>4. QED
      BY <2>2, <2>3, StartsAreAnew DEF Proceeds, Alone, RunTurn
  <1>4. CASE Close(f)
    BY <1>4, CloseEnds, NoRunShape DEF ClaimEnds, Alone, RunTurn
  <1>5. QED
    BY <1>1, <1>2, <1>3, <1>4 DEF FiberNext

LEMMA WorkerTurns ==
  ASSUME MInv, MInv', Shape, [WorkerNext]_system, NEW g \in Fibers
  PROVE  RunTurn(g)
  <1>1. Workers \subseteq Fibers /\ Guests \subseteq Fibers /\ Roots \subseteq Ids
    BY WorkerAssumption
  <1>2. ASSUME NEW f \in Fibers, FiberNext(f)
        PROVE  RunTurn(g)
    BY <1>2, FiberTurns
  <1>3. ASSUME NEW f \in Fibers, NEW id \in Ids, ClaimBegins(f, id)
        PROVE  RunTurn(g)
    BY <1>3, StartsAreAnew DEF ClaimBegins, RunStarts, Alone, RunTurn
  <1>4. ASSUME NEW f \in Fibers, LoopWaits(f)
        PROVE  RunTurn(g)
    BY <1>4 DEF LoopWaits, Alone, RunTurn
  <1>5. ASSUME runs' = runs
        PROVE  RunTurn(g)
    BY <1>5 DEF RunTurn
  <1>6. ASSUME NEW w \in Workers, LoopNext(w)
        PROVE  RunTurn(g)
    BY <1>1, <1>3, <1>4, <1>5, <1>6, AcquireBegins, AcquireFailsWaits, NextMessageWaits
    DEF LoopNext, TakeChunk
  <1>7. ASSUME NEW w \in Workers, Heartbeat(w)
        PROVE  RunTurn(g)
    BY <1>5, <1>7 DEF Heartbeat
  <1>8. ASSUME NEW w \in Workers, Restart(w)
        PROVE  RunTurn(g)
    BY <1>8, RestartFields, NoRunShape DEF RunTurn
  <1>9. ASSUME NEW id \in Roots, NEW f \in Guests, BeginRun(f, id)
        PROVE  RunTurn(g)
    BY <1>1, <1>3, <1>9, BeginRunBegins
  <1>10. CASE \/ \E id \in Roots : BeginRpc(id) \/ BeginRunLost(id) \/ BeginRunExpired(id)
              \/ \E c \in Ids, outcome \in Outcomes : SettleExternal(c, outcome)
              \/ \E c \in Ids : ClientCancel(c)
    BY <1>5, <1>10 DEF BeginRpc, BeginRunLost, BeginRunExpired, SettleExternal, ClientCancel
  <1>11. CASE \/ \E a \in Waiters : AwaitSettled(a)
              \/ ServerTick \/ ClockMoves
    BY <1>5, <1>11 DEF AwaitSettled, ServerTick, ClockMoves
  <1>12. CASE UNCHANGED system
    BY <1>5, <1>12 DEF system
  <1>13. QED
    BY <1>2, <1>6, <1>7, <1>8, <1>9, <1>10, <1>11, <1>12 DEF WorkerNext, ClientNext

-----------------------------------------------------------------------------
(* The tags of what exists.                                                  *)

Tagged ==
  /\ \A p \in Ids : /\ tasks[p].state # "absent" => promises[p].tags.target
                    /\ promises[p].tags.target => ~promises[p].tags.timer
                    /\ promiseTimeouts[p] # NotSet => External(promises[p].tags)
  /\ \A id \in Ids : \A k \in Opens(id) :
       promises[Script[id][k].child].state # "absent" =>
         promises[Script[id][k].child].tags = StepTags(Script[id][k].op)

\* What a promise is opened with is what its step says, if a step opens it.
LEMMA OpenedTags ==
  ASSUME Shape, OwnNames, RootsApart, NEW p \in Ids, OpenedBy(p)
  PROVE  \E tags \in Tags :
           /\ Born(p, tags)
           /\ tags.target => ~tags.timer
           /\ \A id \in Ids : \A k \in Opens(id) :
                Script[id][k].child = p => tags = StepTags(Script[id][k].op)
  <1>1. CASE p \in Roots /\ Born(p, RootTags)
    <2>1. \A id \in Ids : \A k \in Opens(id) : Script[id][k].child # p
      BY <1>1 DEF RootsApart, Calls
    <2>2. QED
      BY <1>1, <2>1, RootTagsType
  <1>2. ASSUME NEW f \in Fibers, AtStep(f, Creates), StepOf(f).child = p,
               Born(p, StepTags(StepOf(f).op))
        PROVE  \E tags \in Tags :
           /\ Born(p, tags)
           /\ tags.target => ~tags.timer
           /\ \A id \in Ids : \A k \in Opens(id) :
                Script[id][k].child = p => tags = StepTags(Script[id][k].op)
    <2>1. runs[f].task \in Ids /\ StepOf(f).op \in Creates /\ runs[f] \in RunShape
      BY <1>2, StepType, ShapeOf
    <2>2. runs[f].pc \in Opens(runs[f].task)
      BY <1>2, <2>1, ScriptSteps DEF AtStep, Exited, Opens, RunShape
    <2>3. \A id \in Ids : \A k \in Opens(id) :
            Script[id][k].child = p => Script[id][k].op = StepOf(f).op
      BY <1>2, <2>1, <2>2 DEF OwnNames, StepOf
    <2>4. StepTags(StepOf(f).op) \in Tags
      BY <2>1, TagsOfSteps
    <2>5. StepTags(StepOf(f).op).target => ~StepTags(StepOf(f).op).timer
      BY <2>1 DEF StepTags, NoTags, Creates
    <2>6. QED
      BY <1>2, <2>3, <2>4, <2>5
  <1>3. QED
    BY <1>1, <1>2 DEF OpenedBy

LEMMA TaggedStep ==
  ASSUME MInv, MInv', Moves, Shape, OwnNames, RootsApart, Tagged, Touched
  PROVE  Tagged'
  <1> DEFINE Fine(p) ==
        /\ tasks[p].state # "absent" => promises[p].tags.target
        /\ promises[p].tags.target => ~promises[p].tags.timer
        /\ promiseTimeouts[p] # NotSet => External(promises[p].tags)
        /\ \A id \in Ids : \A k \in Opens(id) :
             Script[id][k].child = p /\ promises[p].state # "absent" =>
               promises[p].tags = StepTags(Script[id][k].op)
  <1>1. SUFFICES ASSUME NEW p \in Ids
                 PROVE  Fine(p)'
    BY OpensAreSteps DEF Tagged, Opens
  <1>2. Fine(p)
    BY DEF Tagged
  <1>3. ASSUME promises[p].state # "absent", promises'[p].tags = promises[p].tags,
               promiseTimeouts'[p] \in {promiseTimeouts[p], NotSet}
        PROVE  Fine(p)'
    <2>1. TaskMoves(p) /\ tasks[p].state \in TaskStates
      BY DEF Moves, MInv, IInv, TypeOK, Task
    <2>2. tasks'[p].state # "absent" => tasks[p].state # "absent"
      BY <1>3, <2>1
      DEF TaskMoves, Stands, Begins, IsClaimed, IsParked, IsWoken, Goes, Live
    <2>3. QED
      BY <1>2, <1>3, <2>2
  <1>4. CASE OpenedBy(p)
    <2>1. PICK tags \in Tags :
           /\ Born(p, tags)
           /\ tags.target => ~tags.timer
           /\ \A id \in Ids : \A k \in Opens(id) :
                Script[id][k].child = p => tags = StepTags(Script[id][k].op)
      BY <1>4, OpenedTags
    <2>2. QED
      BY <2>1 DEF Born
  <1>5. CASE EndedBy(p)
    BY <1>3, <1>5 DEF EndedBy, Expires, Ended
  <1>6. CASE Kept(p)
    <2>1. CASE promises[p].state # "absent"
      BY <1>3, <1>6, <2>1 DEF Kept
    <2>2. CASE promises[p].state = "absent"
      <3>1. promises'[p].state = "absent"
        BY <1>6, <2>2 DEF Kept
      <3>2. tasks'[p].state = "absent"
        <4>1. tasks'[p] \in Task
          BY DEF MInv, IInv, TypeOK
        <4>2. tasks'[p].state \notin Live \cup {"fulfilled"}
          BY <3>1 DEF MInv, IInv, Consistent, Lockstep, SettledStates
        <4>3. QED
          BY <4>1, <4>2 DEF Task, TaskStates, Live
      <3>3. QED
        BY <1>2, <1>6, <3>1, <3>2 DEF Kept
    <2>3. QED
      BY <2>1, <2>2
  <1>7. QED
    BY <1>4, <1>5, <1>6 DEF Touched

-----------------------------------------------------------------------------
(* What a replay leaves of the steps before it.                              *)

ReplayedSteps(id, pc, handle, attached) ==
  /\ \A k \in Opens(id) : k < pc <=> handle[Script[id][k].child] # "none"
  /\ \A c \in Ids \ Calls(id) : handle[c] = "none"
  /\ \A c \in Ids :
       /\ handle[c] # "absent"
       /\ handle[c] \in {"running", "waiting", "lost"} => c \in Locals(id)
  /\ \A c \in Locals(id) : handle[c] # "pending"
  /\ \A k \in DOMAIN Script[id] :
       k < pc /\ Script[id][k].op = "await" =>
         \A c \in Script[id][k].group : handle[c] = "resolved"
  /\ \A k \in Opens(id) :
       /\ Script[id][k].op \in {"rpc", "promise"}
       /\ handle[Script[id][k].child] = "pending"
       => Script[id][k].child \in attached

Replayed(run) ==
  /\ ReplayedSteps(run.task, run.pc, run.handle, run.attached)
  /\ run.exit = "suspended" => run.awaited # {}
  /\ run.stage = "finishing" /\ run.exit # "failed" =>
       run.attached = {} /\ run.pc > Len(Script[run.task])

LEMMA AnewReplayed ==
  ASSUME Shape', NEW f \in Fibers, StartsAnew(f)
  PROVE  Replayed(runs'[f])
  <1>1. runs'[f].task \in Ids
    BY DEF StartsAnew, Under, Shape
  <1>2. \A k \in Opens(runs'[f].task) : ~(k < 1) /\ Script[runs'[f].task][k].child \in Ids
    BY <1>1, OpensAreSteps
  <1>3. \A k \in DOMAIN Script[runs'[f].task] : ~(k < 1)
    BY <1>1, ScriptSteps
  <1>4. \A c \in Locals(runs'[f].task) : c \in Ids
    BY <1>1, LocalsAreIds
  <1>5. QED
    BY <1>2, <1>3, <1>4 DEF StartsAnew, Blank, Replayed, ReplayedSteps

LEMMA OpensReplayed ==
  ASSUME Shape, OwnNames, NEW f \in Fibers, SameClaim(f), Replayed(runs[f]),
         OpensChild(f)
  PROVE  Replayed(runs'[f])
  <1> DEFINE id == runs[f].task
             n == runs[f].pc
             d == StepOf(f).child
             op == StepOf(f).op
             handles == runs[f].handle
             steps == Script[id]
  <1>1. /\ runs[f] \in RunShape /\ id \in Ids /\ runs[f].stage = "handler"
        /\ d \in Ids /\ op \in Creates /\ n \in Nat
    BY ShapeOf, StepType DEF OpensChild, AtStep, Step, RunShape
  <1>2. n \in Opens(id) /\ steps[n].child = d /\ steps[n].op = op /\ n <= Len(steps)
    <2>1. n \in DOMAIN steps /\ n <= Len(steps)
      BY <1>1, ScriptSteps DEF OpensChild, AtStep, Exited, RunShape
    <2>2. QED
      BY <1>1, <2>1 DEF Opens, StepOf
  <1>3. PICK state \in PromiseStates \ {"absent"} :
          /\ runs'[f].handle = [handles EXCEPT ![d] = HandleOf(op, state)]
          /\ runs'[f].attached = AttachedWith(runs[f], StepOf(f), state)
    BY DEF OpensChild
  <1> DEFINE h == HandleOf(op, state)
  <1>4. /\ h \notin {"none", "absent", "waiting", "lost"}
        /\ h = "running" => op = "run"
        /\ h = "pending" => op # "run"
    BY <1>3 DEF HandleOf, PromiseStates, SettledStates
  <1>5. /\ handles[d] = "none"
        /\ \A c \in Ids : runs'[f].handle[c] = IF c = d THEN h ELSE handles[c]
    <2>1. handles[d] = "none"
      <3>1. \A k \in Opens(id) : k < n <=> handles[steps[k].child] # "none"
        BY DEF Replayed, ReplayedSteps
      <3>2. ~(n < n)
        BY <1>1
      <3>3. QED
        BY <1>2, <3>1, <3>2
    <2>2. handles \in [Ids -> HandleStates]
      BY <1>1 DEF RunShape
    <2>3. \A c \in Ids : runs'[f].handle[c] = IF c = d THEN h ELSE handles[c]
      <3>1. TAKE c \in Ids
      <3>2. CASE c = d
        BY <1>3, <2>2, <3>2
      <3>3. CASE c # d
        BY <1>3, <2>2, <3>3
      <3>4. QED
        BY <3>2, <3>3
    <2>4. QED
      BY <2>1, <2>3
  <1>6. \A k \in Opens(id) : k \in Nat /\ steps[k].child \in Ids
                             /\ (steps[k].child = d <=> k = n)
    BY <1>1, <1>2, OpensAreSteps DEF OwnNames
  <1>7. /\ runs'[f].task = id /\ runs'[f].pc = n + 1 /\ runs'[f].stage = "handler"
        /\ runs'[f].exit = runs[f].exit /\ runs'[f].awaited = runs[f].awaited
    BY <1>1 DEF SameClaim, OpensChild, SameEnd
  <1>8. d \in Calls(id) /\ (op = "run" => d \in Locals(id))
        /\ (d \in Locals(id) => op = "run")
    <2>1. d \in Calls(id)
      BY <1>2 DEF Calls
    <2>2. op = "run" => d \in Locals(id)
      BY <1>2 DEF Locals, Opens
    <2>3. d \in Locals(id) => op = "run"
      BY <1>1, <1>2, LocalIsRun
    <2>4. QED
      BY <2>1, <2>2, <2>3
  <1>9. \A k \in DOMAIN steps : steps[k].group \subseteq Ids /\ k \in Nat
    BY <1>1, ScriptSteps DEF Step
  <1>10. \A c \in Locals(id) : c \in Ids
    BY <1>1, LocalsAreIds
  <1>11. /\ runs[f].attached \subseteq runs'[f].attached
         /\ op \in {"rpc", "promise"} /\ h = "pending" => d \in runs'[f].attached
    BY <1>3 DEF AttachedWith, HandleOf
  <1> HIDE DEF h, id, n, d, op, handles, steps
  <1>12. \A k \in Opens(id) : k < n + 1 <=> runs'[f].handle[steps[k].child] # "none"
    <2>1. TAKE k \in Opens(id)
    <2>2. k < n <=> handles[steps[k].child] # "none"
      BY DEF Replayed, ReplayedSteps, id, handles, steps, n
    <2>3. CASE k = n
      BY <1>1, <1>2, <1>4, <1>5, <2>3
    <2>4. CASE k # n
      BY <1>1, <1>5, <1>6, <2>2, <2>4
    <2>5. QED
      BY <2>3, <2>4
  <1>13. \A c \in Ids \ Calls(id) : runs'[f].handle[c] = "none"
    BY <1>5, <1>8 DEF Replayed, ReplayedSteps, id, handles
  <1>14. \A c \in Ids :
           /\ runs'[f].handle[c] # "absent"
           /\ runs'[f].handle[c] \in {"running", "waiting", "lost"} => c \in Locals(id)
    BY <1>4, <1>5, <1>8 DEF Replayed, ReplayedSteps, id, handles
  <1>15. \A c \in Locals(id) : runs'[f].handle[c] # "pending"
    BY <1>4, <1>5, <1>8, <1>10 DEF Replayed, ReplayedSteps, id, handles
  <1>16. \A k \in DOMAIN steps : k < n + 1 /\ steps[k].op = "await" =>
           \A c \in steps[k].group : runs'[f].handle[c] = "resolved"
    <2>1. SUFFICES ASSUME NEW k \in DOMAIN steps, k < n + 1, steps[k].op = "await",
                          NEW c \in steps[k].group
                   PROVE  runs'[f].handle[c] = "resolved"
      OBVIOUS
    <2>2. k < n
      BY <1>1, <1>2, <1>9, <2>1 DEF Creates
    <2>3. handles[c] = "resolved" /\ c \in Ids
      BY <1>9, <2>1, <2>2 DEF Replayed, ReplayedSteps, id, handles, steps, n
    <2>4. QED
      BY <1>5, <2>3
  <1>17. \A k \in Opens(id) :
           steps[k].op \in {"rpc", "promise"}
           /\ runs'[f].handle[steps[k].child] = "pending"
           => steps[k].child \in runs'[f].attached
    <2>1. SUFFICES ASSUME NEW k \in Opens(id), steps[k].op \in {"rpc", "promise"},
                          runs'[f].handle[steps[k].child] = "pending"
                   PROVE  steps[k].child \in runs'[f].attached
      OBVIOUS
    <2>2. CASE k = n
      BY <1>1, <1>2, <1>5, <1>11, <2>1, <2>2
    <2>3. CASE k # n
      <3>1. handles[steps[k].child] = "pending"
        BY <1>5, <1>6, <2>1, <2>3
      <3>2. steps[k].child \in runs[f].attached
        BY <2>1, <3>1 DEF Replayed, ReplayedSteps, id, handles, steps
      <3>3. QED
        BY <1>11, <3>2
    <2>4. QED
      BY <2>2, <2>3
  <1>18. runs[f].exit = "suspended" => runs[f].awaited # {}
    BY DEF Replayed
  <1> DEFINE handle == runs'[f].handle
             attached == runs'[f].attached
  <1> HIDE DEF handle, attached
  <1>19. ReplayedSteps(id, n + 1, handle, attached)
    BY <1>12, <1>13, <1>14, <1>15, <1>16, <1>17
       DEF ReplayedSteps, steps, handle, attached
  <1>20. QED
    BY <1>7, <1>18, <1>19 DEF Replayed, handle, attached

LEMMA PassesReplayed ==
  ASSUME Shape, OwnHandles, NEW f \in Fibers, SameClaim(f), Replayed(runs[f]),
         PassesStep(f)
  PROVE  Replayed(runs'[f])
  <1> DEFINE id == runs[f].task
             n == runs[f].pc
             handles == runs[f].handle
             steps == Script[id]
  <1>1. /\ runs[f] \in RunShape /\ id \in Ids /\ runs[f].stage = "handler" /\ n \in Nat
        /\ steps[n].op \in {"await", "cancel"}
    BY ShapeOf, StepType DEF PassesStep, AtStep, StepOf, RunShape
  <1>2. n \in DOMAIN steps /\ \A k \in DOMAIN steps : k \in Nat
    BY <1>1, ScriptSteps DEF PassesStep, AtStep, Exited, RunShape
  <1>3. /\ runs'[f].task = id /\ runs'[f].pc = n + 1 /\ runs'[f].stage = "handler"
        /\ runs'[f].exit = runs[f].exit /\ runs'[f].awaited = runs[f].awaited
        /\ runs'[f].handle = handles /\ runs'[f].attached = runs[f].attached
    BY <1>1 DEF SameClaim, PassesStep, SameEnd
  <1>4. \A k \in Opens(id) : k \in DOMAIN steps /\ k # n
    BY <1>1 DEF Opens, Creates
  <1>5. steps[n].op = "await" => \A c \in steps[n].group : handles[c] = "resolved"
    <2>1. SUFFICES ASSUME steps[n].op = "await", NEW c \in steps[n].group
                   PROVE  handles[c] = "resolved"
      OBVIOUS
    <2>2. c \in CallsBefore(id, n)
      BY <1>1, <1>2, <2>1 DEF OwnHandles
    <2>3. PICK k \in Opens(id) : k < n /\ steps[k].child = c
      BY <2>2 DEF CallsBefore
    <2>4. handles[c] # "none" /\ c \in Ids
      BY <1>1, <2>3, OpensAreSteps DEF Replayed, ReplayedSteps
    <2>5. handles[c] # "absent"
      BY <2>4 DEF Replayed, ReplayedSteps
    <2>6. QED
      BY <2>1, <2>4, <2>5 DEF PassesStep, StepOf
  <1>6. \A k \in Opens(id) : k < n + 1 <=> k < n
    BY <1>1, <1>2, <1>4
  <1>7. \A k \in DOMAIN steps : k < n + 1 => k < n \/ k = n
    BY <1>1, <1>2
  <1> HIDE DEF id, n, handles, steps
  <1>8. \A k \in Opens(id) : k < n + 1 <=> handles[steps[k].child] # "none"
    BY <1>6 DEF Replayed, ReplayedSteps, id, n, handles, steps
  <1>9. \A k \in DOMAIN steps : k < n + 1 /\ steps[k].op = "await" =>
          \A c \in steps[k].group : handles[c] = "resolved"
    <2>1. \A k \in DOMAIN steps : k < n /\ steps[k].op = "await" =>
            \A c \in steps[k].group : handles[c] = "resolved"
      BY DEF Replayed, ReplayedSteps, id, n, handles, steps
    <2>2. QED
      BY <1>5, <1>7, <2>1
  <1>10. /\ \A c \in Ids \ Calls(id) : handles[c] = "none"
         /\ \A c \in Ids :
              /\ handles[c] # "absent"
              /\ handles[c] \in {"running", "waiting", "lost"} => c \in Locals(id)
         /\ \A c \in Locals(id) : handles[c] # "pending"
         /\ \A k \in Opens(id) :
              /\ steps[k].op \in {"rpc", "promise"}
              /\ handles[steps[k].child] = "pending"
              => steps[k].child \in runs[f].attached
         /\ runs[f].exit = "suspended" => runs[f].awaited # {}
    BY DEF Replayed, ReplayedSteps, id, handles, steps
  <1> DEFINE attached == runs[f].attached
  <1> HIDE DEF attached
  <1>11. ReplayedSteps(id, n + 1, handles, attached)
    BY <1>8, <1>9, <1>10 DEF ReplayedSteps, steps, attached
  <1>12. QED
    BY <1>3, <1>10, <1>11 DEF Replayed, attached

LEMMA LocalReplayed ==
  ASSUME MInv', Shape, NEW f \in Fibers, SameClaim(f), Replayed(runs[f]), LocalTurn(f),
         \A c \in Ids : runs[f].handle[c] # "none" => promises'[c].state # "absent"
  PROVE  Replayed(runs'[f])
  <1> DEFINE id == runs[f].task
             handles == runs[f].handle
             steps == Script[id]
  <1>1. runs[f] \in RunShape /\ id \in Ids /\ runs[f].stage = "handler"
    BY ShapeOf DEF LocalTurn
  <1>2. PICK d \in Ids, h \in HandleStates :
          /\ handles[d] \in {"running", "waiting"}
          /\ runs'[f].handle = [handles EXCEPT ![d] = h]
          /\ \/ h \in {"running", "waiting", "lost"}
             \/ h = Projected(promises'[d], now).state /\ h # "pending"
    BY DEF LocalTurn
  <1>3. h \notin {"none", "absent", "pending"}
    <2>1. promises'[d].state # "absent"
      BY <1>2
    <2>2. Projected(promises'[d], now).state \in PromiseStates \ {"absent"}
      BY <2>1, StatesAfter, ObservedState DEF MInv, IInv
    <2>3. QED
      BY <1>2, <2>2 DEF PromiseStates, SettledStates
  <1>4. \A c \in Ids : runs'[f].handle[c] = IF c = d THEN h ELSE handles[c]
    BY <1>1, <1>2 DEF RunShape
  <1>5. d \in Locals(id)
    BY <1>2 DEF Replayed, ReplayedSteps
  <1>6. d \in Calls(id)
    BY <1>1, <1>5, LocalsAreCalls
  <1>7. /\ runs'[f].task = id /\ runs'[f].pc = runs[f].pc /\ runs'[f].stage = "handler"
        /\ runs'[f].exit = runs[f].exit /\ runs'[f].awaited = runs[f].awaited
        /\ runs'[f].attached = runs[f].attached
    BY <1>1 DEF SameClaim, LocalTurn, SameEnd
  <1>8. /\ \A k \in Opens(id) : steps[k].child \in Ids
        /\ \A k \in DOMAIN steps : steps[k].group \subseteq Ids
        /\ \A c \in Locals(id) : c \in Ids
    BY <1>1, OpensAreSteps, ScriptSteps, LocalsAreIds DEF Step
  <1> HIDE DEF id, handles, steps
  <1>9. \A k \in Opens(id) : handles[steps[k].child] # "none"
                              <=> runs'[f].handle[steps[k].child] # "none"
    BY <1>2, <1>3, <1>4, <1>8
  <1>10. \A c \in Ids \ Calls(id) : runs'[f].handle[c] = "none"
    BY <1>4, <1>6 DEF Replayed, ReplayedSteps, id, handles
  <1>11. \A c \in Ids :
           /\ runs'[f].handle[c] # "absent"
           /\ runs'[f].handle[c] \in {"running", "waiting", "lost"} => c \in Locals(id)
    BY <1>3, <1>4, <1>5 DEF Replayed, ReplayedSteps, id, handles
  <1>12. \A c \in Ids : runs'[f].handle[c] = "pending" => handles[c] = "pending"
    BY <1>3, <1>4
  <1>13. \A c \in Ids : handles[c] = "resolved" => runs'[f].handle[c] = "resolved"
    BY <1>2, <1>4
  <1>14. \A k \in DOMAIN steps : k < runs[f].pc /\ steps[k].op = "await" =>
           \A c \in steps[k].group : runs'[f].handle[c] = "resolved"
    BY <1>8, <1>13 DEF Replayed, ReplayedSteps, id, handles, steps
  <1>15. /\ \A c \in Locals(id) : runs'[f].handle[c] # "pending"
         /\ \A k \in Opens(id) :
              steps[k].op \in {"rpc", "promise"}
              /\ runs'[f].handle[steps[k].child] = "pending"
              => steps[k].child \in runs[f].attached
    BY <1>8, <1>12 DEF Replayed, ReplayedSteps, id, handles, steps
  <1>16. /\ \A k \in Opens(id) : k < runs[f].pc <=> handles[steps[k].child] # "none"
         /\ runs[f].exit = "suspended" => runs[f].awaited # {}
    BY DEF Replayed, ReplayedSteps, id, handles, steps
  <1> DEFINE handle == runs'[f].handle
             attached == runs[f].attached
             pc == runs[f].pc
  <1> HIDE DEF handle, attached, pc
  <1>17. ReplayedSteps(id, pc, handle, attached)
    BY <1>9, <1>10, <1>11, <1>14, <1>15, <1>16
       DEF ReplayedSteps, steps, handle, attached, pc
  <1>18. QED
    BY <1>7, <1>16, <1>17 DEF Replayed, handle, attached, pc

LEMMA EndReplayed ==
  ASSUME Shape, NEW f \in Fibers, SameClaim(f), Replayed(runs[f]),
         Exits(f) \/ StageTurn(f)
  PROVE  Replayed(runs'[f])
  <1>1. /\ runs'[f].task = runs[f].task /\ SameSteps(f)
        /\ runs[f] \in RunShape
    BY ShapeOf DEF SameClaim, Exits, StageTurn
  <1>2. runs'[f].exit = "suspended" => runs'[f].awaited # {}
    BY DEF Exits, StageTurn, Replayed
  <1>3. runs'[f].stage = "finishing" /\ runs'[f].exit # "failed" =>
          runs[f].attached = {} /\ runs[f].pc > Len(Script[runs[f].task])
    <2>1. CASE Exits(f)
      BY <2>1 DEF Exits
    <2>2. CASE StageTurn(f)
      BY <1>1, <2>2 DEF StageTurn, Exited, DrainedStage, Replayed, RunShape
    <2>3. QED
      BY <2>1, <2>2
  <1> DEFINE run == runs[f]
             new == runs'[f]
  <1>4. /\ new.task = run.task /\ new.pc = run.pc
        /\ new.handle = run.handle /\ new.attached = run.attached
    BY <1>1 DEF SameSteps
  <1>5. /\ new.exit = "suspended" => new.awaited # {}
        /\ new.stage = "finishing" /\ new.exit # "failed" =>
             run.attached = {} /\ run.pc > Len(Script[run.task])
    BY <1>2, <1>3
  <1>6. Replayed(run)
    OBVIOUS
  <1> HIDE DEF run, new
  <1>7. Replayed(new)
    BY <1>4, <1>5, <1>6 DEF Replayed
  <1>8. QED
    BY <1>7 DEF new

\* What a run has seen of a child exists.
Seen(f) ==
  \A c \in Ids : runs[f].cache[c] # "absent" \/ runs[f].handle[c] # "none" =>
    promises[c].state # "absent"
Replays == \A f \in Fibers : Under(runs[f]) => Replayed(runs[f]) /\ Seen(f)

LEMMA PromisesLast ==
  ASSUME Moves, NEW c \in Ids, promises[c].state # "absent"
  PROVE  promises'[c].state # "absent"
  <1>1. PromiseMoves(c)
    BY DEF Moves
  <1>2. QED
    BY <1>1 DEF PromiseMoves, SameOutcome, SettledStates

\* A turn leaves no child without a handle that had one, and has seen what it
\* gives a handle to.
LEMMA TurnHandles ==
  ASSUME MInv', Shape, NEW f \in Fibers, Turn(f), NEW c \in Ids
  PROVE  /\ runs'[f].handle[c] = "none" => runs[f].handle[c] = "none"
         /\ runs'[f].handle[c] # "none" =>
              \/ runs[f].handle[c] # "none"
              \/ runs[f].cache[c] # "absent"
              \/ promises'[c].state # "absent"
  <1>1. runs[f] \in RunShape
    BY ShapeOf
  <1>2. CASE OpensChild(f)
    <2> DEFINE d == StepOf(f).child
    <2>1. PICK state \in PromiseStates \ {"absent"} :
            /\ \/ state = runs[f].cache[d]
               \/ state = Projected(promises'[d], now).state
            /\ runs'[f].handle = [runs[f].handle EXCEPT
                                    ![d] = HandleOf(StepOf(f).op, state)]
      BY <1>2 DEF OpensChild
    <2>2. HandleOf(StepOf(f).op, state) # "none"
      BY <2>1 DEF HandleOf, PromiseStates, SettledStates
    <2> HIDE DEF d
    <2>3. c # d => runs'[f].handle[c] = runs[f].handle[c]
      BY <1>1, <2>1 DEF RunShape
    <2>4. c = d => runs'[f].handle[c] # "none"
      BY <1>1, <2>1, <2>2 DEF RunShape
    <2>5. c = d => runs[f].cache[c] # "absent" \/ promises'[c].state # "absent"
      BY <2>1, ObservedState DEF MInv, IInv
    <2>6. QED
      BY <2>3, <2>4, <2>5
  <1>3. CASE LocalTurn(f)
    <2>1. PICK d \in Ids, h \in HandleStates :
            /\ runs[f].handle[d] \in {"running", "waiting"}
            /\ runs'[f].handle = [runs[f].handle EXCEPT ![d] = h]
            /\ h \in {"running", "waiting", "lost"} \/ h = Projected(promises'[d], now).state
      BY <1>3 DEF LocalTurn
    <2>2. h # "none"
      BY <2>1, StatesAfter DEF PromiseStates, SettledStates
    <2>3. QED
      BY <1>1, <2>1, <2>2 DEF RunShape
  <1>4. CASE PassesStep(f) \/ Exits(f) \/ StageTurn(f)
    BY <1>4 DEF PassesStep, Exits, StageTurn, SameSteps
  <1>5. QED
    BY <1>2, <1>3, <1>4 DEF Turn

LEMMA ReplaysStep ==
  ASSUME MInv, MInv', Moves, Shape, Shape', OwnNames, OwnHandles, Replays,
         \A g \in Fibers : RunTurn(g)
  PROVE  Replays'
  <1> DEFINE Saw(g) ==
        \A c \in Ids : runs'[g].cache[c] # "absent" \/ runs'[g].handle[c] # "none" =>
          promises'[c].state # "absent"
  <1>1. SUFFICES ASSUME NEW g \in Fibers, Under(runs'[g])
                 PROVE  Replayed(runs'[g]) /\ Saw(g)
    BY DEF Replays, Seen, Under, Replayed, ReplayedSteps
  <1>2. RunTurn(g) /\ TypeOK'
    BY DEF MInv, IInv
  <1>3. \A c \in Ids : promises[c].state # "absent" => promises'[c].state # "absent"
    BY PromisesLast
  <1>4. \A c \in Ids : \A state : Learned(c, state) /\ state # "absent" =>
          promises'[c].state # "absent"
    BY <1>2, ObservedState DEF Learned
  <1>5. ASSUME Under(runs[g])
        PROVE  Replayed(runs[g]) /\ Seen(g)
    BY <1>5 DEF Replays
  <1>6. CASE runs'[g] = runs[g]
    BY <1>1, <1>3, <1>5, <1>6 DEF Seen
  <1>7. CASE SameClaim(g) /\ (\A c \in Ids : CacheMoves(g, c)) /\ Turn(g)
    <2>1. Replayed(runs[g]) /\ Seen(g)
      BY <1>5, <1>7 DEF SameClaim
    <2>2. \A c \in Ids : runs[g].handle[c] # "none" => promises'[c].state # "absent"
      BY <1>3, <2>1 DEF Seen
    <2>3. Replayed(runs'[g])
      BY <1>7, <2>1, <2>2, OpensReplayed, PassesReplayed, LocalReplayed, EndReplayed DEF Turn
    <2>4. ASSUME NEW c \in Ids, runs'[g].cache[c] # "absent"
          PROVE  promises'[c].state # "absent"
      BY <1>3, <1>4, <1>7, <2>1, <2>4 DEF CacheMoves, Seen
    <2>5. ASSUME NEW c \in Ids, runs'[g].handle[c] # "none"
          PROVE  promises'[c].state # "absent"
      BY <1>3, <1>7, <2>1, <2>5, TurnHandles DEF Seen
    <2>6. QED
      BY <2>3, <2>4, <2>5
  <1>8. CASE StartsAnew(g)
    BY <1>4, <1>8, AnewReplayed DEF StartsAnew
  <1>9. QED
    BY <1>1, <1>2, <1>6, <1>7, <1>8 DEF RunTurn

\* A claim that is current was current before, as versions only grow.
LEMMA HoldsStable ==
  ASSUME MInv, MInv', Moves, Shape, Granted, NEW f \in Fibers, SameClaim(f), Holds(f)',
         now \in Nat, now' \in Nat, now' >= now
  PROVE  Holds(f)
  <1> DEFINE id == runs[f].task
  <1>1. /\ id \in Ids /\ runs[f].version \in Int
        /\ runs[f].version <= tasks[id].version
        /\ runs'[f].task = id /\ runs'[f].version = runs[f].version
    BY ShapeOf DEF SameClaim, Under, Granted, RunShape
  <1>2. /\ id # NoId /\ tasks'[id].state = "acquired"
        /\ tasks'[id].version = runs[f].version
        /\ promises'[id].state = "pending" /\ promises'[id].timeoutAt > now'
    BY <1>1 DEF Holds, Gate, Fresh
  <1>3. tasks[id].version \in Nat /\ promises'[id].timeoutAt \in Int
    BY <1>1 DEF MInv, IInv, TypeOK, Task, Promise
  <1> HIDE DEF id
  <1>4. tasks[id].state = "acquired" /\ tasks[id].version = runs[f].version
    <2>1. TaskMoves(id)
      BY <1>1 DEF Moves
    <2>2. QED
      BY <1>1, <1>2, <1>3, <2>1
      DEF TaskMoves, Stands, Begins, IsClaimed, IsParked, IsWoken, Goes
  <1>5. promises[id].state = "pending" /\ promises[id].timeoutAt > now
    <2>1. PromiseMoves(id) /\ promises[id].state # "absent"
      BY <1>1, <1>4, NoTaskYet DEF Moves
    <2>2. SameOutcome(id)
      BY <1>2, <2>1 DEF PromiseMoves, SettledStates
    <2>3. QED
      BY <1>2, <1>3, <2>2 DEF SameOutcome
  <1>6. QED
    BY <1>2, <1>4, <1>5 DEF Holds, Gate, Fresh, id

-----------------------------------------------------------------------------
(* What a current claim knows.                                               *)

\* What no run has recorded is pending, or a client has cancelled it.
Unrecorded(c, state) ==
  state = "pending" \/ (c \in Cancellable /\ state = "rejected_canceled")

\* A local step the run has not come to is not recorded if it was pending in
\* the preload: of the runs, only its own fiber could have ended it.
Unstarted ==
  \A f \in Fibers : Under(runs[f]) /\ Holds(f) =>
    \A c \in Locals(runs[f].task) :
      runs[f].handle[c] = "none" /\ runs[f].cache[c] = "pending" =>
        Unrecorded(c, promises[c].state)

LEMMA StillUnrecorded ==
  ASSUME MInv, Shape, OwnNames, OwnHandles, Tagged, Replays, Distinct, Touched,
         NEW f \in Fibers, Under(runs[f]), Holds(f),
         NEW c \in Locals(runs[f].task), runs[f].handle[c] = "none",
         Unrecorded(c, promises[c].state)
  PROVE  Unrecorded(c, promises'[c].state)
  <1> DEFINE id == runs[f].task
  <1>1. id \in Ids /\ c \in Ids
    BY ShapeOf, LocalsAreIds DEF Under
  <1>2. PICK k \in DOMAIN Script[id] : Script[id][k].op = "run" /\ Script[id][k].child = c
    BY DEF Locals
  <1>3. k \in Opens(id)
    BY <1>2 DEF Opens, Creates
  <1>4. promises[c].tags = NoTags
    <2>1. promises[Script[id][k].child].tags = StepTags(Script[id][k].op)
      BY <1>1, <1>2, <1>3 DEF Tagged, Unrecorded
    <2>2. QED
      BY <1>2, <2>1 DEF StepTags
  <1>5. ~NoTags.target /\ ~External(NoTags)
    BY DEF NoTags, External
  \* Whoever else presents a current claim of the same task is the same fiber.
  <1>6. ASSUME NEW g \in Fibers, Holds(g), Under(runs[g]), runs[g].task = id
        PROVE  g = f
    BY <1>6 DEF Distinct, Holds, Gate
  <1>7. ASSUME Expires(c)
        PROVE  FALSE
    BY <1>1, <1>4, <1>5, <1>7 DEF Expires, Tagged
  <1>8. ASSUME NEW g \in Fibers, Holds(g), FulfilsOwn(g, c)
        PROVE  FALSE
    <2>1. tasks[c].state # "absent"
      BY <1>8 DEF FulfilsOwn, Holds, Gate
    <2>2. QED
      BY <1>1, <1>4, <1>5, <2>1 DEF Tagged
  <1>9. ASSUME NEW g \in Fibers, Holds(g), Cancels(g, c)
        PROVE  FALSE
    <2> DEFINE jd == runs[g].task
               n == runs[g].pc
    <2>1. /\ AtStep(g, {"cancel"}) /\ StepOf(g).child = c /\ Under(runs[g])
          /\ runs[g] \in RunShape
      BY <1>9, ShapeOf DEF Cancels, AtStep, Under
    <2>2. StepOf(g).op \in {"cancel"} /\ jd \in Ids
      BY <2>1, StepType
    <2>3. n \in DOMAIN Script[jd] /\ Script[jd][n].op = "cancel" /\ Script[jd][n].child = c
      BY <2>1, <2>2, ScriptSteps DEF AtStep, Exited, StepOf, RunShape
    <2>4. c \in CallsBefore(jd, n)
      BY <2>2, <2>3 DEF OwnHandles
    <2>5. PICK j \in Opens(jd) : j < n /\ Script[jd][j].child = c
      BY <2>4 DEF CallsBefore
    <2>6. jd = id
      BY <1>1, <1>2, <1>3, <2>2, <2>5 DEF OwnNames
    <2>7. g = f
      BY <1>6, <1>9, <2>1, <2>6
    <2>8. runs[g].handle[c] # "none"
      <3>1. Replayed(runs[g])
        BY <2>1 DEF Replays
      <3>2. QED
        BY <2>5, <3>1 DEF Replayed, ReplayedSteps
    <2>9. QED
      BY <2>7, <2>8
  <1>10. ASSUME NEW g \in Fibers, Holds(g), runs[g].handle[c] = "running"
         PROVE  FALSE
    <2>1. Under(runs[g]) /\ runs[g].task \in Ids
      BY <1>1, <1>10, ShapeOf DEF Quiet, Under
    <2>2. c \in Locals(runs[g].task)
      BY <1>1, <1>10, <2>1 DEF Replays, Replayed, ReplayedSteps
    <2>3. runs[g].task = id
      BY <1>1, <1>2, <1>3, <2>1, <2>2, LocalIsRun
    <2>4. QED
      BY <1>6, <1>10, <2>1, <2>3
  <1>11. ASSUME IsExternal(c)
         PROVE  FALSE
    <2>1. PICK jd \in Ids : \E j \in DOMAIN Script[jd] :
            Script[jd][j].op = "promise" /\ Script[jd][j].child = c
      BY <1>11 DEF IsExternal
    <2>2. PICK j \in DOMAIN Script[jd] :
            Script[jd][j].op = "promise" /\ Script[jd][j].child = c
      BY <2>1
    <2>3. j \in Opens(jd)
      BY <2>2 DEF Opens, Creates
    <2>4. QED
      BY <1>1, <1>2, <1>3, <2>2, <2>3 DEF OwnNames
  <1>12. EndedBy(c) => CancelledOutside(c)
    BY <1>7, <1>8, <1>9, <1>10, <1>11 DEF EndedBy
  <1>13. ~OpenedBy(c)
    BY DEF OpenedBy, Born, Unrecorded
  <1>14. QED
    BY <1>1, <1>12, <1>13 DEF Touched, Kept, CancelledOutside, Unrecorded

LEMMA UnstartedStep ==
  ASSUME MInv, MInv', Moves, Shape, Shape', OwnNames, OwnHandles, Tagged, Replays,
         Granted, Distinct, Touched, Unstarted, \A g \in Fibers : RunTurn(g),
         now \in Nat, now' \in Nat, now' >= now
  PROVE  Unstarted'
  <1>1. SUFFICES ASSUME NEW f \in Fibers, Under(runs'[f]), Holds(f)',
                        NEW c \in Locals(runs'[f].task),
                        runs'[f].handle[c] = "none", runs'[f].cache[c] = "pending"
                 PROVE  Unrecorded(c, promises'[c].state)
    BY DEF Unstarted, Under
  <1>2. c \in Ids
    BY <1>1, LocalsAreIds DEF Shape, Under
  <1>3. TypeOK' /\ RunTurn(f)
    BY DEF MInv, IInv
  <1>4. ASSUME Learned(c, "pending")
        PROVE  Unrecorded(c, promises'[c].state)
    BY <1>2, <1>3, <1>4, ObservedState DEF Learned, Unrecorded
  <1>5. ASSUME SameClaim(f), runs[f].handle[c] = "none", runs[f].cache[c] = "pending"
        PROVE  Unrecorded(c, promises'[c].state)
    <2>1. Holds(f) /\ Under(runs[f]) /\ c \in Locals(runs[f].task)
      BY <1>1, <1>5, HoldsStable DEF SameClaim
    <2>2. Unrecorded(c, promises[c].state)
      BY <1>5, <2>1 DEF Unstarted
    <2>3. QED
      BY <1>5, <2>1, <2>2, StillUnrecorded
  <1>6. CASE runs'[f] = runs[f]
    BY <1>1, <1>5, <1>6 DEF SameClaim
  <1>7. CASE SameClaim(f) /\ (\A d \in Ids : CacheMoves(f, d)) /\ Turn(f)
    <2>1. runs[f].handle[c] = "none" /\ CacheMoves(f, c)
      BY <1>1, <1>2, <1>7, TurnHandles
    <2>2. QED
      BY <1>1, <1>4, <1>5, <1>7, <2>1 DEF CacheMoves
  <1>8. CASE StartsAnew(f)
    BY <1>1, <1>2, <1>4, <1>8 DEF StartsAnew
  <1>9. QED
    BY <1>1, <1>3, <1>6, <1>7, <1>8 DEF RunTurn

\* No run under a current claim has lost a step, where every request is answered.
NothingLost ==
  \A f \in Fibers : Under(runs[f]) /\ Holds(f) =>
    \A c \in Ids : runs[f].handle[c] # "lost"

LEMMA NothingLostStep ==
  ASSUME MInv, MInv', Moves, Shape, Granted, NothingLost, FaultsBefore = 0,
         \A g \in Fibers : RunTurn(g), now \in Nat, now' \in Nat, now' >= now
  PROVE  NothingLost'
  <1>1. SUFFICES ASSUME NEW f \in Fibers, Under(runs'[f]), Holds(f)', NEW c \in Ids
                 PROVE  runs'[f].handle[c] # "lost"
    BY DEF NothingLost, Under
  <1>2. RunTurn(f) /\ ~MayFail
    BY DEF MayFail
  <1>3. ASSUME SameClaim(f)
        PROVE  Holds(f) /\ runs[f].handle[c] # "lost"
    <2>1. Holds(f)
      BY <1>1, <1>3, HoldsStable
    <2>2. QED
      BY <1>3, <2>1 DEF NothingLost, SameClaim
  <1>4. CASE runs'[f] = runs[f]
    BY <1>1, <1>3, <1>4 DEF SameClaim
  <1>5. CASE SameClaim(f) /\ Turn(f)
    <2>1. runs[f] \in RunShape /\ Holds(f) /\ runs[f].handle[c] # "lost"
      BY <1>3, <1>5, ShapeOf
    <2>2. CASE OpensChild(f)
      <3>1. PICK state \in PromiseStates \ {"absent"} :
              runs'[f].handle = [runs[f].handle EXCEPT
                                   ![StepOf(f).child] = HandleOf(StepOf(f).op, state)]
        BY <2>2 DEF OpensChild
      <3>2. HandleOf(StepOf(f).op, state) # "lost"
        BY <3>1 DEF HandleOf, PromiseStates, SettledStates
      <3>3. QED
        BY <2>1, <3>1, <3>2 DEF RunShape
    <2>3. CASE LocalTurn(f)
      <3>1. PICK d \in Ids, h \in HandleStates :
              /\ runs'[f].handle = [runs[f].handle EXCEPT ![d] = h]
              /\ h \in {"running", "waiting"} \/ h = Projected(promises'[d], now).state
        BY <1>2, <2>1, <2>3 DEF LocalTurn
      <3>2. h # "lost"
        BY <3>1, StatesAfter DEF PromiseStates, SettledStates
      <3>3. QED
        BY <2>1, <3>1, <3>2 DEF RunShape
    <2>4. CASE PassesStep(f) \/ Exits(f) \/ StageTurn(f)
      BY <2>1, <2>4 DEF PassesStep, Exits, StageTurn, SameSteps
    <2>5. QED
      BY <1>5, <2>2, <2>3, <2>4 DEF Turn
  <1>6. CASE StartsAnew(f)
    BY <1>6 DEF StartsAnew
  <1>7. QED
    BY <1>1, <1>2, <1>4, <1>5, <1>6 DEF RunTurn

\* A run under a current claim only fails after one of its calls has.
Caused ==
  \A f \in Fibers : Under(runs[f]) /\ Holds(f) /\ runs[f].exit = "failed" =>
    \E c \in Calls(runs[f].task) : Projected(promises[c], now).state \in Failures

LEMMA CallsAreIds ==
  ASSUME NEW id \in Ids
  PROVE  Calls(id) \subseteq Ids
  BY OpensAreSteps DEF Calls

LEMMA CausedStep ==
  ASSUME MInv, MInv', Moves, Shape, OwnHandles, Granted, Faithful, Caused,
         FaultsBefore = 0, ClockLag = 0,
         \A g \in Fibers : RunTurn(g), now \in Nat, now' \in Nat, now' >= now
  PROVE  Caused'
  <1>1. SUFFICES ASSUME NEW f \in Fibers, Under(runs'[f]), Holds(f)',
                        runs'[f].exit = "failed"
                 PROVE  \E c \in Calls(runs'[f].task) :
                          Projected(promises'[c], now').state \in Failures
    BY DEF Caused, Under
  <1>2. RunTurn(f) /\ ~MayFail
    BY DEF MayFail
  <1>3. ASSUME SameClaim(f),
               \E c \in Calls(runs[f].task) : Projected(promises[c], now).state \in Failures
        PROVE  \E c \in Calls(runs'[f].task) :
                 Projected(promises'[c], now').state \in Failures
    <2>1. PICK c \in Calls(runs[f].task) : Projected(promises[c], now).state \in Failures
      BY <1>3
    <2>2. c \in Ids
      BY <1>3, ShapeOf, CallsAreIds DEF SameClaim, Under
    <2>3. Projected(promises'[c], now').state = Projected(promises[c], now).state
      BY <2>1, <2>2, ObservationMoves DEF Failures
    <2>4. QED
      BY <1>3, <2>1, <2>3 DEF SameClaim
  <1>4. ASSUME SameClaim(f), runs[f].exit = "failed"
        PROVE  \E c \in Calls(runs[f].task) : Projected(promises[c], now).state \in Failures
    BY <1>1, <1>4, HoldsStable DEF Caused, SameClaim
  <1>5. CASE runs'[f] = runs[f]
    BY <1>1, <1>3, <1>4, <1>5 DEF SameClaim
  <1>6. CASE SameClaim(f) /\ Turn(f)
    <2>1. CASE runs[f].exit = "failed"
      BY <1>3, <1>4, <1>6, <2>1
    <2>2. CASE runs[f].exit # "failed"
      <3>1. Exits(f)
        BY <1>1, <1>6, <2>2
        DEF Turn, OpensChild, PassesStep, LocalTurn, StageTurn, SameEnd
      <3>2. Holds(f)
        BY <1>1, <1>6, HoldsStable
      <3>3. AwaitsFailure(f)
        BY <1>1, <1>2, <3>1, <3>2 DEF Exits
      <3>4. /\ runs[f].task \in Ids /\ StepOf(f) \in Step /\ runs[f] \in RunShape
            /\ StepOf(f).op \in {"await"}
        BY <3>3, StepType, ShapeOf DEF AwaitsFailure
      <3>5. PICK c \in StepOf(f).group : runs[f].handle[c] \in Failures
        BY <3>3 DEF AwaitsFailure
      <3>6. runs[f].pc \in DOMAIN Script[runs[f].task]
        BY <3>3, <3>4, ScriptSteps DEF AwaitsFailure, AtStep, Exited, RunShape
      <3>7. c \in CallsBefore(runs[f].task, runs[f].pc)
        BY <3>4, <3>5, <3>6 DEF OwnHandles, StepOf
      <3>8. c \in Calls(runs[f].task) /\ c \in Ids
        BY <3>4, <3>5, <3>7 DEF CallsBefore, Calls, Step
      <3>9. Projected(promises[c], now).state \in Failures
        BY <1>6, <3>5, <3>8 DEF Faithful, SameClaim, Failures
      <3>10. QED
        BY <1>3, <1>6, <3>8, <3>9
    <2>3. QED
      BY <2>1, <2>2
  <1>7. CASE StartsAnew(f)
    BY <1>1, <1>7 DEF StartsAnew, Blank
  <1>8. QED
    BY <1>1, <1>2, <1>5, <1>6, <1>7 DEF RunTurn

-----------------------------------------------------------------------------
(* The theorems.                                                             *)

SInv ==
  /\ WInv /\ NoCrons /\ Granted /\ Distinct
  /\ Tagged /\ Replays /\ Unstarted

LEMMA SInit ==
  ASSUME WorkerInit
  PROVE  SInv
  <1>1. WInv
    BY WInit
  <1>2. \A f \in Fibers : ~Under(runs[f])
    BY NoRunShape DEF WorkerInit
  <1>3. /\ \A p \in Ids : /\ tasks[p].state = "absent" /\ promises[p].state = "absent"
                          /\ ~promises[p].tags.target /\ promiseTimeouts[p] = NotSet
        /\ NoCrons
    BY DEF WorkerInit, Init, NoTask, NoPromise, NoTags, NoCrons
  <1>4. Tagged
    <2>1. \A id \in Ids : \A k \in Opens(id) : Script[id][k].child \in Ids
      BY OpensAreSteps
    <2>2. QED
      BY <1>3, <2>1 DEF Tagged
  <1>5. QED
    BY <1>1, <1>2, <1>3, <1>4 DEF SInv, Granted, Distinct, Replays, Unstarted

\* What a step of the composition is to the promises and the runs.
LEMMA SMoves ==
  ASSUME SInv, [WorkerNext]_system
  PROVE  /\ MInv /\ MInv' /\ Moves /\ Shape /\ Shape' /\ WInv /\ WInv'
         /\ Touched /\ NoCrons' /\ \A g \in Fibers : RunTurn(g)
         /\ now \in Nat /\ now' \in Nat /\ now' >= now
  <1>1. /\ WInv /\ WInv' /\ Moves /\ now \in Nat /\ now' \in Nat /\ now' >= now
    BY WStep DEF SInv
  <1>2. MInv /\ MInv' /\ Shape /\ Shape' /\ NoCrons
    BY <1>1 DEF WInv, SInv
  <1>3. QED
    BY <1>1, <1>2, WorkerTouches, WorkerTurns

LEMMA SStep ==
  ASSUME SInv, [WorkerNext]_system, OwnNames, OwnHandles, RootsApart
  PROVE  SInv'
  <1>1. /\ MInv /\ MInv' /\ Moves /\ Shape /\ Shape' /\ WInv /\ WInv'
        /\ Touched /\ NoCrons' /\ \A g \in Fibers : RunTurn(g)
        /\ now \in Nat /\ now' \in Nat /\ now' >= now
    BY SMoves
  <1>2. Granted' /\ Distinct'
    BY ClaimsStep DEF SInv
  <1>3. Tagged'
    BY <1>1, TaggedStep DEF SInv
  <1>4. Replays'
    BY <1>1, ReplaysStep DEF SInv
  <1>5. Unstarted'
    BY <1>1, UnstartedStep DEF SInv
  <1>6. QED
    BY <1>1, <1>2, <1>3, <1>4, <1>5 DEF SInv

\* What is known of every handler whose children the engine names, through
\* every replay, restart and lost answer: which of its steps have handles, who
\* opened what exists, and that a step it has not come to was not recorded.
THEOREM HandlersInvariance ==
  ASSUME OwnNames, OwnHandles, RootsApart
  PROVE  WorkerSpec => []SInv
  BY SInit, SStep, PTL DEF WorkerSpec

\* What NoRepeatedStep says of one step of one run.
FreshStep(f, c) ==
  \/ promises'[c].state = "pending"
  \/ /\ runs[f].cache[c] = "pending"
     /\ c \in Cancellable
     /\ promises'[c].state = "rejected_canceled"

LEMMA StepsAreFresh ==
  ASSUME SInv, [WorkerNext]_system, OwnNames, NEW f \in Fibers, NEW c \in Ids,
         Holds(f), runs[f].handle[c] \notin {"running", "waiting"},
         runs'[f].handle[c] = "running"
  PROVE  FreshStep(f, c)
  <1>1. /\ MInv' /\ Shape /\ Shape' /\ RunTurn(f) /\ TypeOK'
    BY SMoves DEF MInv, IInv
  <1>2. runs[f] \in RunShape /\ Under(runs'[f])
    BY <1>1, ShapeOf DEF Shape, Quiet, Under
  <1>3. SameClaim(f) /\ Turn(f)
    BY <1>1, <1>2 DEF RunTurn, StartsAnew
  <1>4. ~LocalTurn(f)
    <2>1. SUFFICES ASSUME LocalTurn(f) PROVE FALSE
      OBVIOUS
    <2>2. PICK d \in Ids, h \in HandleStates :
            /\ runs[f].handle[d] \in {"running", "waiting"}
            /\ runs'[f].handle = [runs[f].handle EXCEPT ![d] = h]
      BY <2>1 DEF LocalTurn
    <2>3. runs'[f].handle[c] = runs[f].handle[c]
      BY <1>2, <2>2 DEF RunShape
    <2>4. QED
      BY <2>3
  <1>5. OpensChild(f)
    BY <1>3, <1>4 DEF Turn, PassesStep, Exits, StageTurn, SameSteps
  <1> DEFINE d == StepOf(f).child
             id == runs[f].task
  <1>6. PICK state \in PromiseStates \ {"absent"} :
          /\ \/ state = runs[f].cache[d] /\ UNCHANGED server
             \/ state = Projected(promises'[d], now).state
          /\ runs'[f].handle = [runs[f].handle EXCEPT ![d] = HandleOf(StepOf(f).op, state)]
    BY <1>5 DEF OpensChild
  <1>7. c = d /\ HandleOf(StepOf(f).op, state) = "running"
    BY <1>2, <1>6 DEF RunShape
  <1>8. StepOf(f).op = "run" /\ state = "pending"
    BY <1>6, <1>7 DEF HandleOf, PromiseStates, SettledStates
  <1>9. CASE state = Projected(promises'[d], now).state
    BY <1>1, <1>7, <1>8, <1>9, ObservedState DEF FreshStep
  <1>10. CASE state = runs[f].cache[d] /\ UNCHANGED server
    <2>1. id \in Ids /\ AtStep(f, Creates)
      BY <1>1, <1>5, StepType DEF OpensChild
    <2>2. runs[f].pc \in DOMAIN Script[id]
      BY <1>2, <2>1, ScriptSteps DEF AtStep, Exited, RunShape
    <2>3. /\ runs[f].pc \in Opens(id) /\ c \in Locals(id)
          /\ Script[id][runs[f].pc].child = c
      BY <1>7, <1>8, <2>2 DEF Opens, Creates, Locals, StepOf
    <2>4. runs[f].handle[c] = "none"
      <3>1. Replayed(runs[f]) /\ runs[f].task = id /\ runs[f].pc \in Nat
        BY <1>2, <1>3 DEF SInv, Replays, SameClaim, RunShape
      <3>2. ~(runs[f].pc < runs[f].pc)
        BY <3>1
      <3>3. runs[f].pc < runs[f].pc
            <=> runs[f].handle[Script[id][runs[f].pc].child] # "none"
        BY <3>1, <2>3 DEF Replayed, ReplayedSteps
      <3>4. QED
        BY <2>3, <3>2, <3>3
    <2>5. Unrecorded(c, promises[c].state)
      BY <1>3, <1>7, <1>8, <1>10, <2>3, <2>4 DEF SInv, Unstarted, SameClaim
    <2>6. promises' = promises /\ runs[f].cache[c] = "pending"
      BY <1>7, <1>8, <1>10 DEF server
    <2>7. QED
      BY <2>5, <2>6 DEF FreshStep, Unrecorded
  <1>11. QED
    BY <1>6, <1>9, <1>10

\* No replay, under whatever claim and after whatever crash, starts the effect
\* of a step again that an earlier run has recorded.
THEOREM StepsRunOnce ==
  ASSUME OwnNames, OwnHandles, RootsApart
  PROVE  WorkerSpec => NoRepeatedStep
  <1> DEFINE Once ==
        \A f \in Fibers, c \in Ids :
          /\ Holds(f)
          /\ runs[f].handle[c] \notin {"running", "waiting"}
          /\ runs'[f].handle[c] = "running"
          => FreshStep(f, c)
  <1>1. SInv /\ [WorkerNext]_system => Once
    BY StepsAreFresh
  <1> HIDE DEF Once
  <1>2. WorkerSpec => [][Once]_<<server, runs>>
    BY <1>1, HandlersInvariance, PTL DEF WorkerSpec
  <1>3. QED
    BY <1>2 DEF Once, FreshStep, NoRepeatedStep

-----------------------------------------------------------------------------
(* How the promise of a handler ends.                                        *)

\* What is called by id or with a target ends with its handler, by the cancel
\* of a handler or a client, or by its deadline.
LEMMA TargetEnds ==
  ASSUME SInv, NEW p \in Ids, EndedBy(p), promises[p].tags.target,
         promises'[p].state \in {"resolved", "rejected"}
  PROVE  \E f \in Fibers : Holds(f) /\ FulfilsOwn(f, p)
  <1>1. Shape /\ Tagged /\ Replays
    BY DEF SInv, WInv
  <1>2. ~Expires(p)
    BY <1>1 DEF Expires, Tagged, TimedOutState
  <1>3. promises[p].state = "pending"
    BY <1>2 DEF EndedBy, Ended
  <1>4. ASSUME NEW id \in Ids, NEW k \in Opens(id), Script[id][k].child = p
        PROVE  Script[id][k].op \notin {"run", "promise"}
    <2>1. promises[p].tags = StepTags(Script[id][k].op)
      BY <1>1, <1>3, <1>4 DEF Tagged
    <2>2. QED
      BY <2>1 DEF StepTags, NoTags
  <1>5. ~IsExternal(p)
    BY <1>4 DEF IsExternal, Opens, Creates
  <1>6. ASSUME NEW f \in Fibers, runs[f].handle[p] = "running"
        PROVE  FALSE
    <2>1. Under(runs[f]) /\ runs[f].task \in Ids
      BY <1>1, <1>6, ShapeOf DEF Quiet, Under
    <2>2. p \in Locals(runs[f].task)
      BY <1>1, <1>6, <2>1 DEF Replays, Replayed, ReplayedSteps
    <2>3. QED
      BY <1>4, <2>1, <2>2 DEF Locals, Opens, Creates
  <1>7. \A f \in Fibers : ~Cancels(f, p)
    BY DEF Cancels
  <1>8. QED
    BY <1>2, <1>5, <1>6, <1>7 DEF EndedBy, CancelledOutside

LEMMA OutcomeLasts ==
  ASSUME MInv, MInv', Moves, ClockLag = 0, now \in Nat, now' \in Nat, now' >= now,
         NEW c \in Ids, Projected(promises[c], now).state \in SettledStates
  PROVE  Projected(promises'[c], now').state = Projected(promises[c], now).state
  BY ObservationMoves

CInv == SInv /\ Faithful /\ Caused /\ FailureHasCause

LEMMA CausesStep ==
  ASSUME CInv, [WorkerNext]_system, OwnNames, OwnHandles, RootsApart,
         FaultsBefore = 0, ClockLag = 0
  PROVE  CInv'
  <1>1. /\ MInv /\ MInv' /\ Moves /\ Shape /\ WInv /\ Granted /\ Touched
        /\ \A g \in Fibers : RunTurn(g)
        /\ now \in Nat /\ now' \in Nat /\ now' >= now
    BY SMoves DEF CInv, SInv
  <1>2. SInv' /\ Faithful'
    BY <1>1, SStep, FaithfulStep DEF CInv
  <1>3. Caused'
    BY <1>1, CausedStep DEF CInv
  <1>4. ASSUME NEW id \in Ids,
               \E c \in Calls(id) : Projected(promises[c], now).state \in Failures
        PROVE  \E c \in Calls(id) : Projected(promises'[c], now').state \in Failures
    BY <1>1, <1>4, OutcomeLasts, CallsAreIds DEF Failures
  <1>5. ASSUME NEW id \in Ids, promises'[id].state = "rejected", promises'[id].tags.target
        PROVE  \E c \in Calls(id) : Projected(promises'[c], now').state \in Failures
    <2>1. CASE Kept(id)
      BY <1>4, <1>5, <2>1 DEF Kept, CInv, FailureHasCause
    <2>2. CASE OpenedBy(id)
      BY <1>5, <2>2 DEF OpenedBy, Born, TimedOutState
    <2>3. CASE EndedBy(id)
      <3>1. promises[id].tags.target
        BY <1>5, <2>3 DEF EndedBy, Expires, Ended
      <3>2. PICK f \in Fibers : Holds(f) /\ FulfilsOwn(f, id)
        BY <1>5, <2>3, <3>1, TargetEnds DEF CInv
      <3>3. runs[f].exit = "failed" /\ Under(runs[f]) /\ runs[f].task = id
        BY <1>5, <3>2 DEF FulfilsOwn, Under
      <3>4. QED
        BY <1>4, <3>2, <3>3 DEF CInv, Caused
    <2>4. QED
      BY <1>1, <2>1, <2>2, <2>3 DEF Touched
  <1>6. FailureHasCause'
    BY <1>5 DEF FailureHasCause
  <1>7. QED
    BY <1>2, <1>3, <1>6 DEF CInv

\* Where every request is answered and the clock of the server is read without
\* lag, a handler is only recorded as failed after one of its calls has failed:
\* neither a lost claim nor a restart is ever taken for an outcome.
THEOREM FailuresHaveCauses ==
  ASSUME OwnNames, OwnHandles, RootsApart, FaultsBefore = 0, ClockLag = 0
  PROVE  WorkerSpec => []FailureHasCause
  <1>1. WorkerInit => CInv
    <2>1. SUFFICES ASSUME WorkerInit PROVE CInv
      OBVIOUS
    <2>2. \A f \in Fibers : ~Under(runs[f])
      BY <2>1, NoRunShape DEF WorkerInit
    <2>3. \A id \in Ids : promises[id].state = "absent"
      BY <2>1 DEF WorkerInit, Init, NoPromise
    <2>4. QED
      BY <2>1, <2>2, <2>3, SInit DEF CInv, Faithful, Caused, FailureHasCause
  <1>2. CInv /\ [WorkerNext]_system => CInv'
    BY CausesStep
  <1>3. CInv => FailureHasCause
    BY DEF CInv
  <1>4. QED
    BY <1>1, <1>2, <1>3, PTL DEF WorkerSpec

\* A handler that returns under its claim knows how each of its children ended.
LEMMA ReturnKnows ==
  ASSUME SInv, NothingLost, SleepsAwaited, NEW f \in Fibers, Holds(f),
         runs[f].stage = "finishing", runs[f].exit # "failed",
         NEW c \in Children(runs[f].task)
  PROVE  runs[f].handle[c] \in SettledStates
  <1> DEFINE id == runs[f].task
             step(k) == Script[id][k]
  <1>1. /\ runs[f] \in RunShape /\ id \in Ids /\ Under(runs[f])
        /\ \A d \in Ids : runs[f].handle[d] \notin {"running", "waiting"}
    BY ShapeOf DEF SInv, WInv, Quiet, Under
  <1>2. Replayed(runs[f])
    BY <1>1 DEF SInv, Replays
  <1>3. runs[f].attached = {} /\ runs[f].pc > Len(Script[id]) /\ runs[f].pc \in Nat
    BY <1>1, <1>2 DEF Replayed, ReplayedSteps, RunShape
  <1>4. PICK k \in Opens(id) : step(k).child = c /\ step(k).op # "detached"
    BY DEF Children
  <1>5. /\ k \in DOMAIN Script[id] /\ k \in Nat /\ k <= Len(Script[id])
        /\ Len(Script[id]) \in Nat /\ step(k).op \in Creates /\ c \in Ids
    BY <1>1, <1>4, OpensAreSteps, ScriptSteps
  <1>6. runs[f].handle[c] \notin {"none", "absent"}
    <2>1. k < runs[f].pc
      BY <1>3, <1>5
    <2>2. runs[f].handle[c] # "none"
      BY <1>2, <1>4, <2>1 DEF Replayed, ReplayedSteps
    <2>3. QED
      BY <1>2, <1>5, <2>2 DEF Replayed, ReplayedSteps
  <1>7. runs[f].handle[c] # "lost"
    BY <1>1, <1>5 DEF NothingLost
  <1>8. ASSUME runs[f].handle[c] = "pending"
        PROVE  FALSE
    <2>1. CASE step(k).op = "run"
      <3>1. c \in Locals(id)
        BY <1>4, <1>5, <2>1 DEF Locals
      <3>2. QED
        BY <1>2, <1>8, <3>1 DEF Replayed, ReplayedSteps
    <2>2. CASE step(k).op \in {"rpc", "promise"}
      BY <1>2, <1>3, <1>4, <1>8, <2>2 DEF Replayed, ReplayedSteps
    <2>3. CASE step(k).op = "sleep"
      <3>1. k + 1 \in DOMAIN Script[id] /\ step(k + 1).op = "await"
            /\ c \in step(k + 1).group
        BY <1>1, <1>4, <2>3 DEF SleepsAwaited
      <3>2. k + 1 < runs[f].pc
        BY <1>1, <1>3, <1>5, <3>1, ScriptSteps
      <3>3. runs[f].handle[c] = "resolved"
        BY <1>2, <3>1, <3>2 DEF Replayed, ReplayedSteps
      <3>4. QED
        BY <1>8, <3>3
    <2>4. QED
      BY <1>4, <1>5, <2>1, <2>2, <2>3 DEF Creates
  <1>9. runs[f].handle[c] \in HandleStates
    BY <1>1, <1>5 DEF RunShape
  <1>10. QED
    BY <1>1, <1>5, <1>6, <1>7, <1>8, <1>9 DEF HandleStates, PromiseStates

RInv == SInv /\ Faithful /\ NothingLost /\ ReturnsLast

LEMMA ReturnsStep ==
  ASSUME RInv, [WorkerNext]_system, OwnNames, OwnHandles, SleepsAwaited, RootsApart,
         FaultsBefore = 0, ClockLag = 0
  PROVE  RInv'
  <1>1. /\ MInv /\ MInv' /\ Moves /\ Shape /\ WInv /\ Granted /\ Touched
        /\ \A g \in Fibers : RunTurn(g)
        /\ now \in Nat /\ now' \in Nat /\ now' >= now
    BY SMoves DEF RInv, SInv
  <1>2. SInv' /\ Faithful'
    BY <1>1, SStep, FaithfulStep DEF RInv
  <1>3. NothingLost'
    BY <1>1, NothingLostStep DEF RInv
  <1>4. ASSUME NEW id \in Ids, NEW c \in Children(id),
               Projected(promises[c], now).state \in SettledStates
        PROVE  Projected(promises'[c], now').state \in SettledStates
    <2>1. c \in Ids
      BY OpensAreSteps DEF Children
    <2>2. QED
      BY <1>1, <1>4, <2>1, OutcomeLasts
  <1>5. ASSUME NEW id \in Ids, promises'[id].state = "resolved", promises'[id].tags.target,
               NEW c \in Children(id)
        PROVE  Projected(promises'[c], now').state \in SettledStates
    <2>1. CASE Kept(id)
      BY <1>4, <1>5, <2>1 DEF Kept, RInv, ReturnsLast
    <2>2. CASE OpenedBy(id)
      <3>1. PICK tags \in Tags : Born(id, tags) /\ (tags.target => ~tags.timer)
        BY <1>1, <2>2, OpenedTags
      <3>2. QED
        BY <1>5, <3>1 DEF Born, TimedOutState
    <2>3. CASE EndedBy(id)
      <3>1. promises[id].tags.target
        BY <1>5, <2>3 DEF EndedBy, Expires, Ended
      <3>2. PICK f \in Fibers : Holds(f) /\ FulfilsOwn(f, id)
        BY <1>5, <2>3, <3>1, TargetEnds DEF RInv
      <3>3. /\ runs[f].stage = "finishing" /\ runs[f].exit # "failed"
            /\ Under(runs[f]) /\ runs[f].task = id
        BY <1>5, <3>2 DEF FulfilsOwn, Under
      <3>4. runs[f].handle[c] \in SettledStates
        BY <1>5, <3>2, <3>3, ReturnKnows DEF RInv
      <3>5. c \in Ids
        BY OpensAreSteps DEF Children
      <3>6. Projected(promises[c], now).state \in SettledStates
        BY <3>3, <3>4, <3>5 DEF RInv, Faithful
      <3>7. QED
        BY <1>4, <3>6
    <2>4. QED
      BY <1>1, <2>1, <2>2, <2>3 DEF Touched
  <1>6. ReturnsLast'
    BY <1>5 DEF ReturnsLast
  <1>7. QED
    BY <1>2, <1>3, <1>6 DEF RInv

\* Where every request is answered and the clock of the server is read without
\* lag, a handler that returns ends its promise after all the children it has
\* not detached, awaited or not.
THEOREM HandlersReturnLast ==
  ASSUME OwnNames, OwnHandles, SleepsAwaited, RootsApart,
         FaultsBefore = 0, ClockLag = 0
  PROVE  WorkerSpec => []ReturnsLast
  <1>1. WorkerInit => RInv
    <2>1. SUFFICES ASSUME WorkerInit PROVE RInv
      OBVIOUS
    <2>2. \A f \in Fibers : ~Under(runs[f])
      BY <2>1, NoRunShape DEF WorkerInit
    <2>3. \A id \in Ids : promises[id].state = "absent"
      BY <2>1 DEF WorkerInit, Init, NoPromise
    <2>4. QED
      BY <2>1, <2>2, <2>3, SInit DEF RInv, Faithful, NothingLost, ReturnsLast
  <1>2. RInv /\ [WorkerNext]_system => RInv'
    BY ReturnsStep
  <1>3. RInv => ReturnsLast
    BY DEF RInv
  <1>4. QED
    BY <1>1, <1>2, <1>3, PTL DEF WorkerSpec

-----------------------------------------------------------------------------
(* The types of the composition.                                             *)

\* A claim that is being made has the version of its message, and nothing yet
\* of a run.
Versions ==
  /\ \A w \in Workers : \A m \in batch[w] : m.version \in Nat
  /\ \A f \in Fibers : runs[f].version \in Nat
Vacant ==
  \A f \in Fibers : ~Under(runs[f]) => \A c \in Ids : runs[f].handle[c] = "none"
Timed == \A f \in Fibers, c \in Ids : runs[f].retryAt[c] \in Int

LEMMA BatchVersions ==
  ASSUME Shape, QueueTrue, Versions, [WorkerNext]_system
  PROVE  \A w \in Workers : \A m \in batch'[w] : m.version \in Nat
  <1>1. ASSUME NEW w \in Workers, TakeChunk(w) \/ NextMessage(w) \/ Restart(w)
        PROVE  \A v \in Workers : \A m \in batch'[v] : m.version \in Nat
    <2>1. CASE TakeChunk(w)
      <3>1. batch' = [batch EXCEPT ![w] = {m \in queue : m.kind = "execute"}]
        BY <2>1 DEF TakeChunk
      <3>2. QED
        BY <3>1 DEF Shape, QueueTrue, MessageTrue, Versions
    <2>2. CASE NextMessage(w)
      <3>1. PICK m \in batch[w] : batch' = [batch EXCEPT ![w] = @ \ {m}]
        BY <2>2 DEF NextMessage
      <3>2. QED
        BY <3>1 DEF Shape, Versions
    <2>3. CASE Restart(w)
      <3>1. batch' = [batch EXCEPT ![w] = {}]
        BY <2>3 DEF Restart
      <3>2. QED
        BY <3>1 DEF Shape, Versions
    <2>4. QED
      BY <1>1, <2>1, <2>2, <2>3
  <1>2. CASE UNCHANGED batch
    BY <1>2 DEF Versions
  <1>3. ASSUME NEW f \in Fibers, FiberNext(f)
        PROVE  UNCHANGED batch
    BY <1>3 DEF FiberNext, Suspend, SuspendStartsOver, SuspendFails, Release, Close
  <1>4. ASSUME NEW w \in Workers, Acquire(w) \/ AcquireFails(w) \/ Heartbeat(w)
        PROVE  UNCHANGED batch
    BY <1>4 DEF Acquire, AcquireFails, Heartbeat
  <1>5. CASE ClientNext
    BY <1>5, <1>2 DEF ClientNext, BeginRpc, BeginRunLost, BeginRun, BeginRunExpired,
       SettleExternal, ClientCancel
  <1>6. CASE (\E a \in Waiters : AwaitSettled(a)) \/ ServerTick \/ ClockMoves
    BY <1>6, <1>2 DEF AwaitSettled, ServerTick, ClockMoves
  <1>7. CASE UNCHANGED system
    BY <1>7, <1>2 DEF system
  <1>8. QED
    BY <1>1, <1>2, <1>3, <1>4, <1>5, <1>6, <1>7 DEF WorkerNext, LoopNext

\* A step of the composition, by what it makes of a claim that is not run.
LEMMA ClaimSteps ==
  ASSUME MInv', Shape, RunsMove, NEW g \in Fibers
  PROVE  \/ runs'[g] = runs[g]
         \/ SameClaim(g)
         \/ Under(runs'[g]) /\ runs'[g].version \in Nat
         \/ runs'[g] = NoRun
         \/ ~Under(runs[g]) /\ ~Under(runs'[g]) /\ TakesMessage(g)
  <1>1. ASSUME NEW f \in Fibers, Proceeds(f) \/ LoopWaits(f) \/ ClaimEnds(f)
        PROVE  \/ runs'[g] = runs[g]
               \/ SameClaim(g)
               \/ runs'[g] = NoRun
               \/ ~Under(runs[g]) /\ ~Under(runs'[g]) /\ TakesMessage(g)
    BY <1>1 DEF Proceeds, LoopWaits, ClaimEnds, Alone
  <1>2. ASSUME NEW f \in Fibers, NEW id \in Ids, ClaimBegins(f, id)
        PROVE  \/ runs'[g] = runs[g]
               \/ Under(runs'[g]) /\ runs'[g].version \in Nat
    <2>1. RunStarts(f, id, tasks'[id].version)
      BY <1>2 DEF ClaimBegins
    <2>2. tasks'[id].version \in Nat
      BY VersionsAfter
    <2>3. QED
      BY <2>1, <2>2 DEF RunStarts, Alone
  <1>3. ASSUME NEW v \in Workers, Restart(v)
        PROVE  runs'[g] = runs[g] \/ runs'[g] = NoRun
    BY <1>3, RestartFields
  <1>4. QED
    BY <1>1, <1>2, <1>3 DEF RunsMove

\* Arithmetic the provers do not have.
PowersAreNaturals == \A x, n \in Nat : x ^ n \in Nat

LEMMA PauseType ==
  ASSUME PowersAreNaturals, NEW policy \in Policy, NEW attempt \in Nat
  PROVE  RetryNext(policy, attempt) \in Int
  <1>1. /\ policy.delay \in Nat /\ policy.factor \in Nat /\ policy.maxDelay \in Nat
        /\ policy.kind \in {"constant", "exponential", "linear", "never"}
    BY DEF Policy
  <1> DEFINE power == policy.factor ^ attempt
  <1>2. power \in Nat
    BY <1>1, Zenon DEF PowersAreNaturals
  <1>3. Pause(policy, attempt) \in Int
    <2>1. CASE policy.kind = "exponential"
      <3>1. Pause(policy, attempt) = Least(policy.delay * power, policy.maxDelay)
        BY <2>1 DEF Pause
      <3> HIDE DEF power
      <3>2. policy.delay * power \in Int
        BY <1>1, <1>2
      <3>3. QED
        BY <1>1, <3>1, <3>2 DEF Least
    <2>2. CASE policy.kind = "linear"
      BY <1>1, <2>2 DEF Pause
    <2>3. CASE policy.kind \in {"constant", "never"}
      BY <1>1, <2>3 DEF Pause
    <2>4. QED
      BY <1>1, <2>1, <2>2, <2>3
  <1>4. QED
    BY <1>3 DEF RetryNext, NoRetry

TInv == SInv /\ QueueTrue /\ WaitsShape /\ Versions /\ Vacant /\ Timed

LEMMA TimedStep ==
  ASSUME MInv, Shape, Shape', Replays, RunsMove, Timed, now \in Nat,
         \A g \in Fibers : RunTurn(g), MInv',
         PowersAreNaturals
  PROVE  Timed'
  <1>1. SUFFICES ASSUME NEW f \in Fibers, NEW c \in Ids
                 PROVE  runs'[f].retryAt[c] \in Int
    BY DEF Timed
  <1>2. runs[f] \in RunShape /\ runs[f].retryAt[c] \in Int /\ NotSet \in Int
    BY ShapeOf DEF Timed, NotSet
  <1>3. ASSUME runs'[f].retryAt = runs[f].retryAt
        PROVE  runs'[f].retryAt[c] \in Int
    BY <1>2, <1>3
  <1>4. CASE StartsAnew(f)
    BY <1>2, <1>4 DEF StartsAnew, Blank
  <1>5. ASSUME LocalTurn(f)
        PROVE  runs'[f].retryAt[c] \in Int
    <2>1. PICK d \in Ids, h \in HandleStates :
            /\ runs[f].handle[d] \in {"running", "waiting"}
            /\ \E m : /\ runs'[f].retryAt = [runs[f].retryAt EXCEPT ![d] = m]
                      /\ \/ m = runs[f].retryAt[d] \/ m = NotSet
                         \/ m = now + RetryIn(f, d)
      BY <1>5 DEF LocalTurn
    <2>2. PICK m : /\ runs'[f].retryAt = [runs[f].retryAt EXCEPT ![d] = m]
                   /\ \/ m = runs[f].retryAt[d] \/ m = NotSet
                      \/ m = now + RetryIn(f, d)
      BY <2>1
    <2>3. runs[f].task \in Ids /\ Under(runs[f])
      BY <1>5, ShapeOf DEF LocalTurn, Under
    <2>4. d \in Locals(runs[f].task)
      BY <2>1, <2>3 DEF Replays, Replayed, ReplayedSteps
    <2>5. RetryIn(f, d) \in Int
      <3>1. LocalStep(runs[f].task, d).policy \in Policy
        BY <2>3, <2>4, LocalStepType DEF Step
      <3>2. runs[f].attempt[d] \in Nat
        BY <1>2 DEF RunShape
      <3>3. QED
        BY <3>1, <3>2, PauseType DEF RetryIn
    <2>6. m \in Int
      BY <1>2, <2>2, <2>5 DEF Timed
    <2>7. QED
      BY <1>2, <2>2, <2>6 DEF RunShape
  <1>6. CASE Turn(f)
    BY <1>3, <1>5, <1>6 DEF Turn, OpensChild, PassesStep, Exits, StageTurn, SameSteps
  <1>7. CASE ~Under(runs'[f])
    <2>1. \/ runs'[f] = runs[f] \/ runs'[f] = NoRun \/ TakesMessage(f)
      BY <1>7, ClaimSteps DEF SameClaim
    <2>2. NoRun.retryAt[c] = NotSet
      BY DEF NoRun
    <2>3. QED
      BY <1>2, <1>3, <2>1, <2>2 DEF TakesMessage
  <1>8. RunTurn(f)
    OBVIOUS
  <1>9. QED
    BY <1>3, <1>4, <1>6, <1>7, <1>8 DEF RunTurn

LEMMA TypesStep ==
  ASSUME TInv, [WorkerNext]_system, OwnNames, OwnHandles, RootsApart,
         PowersAreNaturals
  PROVE  TInv'
  <1>1. /\ MInv /\ MInv' /\ Shape /\ Shape' /\ WInv /\ Replays
        /\ \A g \in Fibers : RunTurn(g)
        /\ now \in Nat
    BY SMoves DEF TInv, SInv
  <1>2. SInv' /\ QueueTrue' /\ WaitsShape'
    BY <1>1, SStep, AnswerStep DEF TInv
  <1>3. RunsMove
    BY <1>1, WStep
  <1>4. Versions'
    <2>1. \A w \in Workers : \A m \in batch'[w] : m.version \in Nat
      BY <1>1, BatchVersions DEF TInv
    <2>2. ASSUME NEW g \in Fibers
          PROVE  runs'[g].version \in Nat
      <3>1. NoRun.version = 0
        BY DEF NoRun
      <3>2. QED
        BY <1>1, <1>3, <3>1, ClaimSteps DEF TInv, Versions, SameClaim, TakesMessage
    <2>3. QED
      BY <2>1, <2>2 DEF Versions
  <1>5. Vacant'
    <2>1. ASSUME NEW g \in Fibers, ~Under(runs'[g]), NEW c \in Ids
          PROVE  runs'[g].handle[c] = "none"
      <3>1. NoRun.handle[c] = "none"
        BY DEF NoRun
      <3>2. QED
        BY <1>1, <1>3, <2>1, <3>1, ClaimSteps DEF TInv, Vacant, SameClaim, TakesMessage
    <2>2. QED
      BY <2>1 DEF Vacant, Under
  <1>6. Timed'
    BY <1>1, <1>3, TimedStep DEF TInv
  <1>7. QED
    BY <1>2, <1>4, <1>5, <1>6 DEF TInv

LEMMA TypesHold ==
  ASSUME TInv
  PROVE  WorkerTypeOK
  <1>1. Shape /\ Replays /\ WaitsShape
    BY DEF TInv, SInv, WInv
  <1> DEFINE Handles == {"none", "running", "waiting", "lost", "pending"} \cup SettledStates
  <1>2. ASSUME NEW f \in Fibers
        PROVE  runs[f] \in Run
    <2>1. runs[f] \in RunShape /\ runs[f].version \in Nat
      BY <1>1, ShapeOf DEF TInv, Versions
    <2>2. \A c \in Ids : runs[f].retryAt[c] \in Int
      BY DEF TInv, Timed
    <2>3. runs[f].retryAt \in [Ids -> Int]
      BY <2>1, <2>2 DEF RunShape
    <2>4. \A c \in Ids : runs[f].handle[c] \in Handles
      <3>1. \A c \in Ids : runs[f].handle[c] # "absent"
        BY <1>1 DEF TInv, Vacant, Replays, Replayed, ReplayedSteps
      <3>2. \A c \in Ids : runs[f].handle[c] \in HandleStates
        BY <2>1 DEF RunShape
      <3>3. QED
        BY <3>1, <3>2 DEF HandleStates, PromiseStates
    <2>5. runs[f].handle \in [Ids -> Handles]
      BY <2>1, <2>4 DEF RunShape
    <2>6. QED
      BY <2>1, <2>3, <2>5 DEF RunShape, Run
  <1>3. runs \in [Fibers -> Run]
    BY <1>1, <1>2 DEF Shape
  <1>4. ASSUME NEW f \in Fibers, runs[f].stage = "handler", NEW c \in Locals(runs[f].task)
        PROVE  runs[f].handle[c] # "pending"
    BY <1>1, <1>4 DEF Under, Replays, Replayed, ReplayedSteps
  <1>5. EngineTypeOK
    BY <1>3, <1>4 DEF EngineTypeOK
  <1>6. QED
    BY <1>1, <1>5 DEF WorkerTypeOK, Shape, WaitsShape

\* The runs, chunks, held maps and waiters hold values of their types, and no
\* handler is given a local step that has not ended as a call to wait for.  The
\* hypothesis on powers is arithmetic the provers do not have.
THEOREM WorkerTypeCorrect ==
  ASSUME OwnNames, OwnHandles, RootsApart, PowersAreNaturals
  PROVE  WorkerSpec => []WorkerTypeOK
  <1>1. WorkerInit => TInv
    <2>1. SUFFICES ASSUME WorkerInit PROVE TInv
      OBVIOUS
    <2>2. SInv /\ QueueTrue /\ WaitsShape
      BY <2>1, SInit, QueueInit, WaitsInit DEF WorkerInit
    <2>3. /\ NoRun.version = 0
          /\ \A c \in Ids : NoRun.handle[c] = "none" /\ NoRun.retryAt[c] \in Int
      BY DEF NoRun, NotSet
    <2>4. Versions /\ Vacant /\ Timed
      BY <2>1, <2>3 DEF WorkerInit, Versions, Vacant, Timed
    <2>5. QED
      BY <2>2, <2>4 DEF TInv
  <1>2. TInv /\ [WorkerNext]_system => TInv'
    BY TypesStep
  <1>3. TInv => WorkerTypeOK
    BY TypesHold
  <1>4. QED
    BY <1>1, <1>2, <1>3, PTL DEF WorkerSpec
=============================================================================
