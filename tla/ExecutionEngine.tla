--------------------------- MODULE ExecutionEngine ---------------------------
(***************************************************************************)
(* The execution engine of src/ResonateContext.ts on top of the server: a   *)
(* fiber that holds a claim replays the handler from the top, every step    *)
(* of which opens a child promise through task.fence.                       *)
(*                                                                         *)
(* A handler is a script, a sequence of engine calls:                       *)
(*   run c      beginRun: a local step in a forked fiber                    *)
(*   rpc c      beginRpc: a promise with a target                           *)
(*   detached c a promise with a target that nobody waits for               *)
(*   sleep c    a timer;    promise c   an external promise                 *)
(*   await G    await the handles in G: one, or those given to ctx.all      *)
(*   cancel c   cancel the handle of c                                      *)
(* ctx.run, ctx.rpc and ctx.sleep are such a call followed by its await.    *)
(* The effect of a local step may await handles itself (group of a run).    *)
(* The sequence number that names children is the position in the script.  *)
(***************************************************************************)
EXTENDS LocalServer, RetryPolicy, Sequences

CONSTANTS
  Fibers,          \* fibers that may hold a claim
  NoId,
  Script,          \* [Ids -> Seq(Step)]: the handler of each id
  Registered,      \* [Fibers -> SUBSET Ids]: whose function its process has
  EffectOutcomes,  \* how the effect of a local step may end
  FaultsBefore     \* bound: when requests cease to fail; 0 on the local network

Creates == {"run", "rpc", "detached", "sleep", "promise"}
Ops == Creates \cup {"await", "cancel"}
Step == [op : Ops, child : Ids, group : SUBSET Ids, duration : Nat,
         policy : Policy]
Stages == {"idle", "claiming", "handler", "suspending", "finishing",
           "failed", "closing"}
Run == [stage : Stages, task : Ids \cup {NoId}, version : Nat, pc : Nat,
        cache : [Ids -> PromiseStates],
        handle : [Ids -> {"none", "running", "waiting", "lost", "pending"}
                           \cup SettledStates],
        attempt : [Ids -> Nat], retryAt : [Ids -> Int],
        attached : SUBSET Ids, awaited : SUBSET Ids,
        exit : {"none", "suspended", "failed"}]

ASSUME EngineAssumption ==
  /\ NoId \notin Ids
  /\ Script \in [Ids -> Seq(Step)]
  /\ Registered \in [Fibers -> SUBSET Ids]
  /\ EffectOutcomes \subseteq {"resolved", "rejected", "died"}
  /\ FaultsBefore \in Nat

VARIABLE runs   \* [Fibers -> Run]

server == <<promises, tasks, promiseTimeouts, taskTimeouts, schedules,
            scheduleTimeouts, outbox, queue, now>>

NoRun == [stage |-> "idle", task |-> NoId, version |-> 0, pc |-> 1,
          cache |-> [c \in Ids |-> "absent"],
          handle |-> [c \in Ids |-> "none"], attempt |-> [c \in Ids |-> 0],
          retryAt |-> [c \in Ids |-> NotSet], attached |-> {}, awaited |-> {}, exit |-> "none"]

\* The steps of a handler that open a child, and the children.
Opens(id) == {k \in DOMAIN Script[id] : Script[id][k].op \in Creates}
CallsBefore(id, n) == {Script[id][k].child : k \in {j \in Opens(id) : j < n}}
Calls(id) == {Script[id][k].child : k \in Opens(id)}
Children(id) ==
  {Script[id][k].child : k \in {j \in Opens(id) : Script[id][j].op # "detached"}}
Locals(id) == {Script[id][k].child :
                 k \in {j \in DOMAIN Script[id] : Script[id][j].op = "run"}}
\* The call that makes the local step c.
LocalStep(id, c) ==
  Script[id][CHOOSE k \in DOMAIN Script[id] :
               Script[id][k].op = "run" /\ Script[id][k].child = c]

\* What a handler is when the engine names its children: a child has the name
\* of its parent and its place there, so no other step opens it; a handle is
\* one that an earlier step returned; ctx.sleep awaits its timer at once.
OwnNames ==
  \A id, jd \in Ids : \A k \in Opens(id), j \in Opens(jd) :
    Script[id][k].child = Script[jd][j].child => id = jd /\ k = j
OwnHandles ==
  \A id \in Ids : \A k \in DOMAIN Script[id] :
    /\ Script[id][k].group \subseteq CallsBefore(id, k)
    /\ Script[id][k].op = "cancel" => Script[id][k].child \in CallsBefore(id, k)
SleepsAwaited ==
  \A id \in Ids : \A k \in Opens(id) : Script[id][k].op = "sleep" =>
    /\ k + 1 \in DOMAIN Script[id]
    /\ Script[id][k + 1].op = "await"
    /\ Script[id][k].child \in Script[id][k + 1].group

\* preload: the records of the promises on the same branch, which are the
\* local steps, as they are stored and not as they are projected.
Preload(id, stored) ==
  [c \in Ids |-> IF c \in Locals(id) THEN stored[c].state ELSE "absent"]

\* execute: a promise that is already seen settled is done, a function that is
\* not registered is a defect, otherwise the handler starts on a new state.
FirstStage(f, id, state) ==
  IF state # "pending" THEN "closing"
  ELSE IF id \in Registered[f] THEN "handler" ELSE "failed"
NewRun(f, id, version, state, preload) ==
  [NoRun EXCEPT !.stage = FirstStage(f, id, state), !.task = id,
                !.version = version, !.cache = preload]

Holds(f) == runs[f].task # NoId /\ Gate(runs[f].task, runs[f].version, now)

\* A request ends in a transport error: the server has handled it or not.
MayFail == now < FaultsBefore

\* The cache after a fence answered with the record of c.
Cached(run, c, state, stored) ==
  [d \in Ids |-> IF d = c THEN state
                 ELSE IF Preload(run.task, stored)[d] # "absent"
                      THEN Preload(run.task, stored)[d]
                 ELSE run.cache[d]]

-----------------------------------------------------------------------------
(* The handler fiber. *)

StepTags(op) ==
  CASE op = "run" -> NoTags
    [] op \in {"rpc", "detached"} -> [NoTags EXCEPT !.target = TRUE, !.global = TRUE]
    [] op = "sleep" -> [NoTags EXCEPT !.timer = TRUE, !.global = TRUE]
    [] op = "promise" -> [NoTags EXCEPT !.global = TRUE]

\* timeoutAt: a child never outlives its parent, unless it is detached.
ClampedTimeout(id, step) ==
  IF step.op = "detached" \/ now + step.duration < promises[id].timeoutAt
  THEN now + step.duration
  ELSE promises[id].timeoutAt

Exited(run) == run.exit # "none" \/ run.pc > Len(Script[run.task])
AtStep(f, ops) ==
  /\ runs[f].stage = "handler"
  /\ ~Exited(runs[f])
  /\ Script[runs[f].task][runs[f].pc].op \in ops
StepOf(f) == Script[runs[f].task][runs[f].pc]

\* The handle of a child whose record is in state: a pending local step is
\* forked for its first attempt, a pending call or external promise is
\* attached to the run.
\* Mutant: a step whose outcome is recorded runs again.
HandleOfRunAgain(op, state) == IF op = "run" THEN "running" ELSE state
HandleOf(op, state) ==
  IF op = "run" /\ state = "pending" THEN "running" ELSE state
Opened(run, step, state) ==
  [run EXCEPT
     !.pc = @ + 1,
     !.handle[step.child] = HandleOf(step.op, state),
     !.attempt[step.child] =
       IF HandleOf(step.op, state) = "running" THEN 1 ELSE 0,
     !.attached = IF step.op \in {"rpc", "promise"} /\ state = "pending"
                  THEN @ \cup {step.child} ELSE @]

OpenCached(f) ==
  /\ AtStep(f, Creates)
  /\ LET step == StepOf(f) IN
       /\ runs[f].cache[step.child] # "absent"
       /\ runs' = [runs EXCEPT ![f] =
                     Opened(@, step, runs[f].cache[step.child])]
  /\ UNCHANGED server

\* What the server does with a fence that passes its gate.
FencedCreate(f) ==
  LET step == StepOf(f) IN
    \/ TaskFenceCreate(runs[f].task, runs[f].version, step.child,
                       StepTags(step.op),
                       ClampedTimeout(runs[f].task, step), now)
    \/ promises[step.child].state # "absent" /\ UNCHANGED server
FencedSettle(f, c, outcome) ==
  \/ TaskFenceSettle(runs[f].task, runs[f].version, c, outcome, now)
  \/ ~Fresh(c, now) /\ UNCHANGED server

OpenFenced(f) ==
  /\ AtStep(f, Creates)
  /\ runs[f].cache[StepOf(f).child] = "absent"
  /\ Holds(f)
  /\ FencedCreate(f)
  /\ LET step == StepOf(f)
         state == Projected(promises'[step.child], now).state
         known == Cached(runs[f], step.child, state, promises')
     IN  runs' = [runs EXCEPT ![f] =
                    Opened([runs[f] EXCEPT !.cache = known], step, state)]

\* Cancelling a handle settles its promise; the handle itself still yields
\* what it was opened with.
CancelFenced(f) ==
  /\ AtStep(f, {"cancel"})
  /\ Holds(f)
  /\ LET c == StepOf(f).child
     IN  /\ FencedSettle(f, c, "rejected_canceled")
         /\ runs' = [runs EXCEPT
                       ![f].pc = @ + 1,
                       ![f].cache = Cached(runs[f], c,
                                           Projected(promises'[c], now).state,
                                           promises')]

\* A refused fence is a failure of the handler like any other, and so is one
\* that is not answered.
SendsFence(f) ==
  /\ AtStep(f, Creates \cup {"cancel"})
  /\ StepOf(f).op \in Creates => runs[f].cache[StepOf(f).child] = "absent"
HandlerFails(f) == runs' = [runs EXCEPT ![f].exit = "failed"]

FenceRefused(f) ==
  /\ SendsFence(f)
  /\ ~Holds(f)
  /\ HandlerFails(f)
  /\ UNCHANGED server

FenceUnanswered(f) ==
  /\ MayFail
  /\ SendsFence(f)
  /\ \/ UNCHANGED server
     \/ /\ Holds(f)
        /\ IF StepOf(f).op = "cancel"
           THEN FencedSettle(f, StepOf(f).child, "rejected_canceled")
           ELSE FencedCreate(f)
  /\ HandlerFails(f)

\* Of the handles in G: a failure is passed on, else what is pending suspends
\* the run.  The Deferred of a local step has to be completed first; it never
\* is for a lost step: no action.
\* Mutant: a handle that is still pending counts as a failed one.
In(run, G, states) == {c \in G : run.handle[c] \in states}
FailuresAllButResolved == PromiseStates \ {"resolved"}
Failures == SettledStates \ {"resolved"}

AwaitHandles(f) ==
  /\ AtStep(f, {"await"})
  /\ LET G == StepOf(f).group
         failed == In(runs[f], G, Failures)
         pending == In(runs[f], G, {"pending"})
     IN  /\ In(runs[f], G, {"running", "waiting", "lost"}) = {}
         /\ \/ /\ failed \cup pending = {}
               /\ runs' = [runs EXCEPT ![f].pc = @ + 1]
            \/ /\ failed # {}
               /\ runs' = [runs EXCEPT ![f].exit = "failed"]
            \/ /\ failed = {} /\ pending # {}
               /\ runs' = [runs EXCEPT ![f].exit = "suspended",
                                       ![f].awaited = pending]
  /\ UNCHANGED server

-----------------------------------------------------------------------------
(* The forked fiber of a local step. *)

\* How an attempt may end: an effect that awaits handles fails with what they
\* fail with, and with the suspension where one is pending.
AttemptEnds(f, c) ==
  LET G == LocalStep(runs[f].task, c).group IN
    IF In(runs[f], G, {"running", "waiting", "lost"}) # {} THEN {}
    ELSE IF In(runs[f], G, Failures \cup {"pending"}) # {} THEN {"rejected"}
    ELSE EffectOutcomes

\* runWithRetry: the pause after the failed attempt, unless the policy or the
\* deadline of the root ends the retries.  A defect is not retried.
RetryIn(f, c) ==
  RetryNext(LocalStep(runs[f].task, c).policy, runs[f].attempt[c])
Retries(f, c, outcome) ==
  /\ outcome = "rejected"
  /\ RetryIn(f, c) # NoRetry
  /\ now + RetryIn(f, c) < promises[runs[f].task].timeoutAt

LocalRetries(f, c) ==
  /\ runs[f].handle[c] = "running"
  /\ \E outcome \in AttemptEnds(f, c) : Retries(f, c, outcome)
  /\ runs' = [runs EXCEPT ![f].handle[c] = "waiting",
                          ![f].retryAt[c] = now + RetryIn(f, c)]
  /\ UNCHANGED server

NextAttempt(f, c) ==
  /\ runs[f].handle[c] = "waiting"
  /\ now >= runs[f].retryAt[c]
  /\ runs' = [runs EXCEPT ![f].handle[c] = "running",
                          ![f].attempt[c] = @ + 1,
                          ![f].retryAt[c] = NotSet]
  /\ UNCHANGED server

\* The fiber records what the last attempt returned and completes the Deferred
\* with the record the server answers with.
\* Mutants: with what the effect returned, with the record as it is stored.
RecordedAsReturned(c, outcome, stored) == outcome
RecordedRaw(c, outcome, stored) == stored[c].state
Recorded(c, outcome, stored) == Projected(stored[c], now).state

LastAttempt(f, c, outcome) ==
  /\ runs[f].handle[c] = "running"
  /\ outcome \in AttemptEnds(f, c) /\ ~Retries(f, c, outcome)
SettledAs(outcome) == IF outcome = "resolved" THEN outcome ELSE "rejected"

LocalSettles(f, c, outcome) ==
  /\ LastAttempt(f, c, outcome)
  /\ Holds(f)
  /\ FencedSettle(f, c, SettledAs(outcome))
  /\ runs' = [runs EXCEPT
                ![f].handle[c] = Recorded(c, SettledAs(outcome), promises'),
                ![f].cache = Cached(runs[f], c,
                                    Projected(promises'[c], now).state,
                                    promises')]

\* A settle that is refused or not answered ends the fiber without completing
\* the Deferred.
LocalLost(f, c, outcome) ==
  /\ LastAttempt(f, c, outcome)
  /\ \/ (~Holds(f) \/ MayFail) /\ UNCHANGED server
     \/ MayFail /\ Holds(f) /\ FencedSettle(f, c, SettledAs(outcome))
  /\ runs' = [runs EXCEPT ![f].handle[c] = "lost"]

-----------------------------------------------------------------------------
(* The end of execute. *)

\* The handler has ended and the forked fibers are drained.
\* Mutant: a handler that returns does not wait for attached children.
DrainedStageForgetsAttached(run) ==
  IF run.exit = "suspended" THEN "suspending" ELSE "finishing"
DrainedStage(run) ==
  IF run.exit # "failed" /\ run.awaited \cup run.attached # {}
  THEN "suspending" ELSE "finishing"

Drain(f) ==
  /\ runs[f].stage = "handler"
  /\ Exited(runs[f])
  /\ \A c \in Ids : runs[f].handle[c] \notin {"running", "waiting"}
  /\ runs' = [runs EXCEPT ![f].stage = DrainedStage(runs[f])]
  /\ UNCHANGED server

\* fulfillRoot
Fulfil(f) ==
  TaskFulfill(runs[f].task, runs[f].version,
              IF runs[f].exit = "failed" THEN "rejected" ELSE "resolved", now)

Finish(f) ==
  /\ runs[f].stage = "finishing"
  /\ Fulfil(f)
  /\ runs' = [runs EXCEPT ![f].stage = "closing"]

\* Refused or not answered.
FinishFails(f) ==
  /\ runs[f].stage = "finishing"
  /\ \/ (~Holds(f) \/ MayFail) /\ UNCHANGED server
     \/ MayFail /\ Fulfil(f)
  /\ runs' = [runs EXCEPT ![f].stage = "failed"]

EngineNext(f) ==
  \/ OpenCached(f)
  \/ OpenFenced(f)
  \/ CancelFenced(f)
  \/ FenceRefused(f)
  \/ FenceUnanswered(f)
  \/ AwaitHandles(f)
  \/ \E c \in Ids :
       \/ LocalRetries(f, c)
       \/ NextAttempt(f, c)
       \/ \E outcome \in EffectOutcomes \cup {"rejected"} :
            LocalSettles(f, c, outcome) \/ LocalLost(f, c, outcome)
  \/ Drain(f)
  \/ Finish(f)
  \/ FinishFails(f)

-----------------------------------------------------------------------------
(* Properties. *)

\* A run is what the engine's RuntimeState can hold; the Deferred of a local
\* step is completed with an outcome, never with a pending record.
EngineTypeOK ==
  /\ runs \in [Fibers -> Run]
  /\ \A f \in Fibers : runs[f].stage = "handler" =>
       \A c \in Locals(runs[f].task) : runs[f].handle[c] # "pending"

Running(f) == runs[f].stage \in {"handler", "suspending", "finishing"}

\* What a handler has been told of a child is what every reader is told: no
\* replay of a task can take another path than an earlier one did.
ReplayFaithful ==
  \A f \in Fibers, c \in Ids : Running(f) =>
    /\ runs[f].cache[c] \in SettledStates =>
         Projected(promises[c], now).state = runs[f].cache[c]
    /\ runs[f].handle[c] \in SettledStates =>
         Projected(promises[c], now).state = runs[f].handle[c]

\* No step is attempted more often in a run than its policy permits, whatever
\* else the run does meanwhile.
AttemptsInBudget ==
  \A f \in Fibers : Running(f) => \A c \in Locals(runs[f].task) :
    runs[f].attempt[c] <= Budget(LocalStep(runs[f].task, c).policy) + 1

\* A step whose effect only waits for other children is not recorded as failed
\* before one of them is: a nested wait suspends the run with the awaited ids
\* (docs/plan/specs/14-suspend-resume.md:25-26).
NestedWaitSuspends ==
  \A id \in Ids : \A c \in Locals(id) :
    /\ LocalStep(id, c).group # {}
    /\ EffectOutcomes = {"resolved"}
    /\ promises[c].state = "rejected"
    => \E d \in LocalStep(id, c).group : promises[d].state \in Failures

\* A promise is rejected only if something its handler called has failed: a
\* transport error or a lost claim is never stored in a promise
\* (docs/DESIGN.md:466).
FailureHasCause ==
  \A id \in Ids :
    promises[id].state = "rejected" /\ promises[id].tags.target =>
      \E c \in Calls(id) : Projected(promises[c], now).state \in Failures

\* A handler that returns ends its promise after all its children, where no
\* request is lost: the end of a forked step that failed is ignored.
ReturnsLast ==
  \A id \in Ids :
    promises[id].state = "resolved" /\ promises[id].tags.target =>
      \A c \in Children(id) : Projected(promises[c], now).state \in SettledStates
==============================================================================
