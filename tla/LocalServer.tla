----------------------------- MODULE LocalServer -----------------------------
(***************************************************************************)
(* The in-memory Resonate server of src/network/Local.ts: durable          *)
(* promises, the tasks that execute them, schedules, and the timeouts that *)
(* drive all three.                                                        *)
(*                                                                         *)
(* The whole server state lives behind one Ref, so every request handler   *)
(* and the tick fiber is one atomic step; each is one action here.  A      *)
(* request that changes nothing (404, 409, 422, idempotent replays, the    *)
(* get requests, the unimplemented searches) is a stuttering step.  A      *)
(* handler reads the clock before it enters the atomic section: its        *)
(* timestamp t may lag behind now by up to ClockLag.                       *)
(*                                                                         *)
(* Data left out: params, values and the createdAt of a promise.           *)
(* Callbacks, listeners and resumes are sets: the code keeps duplicate-    *)
(* free arrays whose order no guard looks at.                              *)
(***************************************************************************)
EXTENDS Integers, FiniteSets

CONSTANTS
  Ids,                 \* promise ids; a task has the id of its promise
  Addresses,           \* addresses a listener can be registered with
  NoAddress,
  Pids,                \* process ids that claim tasks
  NoPid,
  TagSets,             \* the tags a request may carry
  Timeouts,            \* the timeoutAt values a request may carry
  Ttls,                \* lease durations
  Outcomes,            \* the states promise.settle may ask for
  RetryTimeout,        \* redelivery period of execute messages
  ClockLag,            \* bound: how old a handler's timestamp may be
  ScheduleIds,
  ScheduleTemplates,   \* cron period, promise timeout and tags of a schedule
  OccurrenceId(_, _),  \* the promise id a schedule's template expands to
  DebugTimes,          \* times debug.tick may be called with ({}: no debug)
  MaxTime,             \* bound on the clock
  MaxVersion           \* bound on the number of claims of one task

NotSet == -1

Tags == [target : BOOLEAN, timer : BOOLEAN, global : BOOLEAN, delay : Int]
SettledStates == {"resolved", "rejected", "rejected_canceled",
                  "rejected_timedout"}
PromiseStates == {"absent", "pending"} \cup SettledStates
TaskStates == {"absent", "pending", "acquired", "suspended", "halted",
               "fulfilled"}
Promise == [state : PromiseStates, timeoutAt : Int, settledAt : Int,
            tags : Tags, callbacks : SUBSET Ids, listeners : SUBSET Addresses]
Task == [state : TaskStates, version : Nat, pid : Pids \cup {NoPid},
         ttl : Nat, resumes : SUBSET Ids]
TaskTimeout == [kind : {"none", "retry", "lease"}, at : Int]
Template == [cron : Nat \ {0}, promiseTimeout : Nat, tags : Tags]
Schedule == [cron : Nat \ {0}, promiseTimeout : Nat, tags : Tags,
             createdAt : Nat, nextRunAt : Int, lastRunAt : Int]
Message == [kind : {"execute", "unblock"}, id : Ids, version : Int,
            address : Addresses \cup {NoAddress}]

NoTags == [target |-> FALSE, timer |-> FALSE, global |-> FALSE,
           delay |-> NotSet]
NoPromise == [state |-> "absent", timeoutAt |-> NotSet, settledAt |-> NotSet,
              tags |-> NoTags, callbacks |-> {}, listeners |-> {}]
NoTask == [state |-> "absent", version |-> 0, pid |-> NoPid, ttl |-> 0,
           resumes |-> {}]
NoTimeout == [kind |-> "none", at |-> NotSet]
NoSchedule == [cron |-> 0, promiseTimeout |-> 0, tags |-> NoTags,
               createdAt |-> NotSet, nextRunAt |-> NotSet,
               lastRunAt |-> NotSet]

ASSUME ServerAssumption ==
  /\ NoPid \notin Pids
  /\ NoAddress \notin Addresses
  /\ TagSets \subseteq Tags
  /\ Timeouts \subseteq Nat
  /\ Ttls \subseteq Nat
  /\ Outcomes \subseteq SettledStates
  /\ RetryTimeout \in Nat \ {0}
  /\ ClockLag \in Nat
  /\ ScheduleTemplates \subseteq Template
  /\ \A s \in ScheduleIds, c \in 0..MaxTime : OccurrenceId(s, c) \in Ids
  /\ MaxTime \in Nat
  /\ DebugTimes \subseteq 0..MaxTime
  /\ MaxVersion \in Nat

VARIABLES
  promises,          \* [Ids -> Promise], "absent" where the map has no key
  tasks,             \* [Ids -> Task]
  promiseTimeouts,   \* [Ids -> Int], NotSet where none is armed
  taskTimeouts,      \* [Ids -> TaskTimeout]
  schedules,         \* [ScheduleIds -> Schedule]
  scheduleTimeouts,  \* [ScheduleIds -> Int]
  outbox,            \* the last message of every outbox key
  queue,             \* messages offered to the subscribers, none of whom is here
  now

store == <<promises, tasks, promiseTimeouts, taskTimeouts>>
crons == <<schedules, scheduleTimeouts>>
mail == <<outbox, queue>>
vars == <<promises, tasks, promiseTimeouts, taskTimeouts, schedules,
          scheduleTimeouts, outbox, queue, now>>

Init ==
  /\ promises = [id \in Ids |-> NoPromise]
  /\ tasks = [id \in Ids |-> NoTask]
  /\ promiseTimeouts = [id \in Ids |-> NotSet]
  /\ taskTimeouts = [id \in Ids |-> NoTimeout]
  /\ schedules = [s \in ScheduleIds |-> NoSchedule]
  /\ scheduleTimeouts = [s \in ScheduleIds |-> NotSet]
  /\ outbox = {}
  /\ queue = {}
  /\ now = 0

\* The timestamps a handler that commits now may have read.
Stamps == {t \in 0..now : t + ClockLag >= now}

-----------------------------------------------------------------------------
(* Promises and tasks as the handlers see them. *)

\* Mutant: a target alone does not arm the deadline.
ExternalWithoutTarget(tags) == tags.timer \/ tags.global
External(tags) == tags.target \/ tags.timer \/ tags.global
TimedOutState(tags) == IF tags.timer THEN "resolved" ELSE "rejected_timedout"

\* PromiseObject.projected: a pending promise past its timeout is observed
\* as timed out before any tick has persisted that.
Projected(p, t) ==
  IF p.state = "pending" /\ p.timeoutAt <= t
  THEN [p EXCEPT !.state = TimedOutState(p.tags), !.settledAt = p.timeoutAt]
  ELSE p

\* Mutant: the deadline itself still counts as fresh.
FreshAtDeadline(id, t) ==
  promises[id].state = "pending" /\ promises[id].timeoutAt >= t
Fresh(id, t) ==
  promises[id].state = "pending" /\ promises[id].timeoutAt > t

\* taskGate: the fence every operation of a claim holder passes.
\* Mutant: the version is not compared.
GateAnyVersion(id, version, t) == tasks[id].state = "acquired" /\ Fresh(id, t)
Gate(id, version, t) ==
  /\ tasks[id].state = "acquired"
  /\ tasks[id].version = version
  /\ Fresh(id, t)

Retry(t) == [kind |-> "retry", at |-> t + RetryTimeout]
Lease(ttl, t) == [kind |-> "lease", at |-> t + ttl]

\* Mutants: a claim that keeps the version, one that swaps its arguments.
AcquiredSameVersion(task, pid, ttl) ==
  [task EXCEPT !.state = "acquired", !.pid = pid, !.ttl = ttl, !.resumes = {}]
AcquiredSwapped(task, pid, ttl) ==
  [task EXCEPT !.state = "acquired", !.version = @ + 1, !.pid = ttl,
               !.ttl = pid, !.resumes = {}]
Acquired(task, pid, ttl) ==
  [task EXCEPT !.state = "acquired", !.version = @ + 1, !.pid = pid,
               !.ttl = ttl, !.resumes = {}]
Unheld(task, state) == [task EXCEPT !.state = state, !.pid = NoPid, !.ttl = 0]
Fulfilled(task) == [Unheld(task, "fulfilled") EXCEPT !.resumes = {}]

-----------------------------------------------------------------------------
(* Messages. *)

Execute(id, version) == [kind |-> "execute", id |-> id, version |-> version,
                         address |-> NoAddress]
Unblock(id, address) == [kind |-> "unblock", id |-> id, version |-> NotSet,
                         address |-> address]

\* outboxKey: one execute entry per task, one unblock entry per promise and
\* address.
SameKey(m, n) == m.kind = n.kind /\ m.id = n.id /\ m.address = n.address

\* setMessage for every message of a transition, then Queue.offer.
Emit(messages) ==
  /\ outbox' = {m \in outbox : \A n \in messages : ~SameKey(m, n)}
               \cup messages
  /\ queue' = queue \cup messages

\* maybeExecute: only a promise with a target has somewhere to send to.
\* Mutant: redelivery announces the version of the claim to come.
ExecutesNextVersion(S) ==
  {Execute(id, tasks[id].version + 1) :
     id \in {i \in S : promises[i].tags.target}}
Executes(S) ==
  {Execute(id, tasks[id].version) :
     id \in {i \in S : promises[i].tags.target}}

-----------------------------------------------------------------------------
(* Settlement.  settled maps each promise that settles in the step to its  *)
(* settled record: one promise for settle and fulfill, all due ones for a   *)
(* tick.                                                                    *)

Settled(p, state, at) ==
  [p EXCEPT !.state = state, !.settledAt = at, !.callbacks = {},
            !.listeners = {}]

\* Mutant: a settled awaiter stays registered.
CascadePromisesNoScrub(settled) ==
  [id \in Ids |-> IF id \in DOMAIN settled THEN settled[id] ELSE promises[id]]
CascadePromises(settled) ==
  [id \in Ids |->
     IF id \in DOMAIN settled THEN settled[id]
     ELSE IF promises[id].state = "pending"
          THEN [promises[id] EXCEPT !.callbacks = @ \ DOMAIN settled]
          ELSE promises[id]]

\* The promises of S whose settlement task id is registered for.
Awakening(S, id) == {p \in S : id \in promises[p].callbacks}
Woken(S) == {id \in Ids \ S : /\ tasks[id].state = "suspended"
                              /\ Awakening(S, id) # {}}

\* enqueueResume: a suspended task becomes pending at the same version, a
\* running or halted one buffers the wake-up.
\* Mutants: a suspended task buffers its wake-up too; a halted one drops it.
ResumedBufferOnly(S, id) ==
  IF tasks[id].state \in {"pending", "acquired", "halted", "suspended"}
  THEN [tasks[id] EXCEPT !.resumes = @ \cup Awakening(S, id)]
  ELSE tasks[id]
ResumedNotHalted(S, id) ==
  CASE id \in Woken(S) -> [tasks[id] EXCEPT !.state = "pending",
                                            !.resumes = Awakening(S, id)]
    [] tasks[id].state \in {"pending", "acquired"} ->
         [tasks[id] EXCEPT !.resumes = @ \cup Awakening(S, id)]
    [] OTHER -> tasks[id]
Resumed(S, id) ==
  CASE id \in Woken(S) -> [tasks[id] EXCEPT !.state = "pending",
                                            !.resumes = Awakening(S, id)]
    [] tasks[id].state \in {"pending", "acquired", "halted"} ->
         [tasks[id] EXCEPT !.resumes = @ \cup Awakening(S, id)]
    [] OTHER -> tasks[id]

\* Mutant: settling a promise forgets its own task.
CascadeTasksKeepOwn(S) ==
  [id \in Ids |->
     IF tasks[id].state = "absent" \/ id \in S THEN tasks[id]
     ELSE Resumed(S, id)]
CascadeTasks(S) ==
  [id \in Ids |->
     IF tasks[id].state = "absent" THEN tasks[id]
     ELSE IF id \in S THEN Fulfilled(tasks[id])
     ELSE Resumed(S, id)]

\* Mutant: the timeout of a fulfilled task survives.
CascadeTaskTimeoutsKept(S, t) ==
  [id \in Ids |-> IF id \in Woken(S) THEN Retry(t) ELSE taskTimeouts[id]]
CascadeTaskTimeouts(S, t) ==
  [id \in Ids |->
     IF id \in S THEN NoTimeout
     ELSE IF id \in Woken(S) THEN Retry(t)
     ELSE taskTimeouts[id]]

CascadeMessages(S) ==
  Executes(Woken(S))
    \cup UNION {{Unblock(p, a) : a \in promises[p].listeners} : p \in S}

\* The common tail of promise.settle and task.fulfill.
Settle(id, state, t) ==
  /\ promises' = CascadePromises([p \in {id} |->
                                    Settled(promises[p], state, t)])
  /\ tasks' = CascadeTasks({id})
  /\ promiseTimeouts' = [promiseTimeouts EXCEPT ![id] = NotSet]
  /\ taskTimeouts' = CascadeTaskTimeouts({id}, t)
  /\ Emit(CascadeMessages({id}))
  /\ UNCHANGED <<crons, now>>

-----------------------------------------------------------------------------
(* Promise requests. *)

PendingPromise(tags, timeoutAt) ==
  [NoPromise EXCEPT !.state = "pending", !.timeoutAt = timeoutAt,
                    !.tags = tags]
BornSettled(tags, timeoutAt) ==
  [NoPromise EXCEPT !.state = TimedOutState(tags), !.timeoutAt = timeoutAt,
                    !.settledAt = timeoutAt, !.tags = tags]

\* What promiseCreate stores for a new id at time t: the promise, its
\* timeout, its task, the task's timeout and the messages it emits.
NewPromise(tags, timeoutAt, t) ==
  IF timeoutAt > t THEN PendingPromise(tags, timeoutAt)
                   ELSE BornSettled(tags, timeoutAt)
NewPromiseTimeout(tags, timeoutAt, t) ==
  IF timeoutAt > t /\ External(tags) THEN timeoutAt ELSE NotSet
NewTask(tags, timeoutAt, t) ==
  IF ~tags.target THEN NoTask
  ELSE [NoTask EXCEPT !.state = IF timeoutAt > t THEN "pending"
                                                 ELSE "fulfilled"]
NewTaskTimeout(tags, timeoutAt, t) ==
  IF ~tags.target \/ timeoutAt <= t THEN NoTimeout
  ELSE IF tags.delay > t THEN [kind |-> "retry", at |-> tags.delay]
  ELSE Retry(t)
NewMessages(id, tags, timeoutAt, t) ==
  {m \in {Execute(id, 0)} :
     tags.target /\ timeoutAt > t /\ tags.delay <= t}

PromiseCreate(id, tags, timeoutAt, t) ==
  /\ promises[id].state = "absent"
  /\ promises' = [promises EXCEPT ![id] = NewPromise(tags, timeoutAt, t)]
  /\ promiseTimeouts' =
       [promiseTimeouts EXCEPT ![id] = NewPromiseTimeout(tags, timeoutAt, t)]
  /\ tasks' = [tasks EXCEPT ![id] = NewTask(tags, timeoutAt, t)]
  /\ taskTimeouts' =
       [taskTimeouts EXCEPT ![id] = NewTaskTimeout(tags, timeoutAt, t)]
  /\ Emit(NewMessages(id, tags, timeoutAt, t))
  /\ UNCHANGED <<crons, now>>

PromiseSettle(id, state, t) ==
  /\ Fresh(id, t)
  /\ Settle(id, state, t)

PromiseRegisterCallback(awaited, awaiter, t) ==
  /\ awaited # awaiter
  /\ promises[awaiter].tags.target
  /\ Fresh(awaited, t)
  /\ Fresh(awaiter, t)
  /\ promises' = [promises EXCEPT ![awaited].callbacks = @ \cup {awaiter}]
  /\ UNCHANGED <<tasks, promiseTimeouts, taskTimeouts, crons, mail, now>>

PromiseRegisterListener(awaited, address, t) ==
  /\ Fresh(awaited, t)
  /\ promises' = [promises EXCEPT ![awaited].listeners = @ \cup {address}]
  /\ UNCHANGED <<tasks, promiseTimeouts, taskTimeouts, crons, mail, now>>

-----------------------------------------------------------------------------
(* Task requests. *)

\* The task moves from pending to acquired under the next version.
Claim(id, pid, ttl, t) ==
  /\ tasks[id].state = "pending"
  /\ tasks[id].version < MaxVersion
  /\ tasks' = [tasks EXCEPT ![id] = Acquired(@, pid, ttl)]
  /\ taskTimeouts' = [taskTimeouts EXCEPT ![id] = Lease(ttl, t)]
  /\ UNCHANGED <<promises, promiseTimeouts, crons, mail, now>>

\* task.create on a pending task claims it: neither a version nor the
\* freshness of the promise is checked.
TaskCreateReacquire(id, pid, ttl, t) ==
  /\ promises[id].state # "absent"
  /\ Claim(id, pid, ttl, t)

\* task.create of a new promise: its timeout is armed whatever its tags.
TaskCreateAcquired(id, tags, timeoutAt, pid, ttl, t) ==
  /\ promises[id].state = "absent"
  /\ timeoutAt > t
  /\ promises' = [promises EXCEPT ![id] = PendingPromise(tags, timeoutAt)]
  /\ promiseTimeouts' = [promiseTimeouts EXCEPT ![id] = timeoutAt]
  /\ tasks' = [tasks EXCEPT ![id] = Acquired(NoTask, pid, ttl)]
  /\ taskTimeouts' = [taskTimeouts EXCEPT ![id] = Lease(ttl, t)]
  /\ UNCHANGED <<crons, mail, now>>

TaskCreateExpired(id, tags, timeoutAt, t) ==
  /\ promises[id].state = "absent"
  /\ timeoutAt <= t
  /\ promises' = [promises EXCEPT ![id] = BornSettled(tags, timeoutAt)]
  /\ tasks' = [tasks EXCEPT ![id] = Fulfilled(NoTask)]
  /\ UNCHANGED <<promiseTimeouts, taskTimeouts, crons, mail, now>>

TaskAcquire(id, version, pid, ttl, t) ==
  /\ tasks[id].version = version
  /\ Fresh(id, t)
  /\ Claim(id, pid, ttl, t)

\* task.fence: a promise operation on behalf of a holder.
TaskFenceCreate(id, version, child, tags, timeoutAt, t) ==
  /\ Gate(id, version, t)
  /\ PromiseCreate(child, tags, timeoutAt, t)

TaskFenceSettle(id, version, child, state, t) ==
  /\ Gate(id, version, t)
  /\ PromiseSettle(child, state, t)

TaskFulfill(id, version, state, t) ==
  /\ Gate(id, version, t)
  /\ Settle(id, state, t)

\* Back to pending with a retry timeout and a fresh execute message.
Redispatch(id, task, t) ==
  /\ tasks' = [tasks EXCEPT ![id] = task]
  /\ taskTimeouts' = [taskTimeouts EXCEPT ![id] = Retry(t)]
  /\ Emit(Executes({id}))
  /\ UNCHANGED <<promises, promiseTimeouts, crons, now>>

TaskRelease(id, version, t) ==
  /\ Gate(id, version, t)
  /\ Redispatch(id, Unheld(tasks[id], "pending"), t)

TaskContinue(id, t) ==
  /\ tasks[id].state = "halted"
  /\ promises[id].state # "absent"
  /\ Redispatch(id, [tasks[id] EXCEPT !.state = "pending"], t)

TaskHalt(id) ==
  /\ tasks[id].state \notin {"absent", "fulfilled", "halted"}
  /\ tasks' = [tasks EXCEPT ![id] = Unheld(@, "halted")]
  /\ taskTimeouts' = [taskTimeouts EXCEPT ![id] = NoTimeout]
  /\ UNCHANGED <<promises, promiseTimeouts, crons, mail, now>>

\* task.suspend on the promises A: all-or-nothing.  Refused (300) as soon as
\* one of them is observably settled, the holder keeps the task then.
SuspendGate(id, version, A, t) ==
  /\ A # {} /\ id \notin A
  /\ Gate(id, version, t)
  /\ \A a \in A : promises[a].state # "absent"

TaskSuspendRefused(id, version, A, t) ==
  /\ SuspendGate(id, version, A, t)
  /\ \E a \in A : ~Fresh(a, t)
  /\ tasks' = [tasks EXCEPT ![id].resumes = {}]
  /\ UNCHANGED <<promises, promiseTimeouts, taskTimeouts, crons, mail, now>>

TaskSuspend(id, version, A, t) ==
  /\ SuspendGate(id, version, A, t)
  /\ \A a \in A : Fresh(a, t)
  /\ promises' = [p \in Ids |->
                    IF p \in A
                    THEN [promises[p] EXCEPT !.callbacks = @ \cup {id}]
                    ELSE promises[p]]
  /\ tasks' = [tasks EXCEPT ![id] = [Unheld(@, "suspended")
                                       EXCEPT !.resumes = {}]]
  /\ taskTimeouts' = [taskTimeouts EXCEPT ![id] = NoTimeout]
  /\ UNCHANGED <<promiseTimeouts, crons, mail, now>>

\* task.heartbeat: refs is a set of <<id, version>>; a reference that is not
\* an unexpired claim of pid is skipped silently.
TaskHeartbeat(pid, refs, t) ==
  /\ taskTimeouts' =
       [id \in Ids |->
          IF /\ <<id, tasks[id].version>> \in refs
             /\ Gate(id, tasks[id].version, t)
             /\ tasks[id].pid = pid
          THEN Lease(tasks[id].ttl, t) ELSE taskTimeouts[id]]
  /\ UNCHANGED <<promises, tasks, promiseTimeouts, crons, mail, now>>

-----------------------------------------------------------------------------
(* Schedule requests.  A cron expression is abstracted to its period.      *)

CronNext(period, t) == ((t \div period) + 1) * period

ScheduleCreate(s, template, t) ==
  /\ schedules[s] = NoSchedule
  /\ LET next == CronNext(template.cron, t) IN
       /\ schedules' =
            [schedules EXCEPT ![s] =
               [cron |-> template.cron,
                promiseTimeout |-> template.promiseTimeout,
                tags |-> template.tags, createdAt |-> t, nextRunAt |-> next,
                lastRunAt |-> NotSet]]
       /\ scheduleTimeouts' = [scheduleTimeouts EXCEPT ![s] = next]
  /\ UNCHANGED <<store, mail, now>>

ScheduleDelete(s) ==
  /\ schedules[s] # NoSchedule
  /\ schedules' = [schedules EXCEPT ![s] = NoSchedule]
  /\ scheduleTimeouts' = [scheduleTimeouts EXCEPT ![s] = NotSet]
  /\ UNCHANGED <<store, mail, now>>

\* catchUpSchedule: the missed cron times of a schedule, each of which calls
\* promiseCreate with the cron time as its clock.
DueSchedules(t) ==
  {s \in ScheduleIds : /\ schedules[s] # NoSchedule
                       /\ scheduleTimeouts[s] # NotSet
                       /\ scheduleTimeouts[s] <= t}
\* Mutant: catch-up starts after the next run instead of at it.
MissedTimesAfterNext(s, t) ==
  {c \in 0..t : schedules[s].nextRunAt < c /\ c % schedules[s].cron = 0}
MissedTimes(s, t) ==
  {c \in 0..t : schedules[s].nextRunAt <= c /\ c % schedules[s].cron = 0}

\* The ids a tick at t creates, each with the occurrence that creates it.
\* Two occurrences of one schedule run in time order and the first creates;
\* the order in which two schedules run is that of a HashMap: any.
Firings(t) == UNION {{<<s, c>> : c \in MissedTimes(s, t)} :
                       s \in DueSchedules(t)}
FiredIds(t) ==
  {id \in Ids : /\ promises[id].state = "absent"
                /\ \E f \in Firings(t) : OccurrenceId(f[1], f[2]) = id}
FirstFirings(id, t) ==
  {f \in Firings(t) :
     /\ OccurrenceId(f[1], f[2]) = id
     /\ \A g \in Firings(t) :
          g[1] = f[1] /\ OccurrenceId(g[1], g[2]) = id => f[2] <= g[2]}

CaughtUp(s, t) ==
  [schedules[s] EXCEPT
     !.lastRunAt = CronNext(schedules[s].cron, t) - schedules[s].cron,
     !.nextRunAt = CronNext(schedules[s].cron, t)]

-----------------------------------------------------------------------------
(* The tick: persist the due promise timeouts and cascade them, then serve *)
(* the due task timeouts, then catch the due schedules up.                  *)

DuePromises(t) ==
  {id \in Ids : /\ promiseTimeouts[id] # NotSet
                /\ promiseTimeouts[id] <= t
                /\ promises[id].state = "pending"}
TimedOut(t) ==
  [id \in DuePromises(t) |->
     Settled(promises[id], TimedOutState(promises[id].tags),
             promises[id].timeoutAt)]

\* A task the cascade woke or fulfilled has no due timeout any more.
DueTasks(kind, state, t) ==
  {id \in Ids \ DuePromises(t) : /\ taskTimeouts[id].kind = kind
                                 /\ taskTimeouts[id].at <= t
                                 /\ tasks[id].state = state}
Redelivered(t) == DueTasks("retry", "pending", t)
LeaseLost(t) == DueTasks("lease", "acquired", t)

TickTask(id, t) ==
  LET task == CascadeTasks(DuePromises(t))[id]
  IN  IF id \in LeaseLost(t) THEN Unheld(task, "pending") ELSE task
TickTaskTimeout(id, t) ==
  IF id \in Redelivered(t) \cup LeaseLost(t) THEN Retry(t)
  ELSE CascadeTaskTimeouts(DuePromises(t), t)[id]
TickMessages(t) ==
  CascadeMessages(DuePromises(t)) \cup Executes(Redelivered(t) \cup LeaseLost(t))

\* What a firing creates: the tags and the deadline of its promise.
FiringTags(f) == schedules[f[1]].tags
FiringTimeout(f) == f[2] + schedules[f[1]].promiseTimeout

TickWith(fire, t) ==
  /\ \A id \in FiredIds(t) : fire[id] \in FirstFirings(id, t)
  /\ promises' =
       [id \in Ids |->
          IF id \in FiredIds(t)
          THEN NewPromise(FiringTags(fire[id]), FiringTimeout(fire[id]),
                          fire[id][2])
          ELSE CascadePromises(TimedOut(t))[id]]
  /\ promiseTimeouts' =
       [id \in Ids |->
          IF id \in FiredIds(t)
          THEN NewPromiseTimeout(FiringTags(fire[id]),
                                 FiringTimeout(fire[id]), fire[id][2])
          ELSE IF id \in DuePromises(t) THEN NotSet
          ELSE promiseTimeouts[id]]
  /\ tasks' =
       [id \in Ids |->
          IF id \in FiredIds(t)
          THEN NewTask(FiringTags(fire[id]), FiringTimeout(fire[id]),
                       fire[id][2])
          ELSE TickTask(id, t)]
  /\ taskTimeouts' =
       [id \in Ids |->
          IF id \in FiredIds(t)
          THEN NewTaskTimeout(FiringTags(fire[id]), FiringTimeout(fire[id]),
                              fire[id][2])
          ELSE TickTaskTimeout(id, t)]
  /\ Emit(TickMessages(t) \cup
          UNION {NewMessages(id, FiringTags(fire[id]),
                             FiringTimeout(fire[id]), fire[id][2]) :
                   id \in FiredIds(t)})
  /\ schedules' = [s \in ScheduleIds |->
                     IF s \in DueSchedules(t) THEN CaughtUp(s, t)
                     ELSE schedules[s]]
  /\ scheduleTimeouts' = [s \in ScheduleIds |->
                            IF s \in DueSchedules(t)
                            THEN CronNext(schedules[s].cron, t)
                            ELSE scheduleTimeouts[s]]
  /\ UNCHANGED now

Tick(t) == \E fire \in [FiredIds(t) -> Firings(t)] : TickWith(fire, t)

\* debug.tick runs the tick at a time its caller picks, debug.reset drops the
\* whole store; neither touches messages already offered.
DebugTick == \E t \in DebugTimes : Tick(t)
DebugReset ==
  /\ DebugTimes # {}
  /\ promises' = [id \in Ids |-> NoPromise]
  /\ tasks' = [id \in Ids |-> NoTask]
  /\ promiseTimeouts' = [id \in Ids |-> NotSet]
  /\ taskTimeouts' = [id \in Ids |-> NoTimeout]
  /\ schedules' = [s \in ScheduleIds |-> NoSchedule]
  /\ scheduleTimeouts' = [s \in ScheduleIds |-> NotSet]
  /\ outbox' = {}
  /\ UNCHANGED <<queue, now>>

Advance ==
  /\ now < MaxTime
  /\ now' = now + 1
  /\ UNCHANGED <<store, crons, mail>>

-----------------------------------------------------------------------------
PromiseNext ==
  \E id \in Ids, t \in Stamps :
    \/ \E tags \in TagSets, timeoutAt \in Timeouts :
         PromiseCreate(id, tags, timeoutAt, t)
    \/ \E state \in Outcomes : PromiseSettle(id, state, t)
    \/ \E awaiter \in Ids : PromiseRegisterCallback(id, awaiter, t)
    \/ \E address \in Addresses : PromiseRegisterListener(id, address, t)

TaskCreateNext ==
  \E id \in Ids, t \in Stamps :
    \/ \E pid \in Pids, ttl \in Ttls : TaskCreateReacquire(id, pid, ttl, t)
    \/ \E tags \in TagSets, timeoutAt \in Timeouts :
         \/ \E pid \in Pids, ttl \in Ttls :
              TaskCreateAcquired(id, tags, timeoutAt, pid, ttl, t)
         \/ TaskCreateExpired(id, tags, timeoutAt, t)

TaskNext ==
  \E id \in Ids, version \in 0..MaxVersion, t \in Stamps :
    \/ \E pid \in Pids, ttl \in Ttls : TaskAcquire(id, version, pid, ttl, t)
    \/ \E child \in Ids, tags \in TagSets, timeoutAt \in Timeouts :
         TaskFenceCreate(id, version, child, tags, timeoutAt, t)
    \/ \E child \in Ids, state \in Outcomes :
         TaskFenceSettle(id, version, child, state, t)
    \/ \E state \in Outcomes : TaskFulfill(id, version, state, t)
    \/ TaskRelease(id, version, t)
    \/ \E A \in SUBSET Ids : TaskSuspendRefused(id, version, A, t)
    \/ \E A \in SUBSET Ids : TaskSuspend(id, version, A, t)
    \/ \E pid \in Pids : TaskHeartbeat(pid, {<<id, version>>}, t)

TaskControlNext ==
  \E id \in Ids : \/ TaskHalt(id)
                  \/ \E t \in Stamps : TaskContinue(id, t)

ScheduleNext ==
  \E s \in ScheduleIds :
    \/ \E template \in ScheduleTemplates, t \in Stamps :
         ScheduleCreate(s, template, t)
    \/ ScheduleDelete(s)

TickNext == \E t \in Stamps : Tick(t)

Next ==
  \/ PromiseNext
  \/ TaskCreateNext
  \/ TaskNext
  \/ TaskControlNext
  \/ ScheduleNext
  \/ TickNext
  \/ DebugTick
  \/ DebugReset
  \/ Advance

Spec == Init /\ [][Next]_vars

\* Time passes and the tick fiber (Effect.forever) keeps running.
FairSpec == Spec /\ WF_vars(Advance) /\ WF_vars(Tick(now))

-----------------------------------------------------------------------------
(* Properties. *)

Live == {"pending", "acquired", "suspended", "halted"}

\* Every variable holds values of its type.
TypeOK ==
  /\ promises \in [Ids -> Promise]
  /\ tasks \in [Ids -> Task]
  /\ promiseTimeouts \in [Ids -> Int]
  /\ taskTimeouts \in [Ids -> TaskTimeout]
  /\ schedules \in [ScheduleIds -> Schedule \cup {NoSchedule}]
  /\ scheduleTimeouts \in [ScheduleIds -> Int]
  /\ outbox \subseteq Message
  /\ queue \subseteq Message
  /\ now \in 0..MaxTime

\* A task and its promise live and die together: a live task belongs to a
\* pending promise, a fulfilled one to a settled promise, and a pending
\* promise with a target never lacks its task.
Lockstep ==
  \A id \in Ids :
    /\ tasks[id].state \in Live => promises[id].state = "pending"
    /\ tasks[id].state = "fulfilled" => promises[id].state \in SettledStates
    /\ promises[id].state = "pending" /\ promises[id].tags.target
         => tasks[id].state \in Live

\* The promise timeout of every promise that has a task is armed for as long
\* as it is pending, at its deadline; no settled promise keeps one.
DeadlineArmed ==
  \A id \in Ids :
    /\ promises[id].state = "pending" /\ ( \/ External(promises[id].tags)
                                          \/ tasks[id].state \in Live )
         => promiseTimeouts[id] = promises[id].timeoutAt
    /\ promiseTimeouts[id] # NotSet =>
         /\ promises[id].state = "pending"
         /\ promiseTimeouts[id] = promises[id].timeoutAt

\* The task timeouts follow the task states: exactly the pending tasks have a
\* retry timeout, exactly the acquired ones a lease and a holder.
TimeoutDiscipline ==
  \A id \in Ids :
    /\ taskTimeouts[id].kind = "retry" <=> tasks[id].state = "pending"
    /\ taskTimeouts[id].kind = "lease" <=> tasks[id].state = "acquired"
    /\ tasks[id].pid # NoPid <=> tasks[id].state = "acquired"

\* A suspended task always has something that will wake it: it is registered
\* on a promise that is still pending, and no wake-up is already buffered.
SuspendedIsAwaiting ==
  \A id \in Ids : tasks[id].state = "suspended" =>
    /\ tasks[id].resumes = {}
    /\ \E p \in Ids \ {id} : promises[p].state = "pending"
                              /\ id \in promises[p].callbacks

\* Every registration is live: only a pending promise has callbacks or
\* listeners, and every registered awaiter is another promise's live task.
RegistrationsLive ==
  \A p \in Ids :
    /\ promises[p].state # "pending" => /\ promises[p].callbacks = {}
                                        /\ promises[p].listeners = {}
    /\ \A id \in promises[p].callbacks : id # p /\ tasks[id].state \in Live

\* A pending task that has somewhere to go has an execute message of its
\* current version in the outbox, unless its first dispatch is delayed; no
\* execute message ever offered is ahead of its task.
Dispatched ==
  /\ \A id \in Ids :
       tasks[id].state = "pending" /\ promises[id].tags.target =>
         \/ Execute(id, tasks[id].version) \in outbox
         \/ /\ tasks[id].version = 0
            /\ taskTimeouts[id].at = promises[id].tags.delay
  /\ \A m \in outbox \cup queue :
       m.kind = "execute" => m.version <= tasks[m.id].version

\* Once a promise is observably settled, by a record or by the projection of
\* its deadline, every later observation is the same.
ObservationStable ==
  [][\A id \in Ids :
       LET seen == Projected(promises[id], now)
           next == Projected(promises'[id], now')
       IN  seen.state \in SettledStates =>
             next.state = seen.state /\ next.settledAt = seen.settledAt]_vars

\* A version is a fencing token: it grows by one exactly when a pending task
\* is claimed, so no two claims of a task ever share one.
FencingTokens ==
  [][\A id \in Ids :
       \/ /\ tasks'[id].version = tasks[id].version
          /\ tasks'[id].state = "acquired" => tasks[id].state = "acquired"
       \/ /\ tasks[id].state \in {"absent", "pending"}
          /\ tasks'[id].state = "acquired"
          /\ tasks'[id].version = tasks[id].version + 1]_vars

\* The step that settles a promise loses no wake-up: each registered awaiter
\* either ends with it or is left running, halted or pending with the
\* settlement in its resumes, and each listener is sent an unblock.
NoLostWakeup ==
  [][\A p \in Ids :
       promises[p].state = "pending" /\ promises'[p].state # "pending" =>
         /\ \A id \in promises[p].callbacks :
              \/ tasks'[id].state = "fulfilled"
              \/ /\ p \in tasks'[id].resumes
                 /\ tasks'[id].state \in {"pending", "acquired", "halted"}
         /\ \A a \in promises[p].listeners : Unblock(p, a) \in queue']_vars

\* Every cron time between the creation of a schedule and its next run has
\* had its promise created, however late the tick came.
NoMissedOccurrence ==
  \A s \in ScheduleIds : schedules[s] # NoSchedule =>
    /\ scheduleTimeouts[s] = schedules[s].nextRunAt
    /\ \A c \in 0..MaxTime :
         /\ schedules[s].createdAt < c
         /\ c < schedules[s].nextRunAt
         /\ c % schedules[s].cron = 0
         => promises[OccurrenceId(s, c)].state # "absent"

\* Every task ends: whatever clients do or fail to do, the deadline of its
\* promise fulfils it.
TasksEnd ==
  \A id \in Ids : (tasks[id].state \in Live) ~> (tasks[id].state = "fulfilled")
=============================================================================
