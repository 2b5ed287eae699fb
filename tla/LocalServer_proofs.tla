-------------------------- MODULE LocalServer_proofs ---------------------------
(***************************************************************************)
(* Type correctness and the inductive invariant of LocalServer, and the     *)
(* safety properties it gives for every instance: any number of promises,   *)
(* workers and schedules, any timeouts, and timestamps of any age.          *)
(***************************************************************************)
EXTENDS LocalServer, TLAPS

LEMMA EmitType ==
  ASSUME outbox \subseteq Message, queue \subseteq Message,
         NEW messages \in SUBSET Message, Emit(messages)
  PROVE  outbox' \subseteq Message /\ queue' \subseteq Message
  BY DEF Emit

LEMMA RecordTypes ==
  /\ NoPromise \in Promise
  /\ NoTask \in Task
  /\ NoTimeout \in TaskTimeout
  /\ NoTags \in Tags
  BY DEF NoPromise, Promise, PromiseStates, NoTags, Tags, NotSet, NoTask, Task,
         TaskStates, NoTimeout, TaskTimeout

LEMMA ExecutesType ==
  ASSUME TypeOK, NEW S \in SUBSET Ids
  PROVE  Executes(S) \subseteq Message
  BY DEF Executes, Execute, Message, TypeOK, Task

LEMMA CascadePromisesType ==
  ASSUME TypeOK, NEW S \in SUBSET Ids, NEW settled \in [S -> Promise]
  PROVE  CascadePromises(settled) \in [Ids -> Promise]
  BY DEF CascadePromises, TypeOK, Promise

LEMMA ResumedType ==
  ASSUME TypeOK, NEW S \in SUBSET Ids, NEW id \in Ids
  PROVE  Resumed(S, id) \in Task
  <1>1. tasks[id] \in Task /\ Awakening(S, id) \in SUBSET Ids
    BY DEF Awakening, TypeOK
  <1>2. [tasks[id] EXCEPT !.state = "pending", !.resumes = Awakening(S, id)]
          \in Task
    BY <1>1 DEF Task, TaskStates
  <1>3. [tasks[id] EXCEPT !.resumes = @ \cup Awakening(S, id)] \in Task
    BY <1>1 DEF Task
  <1>4. CASE id \in Woken(S)
    <2>1. tasks[id].state \notin {"pending", "acquired", "halted"}
      BY <1>4 DEF Woken
    <2>2. QED
      BY <1>2, <1>4, <2>1 DEF Resumed
  <1>5. CASE id \notin Woken(S)
    BY <1>1, <1>3, <1>5 DEF Resumed
  <1>6. QED
    BY <1>4, <1>5

LEMMA FulfilledType ==
  ASSUME NEW task \in Task
  PROVE  Fulfilled(task) \in Task
  BY DEF Fulfilled, Unheld, Task, TaskStates

LEMMA CascadeTasksType ==
  ASSUME TypeOK, NEW S \in SUBSET Ids
  PROVE  CascadeTasks(S) \in [Ids -> Task]
  BY ResumedType, FulfilledType DEF CascadeTasks, TypeOK

LEMMA RetryType ==
  ASSUME NEW t \in Nat
  PROVE  Retry(t) \in TaskTimeout
  BY ServerAssumption DEF Retry, TaskTimeout

LEMMA CascadeTaskTimeoutsType ==
  ASSUME TypeOK, NEW S \in SUBSET Ids, NEW t \in Nat
  PROVE  CascadeTaskTimeouts(S, t) \in [Ids -> TaskTimeout]
  BY RetryType, RecordTypes DEF CascadeTaskTimeouts, TypeOK

LEMMA CascadeMessagesType ==
  ASSUME TypeOK, NEW S \in SUBSET Ids
  PROVE  CascadeMessages(S) \subseteq Message
  <1>1. Woken(S) \in SUBSET Ids
    BY DEF Woken
  <1>2. Executes(Woken(S)) \subseteq Message
    BY <1>1, ExecutesType
  <1>3. ASSUME NEW p \in S, NEW a \in promises[p].listeners
        PROVE  Unblock(p, a) \in Message
    BY DEF TypeOK, Promise, Unblock, Message, NotSet
  <1>4. QED
    BY <1>2, <1>3 DEF CascadeMessages

LEMMA SettledType ==
  ASSUME NEW p \in Promise, NEW state \in SettledStates, NEW at \in Int
  PROVE  Settled(p, state, at) \in Promise
  BY DEF Settled, Promise, PromiseStates

LEMMA SettleType ==
  ASSUME TypeOK, NEW id \in Ids, NEW state \in SettledStates, NEW t \in Nat,
         Settle(id, state, t)
  PROVE  TypeOK'
  <1> DEFINE settled == [p \in {id} |-> Settled(promises[p], state, t)]
  <1>1. settled \in [{id} -> Promise]
    <2>1. \A p \in {id} : Settled(promises[p], state, t) \in Promise
      BY SettledType DEF TypeOK
    <2>2. QED
      BY <2>1
  <1>2. promises' \in [Ids -> Promise]
    BY <1>1, CascadePromisesType DEF Settle
  <1>3. tasks' \in [Ids -> Task]
    BY CascadeTasksType DEF Settle
  <1>4. promiseTimeouts' \in [Ids -> Int]
    BY DEF Settle, TypeOK, NotSet
  <1>5. taskTimeouts' \in [Ids -> TaskTimeout]
    BY CascadeTaskTimeoutsType DEF Settle
  <1>6. outbox' \subseteq Message /\ queue' \subseteq Message
    BY EmitType, CascadeMessagesType DEF Settle, TypeOK
  <1>7. QED
    BY <1>2, <1>3, <1>4, <1>5, <1>6 DEF TypeOK, Settle, crons

LEMMA PendingPromiseType ==
  ASSUME NEW tags \in Tags, NEW timeoutAt \in Int
  PROVE  PendingPromise(tags, timeoutAt) \in Promise
  BY RecordTypes DEF PendingPromise, Promise, PromiseStates

LEMMA BornSettledType ==
  ASSUME NEW tags \in Tags, NEW timeoutAt \in Int
  PROVE  BornSettled(tags, timeoutAt) \in Promise
  <1>1. TimedOutState(tags) \in PromiseStates
    BY DEF TimedOutState, PromiseStates, SettledStates
  <1>2. QED
    BY <1>1, RecordTypes DEF BornSettled, Promise

\* What promiseCreate stores for a new id is well-typed.
LEMMA CreationTypes ==
  ASSUME NEW id \in Ids, NEW tags \in Tags, NEW timeoutAt \in Int, NEW t \in Nat
  PROVE  /\ NewPromise(tags, timeoutAt, t) \in Promise
         /\ NewPromiseTimeout(tags, timeoutAt, t) \in Int
         /\ NewTask(tags, timeoutAt, t) \in Task
         /\ NewTaskTimeout(tags, timeoutAt, t) \in TaskTimeout
         /\ NewMessages(id, tags, timeoutAt, t) \in SUBSET Message
  <1>1. NewPromise(tags, timeoutAt, t) \in Promise
    BY PendingPromiseType, BornSettledType DEF NewPromise
  <1>2. NewPromiseTimeout(tags, timeoutAt, t) \in Int
    BY DEF NewPromiseTimeout, NotSet
  <1>3. NewTask(tags, timeoutAt, t) \in Task
    <2>1. \A state \in {"pending", "fulfilled"} :
            [NoTask EXCEPT !.state = state] \in Task
      BY RecordTypes DEF Task, TaskStates
    <2>2. QED
      BY <2>1, RecordTypes DEF NewTask
  <1>4. NewTaskTimeout(tags, timeoutAt, t) \in TaskTimeout
    BY RetryType, RecordTypes DEF NewTaskTimeout, TaskTimeout, Tags
  <1>5. NewMessages(id, tags, timeoutAt, t) \in SUBSET Message
    BY DEF NewMessages, Execute, Message
  <1>6. QED
    BY <1>1, <1>2, <1>3, <1>4, <1>5

LEMMA PromiseCreateType ==
  ASSUME TypeOK, NEW id \in Ids, NEW tags \in Tags, NEW timeoutAt \in Int,
         NEW t \in Nat, PromiseCreate(id, tags, timeoutAt, t)
  PROVE  TypeOK'
  <1>1. outbox' \subseteq Message /\ queue' \subseteq Message
    BY EmitType, CreationTypes DEF PromiseCreate, TypeOK
  <1>2. QED
    BY <1>1, CreationTypes DEF PromiseCreate, TypeOK, crons

LEMMA AcquiredType ==
  ASSUME NEW task \in Task, NEW pid \in Pids, NEW ttl \in Ttls
  PROVE  Acquired(task, pid, ttl) \in Task
  <1>1. ttl \in Nat /\ task.version + 1 \in Nat
    BY ServerAssumption DEF Task
  <1>2. QED
    BY <1>1 DEF Acquired, Task, TaskStates

LEMMA LeaseType ==
  ASSUME NEW ttl \in Nat, NEW t \in Nat
  PROVE  Lease(ttl, t) \in TaskTimeout
  BY DEF Lease, TaskTimeout

LEMMA UnheldType ==
  ASSUME NEW task \in Task, NEW state \in TaskStates
  PROVE  Unheld(task, state) \in Task
  BY DEF Unheld, Task

LEMMA ClaimType ==
  ASSUME TypeOK, NEW id \in Ids, NEW pid \in Pids, NEW ttl \in Ttls,
         NEW t \in Nat, Claim(id, pid, ttl, t)
  PROVE  TypeOK'
  <1>1. ttl \in Nat
    BY ServerAssumption
  <1>2. QED
    BY <1>1, AcquiredType, LeaseType DEF Claim, TypeOK, crons, mail

LEMMA RedispatchType ==
  ASSUME TypeOK, NEW id \in Ids, NEW task \in Task, NEW t \in Nat,
         Redispatch(id, task, t)
  PROVE  TypeOK'
  <1>1. outbox' \subseteq Message /\ queue' \subseteq Message
    BY EmitType, ExecutesType DEF Redispatch, TypeOK
  <1>2. QED
    BY <1>1, RetryType DEF Redispatch, TypeOK, crons

LEMMA CronNextType ==
  ASSUME NEW period \in Nat \ {0}, NEW t \in Nat
  PROVE  CronNext(period, t) \in Int
  <1>1. t \div period \in Int
    OBVIOUS
  <1>2. QED
    BY <1>1 DEF CronNext

LEMMA ScheduleCreateType ==
  ASSUME TypeOK, NEW s \in ScheduleIds, NEW template \in ScheduleTemplates,
         NEW t \in Nat, ScheduleCreate(s, template, t)
  PROVE  TypeOK'
  <1> DEFINE next == CronNext(template.cron, t)
  <1>1. template \in Template
    BY ServerAssumption
  <1>2. next \in Int
    BY <1>1, CronNextType DEF Template
  <1>3. [cron |-> template.cron, promiseTimeout |-> template.promiseTimeout,
         tags |-> template.tags, createdAt |-> t, nextRunAt |-> next,
         lastRunAt |-> NotSet] \in Schedule
    BY <1>1, <1>2 DEF Template, Schedule, NotSet
  <1>4. schedules' \in [ScheduleIds -> Schedule \cup {NoSchedule}]
    BY <1>3 DEF ScheduleCreate, TypeOK
  <1>5. scheduleTimeouts' \in [ScheduleIds -> Int]
    BY <1>2 DEF ScheduleCreate, TypeOK
  <1>6. QED
    BY <1>4, <1>5 DEF ScheduleCreate, TypeOK, store, mail

LEMMA CaughtUpType ==
  ASSUME TypeOK, NEW t \in Nat, NEW s \in DueSchedules(t)
  PROVE  /\ s \in ScheduleIds
         /\ schedules[s] \in Schedule
         /\ CronNext(schedules[s].cron, t) \in Int
         /\ CaughtUp(s, t) \in Schedule
  <1>1. s \in ScheduleIds /\ schedules[s] \in Schedule
    BY DEF DueSchedules, TypeOK
  <1>2. schedules[s].cron \in Nat \ {0}
    BY <1>1 DEF Schedule
  <1>3. CronNext(schedules[s].cron, t) \in Int
    BY <1>2, CronNextType
  <1>4. CronNext(schedules[s].cron, t) - schedules[s].cron \in Int
    BY <1>2, <1>3
  <1>5. CaughtUp(s, t) \in Schedule
    BY <1>1, <1>3, <1>4 DEF CaughtUp, Schedule
  <1>6. QED
    BY <1>1, <1>3, <1>5

\* A firing is a due schedule with one of its missed cron times.
LEMMA FiringType ==
  ASSUME TypeOK, NEW t \in Nat, NEW f \in Firings(t)
  PROVE  /\ f[1] \in DueSchedules(t)
         /\ f[2] \in Nat
         /\ schedules[f[1]].tags \in Tags
         /\ f[2] + schedules[f[1]].promiseTimeout \in Nat
  <1>1. PICK s \in DueSchedules(t) : \E c \in MissedTimes(s, t) : f = <<s, c>>
    BY DEF Firings
  <1>2. PICK c \in MissedTimes(s, t) : f = <<s, c>>
    BY <1>1
  <1>3. c \in Nat
    BY DEF MissedTimes
  <1>4. schedules[s] \in Schedule
    BY CaughtUpType
  <1>5. schedules[s].tags \in Tags /\ schedules[s].promiseTimeout \in Nat
    BY <1>4 DEF Schedule
  <1>6. QED
    BY <1>2, <1>3, <1>5

LEMMA DuePromisesType ==
  ASSUME TypeOK, NEW t \in Nat
  PROVE  /\ DuePromises(t) \in SUBSET Ids
         /\ TimedOut(t) \in [DuePromises(t) -> Promise]
  <1>1. DuePromises(t) \in SUBSET Ids
    BY DEF DuePromises
  <1>2. ASSUME NEW id \in DuePromises(t)
        PROVE  Settled(promises[id], TimedOutState(promises[id].tags),
                       promises[id].timeoutAt) \in Promise
    <2>1. promises[id] \in Promise
      BY <1>1 DEF TypeOK
    <2>2. TimedOutState(promises[id].tags) \in SettledStates
      BY DEF TimedOutState, SettledStates
    <2>3. promises[id].timeoutAt \in Int
      BY <2>1 DEF Promise
    <2>4. QED
      BY <2>1, <2>2, <2>3, SettledType
  <1>3. QED
    BY <1>1, <1>2 DEF TimedOut

LEMMA TickTypes ==
  ASSUME TypeOK, NEW t \in Nat
  PROVE  /\ \A id \in Ids : TickTask(id, t) \in Task
         /\ \A id \in Ids : TickTaskTimeout(id, t) \in TaskTimeout
         /\ TickMessages(t) \in SUBSET Message
  <1>1. DuePromises(t) \in SUBSET Ids
    BY DuePromisesType
  <1>2. \A id \in Ids : CascadeTasks(DuePromises(t))[id] \in Task
    BY <1>1, CascadeTasksType
  <1>3. \A id \in Ids : TickTask(id, t) \in Task
    <2>1. "pending" \in TaskStates
      BY DEF TaskStates
    <2>2. QED
      BY <1>2, <2>1, UnheldType DEF TickTask
  <1>4. \A id \in Ids : TickTaskTimeout(id, t) \in TaskTimeout
    BY <1>1, CascadeTaskTimeoutsType, RetryType DEF TickTaskTimeout
  <1>5. Redelivered(t) \cup LeaseLost(t) \in SUBSET Ids
    BY DEF Redelivered, LeaseLost, DueTasks
  <1>6. TickMessages(t) \in SUBSET Message
    BY <1>1, <1>5, CascadeMessagesType, ExecutesType DEF TickMessages
  <1>7. QED
    BY <1>3, <1>4, <1>6

LEMMA TickType ==
  ASSUME TypeOK, NEW t \in Nat, Tick(t)
  PROVE  TypeOK'
  <1>1. PICK fire \in [FiredIds(t) -> Firings(t)] : TickWith(fire, t)
    BY DEF Tick
  <1>2. ASSUME NEW id \in FiredIds(t)
        PROVE  /\ id \in Ids
               /\ FiringTags(fire[id]) \in Tags
               /\ FiringTimeout(fire[id]) \in Int
               /\ fire[id][2] \in Nat
    <2>1. fire[id] \in Firings(t)
      OBVIOUS
    <2>2. QED
      BY <2>1, FiringType DEF FiredIds, FiringTags, FiringTimeout
  <1>3. promises' \in [Ids -> Promise]
    <2>1. CascadePromises(TimedOut(t)) \in [Ids -> Promise]
      BY DuePromisesType, CascadePromisesType
    <2>2. QED
      BY <1>1, <1>2, <2>1, CreationTypes DEF TickWith
  <1>4. promiseTimeouts' \in [Ids -> Int]
    BY <1>1, <1>2, CreationTypes DEF TickWith, TypeOK, NotSet
  <1>5. tasks' \in [Ids -> Task]
    BY <1>1, <1>2, CreationTypes, TickTypes DEF TickWith
  <1>6. taskTimeouts' \in [Ids -> TaskTimeout]
    BY <1>1, <1>2, CreationTypes, TickTypes DEF TickWith
  <1>7. outbox' \subseteq Message /\ queue' \subseteq Message
    <2> DEFINE born == UNION {NewMessages(id, FiringTags(fire[id]),
                                          FiringTimeout(fire[id]),
                                          fire[id][2]) : id \in FiredIds(t)}
    <2>1. born \in SUBSET Message
      BY <1>2, CreationTypes
    <2>2. TickMessages(t) \in SUBSET Message
      BY TickTypes
    <2>3. QED
      BY <1>1, <2>1, <2>2, EmitType DEF TickWith, TypeOK
  <1>8. schedules' \in [ScheduleIds -> Schedule \cup {NoSchedule}]
    BY <1>1, CaughtUpType DEF TickWith, TypeOK
  <1>9. scheduleTimeouts' \in [ScheduleIds -> Int]
    BY <1>1, CaughtUpType DEF TickWith, TypeOK
  <1>10. QED
    BY <1>1, <1>3, <1>4, <1>5, <1>6, <1>7, <1>8, <1>9 DEF TickWith, TypeOK

LEMMA PromiseNextType ==
  ASSUME TypeOK, PromiseNext
  PROVE  TypeOK'
  <1>1. PICK id \in Ids, t \in Stamps :
          \/ \E tags \in TagSets, timeoutAt \in Timeouts :
               PromiseCreate(id, tags, timeoutAt, t)
          \/ \E state \in Outcomes : PromiseSettle(id, state, t)
          \/ \E awaiter \in Ids : PromiseRegisterCallback(id, awaiter, t)
          \/ \E address \in Addresses : PromiseRegisterListener(id, address, t)
    BY DEF PromiseNext
  <1>2. t \in Nat
    BY DEF Stamps, TypeOK
  <1>3. CASE \E tags \in TagSets, timeoutAt \in Timeouts :
               PromiseCreate(id, tags, timeoutAt, t)
    BY <1>2, <1>3, PromiseCreateType, ServerAssumption
  <1>4. CASE \E state \in Outcomes : PromiseSettle(id, state, t)
    BY <1>2, <1>4, SettleType, ServerAssumption DEF PromiseSettle
  <1>5. CASE \E awaiter \in Ids : PromiseRegisterCallback(id, awaiter, t)
    <2>1. PICK awaiter \in Ids : PromiseRegisterCallback(id, awaiter, t)
      BY <1>5
    <2>2. [promises[id] EXCEPT !.callbacks = @ \cup {awaiter}] \in Promise
      BY DEF TypeOK, Promise
    <2>3. QED
      BY <2>1, <2>2 DEF PromiseRegisterCallback, TypeOK, crons, mail
  <1>6. CASE \E address \in Addresses : PromiseRegisterListener(id, address, t)
    <2>1. PICK address \in Addresses : PromiseRegisterListener(id, address, t)
      BY <1>6
    <2>2. [promises[id] EXCEPT !.listeners = @ \cup {address}] \in Promise
      BY DEF TypeOK, Promise
    <2>3. QED
      BY <2>1, <2>2 DEF PromiseRegisterListener, TypeOK, crons, mail
  <1>7. QED
    BY <1>1, <1>3, <1>4, <1>5, <1>6

LEMMA TaskCreateAcquiredType ==
  ASSUME TypeOK, NEW id \in Ids, NEW tags \in Tags, NEW timeoutAt \in Int,
         NEW pid \in Pids, NEW ttl \in Ttls, NEW t \in Nat,
         TaskCreateAcquired(id, tags, timeoutAt, pid, ttl, t)
  PROVE  TypeOK'
  <1>1. ttl \in Nat
    BY ServerAssumption
  <1>2. PendingPromise(tags, timeoutAt) \in Promise
    BY PendingPromiseType
  <1>3. Acquired(NoTask, pid, ttl) \in Task
    BY RecordTypes, AcquiredType
  <1>4. QED
    BY <1>1, <1>2, <1>3, LeaseType
    DEF TaskCreateAcquired, TypeOK, crons, mail

LEMMA TaskCreateExpiredType ==
  ASSUME TypeOK, NEW id \in Ids, NEW tags \in Tags, NEW timeoutAt \in Int,
         NEW t \in Nat, TaskCreateExpired(id, tags, timeoutAt, t)
  PROVE  TypeOK'
  <1>1. BornSettled(tags, timeoutAt) \in Promise
    BY BornSettledType
  <1>2. Fulfilled(NoTask) \in Task
    BY RecordTypes, FulfilledType
  <1>3. QED
    BY <1>1, <1>2 DEF TaskCreateExpired, TypeOK, crons, mail

LEMMA TaskSuspendRefusedType ==
  ASSUME TypeOK, NEW id \in Ids, NEW version, NEW A, NEW t,
         TaskSuspendRefused(id, version, A, t)
  PROVE  TypeOK'
  <1>1. [tasks[id] EXCEPT !.resumes = {}] \in Task
    BY DEF TypeOK, Task
  <1>2. QED
    BY <1>1 DEF TaskSuspendRefused, TypeOK, crons, mail

LEMMA TaskSuspendType ==
  ASSUME TypeOK, NEW id \in Ids, NEW version, NEW A, NEW t,
         TaskSuspend(id, version, A, t)
  PROVE  TypeOK'
  <1>1. \A p \in Ids : [promises[p] EXCEPT !.callbacks = @ \cup {id}] \in Promise
    BY DEF TypeOK, Promise
  <1>2. Unheld(tasks[id], "suspended") \in Task
    BY UnheldType DEF TypeOK, TaskStates
  <1>3. [Unheld(tasks[id], "suspended") EXCEPT !.resumes = {}] \in Task
    BY <1>2 DEF Task
  <1>4. QED
    BY <1>1, <1>3, RecordTypes DEF TaskSuspend, TypeOK, crons, mail

LEMMA TaskHeartbeatType ==
  ASSUME TypeOK, NEW pid, NEW refs, NEW t \in Nat, TaskHeartbeat(pid, refs, t)
  PROVE  TypeOK'
  <1>1. \A id \in Ids : Lease(tasks[id].ttl, t) \in TaskTimeout
    BY LeaseType DEF TypeOK, Task
  <1>2. QED
    BY <1>1 DEF TaskHeartbeat, TypeOK, crons, mail

LEMMA TaskHaltType ==
  ASSUME TypeOK, NEW id \in Ids, TaskHalt(id)
  PROVE  TypeOK'
  <1>1. Unheld(tasks[id], "halted") \in Task
    BY UnheldType DEF TypeOK, TaskStates
  <1>2. QED
    BY <1>1, RecordTypes DEF TaskHalt, TypeOK, crons, mail

LEMMA TaskReleaseType ==
  ASSUME TypeOK, NEW id \in Ids, NEW version, NEW t \in Nat,
         TaskRelease(id, version, t)
  PROVE  TypeOK'
  <1>1. Unheld(tasks[id], "pending") \in Task
    BY UnheldType DEF TypeOK, TaskStates
  <1>2. QED
    BY <1>1, RedispatchType DEF TaskRelease

LEMMA TaskContinueType ==
  ASSUME TypeOK, NEW id \in Ids, NEW t \in Nat, TaskContinue(id, t)
  PROVE  TypeOK'
  <1>1. [tasks[id] EXCEPT !.state = "pending"] \in Task
    BY DEF TypeOK, Task, TaskStates
  <1>2. QED
    BY <1>1, RedispatchType DEF TaskContinue

LEMMA TaskNextType ==
  ASSUME TypeOK, TaskNext
  PROVE  TypeOK'
  <1>1. Stamps \subseteq Nat
    BY DEF Stamps, TypeOK
  <1>2. ASSUME NEW id \in Ids, NEW t \in Stamps, NEW version \in 0..MaxVersion,
               \E pid \in Pids, ttl \in Ttls : TaskAcquire(id, version, pid, ttl, t)
        PROVE  TypeOK'
    BY <1>1, <1>2, ClaimType DEF TaskAcquire
  <1>3. ASSUME NEW id \in Ids, NEW t \in Stamps, NEW version \in 0..MaxVersion,
               \E child \in Ids, tags \in TagSets, timeoutAt \in Timeouts :
                 TaskFenceCreate(id, version, child, tags, timeoutAt, t)
        PROVE  TypeOK'
    BY <1>1, <1>3, PromiseCreateType, ServerAssumption DEF TaskFenceCreate
  <1>4. ASSUME NEW id \in Ids, NEW t \in Stamps, NEW version \in 0..MaxVersion,
               \E child \in Ids, state \in Outcomes :
                 TaskFenceSettle(id, version, child, state, t)
        PROVE  TypeOK'
    BY <1>1, <1>4, SettleType, ServerAssumption DEF TaskFenceSettle, PromiseSettle
  <1>5. ASSUME NEW id \in Ids, NEW t \in Stamps, NEW version \in 0..MaxVersion,
               \E state \in Outcomes : TaskFulfill(id, version, state, t)
        PROVE  TypeOK'
    BY <1>1, <1>5, SettleType, ServerAssumption DEF TaskFulfill
  <1>6. ASSUME NEW id \in Ids, NEW t \in Stamps, NEW version \in 0..MaxVersion,
               \/ TaskRelease(id, version, t)
               \/ \E A \in SUBSET Ids : TaskSuspendRefused(id, version, A, t)
               \/ \E A \in SUBSET Ids : TaskSuspend(id, version, A, t)
               \/ \E pid \in Pids : TaskHeartbeat(pid, {<<id, version>>}, t)
        PROVE  TypeOK'
    BY <1>1, <1>6, TaskReleaseType, TaskSuspendRefusedType, TaskSuspendType,
       TaskHeartbeatType
  <1>7. QED
    BY <1>2, <1>3, <1>4, <1>5, <1>6 DEF TaskNext

LEMMA TypeStep ==
  ASSUME TypeOK, [Next]_vars
  PROVE  TypeOK'
  <1>1. Stamps \subseteq Nat
    BY DEF Stamps, TypeOK
  <1>2. CASE PromiseNext
    BY <1>2, PromiseNextType
  <1>3. CASE TaskCreateNext
    <2>1. ASSUME NEW id \in Ids, NEW t \in Stamps,
                 \E pid \in Pids, ttl \in Ttls : TaskCreateReacquire(id, pid, ttl, t)
          PROVE  TypeOK'
      BY <1>1, <2>1, ClaimType DEF TaskCreateReacquire
    <2>2. ASSUME NEW id \in Ids, NEW t \in Stamps,
                 \E tags \in TagSets, timeoutAt \in Timeouts :
                   \/ \E pid \in Pids, ttl \in Ttls :
                        TaskCreateAcquired(id, tags, timeoutAt, pid, ttl, t)
                   \/ TaskCreateExpired(id, tags, timeoutAt, t)
          PROVE  TypeOK'
      BY <1>1, <2>2, TaskCreateAcquiredType, TaskCreateExpiredType,
         ServerAssumption
    <2>3. QED
      BY <1>3, <2>1, <2>2 DEF TaskCreateNext
  <1>4. CASE TaskNext
    BY <1>4, TaskNextType
  <1>5. CASE TaskControlNext
    BY <1>1, <1>5, TaskHaltType, TaskContinueType DEF TaskControlNext
  <1>6. CASE ScheduleNext
    <2>1. ASSUME NEW s \in ScheduleIds, ScheduleDelete(s)
          PROVE  TypeOK'
      BY <2>1 DEF ScheduleDelete, TypeOK, store, mail, NotSet
    <2>2. QED
      BY <1>1, <1>6, <2>1, ScheduleCreateType DEF ScheduleNext
  <1>7. CASE TickNext
    BY <1>1, <1>7, TickType DEF TickNext
  <1>8. CASE DebugTick
    <2>1. DebugTimes \subseteq Nat
      BY ServerAssumption
    <2>2. QED
      BY <1>8, <2>1, TickType DEF DebugTick
  <1>9. CASE DebugReset
    BY <1>9, RecordTypes DEF DebugReset, TypeOK, NotSet
  <1>10. CASE Advance
    BY <1>10, ServerAssumption DEF Advance, TypeOK, store, crons, mail
  <1>11. CASE UNCHANGED vars
    BY <1>11 DEF vars, TypeOK
  <1>12. QED
    BY <1>2, <1>3, <1>4, <1>5, <1>6, <1>7, <1>8, <1>9, <1>10, <1>11 DEF Next

LEMMA TypeInit ==
  ASSUME Init
  PROVE  TypeOK
  BY RecordTypes, ServerAssumption DEF Init, TypeOK, NotSet

\* The state of the server is well-typed, whatever requests, ticks and debug
\* calls it serves.
THEOREM TypeCorrect == Spec => []TypeOK
  BY TypeInit, TypeStep, PTL DEF Spec

-----------------------------------------------------------------------------
(* The inductive invariant. *)

\* No conjunct is inductive alone: a suspended task stays awaited because
\* registered awaiters are live and a live task's promise is pending, and a
\* live task's promise is pending because settling it fulfils the task.
Consistent ==
  /\ Lockstep
  /\ DeadlineArmed
  /\ TimeoutDiscipline
  /\ SuspendedIsAwaiting
  /\ RegistrationsLive
IInv == TypeOK /\ Consistent

-----------------------------------------------------------------------------
(* The cascade of a set S of promises that settle together. *)

CanSettle(S, settled) ==
  \A p \in S : /\ promises[p].state = "pending"
               /\ settled[p].state \in SettledStates
               /\ settled[p].callbacks = {}
               /\ settled[p].listeners = {}

\* What the cascade makes of the promise id.
PromiseAfter(S, id, p) ==
  /\ id \in S => /\ p.state \in SettledStates
                 /\ p.callbacks = {} /\ p.listeners = {}
  /\ id \notin S =>
       /\ p.state = promises[id].state
       /\ p.timeoutAt = promises[id].timeoutAt
       /\ p.tags = promises[id].tags
       /\ p.listeners = promises[id].listeners
       /\ p.callbacks \subseteq promises[id].callbacks
       /\ p.state = "pending" => p.callbacks = promises[id].callbacks \ S

LEMMA CascadePromisesShape ==
  ASSUME TypeOK, NEW S \in SUBSET Ids, NEW settled \in [S -> Promise],
         CanSettle(S, settled), NEW id \in Ids
  PROVE  PromiseAfter(S, id, CascadePromises(settled)[id])
  <1>1. promises[id] \in Promise
    BY DEF TypeOK
  <1>2. CASE id \in S
    BY <1>2 DEF CascadePromises, CanSettle, PromiseAfter
  <1>3. CASE id \notin S
    BY <1>1, <1>3 DEF CascadePromises, Promise, PromiseAfter
  <1>4. QED
    BY <1>2, <1>3

\* What it makes of the tasks: it fulfils the tasks of S and wakes the
\* suspended ones that await a member of S, and no others.
LEMMA CascadeTasksShape ==
  ASSUME TypeOK, NEW S \in SUBSET Ids, NEW id \in Ids
  PROVE  LET task == CascadeTasks(S)[id] IN
         /\ tasks[id].state = "absent" => task = tasks[id]
         /\ id \in S /\ tasks[id].state # "absent" =>
              task.state = "fulfilled" /\ task.pid = NoPid
         /\ id \in Woken(S) => /\ task.state = "pending"
                               /\ task.pid = tasks[id].pid
                               /\ tasks[id].state = "suspended"
                               /\ id \notin S
         /\ id \notin S \cup Woken(S) => /\ task.state = tasks[id].state
                                         /\ task.pid = tasks[id].pid
         /\ task.state = "suspended" => /\ task = tasks[id]
                                        /\ Awakening(S, id) = {}
                                        /\ id \notin S
  <1> DEFINE task == CascadeTasks(S)[id]
  <1>1. tasks[id] \in Task
    BY DEF TypeOK
  <1>2. CASE tasks[id].state = "absent"
    BY <1>1, <1>2 DEF CascadeTasks, Woken
  <1>3. CASE tasks[id].state # "absent" /\ id \in S
    <2>1. task = Fulfilled(tasks[id])
      BY <1>3 DEF CascadeTasks
    <2>2. task.state = "fulfilled" /\ task.pid = NoPid
      BY <1>1, <2>1 DEF Fulfilled, Unheld, Task
    <2>3. QED
      BY <1>3, <2>2 DEF Woken
  <1>4. CASE id \in Woken(S)
    <2>1. id \notin S /\ tasks[id].state = "suspended"
      BY <1>4 DEF Woken
    <2>2. task = [tasks[id] EXCEPT !.state = "pending",
                                   !.resumes = Awakening(S, id)]
      BY <1>4, <2>1 DEF CascadeTasks, Resumed
    <2>3. task.state = "pending" /\ task.pid = tasks[id].pid
      BY <1>1, <2>2 DEF Task
    <2>4. QED
      BY <1>4, <2>1, <2>3
  <1>5. CASE tasks[id].state # "absent" /\ id \notin S \cup Woken(S)
    <2>1. task = Resumed(S, id)
      BY <1>5 DEF CascadeTasks
    <2>2. CASE tasks[id].state \in {"pending", "acquired", "halted"}
      <3>1. task = [tasks[id] EXCEPT !.resumes = @ \cup Awakening(S, id)]
        BY <1>5, <2>1, <2>2 DEF Resumed
      <3>2. QED
        BY <1>1, <1>5, <2>2, <3>1 DEF Task
    <2>3. CASE tasks[id].state \notin {"pending", "acquired", "halted"}
      <3>1. task = tasks[id]
        BY <1>5, <2>1, <2>3 DEF Resumed
      <3>2. tasks[id].state = "suspended" => Awakening(S, id) = {}
        BY <1>5 DEF Woken
      <3>3. QED
        BY <1>5, <3>1, <3>2
    <2>4. QED
      BY <2>2, <2>3
  <1>6. QED
    BY <1>2, <1>3, <1>4, <1>5

-----------------------------------------------------------------------------
(* What a create request stores for a new id is consistent in itself. *)

Newborn(p, armed, task, timeout) ==
  /\ p.state \in {"pending"} \cup SettledStates
  /\ p.callbacks = {} /\ p.listeners = {}
  /\ task.state \in {"absent", "pending", "acquired", "fulfilled"}
  /\ task.state \in {"pending", "acquired"} => p.state = "pending"
  /\ task.state = "fulfilled" => p.state \in SettledStates
  /\ p.state = "pending" /\ p.tags.target
       => task.state \in {"pending", "acquired"}
  /\ task.pid # NoPid <=> task.state = "acquired"
  /\ p.state = "pending"
       /\ (External(p.tags) \/ task.state \in {"pending", "acquired"})
       => armed = p.timeoutAt
  /\ armed # NotSet => p.state = "pending" /\ armed = p.timeoutAt
  /\ timeout.kind = "retry" <=> task.state = "pending"
  /\ timeout.kind = "lease" <=> task.state = "acquired"

LEMMA PromiseIsNewborn ==
  ASSUME NEW tags \in Tags, NEW timeoutAt \in Int, NEW t \in Nat
  PROVE  Newborn(NewPromise(tags, timeoutAt, t),
                 NewPromiseTimeout(tags, timeoutAt, t),
                 NewTask(tags, timeoutAt, t),
                 NewTaskTimeout(tags, timeoutAt, t))
  <1> DEFINE p == NewPromise(tags, timeoutAt, t)
             task == NewTask(tags, timeoutAt, t)
  <1>1. /\ TimedOutState(tags) \in SettledStates
        /\ "pending" \notin SettledStates
    BY DEF TimedOutState, SettledStates
  <1>2. CASE timeoutAt > t
    <2>1. p = PendingPromise(tags, timeoutAt)
      BY <1>2 DEF NewPromise
    <2>2. /\ p.state = "pending" /\ p.timeoutAt = timeoutAt /\ p.tags = tags
          /\ p.callbacks = {} /\ p.listeners = {}
      BY <2>1 DEF PendingPromise, NoPromise
    <2>3. /\ task.state = IF tags.target THEN "pending" ELSE "absent"
          /\ task.pid = NoPid
      BY <1>2 DEF NewTask, NoTask
    <2>4. NewTaskTimeout(tags, timeoutAt, t).kind
            = IF tags.target THEN "retry" ELSE "none"
      BY <1>2 DEF NewTaskTimeout, Retry, NoTimeout
    <2>5. NewPromiseTimeout(tags, timeoutAt, t)
            = IF External(tags) THEN timeoutAt ELSE NotSet
      BY <1>2 DEF NewPromiseTimeout
    <2>6. QED
      BY <2>2, <2>3, <2>4, <2>5 DEF Newborn, External
  <1>3. CASE ~(timeoutAt > t)
    <2>1. p = BornSettled(tags, timeoutAt)
      BY <1>3 DEF NewPromise
    <2>2. /\ p.state = TimedOutState(tags) /\ p.tags = tags
          /\ p.callbacks = {} /\ p.listeners = {}
      BY <2>1 DEF BornSettled, NoPromise
    <2>3. /\ task.state = IF tags.target THEN "fulfilled" ELSE "absent"
          /\ task.pid = NoPid
      BY <1>3 DEF NewTask, NoTask
    <2>4. NewTaskTimeout(tags, timeoutAt, t).kind = "none"
      BY <1>3 DEF NewTaskTimeout, NoTimeout
    <2>5. NewPromiseTimeout(tags, timeoutAt, t) = NotSet
      BY <1>3 DEF NewPromiseTimeout
    <2>6. QED
      BY <1>1, <2>2, <2>3, <2>4, <2>5 DEF Newborn
  <1>4. QED
    BY <1>2, <1>3

-----------------------------------------------------------------------------
(* A step that settles S, takes the leases of Lost away, redelivers Again  *)
(* and creates Born keeps the state consistent: promise.settle and          *)
(* task.fulfill with one settled promise, the tick with all of them.        *)

CascadeStep(S, settled, Lost, Again, Born, t) ==
  /\ CanSettle(S, settled)
  /\ \A id \in Lost : id \notin S /\ tasks[id].state = "acquired"
  /\ \A id \in Again : id \notin S /\ tasks[id].state = "pending"
  /\ \A id \in Born : /\ promises[id].state = "absent"
                      /\ Newborn(promises'[id], promiseTimeouts'[id],
                                 tasks'[id], taskTimeouts'[id])
  /\ \A id \in Ids \ Born :
       /\ promises'[id] = CascadePromises(settled)[id]
       /\ promiseTimeouts'[id] = IF id \in S THEN NotSet
                                 ELSE promiseTimeouts[id]
       /\ tasks'[id] = IF id \in Lost
                       THEN Unheld(CascadeTasks(S)[id], "pending")
                       ELSE CascadeTasks(S)[id]
       /\ taskTimeouts'[id] = IF id \in Again \cup Lost THEN Retry(t)
                              ELSE CascadeTaskTimeouts(S, t)[id]

\* The task of a promise that the step does not create, after the step.
TaskAfter(S, id) ==
  /\ id \in S => /\ tasks'[id].state \in {"absent", "fulfilled"}
                 /\ tasks'[id].state = "absent" <=>
                      tasks[id].state = "absent"
                 /\ tasks'[id].pid = NoPid
                 /\ taskTimeouts'[id].kind = "none"
  /\ id \notin S => tasks'[id].state = tasks[id].state
                     \/ /\ tasks[id].state \in {"acquired", "suspended"}
                        /\ tasks'[id].state = "pending"
  /\ tasks'[id].state = "pending" <=> taskTimeouts'[id].kind = "retry"
  /\ tasks'[id].state = "acquired" <=> taskTimeouts'[id].kind = "lease"
  /\ tasks'[id].state = "acquired" <=> tasks'[id].pid # NoPid
  /\ tasks'[id].state = "suspended" =>
       /\ tasks'[id] = tasks[id]
       /\ Awakening(S, id) = {}

LEMMA CascadeStepTask ==
  ASSUME TypeOK, Consistent, TypeOK',
         NEW S \in SUBSET Ids, NEW settled \in [S -> Promise],
         NEW Lost \in SUBSET Ids, NEW Again \in SUBSET Ids,
         NEW Born \in SUBSET Ids, NEW t,
         CascadeStep(S, settled, Lost, Again, Born, t),
         NEW id \in Ids \ Born
  PROVE  TaskAfter(S, id)
  <1> DEFINE task == CascadeTasks(S)[id]
  <1>1. tasks[id] \in Task /\ task \in Task
    BY CascadeTasksType DEF TypeOK
  <1>2. /\ taskTimeouts[id].kind = "retry" <=> tasks[id].state = "pending"
        /\ taskTimeouts[id].kind = "lease" <=> tasks[id].state = "acquired"
        /\ tasks[id].pid # NoPid <=> tasks[id].state = "acquired"
    BY DEF Consistent, TimeoutDiscipline
  <1>3. taskTimeouts'[id] = IF id \in Again \cup Lost THEN Retry(t)
                            ELSE IF id \in S THEN NoTimeout
                            ELSE IF id \in Woken(S) THEN Retry(t)
                            ELSE taskTimeouts[id]
    BY DEF CascadeStep, CascadeTaskTimeouts
  <1>4. Retry(t).kind = "retry" /\ NoTimeout.kind = "none"
    BY DEF Retry, NoTimeout
  <1>5. CASE id \in Lost
    <2>1. id \notin S /\ tasks[id].state = "acquired"
      BY <1>5 DEF CascadeStep
    <2>2. tasks'[id] = Unheld(task, "pending")
      BY <1>5 DEF CascadeStep
    <2>3. tasks'[id].state = "pending" /\ tasks'[id].pid = NoPid
      BY <1>1, <2>2 DEF Unheld, Task
    <2>4. QED
      BY <1>3, <1>4, <1>5, <2>1, <2>3 DEF TaskAfter
  <1>6. CASE id \notin Lost
    <2>1. tasks'[id] = task
      BY <1>6 DEF CascadeStep
    <2>2. CASE id \in S
      <3>1. id \notin Again
        BY <2>2 DEF CascadeStep
      <3>2. taskTimeouts'[id].kind = "none"
        BY <1>3, <1>4, <1>6, <2>2, <3>1
      <3>3. CASE tasks[id].state = "absent"
        BY <1>2, <2>1, <2>2, <3>2, <3>3, CascadeTasksShape
          DEF TaskAfter
      <3>4. CASE tasks[id].state # "absent"
        BY <2>1, <2>2, <3>2, <3>4, CascadeTasksShape DEF TaskAfter
      <3>5. QED
        BY <3>3, <3>4
    <2>3. CASE id \in Woken(S)
      <3>1. /\ task.state = "pending" /\ task.pid = tasks[id].pid
            /\ tasks[id].state = "suspended" /\ id \notin S
        BY <2>3, CascadeTasksShape
      <3>2. taskTimeouts'[id].kind = "retry"
        BY <1>3, <1>4, <2>3, <3>1
      <3>3. QED
        BY <1>2, <2>1, <3>1, <3>2 DEF TaskAfter
    <2>4. CASE id \notin S \cup Woken(S)
      <3>1. task.state = tasks[id].state /\ task.pid = tasks[id].pid
        BY <2>4, CascadeTasksShape
      <3>2. task.state = "suspended" => task = tasks[id] /\ Awakening(S, id) = {}
        BY CascadeTasksShape
      <3>3. taskTimeouts'[id].kind = taskTimeouts[id].kind
        <4>1. CASE id \in Again
          BY <1>2, <1>3, <1>4, <4>1 DEF CascadeStep
        <4>2. CASE id \notin Again
          BY <1>3, <1>6, <2>4, <4>2
        <4>3. QED
          BY <4>1, <4>2
      <3>4. QED
        BY <1>2, <2>1, <2>4, <3>1, <3>2, <3>3 DEF TaskAfter
    <2>5. QED
      BY <2>2, <2>3, <2>4
  <1>7. QED
    BY <1>5, <1>6

LEMMA CascadeConsistent ==
  ASSUME TypeOK, Consistent, TypeOK',
         NEW S \in SUBSET Ids, NEW settled \in [S -> Promise],
         NEW Lost \in SUBSET Ids, NEW Again \in SUBSET Ids,
         NEW Born \in SUBSET Ids, NEW t,
         CascadeStep(S, settled, Lost, Again, Born, t)
  PROVE  Consistent'
  <1>0. \A id \in Ids \ Born : TaskAfter(S, id)
    BY CascadeStepTask
  <1>1. ASSUME NEW id \in Ids \ Born
        PROVE  /\ PromiseAfter(S, id, promises'[id])
               /\ promiseTimeouts'[id] = IF id \in S THEN NotSet
                                         ELSE promiseTimeouts[id]
               /\ id \in S => promises[id].state = "pending"
    <2>1. promises'[id] = CascadePromises(settled)[id]
      BY DEF CascadeStep
    <2>2. promiseTimeouts'[id] = IF id \in S THEN NotSet ELSE promiseTimeouts[id]
      BY DEF CascadeStep
    <2>3. CanSettle(S, settled)
      BY DEF CascadeStep
    <2>4. id \in S => promises[id].state = "pending"
      BY <2>3 DEF CanSettle
    <2>5. PromiseAfter(S, id, CascadePromises(settled)[id])
      BY <2>3, CascadePromisesShape
    <2>6. QED
      BY <2>1, <2>2, <2>4, <2>5
  <1>2. ASSUME NEW id \in Born
        PROVE  /\ Newborn(promises'[id], promiseTimeouts'[id], tasks'[id],
                          taskTimeouts'[id])
               /\ promises[id].state = "absent"
               /\ id \notin S
    BY DEF CascadeStep, CanSettle
  <1>3. "pending" \notin SettledStates /\ "absent" \notin SettledStates
    BY DEF SettledStates
  <1>4. Lockstep'
    <2>1. ASSUME NEW id \in Ids
          PROVE  /\ tasks'[id].state \in Live => promises'[id].state = "pending"
                 /\ tasks'[id].state = "fulfilled" =>
                      promises'[id].state \in SettledStates
                 /\ promises'[id].state = "pending" /\ promises'[id].tags.target
                      => tasks'[id].state \in Live
      <3>1. /\ tasks[id].state \in Live => promises[id].state = "pending"
            /\ tasks[id].state = "fulfilled" => promises[id].state \in SettledStates
            /\ promises[id].state = "pending" /\ promises[id].tags.target
                 => tasks[id].state \in Live
        BY DEF Consistent, Lockstep
      <3>2. CASE id \in Born
        BY <1>2, <1>3, <3>2 DEF Newborn, Live
      <3>3. CASE id \in S \ Born
        <4>1. tasks'[id].state \in {"absent", "fulfilled"}
          BY <1>0, <3>3 DEF TaskAfter
        <4>2. QED
          BY <1>1, <1>3, <3>3, <4>1 DEF Live, PromiseAfter
      <3>4. CASE id \notin S \cup Born
        <4>1. \/ tasks'[id].state = tasks[id].state
              \/ /\ tasks[id].state \in {"acquired", "suspended"}
                 /\ tasks'[id].state = "pending"
          BY <1>0, <3>4 DEF TaskAfter
        <4>2. QED
          BY <1>1, <3>1, <3>4, <4>1 DEF Live, PromiseAfter
      <3>5. QED
        BY <3>2, <3>3, <3>4
    <2>2. QED
      BY <2>1 DEF Lockstep
  <1>5. DeadlineArmed'
    <2>1. ASSUME NEW id \in Ids
          PROVE  /\ promises'[id].state = "pending"
                      /\ (External(promises'[id].tags) \/ tasks'[id].state \in Live)
                      => promiseTimeouts'[id] = promises'[id].timeoutAt
                 /\ promiseTimeouts'[id] # NotSet =>
                      /\ promises'[id].state = "pending"
                      /\ promiseTimeouts'[id] = promises'[id].timeoutAt
      <3>1. /\ promises[id].state = "pending"
                 /\ (External(promises[id].tags) \/ tasks[id].state \in Live)
                 => promiseTimeouts[id] = promises[id].timeoutAt
            /\ promiseTimeouts[id] # NotSet =>
                 /\ promises[id].state = "pending"
                 /\ promiseTimeouts[id] = promises[id].timeoutAt
        BY DEF Consistent, DeadlineArmed
      <3>2. CASE id \in Born
        BY <1>2, <3>2 DEF Newborn, Live, External
      <3>3. CASE id \in S \ Born
        BY <1>1, <1>3, <3>3 DEF PromiseAfter
      <3>4. CASE id \notin S \cup Born
        <4>1. \/ tasks'[id].state = tasks[id].state
              \/ /\ tasks[id].state \in {"acquired", "suspended"}
                 /\ tasks'[id].state = "pending"
          BY <1>0, <3>4 DEF TaskAfter
        <4>2. tasks'[id].state \in Live => tasks[id].state \in Live
          BY <4>1 DEF Live
        <4>3. QED
          BY <1>1, <3>1, <3>4, <4>2 DEF PromiseAfter
      <3>5. QED
        BY <3>2, <3>3, <3>4
    <2>2. QED
      BY <2>1 DEF DeadlineArmed
  <1>6. TimeoutDiscipline'
    <2>1. ASSUME NEW id \in Ids
          PROVE  /\ taskTimeouts'[id].kind = "retry" <=> tasks'[id].state = "pending"
                 /\ taskTimeouts'[id].kind = "lease" <=> tasks'[id].state = "acquired"
                 /\ tasks'[id].pid # NoPid <=> tasks'[id].state = "acquired"
      <3>1. CASE id \in Born
        BY <1>2, <3>1 DEF Newborn
      <3>2. CASE id \notin Born
        BY <1>0, <3>2 DEF TaskAfter
      <3>3. QED
        BY <3>1, <3>2
    <2>2. QED
      BY <2>1 DEF TimeoutDiscipline
  <1>7. SuspendedIsAwaiting'
    <2>1. ASSUME NEW id \in Ids, tasks'[id].state = "suspended"
          PROVE  /\ tasks'[id].resumes = {}
                 /\ \E p \in Ids \ {id} : /\ promises'[p].state = "pending"
                                          /\ id \in promises'[p].callbacks
      <3>1. id \notin Born
        BY <1>2, <2>1 DEF Newborn
      <3>2. id \notin S
        BY <1>0, <2>1, <3>1 DEF TaskAfter
      <3>3. tasks'[id] = tasks[id] /\ Awakening(S, id) = {}
        BY <1>0, <2>1, <3>1 DEF TaskAfter
      <3>4. PICK p \in Ids \ {id} : /\ promises[p].state = "pending"
                                   /\ id \in promises[p].callbacks
        BY <2>1, <3>3 DEF Consistent, SuspendedIsAwaiting
      <3>5. p \notin S /\ p \notin Born
        BY <1>2, <3>3, <3>4 DEF Awakening
      <3>6. /\ promises'[p].state = "pending"
            /\ id \in promises'[p].callbacks
        BY <1>1, <3>2, <3>4, <3>5 DEF PromiseAfter
      <3>7. tasks'[id].resumes = {}
        BY <2>1, <3>3 DEF Consistent, SuspendedIsAwaiting
      <3>8. QED
        BY <3>6, <3>7
    <2>2. QED
      BY <2>1 DEF SuspendedIsAwaiting
  <1>8. RegistrationsLive'
    <2>1. ASSUME NEW p \in Ids
          PROVE  /\ promises'[p].state # "pending" => /\ promises'[p].callbacks = {}
                                                     /\ promises'[p].listeners = {}
                 /\ \A id \in promises'[p].callbacks :
                      id # p /\ tasks'[id].state \in Live
      <3>1. /\ promises[p].state # "pending" => /\ promises[p].callbacks = {}
                                                /\ promises[p].listeners = {}
            /\ \A id \in promises[p].callbacks : id # p /\ tasks[id].state \in Live
        BY DEF Consistent, RegistrationsLive
      <3>2. CASE p \in S \cup Born
        BY <1>1, <1>2, <3>2 DEF Newborn, PromiseAfter
      <3>3. CASE p \notin S \cup Born
        <4>1. promises'[p].state # "pending" => /\ promises'[p].callbacks = {}
                                                /\ promises'[p].listeners = {}
          BY <1>1, <3>1, <3>3 DEF PromiseAfter
        <4>2. ASSUME NEW id \in promises'[p].callbacks
              PROVE  id # p /\ tasks'[id].state \in Live
          <5>1. id \in promises[p].callbacks /\ promises'[p].state = "pending"
            BY <1>1, <3>3, <4>1 DEF PromiseAfter
          <5>2. id \notin S
            BY <1>1, <3>3, <5>1 DEF PromiseAfter
          <5>3. id \in Ids
            BY <5>1 DEF TypeOK, Promise
          <5>4. id # p /\ tasks[id].state \in Live
            BY <3>1, <5>1
          <5>5. id \notin Born
            <6>1. promises[id].state = "pending"
              BY <5>3, <5>4 DEF Consistent, Lockstep
            <6>2. QED
              BY <1>2, <6>1
          <5>6. \/ tasks'[id].state = tasks[id].state
                \/ /\ tasks[id].state \in {"acquired", "suspended"}
                   /\ tasks'[id].state = "pending"
            BY <1>0, <5>2, <5>3, <5>5 DEF TaskAfter
          <5>7. QED
            BY <5>4, <5>6 DEF Live
        <4>3. QED
          BY <4>1, <4>2
      <3>4. QED
        BY <3>2, <3>3
    <2>2. QED
      BY <2>1 DEF RegistrationsLive
  <1>9. QED
    BY <1>4, <1>5, <1>6, <1>7, <1>8 DEF Consistent

LEMMA EmptyCascade ==
  ASSUME TypeOK, NEW settled \in [{} -> Promise], NEW t, NEW id \in Ids
  PROVE  /\ CascadePromises(settled)[id] = promises[id]
         /\ CascadeTasks({})[id] = tasks[id]
         /\ CascadeTaskTimeouts({}, t)[id] = taskTimeouts[id]
  <1>1. promises[id] \in Promise /\ tasks[id] \in Task
    BY DEF TypeOK
  <1>2. Awakening({}, id) = {} /\ Woken({}) = {}
    BY DEF Awakening, Woken
  <1>3. CascadePromises(settled)[id] = promises[id]
    BY <1>1 DEF CascadePromises, Promise
  <1>4. Resumed({}, id) = tasks[id]
    <2>1. [tasks[id] EXCEPT !.resumes = @ \cup Awakening({}, id)] = tasks[id]
      BY <1>1, <1>2 DEF Task
    <2>2. QED
      BY <1>2, <2>1 DEF Resumed
  <1>5. CascadeTasks({})[id] = tasks[id]
    BY <1>4 DEF CascadeTasks
  <1>6. CascadeTaskTimeouts({}, t)[id] = taskTimeouts[id]
    BY <1>2 DEF CascadeTaskTimeouts
  <1>7. QED
    BY <1>3, <1>5, <1>6

\* Storing a new promise that is consistent in itself, and nothing else.
LEMMA BirthConsistent ==
  ASSUME TypeOK, Consistent, TypeOK', NEW id \in Ids,
         promises[id].state = "absent",
         Newborn(promises'[id], promiseTimeouts'[id], tasks'[id],
                 taskTimeouts'[id]),
         \A x \in Ids \ {id} : /\ promises'[x] = promises[x]
                               /\ promiseTimeouts'[x] = promiseTimeouts[x]
                               /\ tasks'[x] = tasks[x]
                               /\ taskTimeouts'[x] = taskTimeouts[x]
  PROVE  Consistent'
  <1> DEFINE none == [p \in {} |-> NoPromise]
  <1>1. none \in [{} -> Promise]
    OBVIOUS
  <1> HIDE DEF none
  <1>2. \A x \in Ids \ {id} :
          /\ promises'[x] = CascadePromises(none)[x]
          /\ tasks'[x] = CascadeTasks({})[x]
          /\ taskTimeouts'[x] = CascadeTaskTimeouts({}, 0)[x]
    BY <1>1, EmptyCascade
  <1>3. CascadeStep({}, none, {}, {}, {id}, 0)
    BY <1>2 DEF CascadeStep, CanSettle
  <1>4. QED
    BY <1>1, <1>3, CascadeConsistent

LEMMA PromiseCreateConsistent ==
  ASSUME TypeOK, Consistent, TypeOK', NEW id \in Ids, NEW tags \in Tags,
         NEW timeoutAt \in Int, NEW t \in Nat,
         PromiseCreate(id, tags, timeoutAt, t)
  PROVE  Consistent'
  <1>1. Newborn(NewPromise(tags, timeoutAt, t),
                NewPromiseTimeout(tags, timeoutAt, t),
                NewTask(tags, timeoutAt, t),
                NewTaskTimeout(tags, timeoutAt, t))
    BY PromiseIsNewborn
  <1>2. /\ promises'[id] = NewPromise(tags, timeoutAt, t)
        /\ promiseTimeouts'[id] = NewPromiseTimeout(tags, timeoutAt, t)
        /\ tasks'[id] = NewTask(tags, timeoutAt, t)
        /\ taskTimeouts'[id] = NewTaskTimeout(tags, timeoutAt, t)
        /\ promises[id].state = "absent"
    BY DEF PromiseCreate, TypeOK
  <1>3. \A x \in Ids \ {id} : /\ promises'[x] = promises[x]
                              /\ promiseTimeouts'[x] = promiseTimeouts[x]
                              /\ tasks'[x] = tasks[x]
                              /\ taskTimeouts'[x] = taskTimeouts[x]
    BY DEF PromiseCreate, TypeOK
  <1>4. QED
    BY <1>1, <1>2, <1>3, BirthConsistent

LEMMA TaskCreateAcquiredConsistent ==
  ASSUME TypeOK, Consistent, TypeOK', NEW id \in Ids, NEW tags \in Tags,
         NEW timeoutAt \in Int, NEW pid \in Pids, NEW ttl \in Ttls,
         NEW t \in Nat, TaskCreateAcquired(id, tags, timeoutAt, pid, ttl, t)
  PROVE  Consistent'
  <1>1. pid # NoPid
    BY ServerAssumption
  <1>2. /\ promises'[id] = PendingPromise(tags, timeoutAt)
        /\ promiseTimeouts'[id] = timeoutAt
        /\ tasks'[id] = Acquired(NoTask, pid, ttl)
        /\ taskTimeouts'[id] = Lease(ttl, t)
        /\ promises[id].state = "absent"
    BY DEF TaskCreateAcquired, TypeOK
  <1>3. /\ promises'[id].state = "pending"
        /\ promises'[id].timeoutAt = timeoutAt
        /\ promises'[id].callbacks = {} /\ promises'[id].listeners = {}
    BY <1>2 DEF PendingPromise, NoPromise
  <1>4. tasks'[id].state = "acquired" /\ tasks'[id].pid = pid
    BY <1>2 DEF Acquired, NoTask
  <1>5. taskTimeouts'[id].kind = "lease"
    BY <1>2 DEF Lease
  <1>6. Newborn(promises'[id], promiseTimeouts'[id], tasks'[id],
                taskTimeouts'[id])
    BY <1>1, <1>2, <1>3, <1>4, <1>5 DEF Newborn
  <1>7. \A x \in Ids \ {id} : /\ promises'[x] = promises[x]
                              /\ promiseTimeouts'[x] = promiseTimeouts[x]
                              /\ tasks'[x] = tasks[x]
                              /\ taskTimeouts'[x] = taskTimeouts[x]
    BY DEF TaskCreateAcquired, TypeOK
  <1>8. QED
    BY <1>2, <1>6, <1>7, BirthConsistent

LEMMA TaskCreateExpiredConsistent ==
  ASSUME TypeOK, Consistent, TypeOK', NEW id \in Ids, NEW tags \in Tags,
         NEW timeoutAt \in Int, NEW t \in Nat,
         TaskCreateExpired(id, tags, timeoutAt, t)
  PROVE  Consistent'
  <1>1. /\ promises[id].state = "absent"
        /\ promises'[id] = BornSettled(tags, timeoutAt)
        /\ tasks'[id] = Fulfilled(NoTask)
        /\ promiseTimeouts'[id] = promiseTimeouts[id]
        /\ taskTimeouts'[id] = taskTimeouts[id]
    BY DEF TaskCreateExpired, TypeOK
  <1>2. /\ "pending" \notin SettledStates /\ "absent" \notin SettledStates
        /\ TimedOutState(tags) \in SettledStates
    BY DEF TimedOutState, SettledStates
  <1>3. /\ promises'[id].state \in SettledStates
        /\ promises'[id].callbacks = {} /\ promises'[id].listeners = {}
    BY <1>1, <1>2 DEF BornSettled, NoPromise
  <1>4. tasks'[id].state = "fulfilled" /\ tasks'[id].pid = NoPid
    BY <1>1 DEF Fulfilled, Unheld, NoTask
  <1>5. promiseTimeouts[id] = NotSet
    BY <1>1 DEF Consistent, DeadlineArmed
  <1>6. taskTimeouts[id].kind \notin {"retry", "lease"}
    BY <1>1, <1>2 DEF Consistent, TimeoutDiscipline, Lockstep, Live
  <1>7. Newborn(promises'[id], promiseTimeouts'[id], tasks'[id],
                taskTimeouts'[id])
    BY <1>1, <1>2, <1>3, <1>4, <1>5, <1>6 DEF Newborn
  <1>8. \A x \in Ids \ {id} : /\ promises'[x] = promises[x]
                              /\ promiseTimeouts'[x] = promiseTimeouts[x]
                              /\ tasks'[x] = tasks[x]
                              /\ taskTimeouts'[x] = taskTimeouts[x]
    BY DEF TaskCreateExpired, TypeOK
  <1>9. QED
    BY <1>1, <1>7, <1>8, BirthConsistent

LEMMA SettleConsistent ==
  ASSUME TypeOK, Consistent, TypeOK', NEW id \in Ids,
         NEW state \in SettledStates, NEW t \in Nat,
         promises[id].state = "pending", Settle(id, state, t)
  PROVE  Consistent'
  <1> DEFINE settled == [p \in {id} |-> Settled(promises[p], state, t)]
  <1>1. promises[id] \in Promise
    BY DEF TypeOK
  <1>2. Settled(promises[id], state, t) \in Promise
    BY <1>1, SettledType
  <1>3. settled \in [{id} -> Promise]
    BY <1>2
  <1>4. CanSettle({id}, settled)
    BY <1>1 DEF CanSettle, Settled, Promise
  <1>5. promises' = CascadePromises(settled)
    BY DEF Settle
  <1> HIDE DEF settled
  <1>6. CascadeStep({id}, settled, {}, {}, {}, t)
    BY <1>4, <1>5 DEF CascadeStep, Settle, TypeOK
  <1>7. QED
    BY <1>3, <1>6, CascadeConsistent

LEMMA TickIsStep ==
  ASSUME TypeOK, NEW t \in Nat, NEW fire \in [FiredIds(t) -> Firings(t)],
         TickWith(fire, t)
  PROVE  /\ DuePromises(t) \in SUBSET Ids
         /\ TimedOut(t) \in [DuePromises(t) -> Promise]
         /\ LeaseLost(t) \in SUBSET Ids /\ Redelivered(t) \in SUBSET Ids
         /\ FiredIds(t) \in SUBSET Ids
         /\ CascadeStep(DuePromises(t), TimedOut(t), LeaseLost(t), Redelivered(t),
                        FiredIds(t), t)
  <1>1. /\ DuePromises(t) \in SUBSET Ids
        /\ TimedOut(t) \in [DuePromises(t) -> Promise]
    BY DuePromisesType
  <1>2. CanSettle(DuePromises(t), TimedOut(t))
    <2>1. ASSUME NEW p \in DuePromises(t)
          PROVE  /\ promises[p].state = "pending"
                 /\ TimedOut(t)[p].state \in SettledStates
                 /\ TimedOut(t)[p].callbacks = {}
                 /\ TimedOut(t)[p].listeners = {}
      <3>1. promises[p] \in Promise
        BY <1>1 DEF TypeOK
      <3>2. TimedOutState(promises[p].tags) \in SettledStates
        BY DEF TimedOutState, SettledStates
      <3>3. TimedOut(t)[p] = Settled(promises[p], TimedOutState(promises[p].tags),
                                     promises[p].timeoutAt)
        BY DEF TimedOut
      <3>4. QED
        BY <3>1, <3>2, <3>3 DEF Settled, Promise, DuePromises
    <2>2. QED
      BY <2>1 DEF CanSettle
  <1>3. \A id \in FiredIds(t) :
          /\ id \in Ids
          /\ promises[id].state = "absent"
          /\ Newborn(promises'[id], promiseTimeouts'[id], tasks'[id],
                     taskTimeouts'[id])
    <2>1. ASSUME NEW id \in FiredIds(t)
          PROVE  /\ id \in Ids
                 /\ promises[id].state = "absent"
                 /\ Newborn(promises'[id], promiseTimeouts'[id], tasks'[id],
                            taskTimeouts'[id])
      <3>1. id \in Ids /\ promises[id].state = "absent"
        BY DEF FiredIds
      <3>2. fire[id] \in Firings(t)
        OBVIOUS
      <3>3. /\ FiringTags(fire[id]) \in Tags
            /\ FiringTimeout(fire[id]) \in Int
            /\ fire[id][2] \in Nat
        BY <3>2, FiringType DEF FiringTags, FiringTimeout
      <3>4. Newborn(NewPromise(FiringTags(fire[id]), FiringTimeout(fire[id]),
                               fire[id][2]),
                    NewPromiseTimeout(FiringTags(fire[id]),
                                      FiringTimeout(fire[id]), fire[id][2]),
                    NewTask(FiringTags(fire[id]), FiringTimeout(fire[id]),
                            fire[id][2]),
                    NewTaskTimeout(FiringTags(fire[id]),
                                   FiringTimeout(fire[id]), fire[id][2]))
        BY <3>3, PromiseIsNewborn
      <3>5. QED
        BY <3>1, <3>4 DEF TickWith
    <2>2. QED
      BY <2>1
  <1>4. /\ LeaseLost(t) \in SUBSET Ids
        /\ \A id \in LeaseLost(t) :
             id \notin DuePromises(t) /\ tasks[id].state = "acquired"
        /\ Redelivered(t) \in SUBSET Ids
        /\ \A id \in Redelivered(t) :
             id \notin DuePromises(t) /\ tasks[id].state = "pending"
    BY DEF LeaseLost, Redelivered, DueTasks
  <1>5. \A id \in Ids \ FiredIds(t) :
          /\ promises'[id] = CascadePromises(TimedOut(t))[id]
          /\ promiseTimeouts'[id] = IF id \in DuePromises(t) THEN NotSet
                                    ELSE promiseTimeouts[id]
          /\ tasks'[id] = TickTask(id, t)
          /\ taskTimeouts'[id] = TickTaskTimeout(id, t)
    BY DEF TickWith
  <1>6. CascadeStep(DuePromises(t), TimedOut(t), LeaseLost(t), Redelivered(t),
                    FiredIds(t), t)
    BY <1>2, <1>3, <1>4, <1>5 DEF CascadeStep, TickTask, TickTaskTimeout
  <1>7. FiredIds(t) \in SUBSET Ids
    BY DEF FiredIds
  <1>8. QED
    BY <1>1, <1>4, <1>6, <1>7

LEMMA TickConsistent ==
  ASSUME TypeOK, Consistent, TypeOK', NEW t \in Nat, Tick(t)
  PROVE  Consistent'
  <1>1. PICK fire \in [FiredIds(t) -> Firings(t)] : TickWith(fire, t)
    BY DEF Tick
  <1>2. QED
    BY <1>1, TickIsStep, CascadeConsistent

-----------------------------------------------------------------------------
(* Steps that neither create nor settle: live tasks change hands, and       *)
(* pending promises gain registrations of live awaiters.                    *)

Handed(id) ==
  \/ tasks'[id] = tasks[id] /\ taskTimeouts'[id].kind = taskTimeouts[id].kind
  \/ /\ tasks[id].state \in Live /\ tasks'[id].state \in Live
     /\ tasks'[id].state = "pending" <=> taskTimeouts'[id].kind = "retry"
     /\ tasks'[id].state = "acquired" <=> taskTimeouts'[id].kind = "lease"
     /\ tasks'[id].state = "acquired" <=> tasks'[id].pid # NoPid
     /\ tasks'[id].state = "suspended" =>
          /\ tasks'[id].resumes = {}
          /\ \E p \in Ids \ {id} : /\ promises'[p].state = "pending"
                                   /\ id \in promises'[p].callbacks

Enrolled(p) ==
  /\ promises'[p].state = promises[p].state
  /\ promises'[p].timeoutAt = promises[p].timeoutAt
  /\ promises'[p].tags = promises[p].tags
  /\ promises[p].callbacks \subseteq promises'[p].callbacks
  /\ \A id \in promises'[p].callbacks \ promises[p].callbacks :
       /\ promises[p].state = "pending"
       /\ id # p
       /\ tasks[id].state \in Live
  /\ promises[p].state # "pending" =>
       promises'[p].listeners = promises[p].listeners

LEMMA HandedConsistent ==
  ASSUME TypeOK, Consistent, TypeOK',
         promiseTimeouts' = promiseTimeouts,
         \A id \in Ids : Handed(id) /\ Enrolled(id)
  PROVE  Consistent'
  <1>1. \A id \in Ids : tasks'[id].state \in Live <=> tasks[id].state \in Live
    BY DEF Handed
  <1>2. \A id \in Ids : tasks'[id].state = "fulfilled"
                          => tasks[id].state = "fulfilled"
    BY DEF Handed, Live
  <1>3. Lockstep'
    BY <1>1, <1>2 DEF Consistent, Lockstep, Enrolled
  <1>4. DeadlineArmed'
    BY <1>1 DEF Consistent, DeadlineArmed, Enrolled
  <1>5. TimeoutDiscipline'
    BY DEF Consistent, TimeoutDiscipline, Handed
  <1>6. SuspendedIsAwaiting'
    <2>1. ASSUME NEW id \in Ids, tasks'[id].state = "suspended"
          PROVE  /\ tasks'[id].resumes = {}
                 /\ \E p \in Ids \ {id} : /\ promises'[p].state = "pending"
                                          /\ id \in promises'[p].callbacks
      <3>1. CASE tasks'[id] = tasks[id]
        <4>1. tasks[id].resumes = {}
          BY <2>1, <3>1 DEF Consistent, SuspendedIsAwaiting
        <4>2. PICK p \in Ids \ {id} : /\ promises[p].state = "pending"
                                     /\ id \in promises[p].callbacks
          BY <2>1, <3>1 DEF Consistent, SuspendedIsAwaiting
        <4>3. /\ promises'[p].state = "pending"
              /\ id \in promises'[p].callbacks
          BY <4>2 DEF Enrolled
        <4>4. QED
          BY <3>1, <4>1, <4>3
      <3>2. CASE tasks'[id] # tasks[id]
        BY <2>1, <3>2 DEF Handed
      <3>3. QED
        BY <3>1, <3>2
    <2>2. QED
      BY <2>1 DEF SuspendedIsAwaiting
  <1>7. RegistrationsLive'
    <2>1. ASSUME NEW p \in Ids
          PROVE  /\ promises'[p].state # "pending" => /\ promises'[p].callbacks = {}
                                                     /\ promises'[p].listeners = {}
                 /\ \A id \in promises'[p].callbacks :
                      id # p /\ tasks'[id].state \in Live
      <3>1. /\ promises[p].state # "pending" => /\ promises[p].callbacks = {}
                                                /\ promises[p].listeners = {}
            /\ \A id \in promises[p].callbacks : id # p /\ tasks[id].state \in Live
        BY DEF Consistent, RegistrationsLive
      <3>2. promises'[p].state # "pending" => /\ promises'[p].callbacks = {}
                                              /\ promises'[p].listeners = {}
        BY <3>1 DEF Enrolled
      <3>3. ASSUME NEW id \in promises'[p].callbacks
            PROVE  id # p /\ tasks'[id].state \in Live
        <4>1. id \in Ids
          BY DEF TypeOK, Promise
        <4>2. id # p /\ tasks[id].state \in Live
          BY <3>1 DEF Enrolled
        <4>3. QED
          BY <1>1, <4>1, <4>2
      <3>4. QED
        BY <3>2, <3>3
    <2>2. QED
      BY <2>1 DEF RegistrationsLive
  <1>8. QED
    BY <1>3, <1>4, <1>5, <1>6, <1>7 DEF Consistent

LEMMA SameConsistent ==
  ASSUME TypeOK, Consistent, TypeOK', UNCHANGED store
  PROVE  Consistent'
  <1>1. \A id \in Ids : Handed(id) /\ Enrolled(id)
    BY DEF store, Handed, Enrolled
  <1>2. QED
    BY <1>1, HandedConsistent DEF store

LEMMA PromiseRegisterConsistent ==
  ASSUME TypeOK, Consistent, TypeOK', NEW awaited \in Ids, NEW t,
         \/ \E awaiter \in Ids : PromiseRegisterCallback(awaited, awaiter, t)
         \/ \E address \in Addresses :
              PromiseRegisterListener(awaited, address, t)
  PROVE  Consistent'
  <1>1. promises[awaited] \in Promise
    BY DEF TypeOK
  <1>2. CASE \E awaiter \in Ids : PromiseRegisterCallback(awaited, awaiter, t)
    <2>1. PICK awaiter \in Ids : PromiseRegisterCallback(awaited, awaiter, t)
      BY <1>2
    <2>2. /\ promises'[awaited] =
               [promises[awaited] EXCEPT !.callbacks = @ \cup {awaiter}]
          /\ \A id \in Ids \ {awaited} : promises'[id] = promises[id]
      BY <2>1 DEF PromiseRegisterCallback, TypeOK
    <2>3. tasks[awaiter].state \in Live
      BY <2>1 DEF PromiseRegisterCallback, Fresh, Consistent, Lockstep
    <2>4. Enrolled(awaited)
      BY <1>1, <2>1, <2>2, <2>3 DEF PromiseRegisterCallback, Enrolled, Fresh,
         TypeOK, Promise
    <2>5. \A id \in Ids : Handed(id)
      BY <2>1 DEF PromiseRegisterCallback, Handed
    <2>6. \A id \in Ids \ {awaited} : Enrolled(id)
      BY <2>2 DEF Enrolled
    <2>7. QED
      BY <2>1, <2>4, <2>5, <2>6, HandedConsistent DEF PromiseRegisterCallback
  <1>3. CASE \E address \in Addresses :
               PromiseRegisterListener(awaited, address, t)
    <2>1. PICK address \in Addresses :
            PromiseRegisterListener(awaited, address, t)
      BY <1>3
    <2>2. /\ promises'[awaited] =
               [promises[awaited] EXCEPT !.listeners = @ \cup {address}]
          /\ \A id \in Ids \ {awaited} : promises'[id] = promises[id]
      BY <2>1 DEF PromiseRegisterListener, TypeOK
    <2>3. Enrolled(awaited)
      BY <1>1, <2>1, <2>2 DEF PromiseRegisterListener, Enrolled, Fresh,
         TypeOK, Promise
    <2>4. \A id \in Ids : Handed(id)
      BY <2>1 DEF PromiseRegisterListener, Handed
    <2>5. \A id \in Ids \ {awaited} : Enrolled(id)
      BY <2>2 DEF Enrolled
    <2>6. QED
      BY <2>1, <2>3, <2>4, <2>5, HandedConsistent DEF PromiseRegisterListener
  <1>4. QED
    BY <1>2, <1>3

\* A step that moves one live task to a state other than suspended.
LEMMA OneTaskConsistent ==
  ASSUME TypeOK, Consistent, TypeOK', NEW id \in Ids,
         promises' = promises, promiseTimeouts' = promiseTimeouts,
         tasks[id].state \in Live, tasks'[id].state \in Live \ {"suspended"},
         tasks'[id].state = "pending" <=> taskTimeouts'[id].kind = "retry",
         tasks'[id].state = "acquired" <=> taskTimeouts'[id].kind = "lease",
         tasks'[id].state = "acquired" <=> tasks'[id].pid # NoPid,
         \A x \in Ids \ {id} : /\ tasks'[x] = tasks[x]
                               /\ taskTimeouts'[x] = taskTimeouts[x]
  PROVE  Consistent'
  <1>1. \A x \in Ids : Handed(x) /\ Enrolled(x)
    BY DEF Handed, Enrolled
  <1>2. QED
    BY <1>1, HandedConsistent

LEMMA ClaimConsistent ==
  ASSUME TypeOK, Consistent, TypeOK', NEW id \in Ids, NEW pid \in Pids,
         NEW ttl, NEW t, Claim(id, pid, ttl, t)
  PROVE  Consistent'
  <1>1. tasks[id] \in Task /\ pid # NoPid
    BY ServerAssumption DEF TypeOK
  <1>2. tasks'[id] = Acquired(tasks[id], pid, ttl) /\ taskTimeouts'[id] = Lease(ttl, t)
    BY DEF Claim, TypeOK
  <1>3. tasks'[id].state = "acquired" /\ tasks'[id].pid = pid
    BY <1>1, <1>2 DEF Acquired, Task
  <1>4. taskTimeouts'[id].kind = "lease"
    BY <1>2 DEF Lease
  <1>5. \A x \in Ids \ {id} : /\ tasks'[x] = tasks[x]
                              /\ taskTimeouts'[x] = taskTimeouts[x]
    BY DEF Claim, TypeOK
  <1>6. QED
    BY <1>1, <1>3, <1>4, <1>5, OneTaskConsistent DEF Claim, Live

LEMMA RedispatchConsistent ==
  ASSUME TypeOK, Consistent, TypeOK', NEW id \in Ids, NEW task, NEW t,
         tasks[id].state \in Live, task.state = "pending", task.pid = NoPid,
         Redispatch(id, task, t)
  PROVE  Consistent'
  <1>1. tasks'[id] = task /\ taskTimeouts'[id] = Retry(t)
    BY DEF Redispatch, TypeOK
  <1>2. taskTimeouts'[id].kind = "retry"
    BY <1>1 DEF Retry
  <1>3. \A x \in Ids \ {id} : /\ tasks'[x] = tasks[x]
                              /\ taskTimeouts'[x] = taskTimeouts[x]
    BY DEF Redispatch, TypeOK
  <1>4. QED
    BY <1>1, <1>2, <1>3, OneTaskConsistent DEF Redispatch, Live

LEMMA TaskReleaseConsistent ==
  ASSUME TypeOK, Consistent, TypeOK', NEW id \in Ids, NEW version, NEW t,
         TaskRelease(id, version, t)
  PROVE  Consistent'
  <1>1. tasks[id] \in Task /\ tasks[id].state \in Live
    BY DEF TypeOK, TaskRelease, Gate, Live
  <1>2. /\ Unheld(tasks[id], "pending").state = "pending"
        /\ Unheld(tasks[id], "pending").pid = NoPid
    BY <1>1 DEF Unheld, Task
  <1>3. QED
    BY <1>1, <1>2, RedispatchConsistent DEF TaskRelease

LEMMA TaskContinueConsistent ==
  ASSUME TypeOK, Consistent, TypeOK', NEW id \in Ids, NEW t, TaskContinue(id, t)
  PROVE  Consistent'
  <1>1. tasks[id] \in Task /\ tasks[id].state = "halted"
    BY DEF TypeOK, TaskContinue
  <1>2. tasks[id].pid = NoPid
    BY <1>1 DEF Consistent, TimeoutDiscipline
  <1>3. /\ [tasks[id] EXCEPT !.state = "pending"].state = "pending"
        /\ [tasks[id] EXCEPT !.state = "pending"].pid = NoPid
    BY <1>1, <1>2 DEF Task
  <1>4. Redispatch(id, [tasks[id] EXCEPT !.state = "pending"], t)
    BY DEF TaskContinue
  <1>5. tasks[id].state \in Live
    BY <1>1 DEF Live
  <1> DEFINE task == [tasks[id] EXCEPT !.state = "pending"]
  <1> HIDE DEF task
  <1>6. task.state = "pending" /\ task.pid = NoPid /\ Redispatch(id, task, t)
    BY <1>3, <1>4 DEF task
  <1>7. QED
    BY <1>5, <1>6, RedispatchConsistent

LEMMA TaskHaltConsistent ==
  ASSUME TypeOK, Consistent, TypeOK', NEW id \in Ids, TaskHalt(id)
  PROVE  Consistent'
  <1>1. tasks[id] \in Task /\ tasks[id].state \in Live
    BY DEF TypeOK, TaskHalt, Task, TaskStates, Live
  <1>2. tasks'[id] = Unheld(tasks[id], "halted") /\ taskTimeouts'[id] = NoTimeout
    BY DEF TaskHalt, TypeOK
  <1>3. tasks'[id].state = "halted" /\ tasks'[id].pid = NoPid
    BY <1>1, <1>2 DEF Unheld, Task
  <1>4. taskTimeouts'[id].kind = "none"
    BY <1>2 DEF NoTimeout
  <1>5. \A x \in Ids \ {id} : /\ tasks'[x] = tasks[x]
                              /\ taskTimeouts'[x] = taskTimeouts[x]
    BY DEF TaskHalt, TypeOK
  <1>6. QED
    BY <1>1, <1>3, <1>4, <1>5, OneTaskConsistent DEF TaskHalt, Live

LEMMA TaskSuspendRefusedConsistent ==
  ASSUME TypeOK, Consistent, TypeOK', NEW id \in Ids, NEW version, NEW A, NEW t,
         TaskSuspendRefused(id, version, A, t)
  PROVE  Consistent'
  <1>1. tasks[id] \in Task /\ tasks[id].state = "acquired"
    BY DEF TypeOK, TaskSuspendRefused, SuspendGate, Gate
  <1>2. tasks'[id] = [tasks[id] EXCEPT !.resumes = {}]
    BY DEF TaskSuspendRefused, TypeOK
  <1>3. tasks'[id].state = "acquired" /\ tasks'[id].pid = tasks[id].pid
    BY <1>1, <1>2 DEF Task
  <1>4. tasks[id].pid # NoPid /\ taskTimeouts[id].kind = "lease"
    BY <1>1 DEF Consistent, TimeoutDiscipline
  <1>5. taskTimeouts' = taskTimeouts
    BY DEF TaskSuspendRefused
  <1>6. \A x \in Ids \ {id} : /\ tasks'[x] = tasks[x]
                              /\ taskTimeouts'[x] = taskTimeouts[x]
    BY DEF TaskSuspendRefused, TypeOK
  <1>7. QED
    BY <1>1, <1>3, <1>4, <1>5, <1>6, OneTaskConsistent
    DEF TaskSuspendRefused, Live

LEMMA TaskSuspendConsistent ==
  ASSUME TypeOK, Consistent, TypeOK', NEW id \in Ids, NEW version,
         NEW A \in SUBSET Ids, NEW t, TaskSuspend(id, version, A, t)
  PROVE  Consistent'
  <1>1. /\ A # {} /\ id \notin A
        /\ tasks[id] \in Task /\ tasks[id].state = "acquired"
        /\ \A a \in A : promises[a].state = "pending"
    BY DEF TypeOK, TaskSuspend, SuspendGate, Gate, Fresh
  <1>2. /\ tasks'[id] = [Unheld(tasks[id], "suspended") EXCEPT !.resumes = {}]
        /\ taskTimeouts'[id] = NoTimeout
    BY DEF TaskSuspend, TypeOK
  <1>3. /\ tasks'[id].state = "suspended" /\ tasks'[id].pid = NoPid
        /\ tasks'[id].resumes = {}
    BY <1>1, <1>2 DEF Unheld, Task
  <1>4. ASSUME NEW p \in Ids
        PROVE  /\ Enrolled(p)
               /\ p \in A => id \in promises'[p].callbacks
    <2>1. promises[p] \in Promise
      BY DEF TypeOK
    <2>2. CASE p \in A
      <3>1. promises'[p] = [promises[p] EXCEPT !.callbacks = @ \cup {id}]
        BY <2>2 DEF TaskSuspend
      <3>2. /\ promises'[p].callbacks = promises[p].callbacks \cup {id}
            /\ promises'[p].state = promises[p].state
            /\ promises'[p].timeoutAt = promises[p].timeoutAt
            /\ promises'[p].tags = promises[p].tags
            /\ promises'[p].listeners = promises[p].listeners
        BY <2>1, <3>1 DEF Promise
      <3>3. QED
        BY <1>1, <2>2, <3>2 DEF Enrolled, Live
    <2>3. CASE p \notin A
      BY <2>3 DEF TaskSuspend, Enrolled
    <2>4. QED
      BY <2>2, <2>3
  <1>5. Handed(id)
    <2>1. PICK p \in A : p \in Ids \ {id}
      BY <1>1
    <2>2. promises'[p].state = "pending" /\ id \in promises'[p].callbacks
      BY <1>1, <1>4, <2>1 DEF Enrolled
    <2>3. taskTimeouts'[id].kind = "none"
      BY <1>2 DEF NoTimeout
    <2>4. QED
      BY <1>1, <1>3, <2>1, <2>2, <2>3 DEF Handed, Live
  <1>6. \A x \in Ids \ {id} : Handed(x)
    BY DEF TaskSuspend, TypeOK, Handed
  <1>7. QED
    BY <1>4, <1>5, <1>6, HandedConsistent DEF TaskSuspend

LEMMA TaskHeartbeatConsistent ==
  ASSUME TypeOK, Consistent, TypeOK', NEW pid, NEW refs, NEW t,
         TaskHeartbeat(pid, refs, t)
  PROVE  Consistent'
  <1>1. \A id \in Ids : taskTimeouts'[id].kind = taskTimeouts[id].kind
    BY DEF TaskHeartbeat, Gate, Lease, Consistent, TimeoutDiscipline
  <1>2. \A id \in Ids : Handed(id) /\ Enrolled(id)
    BY <1>1 DEF TaskHeartbeat, Handed, Enrolled
  <1>3. QED
    BY <1>2, HandedConsistent DEF TaskHeartbeat

-----------------------------------------------------------------------------
(* The invariant, step by step. *)

LEMMA PromiseNextConsistent ==
  ASSUME TypeOK, Consistent, TypeOK', PromiseNext
  PROVE  Consistent'
  <1>1. PICK id \in Ids, t \in Stamps :
          \/ \E tags \in TagSets, timeoutAt \in Timeouts :
               PromiseCreate(id, tags, timeoutAt, t)
          \/ \E state \in Outcomes : PromiseSettle(id, state, t)
          \/ \E awaiter \in Ids : PromiseRegisterCallback(id, awaiter, t)
          \/ \E address \in Addresses : PromiseRegisterListener(id, address, t)
    BY DEF PromiseNext
  <1>2. t \in Nat
    BY DEF Stamps, TypeOK
  <1>3. CASE \E tags \in TagSets, timeoutAt \in Timeouts :
               PromiseCreate(id, tags, timeoutAt, t)
    BY <1>2, <1>3, PromiseCreateConsistent, ServerAssumption
  <1>4. CASE \E state \in Outcomes : PromiseSettle(id, state, t)
    BY <1>2, <1>4, SettleConsistent, ServerAssumption DEF PromiseSettle, Fresh
  <1>5. CASE \/ \E awaiter \in Ids : PromiseRegisterCallback(id, awaiter, t)
             \/ \E address \in Addresses :
                  PromiseRegisterListener(id, address, t)
    BY <1>5, PromiseRegisterConsistent
  <1>6. QED
    BY <1>1, <1>3, <1>4, <1>5

LEMMA TaskCreateNextConsistent ==
  ASSUME TypeOK, Consistent, TypeOK', TaskCreateNext
  PROVE  Consistent'
  <1>1. Stamps \subseteq Nat
    BY DEF Stamps, TypeOK
  <1>2. ASSUME NEW id \in Ids, NEW t \in Stamps,
               \E pid \in Pids, ttl \in Ttls : TaskCreateReacquire(id, pid, ttl, t)
        PROVE  Consistent'
    BY <1>2, ClaimConsistent DEF TaskCreateReacquire
  <1>3. ASSUME NEW id \in Ids, NEW t \in Stamps,
               NEW tags \in TagSets, NEW timeoutAt \in Timeouts,
               \/ \E pid \in Pids, ttl \in Ttls :
                    TaskCreateAcquired(id, tags, timeoutAt, pid, ttl, t)
               \/ TaskCreateExpired(id, tags, timeoutAt, t)
        PROVE  Consistent'
    BY <1>1, <1>3, TaskCreateAcquiredConsistent, TaskCreateExpiredConsistent,
       ServerAssumption
  <1>4. QED
    BY <1>2, <1>3 DEF TaskCreateNext

LEMMA TaskNextConsistent ==
  ASSUME TypeOK, Consistent, TypeOK', TaskNext
  PROVE  Consistent'
  <1>1. Stamps \subseteq Nat
    BY DEF Stamps, TypeOK
  <1>2. ASSUME NEW id \in Ids, NEW t \in Stamps, NEW version \in 0..MaxVersion,
               \E pid \in Pids, ttl \in Ttls : TaskAcquire(id, version, pid, ttl, t)
        PROVE  Consistent'
    BY <1>2, ClaimConsistent DEF TaskAcquire
  <1>3. ASSUME NEW id \in Ids, NEW t \in Stamps, NEW version \in 0..MaxVersion,
               \E child \in Ids, tags \in TagSets, timeoutAt \in Timeouts :
                 TaskFenceCreate(id, version, child, tags, timeoutAt, t)
        PROVE  Consistent'
    BY <1>1, <1>3, PromiseCreateConsistent, ServerAssumption DEF TaskFenceCreate
  <1>4. ASSUME NEW id \in Ids, NEW t \in Stamps, NEW version \in 0..MaxVersion,
               \E child \in Ids, state \in Outcomes :
                 TaskFenceSettle(id, version, child, state, t)
        PROVE  Consistent'
    BY <1>1, <1>4, SettleConsistent, ServerAssumption
    DEF TaskFenceSettle, PromiseSettle, Fresh
  <1>5. ASSUME NEW id \in Ids, NEW t \in Stamps, NEW version \in 0..MaxVersion,
               \E state \in Outcomes : TaskFulfill(id, version, state, t)
        PROVE  Consistent'
    BY <1>1, <1>5, SettleConsistent, ServerAssumption
    DEF TaskFulfill, Gate, Fresh
  <1>6. ASSUME NEW id \in Ids, NEW t \in Stamps, NEW version \in 0..MaxVersion,
               \/ TaskRelease(id, version, t)
               \/ \E A \in SUBSET Ids : TaskSuspendRefused(id, version, A, t)
               \/ \E A \in SUBSET Ids : TaskSuspend(id, version, A, t)
               \/ \E pid \in Pids : TaskHeartbeat(pid, {<<id, version>>}, t)
        PROVE  Consistent'
    BY <1>6, TaskReleaseConsistent, TaskSuspendRefusedConsistent,
       TaskSuspendConsistent, TaskHeartbeatConsistent
  <1>7. QED
    BY <1>2, <1>3, <1>4, <1>5, <1>6 DEF TaskNext

LEMMA EmptyStoreConsistent ==
  ASSUME promises = [id \in Ids |-> NoPromise],
         tasks = [id \in Ids |-> NoTask],
         promiseTimeouts = [id \in Ids |-> NotSet],
         taskTimeouts = [id \in Ids |-> NoTimeout]
  PROVE  Consistent
  BY DEF Consistent, Lockstep, DeadlineArmed, TimeoutDiscipline,
     SuspendedIsAwaiting, RegistrationsLive, NoPromise, NoTask, NoTimeout, Live

LEMMA EmptiedStoreConsistent ==
  ASSUME promises' = [id \in Ids |-> NoPromise],
         tasks' = [id \in Ids |-> NoTask],
         promiseTimeouts' = [id \in Ids |-> NotSet],
         taskTimeouts' = [id \in Ids |-> NoTimeout]
  PROVE  Consistent'
  BY DEF Consistent, Lockstep, DeadlineArmed, TimeoutDiscipline,
     SuspendedIsAwaiting, RegistrationsLive, NoPromise, NoTask, NoTimeout, Live

LEMMA ConsistentStep ==
  ASSUME IInv, [Next]_vars
  PROVE  IInv'
  <1>1. TypeOK /\ Consistent /\ TypeOK'
    BY TypeStep DEF IInv
  <1>2. Stamps \subseteq Nat /\ DebugTimes \subseteq Nat
    BY <1>1, ServerAssumption DEF Stamps, TypeOK
  <1>3. CASE PromiseNext
    BY <1>1, <1>3, PromiseNextConsistent DEF IInv
  <1>4. CASE TaskCreateNext
    BY <1>1, <1>4, TaskCreateNextConsistent DEF IInv
  <1>5. CASE TaskNext
    BY <1>1, <1>5, TaskNextConsistent DEF IInv
  <1>6. CASE TaskControlNext
    BY <1>1, <1>6, TaskHaltConsistent, TaskContinueConsistent
    DEF TaskControlNext, IInv
  <1>7. CASE ScheduleNext
    <2>1. UNCHANGED store
      BY <1>7 DEF ScheduleNext, ScheduleCreate, ScheduleDelete
    <2>2. QED
      BY <1>1, <2>1, SameConsistent DEF IInv
  <1>8. CASE TickNext \/ DebugTick
    BY <1>1, <1>2, <1>8, TickConsistent DEF TickNext, DebugTick, IInv
  <1>9. CASE DebugReset
    BY <1>1, <1>9, EmptiedStoreConsistent DEF DebugReset, IInv
  <1>10. CASE Advance
    BY <1>1, <1>10, SameConsistent DEF Advance, IInv
  <1>11. CASE UNCHANGED vars
    BY <1>1, <1>11, SameConsistent DEF vars, store, IInv
  <1>12. QED
    BY <1>3, <1>4, <1>5, <1>6, <1>7, <1>8, <1>9, <1>10, <1>11 DEF Next

\* Every request handler and the tick leave promises, tasks, timeouts and
\* registrations consistent with each other: the conjunction of the safety
\* properties below, with the types, is inductive.
THEOREM Invariance == Spec => []IInv
  <1>1. Init => IInv
    BY TypeInit, EmptyStoreConsistent DEF Init, IInv
  <1>2. IInv /\ [Next]_vars => IInv'
    BY ConsistentStep
  <1>3. QED
    BY <1>1, <1>2, PTL DEF Spec

\* A live task belongs to a pending promise, a fulfilled one to a settled
\* promise, and a pending promise with a target has a live task.
THEOREM TasksInLockstep == Spec => []Lockstep
  <1>1. IInv => Lockstep
    BY DEF IInv, Consistent
  <1>2. QED
    BY <1>1, Invariance, PTL

\* No task can outlive its deadline for want of a timeout: the deadline of a
\* promise with a live task stays armed, and only of a pending promise.
THEOREM DeadlinesStayArmed == Spec => []DeadlineArmed
  <1>1. IInv => DeadlineArmed
    BY DEF IInv, Consistent
  <1>2. QED
    BY <1>1, Invariance, PTL

\* Exactly the pending tasks are due for redelivery, exactly the acquired
\* ones for a lease check.
THEOREM TimeoutsFollowTasks == Spec => []TimeoutDiscipline
  <1>1. IInv => TimeoutDiscipline
    BY DEF IInv, Consistent
  <1>2. QED
    BY <1>1, Invariance, PTL

\* No suspended task is forgotten: a pending promise has it registered.
THEOREM NoForgottenTask == Spec => []SuspendedIsAwaiting
  <1>1. IInv => SuspendedIsAwaiting
    BY DEF IInv, Consistent
  <1>2. QED
    BY <1>1, Invariance, PTL

\* No registration is left over on a settled promise or for an ended task.
THEOREM NoLeftoverRegistration == Spec => []RegistrationsLive
  <1>1. IInv => RegistrationsLive
    BY DEF IInv, Consistent
  <1>2. QED
    BY <1>1, Invariance, PTL

================================================================================
