---------------------- MODULE LocalServerDispatch_proofs ----------------------
(***************************************************************************)
(* What the server owes.  Messages: every step that leaves a task pending   *)
(* sends execute with the version the next claim has to present, or leaves  *)
(* the message or the delay that was there.  Schedules: every step that     *)
(* moves the next run of a schedule has created what it passes over.        *)
(***************************************************************************)
EXTENDS LocalServerMoves_proofs

\* What a step sends of executes is of the versions it leaves.
Timely(M) ==
  \A m \in M : m.kind = "execute" =>
    m.id \in Ids /\ m = Execute(m.id, tasks'[m.id].version)

\* The task was pending already and waits for what it waited for.
StaysPending(id) ==
  /\ tasks[id].state = "pending"
  /\ tasks'[id].version = tasks[id].version
  /\ promises'[id].tags = promises[id].tags
  /\ taskTimeouts'[id].at = taskTimeouts[id].at
Reached(id, M) ==
  tasks'[id].state = "pending" /\ promises'[id].tags.target =>
    \/ Execute(id, tasks'[id].version) \in M
    \/ /\ tasks'[id].version = 0
       /\ taskTimeouts'[id].at = promises'[id].tags.delay
    \/ StaysPending(id)
Tells(M) == Emit(M) /\ Timely(M) /\ \A id \in Ids : Reached(id, M)

\* There is a set of messages the step tells everybody.
Sends == \E M : Tells(M)

LEMMA StampIsNat ==
  ASSUME MInv, NEW t \in Stamps
  PROVE  t \in Nat
  BY DEF Stamps, MInv, IInv, TypeOK

LEMMA TellsKeep ==
  ASSUME MInv, MInv', Moves, Dispatched, NEW M, Tells(M)
  PROVE  Dispatched'
  <1>1. \A id \in Ids : /\ tasks[id].version \in Nat /\ tasks'[id].version \in Nat
                        /\ tasks[id].version <= tasks'[id].version
    BY VersionsGrow
  <1>2. ASSUME NEW id \in Ids, Execute(id, tasks'[id].version) \in M
        PROVE  Execute(id, tasks'[id].version) \in outbox'
    BY <1>2 DEF Tells, Emit
  <1>3. ASSUME NEW id \in Ids, Execute(id, tasks'[id].version) \in outbox
        PROVE  Execute(id, tasks'[id].version) \in outbox'
    <2> DEFINE old == Execute(id, tasks'[id].version)
    <2>1. old.kind = "execute" /\ old.id = id
      BY DEF Execute
    <2>2. CASE \E n \in M : SameKey(old, n)
      <3>1. PICK n \in M : SameKey(old, n)
        BY <2>2
      <3>2. n = old
        BY <2>1, <3>1 DEF SameKey, Tells, Timely
      <3>3. QED
        BY <1>2, <3>1, <3>2
    <2>3. CASE \A n \in M : ~SameKey(old, n)
      BY <1>3, <2>3 DEF Tells, Emit
    <2>4. QED
      BY <2>2, <2>3
  <1>4. ASSUME NEW id \in Ids, tasks'[id].state = "pending", promises'[id].tags.target
        PROVE  \/ Execute(id, tasks'[id].version) \in outbox'
               \/ /\ tasks'[id].version = 0
                  /\ taskTimeouts'[id].at = promises'[id].tags.delay
    <2>1. CASE StaysPending(id)
      <3>1. \/ Execute(id, tasks'[id].version) \in outbox
            \/ /\ tasks'[id].version = 0
               /\ taskTimeouts'[id].at = promises'[id].tags.delay
        BY <1>4, <2>1 DEF StaysPending, Dispatched
      <3>2. QED
        BY <1>3, <3>1
    <2>2. CASE ~StaysPending(id)
      BY <1>2, <1>4, <2>2 DEF Tells, Reached
    <2>3. QED
      BY <2>1, <2>2
  <1>5. ASSUME NEW m \in outbox' \cup queue', m.kind = "execute"
        PROVE  m.version <= tasks'[m.id].version
    <2>1. CASE m \in M
      <3>1. m.id \in Ids /\ m.version = tasks'[m.id].version
        BY <1>5, <2>1 DEF Tells, Timely, Execute
      <3>2. QED
        BY <1>1, <3>1
    <2>2. CASE m \notin M
      <3>1. m \in outbox \cup queue
        BY <2>2 DEF Tells, Emit
      <3>2. m.id \in Ids /\ m.version \in Int
        BY <3>1 DEF MInv, IInv, TypeOK, Message
      <3>3. m.version <= tasks[m.id].version
        BY <1>5, <3>1 DEF Dispatched
      <3>4. QED
        BY <1>1, <3>2, <3>3
    <2>3. QED
      BY <2>1, <2>2
  <1>6. QED
    BY <1>4, <1>5 DEF Dispatched

-----------------------------------------------------------------------------
(* Steps that send nothing. *)

LEMMA SilentTells ==
  ASSUME outbox' = outbox, queue' = queue, \A id \in Ids : Reached(id, {})
  PROVE  Sends
  <1>1. Tells({})
    BY DEF Tells, Timely, Emit
  <1>2. QED
    BY <1>1 DEF Sends

\* The record of a task does not change, or is not pending afterwards.
LEMMA OthersWait ==
  ASSUME NEW id \in Ids, promises'[id].tags = promises[id].tags,
         tasks'[id] = tasks[id], taskTimeouts'[id] = taskTimeouts[id], NEW M
  PROVE  Reached(id, M)
  BY DEF Reached, StaysPending

LEMMA RegisterTells ==
  ASSUME MInv, NEW p \in Ids, NEW t,
         \/ \E awaiter \in Ids : PromiseRegisterCallback(p, awaiter, t)
         \/ \E address \in Addresses : PromiseRegisterListener(p, address, t)
  PROVE  Sends
  <1>1. \A x \in Ids : promises'[x].tags = promises[x].tags
    BY DEF PromiseRegisterCallback, PromiseRegisterListener, MInv, IInv, TypeOK, Promise
  <1>2. /\ tasks' = tasks /\ taskTimeouts' = taskTimeouts
        /\ outbox' = outbox /\ queue' = queue
    BY DEF PromiseRegisterCallback, PromiseRegisterListener, mail
  <1>3. QED
    BY <1>1, <1>2, OthersWait, SilentTells

LEMMA ClaimTells ==
  ASSUME MInv, NEW id \in Ids, NEW pid, NEW ttl, NEW t, Claim(id, pid, ttl, t)
  PROVE  Sends
  <1>1. tasks[id] \in Task /\ tasks'[id] = Acquired(tasks[id], pid, ttl)
    BY DEF Claim, MInv, IInv, TypeOK
  <1>2. tasks'[id].state = "acquired"
    BY <1>1 DEF Acquired, Task
  <1>3. /\ \A x \in Ids \ {id} : /\ tasks'[x] = tasks[x]
                                 /\ taskTimeouts'[x] = taskTimeouts[x]
        /\ promises' = promises /\ outbox' = outbox /\ queue' = queue
    BY DEF Claim, mail, MInv, IInv, TypeOK
  <1>4. Reached(id, {})
    BY <1>2 DEF Reached
  <1>5. QED
    BY <1>3, <1>4, OthersWait, SilentTells

LEMMA TaskCreateTells ==
  ASSUME MInv, NEW id \in Ids, NEW tags, NEW timeoutAt, NEW t,
         \/ \E pid \in Pids, ttl \in Ttls :
              TaskCreateAcquired(id, tags, timeoutAt, pid, ttl, t)
         \/ TaskCreateExpired(id, tags, timeoutAt, t)
  PROVE  Sends
  <1>1. \/ \E pid \in Pids, ttl \in Ttls : tasks'[id] = Acquired(NoTask, pid, ttl)
        \/ tasks'[id] = Fulfilled(NoTask)
    BY DEF TaskCreateAcquired, TaskCreateExpired, MInv, IInv, TypeOK
  <1>2. tasks'[id].state # "pending"
    BY <1>1 DEF Acquired, Fulfilled, Unheld, NoTask
  <1>3. /\ \A x \in Ids \ {id} : /\ tasks'[x] = tasks[x]
                                 /\ taskTimeouts'[x] = taskTimeouts[x]
                                 /\ promises'[x] = promises[x]
        /\ outbox' = outbox /\ queue' = queue
    BY DEF TaskCreateAcquired, TaskCreateExpired, mail, MInv, IInv, TypeOK
  <1>4. Reached(id, {})
    BY <1>2 DEF Reached
  <1>5. QED
    BY <1>3, <1>4, OthersWait, SilentTells

LEMMA ParkTells ==
  ASSUME MInv, NEW id \in Ids, NEW version, NEW A \in SUBSET Ids, NEW t,
         \/ TaskSuspend(id, version, A, t) \/ TaskSuspendRefused(id, version, A, t)
         \/ TaskHalt(id)
  PROVE  Sends
  <1>1. tasks[id] \in Task
    BY DEF MInv, IInv, TypeOK
  <1>2. \/ tasks'[id] = [Unheld(tasks[id], "suspended") EXCEPT !.resumes = {}]
        \/ /\ tasks'[id] = [tasks[id] EXCEPT !.resumes = {}]
           /\ tasks[id].state = "acquired"
        \/ tasks'[id] = Unheld(tasks[id], "halted")
    BY DEF TaskSuspend, TaskSuspendRefused, TaskHalt, SuspendGate, Gate, MInv, IInv, TypeOK
  <1>3. tasks'[id].state # "pending"
    BY <1>1, <1>2 DEF Unheld, Task
  <1>4. \A x \in Ids : promises'[x].tags = promises[x].tags
    BY DEF TaskSuspend, TaskSuspendRefused, TaskHalt, MInv, IInv, TypeOK, Promise
  <1>5. /\ \A x \in Ids \ {id} : /\ tasks'[x] = tasks[x]
                                 /\ taskTimeouts'[x] = taskTimeouts[x]
        /\ outbox' = outbox /\ queue' = queue
    BY DEF TaskSuspend, TaskSuspendRefused, TaskHalt, mail, MInv, IInv, TypeOK
  <1>6. Reached(id, {})
    BY <1>3 DEF Reached
  <1>7. QED
    BY <1>4, <1>5, <1>6, OthersWait, SilentTells

LEMMA HeartbeatTells ==
  ASSUME MInv, NEW pid, NEW refs, NEW t, TaskHeartbeat(pid, refs, t)
  PROVE  Sends
  <1>1. ASSUME NEW id \in Ids
        PROVE  Reached(id, {})
    <2>1. tasks' = tasks /\ promises' = promises
      BY DEF TaskHeartbeat
    <2>2. tasks[id].state = "pending" => taskTimeouts'[id] = taskTimeouts[id]
      BY DEF TaskHeartbeat, Gate
    <2>3. QED
      BY <2>1, <2>2 DEF Reached, StaysPending
  <1>2. outbox' = outbox /\ queue' = queue
    BY DEF TaskHeartbeat, mail
  <1>3. QED
    BY <1>1, <1>2, SilentTells

-----------------------------------------------------------------------------
(* Steps that send. *)

\* A new task waits for its delay or is announced at version 0.
LEMMA NewIsReached ==
  ASSUME NEW id \in Ids, NEW tags \in Tags, NEW timeoutAt \in Int, NEW t \in Nat,
         promises'[id] = NewPromise(tags, timeoutAt, t),
         tasks'[id] = NewTask(tags, timeoutAt, t),
         taskTimeouts'[id] = NewTaskTimeout(tags, timeoutAt, t)
  PROVE  /\ Reached(id, NewMessages(id, tags, timeoutAt, t))
         /\ Timely(NewMessages(id, tags, timeoutAt, t))
  <1>1. tasks'[id].version = 0
    BY NewTaskVersion
  <1>2. promises'[id].tags = tags
    BY DEF NewPromise, PendingPromise, BornSettled, NoPromise
  <1>3. ASSUME tasks'[id].state = "pending"
        PROVE  tags.target /\ timeoutAt > t
    BY <1>3 DEF NewTask, NoTask
  <1>4. ASSUME tasks'[id].state = "pending", tags.delay > t
        PROVE  taskTimeouts'[id].at = tags.delay
    BY <1>3, <1>4 DEF NewTaskTimeout
  <1>5. ASSUME tasks'[id].state = "pending", ~(tags.delay > t)
        PROVE  Execute(id, 0) \in NewMessages(id, tags, timeoutAt, t)
    BY <1>3, <1>5 DEF NewMessages, Tags
  <1>6. Timely(NewMessages(id, tags, timeoutAt, t))
    BY <1>1 DEF Timely, NewMessages, Execute
  <1>7. QED
    BY <1>1, <1>2, <1>4, <1>5, <1>6 DEF Reached

LEMMA PromiseCreateTells ==
  ASSUME MInv, NEW id \in Ids, NEW tags \in Tags, NEW timeoutAt \in Int, NEW t \in Nat,
         PromiseCreate(id, tags, timeoutAt, t)
  PROVE  Sends
  <1> DEFINE M == NewMessages(id, tags, timeoutAt, t)
  <1>1. /\ promises'[id] = NewPromise(tags, timeoutAt, t)
        /\ tasks'[id] = NewTask(tags, timeoutAt, t)
        /\ taskTimeouts'[id] = NewTaskTimeout(tags, timeoutAt, t)
    BY DEF PromiseCreate, MInv, IInv, TypeOK
  <1>2. \A x \in Ids \ {id} : /\ promises'[x] = promises[x] /\ tasks'[x] = tasks[x]
                              /\ taskTimeouts'[x] = taskTimeouts[x]
    BY DEF PromiseCreate, MInv, IInv, TypeOK
  <1>3. Emit(M)
    BY DEF PromiseCreate
  <1>4. Reached(id, M) /\ Timely(M)
    BY <1>1, NewIsReached
  <1>5. Tells(M)
    BY <1>2, <1>3, <1>4, OthersWait DEF Tells
  <1>6. QED
    BY <1>5 DEF Sends

LEMMA RedispatchTells ==
  ASSUME MInv, NEW id \in Ids, NEW task \in Task, NEW t,
         task.version = tasks[id].version, Redispatch(id, task, t)
  PROVE  Sends
  <1>1. /\ tasks'[id] = task /\ promises' = promises
        /\ \A x \in Ids \ {id} : /\ tasks'[x] = tasks[x]
                                 /\ taskTimeouts'[x] = taskTimeouts[x]
        /\ Emit(Executes({id}))
    BY DEF Redispatch, MInv, IInv, TypeOK
  <1>2. Timely(Executes({id}))
    BY <1>1 DEF Timely, Executes, Execute
  <1>3. Reached(id, Executes({id}))
    BY <1>1 DEF Reached, Executes
  <1>4. Tells(Executes({id}))
    BY <1>1, <1>2, <1>3, OthersWait DEF Tells
  <1>5. QED
    BY <1>4 DEF Sends

LEMMA HandBackTells ==
  ASSUME MInv, NEW id \in Ids, NEW version, NEW t,
         TaskRelease(id, version, t) \/ TaskContinue(id, t)
  PROVE  Sends
  <1>1. tasks[id] \in Task /\ "pending" \in TaskStates
    BY DEF MInv, IInv, TypeOK, TaskStates
  <1>2. /\ Unheld(tasks[id], "pending") \in Task
        /\ Unheld(tasks[id], "pending").version = tasks[id].version
        /\ [tasks[id] EXCEPT !.state = "pending"] \in Task
        /\ [tasks[id] EXCEPT !.state = "pending"].version = tasks[id].version
    BY <1>1, UnheldType DEF Unheld, Task
  <1>3. QED
    BY <1>2, RedispatchTells DEF TaskRelease, TaskContinue

\* Steps that settle: who becomes pending is woken, redelivered or taken back,
\* and is sent execute; B is what is sent to the tasks created.
LEMMA CascadeTells ==
  ASSUME MInv, NEW S \in SUBSET Ids, NEW settled \in [S -> Promise],
         NEW Lost \in SUBSET Ids, NEW Again \in SUBSET Ids, NEW Born \in SUBSET Ids,
         NEW t, CascadeStep(S, settled, Lost, Again, Born, t),
         NEW B, Timely(B), \A id \in Born : Reached(id, B),
         Emit((CascadeMessages(S) \cup Executes(Again \cup Lost)) \cup B)
  PROVE  Sends
  <1> DEFINE Sent == CascadeMessages(S) \cup Executes(Again \cup Lost)
             M == Sent \cup B
  <1>1. TypeOK
    BY DEF MInv, IInv
  <1>2. ASSUME NEW id \in Ids \ Born
        PROVE  tasks'[id].version = tasks[id].version
    <2>1. tasks[id] \in Task /\ CascadeTasks(S)[id] \in Task
      BY <1>1, CascadeTasksType DEF TypeOK
    <2>2. CascadeTasks(S)[id].version = tasks[id].version
      BY <2>1 DEF CascadeTasks, Fulfilled, Unheld, Resumed, Task
    <2>3. Unheld(CascadeTasks(S)[id], "pending").version = tasks[id].version
      BY <2>1, <2>2 DEF Unheld, Task
    <2>4. QED
      BY <2>2, <2>3 DEF CascadeStep
  <1>3. ASSUME NEW id \in Born
        PROVE  tasks[id].state = "absent"
    BY <1>3, NoTaskYet DEF CascadeStep
  <1>4. \A id \in Woken(S) \cup Again \cup Lost : id \in Ids \ Born
    BY <1>3 DEF Woken, CascadeStep
  <1>5. Timely(Sent)
    <2>1. ASSUME NEW m \in Sent, m.kind = "execute"
          PROVE  \E id \in Woken(S) \cup Again \cup Lost :
                   m = Execute(id, tasks[id].version)
      <3>1. \A p, a : Unblock(p, a).kind # "execute"
        BY DEF Unblock
      <3>2. m \in Executes(Woken(S)) \cup Executes(Again \cup Lost)
        BY <2>1, <3>1 DEF CascadeMessages
      <3>3. QED
        BY <3>2 DEF Executes
    <2>2. ASSUME NEW m \in Sent, m.kind = "execute"
          PROVE  m.id \in Ids /\ m = Execute(m.id, tasks'[m.id].version)
      <3>1. PICK id \in Woken(S) \cup Again \cup Lost :
              m = Execute(id, tasks[id].version)
        BY <2>1, <2>2
      <3>2. m.id = id /\ id \in Ids \ Born
        BY <1>4, <3>1 DEF Execute
      <3>3. QED
        BY <1>2, <3>1, <3>2
    <2>3. QED
      BY <2>2 DEF Timely
  <1>6. ASSUME NEW id \in Ids \ Born
        PROVE  Reached(id, M)
    <2>1. SUFFICES ASSUME tasks'[id].state = "pending", promises'[id].tags.target
                   PROVE  Execute(id, tasks'[id].version) \in Sent \/ StaysPending(id)
      BY DEF Reached
    <2>2. promises'[id] = CascadePromises(settled)[id]
      BY DEF CascadeStep
    <2>3. tasks[id] \in Task /\ CascadeTasks(S)[id] \in Task
      BY <1>1, CascadeTasksType DEF TypeOK
    <2>4. CASE id \in Lost
      <3>1. id \notin S
        BY <2>4 DEF CascadeStep
      <3>2. promises'[id].tags = promises[id].tags
        BY <1>1, <2>2, <3>1, CascadePromisesShape DEF CascadeStep, PromiseAfter
      <3>3. QED
        BY <1>2, <2>1, <2>4, <3>2 DEF Executes
    <2>5. CASE id \notin Lost
      <3>1. tasks'[id] = CascadeTasks(S)[id]
        BY <2>5 DEF CascadeStep
      <3>2. id \notin S
        BY <1>1, <2>1, <3>1, CascadeTasksShape
      <3>3. promises'[id].tags = promises[id].tags
        BY <1>1, <2>2, <3>2, CascadePromisesShape DEF CascadeStep, PromiseAfter
      <3>4. CASE id \in Woken(S)
        BY <1>2, <2>1, <3>3, <3>4 DEF CascadeMessages, Executes
      <3>5. CASE id \in Again
        BY <1>2, <2>1, <3>3, <3>5 DEF Executes
      <3>6. CASE id \notin Woken(S) \cup Again
        <4>1. tasks[id].state = "pending"
          BY <1>1, <2>1, <3>1, <3>2, <3>6, CascadeTasksShape
        <4>2. taskTimeouts'[id] = taskTimeouts[id]
          BY <2>5, <3>2, <3>6 DEF CascadeStep, CascadeTaskTimeouts
        <4>3. QED
          BY <1>2, <3>3, <4>1, <4>2 DEF StaysPending
      <3>7. QED
        BY <3>4, <3>5, <3>6
    <2>6. QED
      BY <2>4, <2>5
  <1>7. \A id \in Born : Reached(id, M)
    BY DEF Reached
  <1>8. Timely(M)
    BY <1>5 DEF Timely
  <1>9. Tells(M)
    BY <1>6, <1>7, <1>8 DEF Tells
  <1>10. QED
    BY <1>9 DEF Sends

LEMMA SettleTells ==
  ASSUME MInv, NEW id \in Ids, NEW state \in SettledStates, NEW t \in Nat,
         promises[id].state = "pending", Settle(id, state, t)
  PROVE  Sends
  <1> DEFINE settled == [p \in {id} |-> Settled(promises[p], state, t)]
  <1>1. TypeOK /\ promises[id] \in Promise
    BY DEF MInv, IInv, TypeOK
  <1>2. Settled(promises[id], state, t) \in Promise
    BY <1>1, SettledType
  <1>3. settled \in [{id} -> Promise]
    BY <1>2
  <1>4. CanSettle({id}, settled)
    BY <1>1 DEF CanSettle, Settled, Promise
  <1>5. promises' = CascadePromises(settled)
    BY DEF Settle
  <1> HIDE DEF settled
  <1>6. CascadeStep({id}, settled, {}, {}, {}, t)
    BY <1>1, <1>4, <1>5 DEF CascadeStep, Settle, TypeOK
  <1>7. Executes({} \cup {}) = {}
    BY DEF Executes
  <1>8. Emit((CascadeMessages({id}) \cup Executes({} \cup {})) \cup {})
    BY <1>7 DEF Settle
  <1>9. Timely({})
    BY DEF Timely
  <1>10. QED
    BY <1>3, <1>6, <1>8, <1>9, CascadeTells

LEMMA TickTells ==
  ASSUME MInv, NEW t \in Nat, Tick(t)
  PROVE  Sends
  <1>1. PICK fire \in [FiredIds(t) -> Firings(t)] : TickWith(fire, t)
    BY DEF Tick
  <1> DEFINE New(id) == NewMessages(id, FiringTags(fire[id]),
                                    FiringTimeout(fire[id]), fire[id][2])
             B == UNION {New(id) : id \in FiredIds(t)}
  <1>2. TypeOK
    BY DEF MInv, IInv
  <1>3. ASSUME NEW id \in FiredIds(t)
        PROVE  Reached(id, New(id)) /\ Timely(New(id))
    <2>1. id \in Ids /\ fire[id] \in Firings(t)
      BY DEF FiredIds
    <2>2. /\ FiringTags(fire[id]) \in Tags
          /\ FiringTimeout(fire[id]) \in Int
          /\ fire[id][2] \in Nat
      BY <1>2, <2>1, FiringType DEF FiringTags, FiringTimeout
    <2>3. /\ promises'[id] = NewPromise(FiringTags(fire[id]), FiringTimeout(fire[id]),
                                        fire[id][2])
          /\ tasks'[id] = NewTask(FiringTags(fire[id]), FiringTimeout(fire[id]),
                                  fire[id][2])
          /\ taskTimeouts'[id] = NewTaskTimeout(FiringTags(fire[id]),
                                                FiringTimeout(fire[id]), fire[id][2])
      BY <1>1, <2>1 DEF TickWith
    <2>4. QED
      BY <2>1, <2>2, <2>3, NewIsReached
  <1>4. Emit((CascadeMessages(DuePromises(t)) \cup Executes(Redelivered(t) \cup LeaseLost(t)))
             \cup B)
    BY <1>1 DEF TickWith, TickMessages
  <1>5. Timely(B) /\ \A id \in FiredIds(t) : Reached(id, B)
    <2>1. Timely(B)
      BY <1>3 DEF Timely
    <2>2. ASSUME NEW id \in FiredIds(t)
          PROVE  Reached(id, B)
      <3>1. New(id) \subseteq B
        OBVIOUS
      <3>2. Reached(id, New(id))
        BY <1>3
      <3> HIDE DEF New, B
      <3>3. QED
        BY <3>1, <3>2 DEF Reached
    <2>3. QED
      BY <2>1, <2>2
  <1> HIDE DEF B
  <1>6. QED
    BY <1>1, <1>2, <1>4, <1>5, TickIsStep, CascadeTells

-----------------------------------------------------------------------------
(* Every step. *)

LEMMA PromiseNextTells ==
  ASSUME MInv, PromiseNext
  PROVE  Sends
  <1>1. ASSUME NEW id \in Ids, NEW t \in Stamps,
               \E tags \in TagSets, timeoutAt \in Timeouts :
                 PromiseCreate(id, tags, timeoutAt, t)
        PROVE  Sends
    BY <1>1, StampIsNat, PromiseCreateTells, ServerAssumption
  <1>2. ASSUME NEW id \in Ids, NEW t \in Stamps,
               \E state \in Outcomes : PromiseSettle(id, state, t)
        PROVE  Sends
    BY <1>2, StampIsNat, SettleTells, ServerAssumption DEF PromiseSettle, Fresh
  <1>3. ASSUME NEW id \in Ids, NEW t \in Stamps,
               \/ \E awaiter \in Ids : PromiseRegisterCallback(id, awaiter, t)
               \/ \E address \in Addresses : PromiseRegisterListener(id, address, t)
        PROVE  Sends
    BY <1>3, RegisterTells
  <1>4. QED
    BY <1>1, <1>2, <1>3 DEF PromiseNext

LEMMA TaskCreateNextTells ==
  ASSUME MInv, TaskCreateNext
  PROVE  Sends
  <1>1. ASSUME NEW id \in Ids, NEW t \in Stamps,
               \E pid \in Pids, ttl \in Ttls : TaskCreateReacquire(id, pid, ttl, t)
        PROVE  Sends
    BY <1>1, ClaimTells DEF TaskCreateReacquire
  <1>2. ASSUME NEW id \in Ids, NEW t \in Stamps, NEW tags \in TagSets,
               NEW timeoutAt \in Timeouts,
               \/ \E pid \in Pids, ttl \in Ttls :
                    TaskCreateAcquired(id, tags, timeoutAt, pid, ttl, t)
               \/ TaskCreateExpired(id, tags, timeoutAt, t)
        PROVE  Sends
    BY <1>2, TaskCreateTells
  <1>3. QED
    BY <1>1, <1>2 DEF TaskCreateNext

LEMMA TaskNextTells ==
  ASSUME MInv, TaskNext
  PROVE  Sends
  <1>1. ASSUME NEW id \in Ids, NEW t \in Stamps, NEW version \in 0..MaxVersion,
               \E pid \in Pids, ttl \in Ttls : TaskAcquire(id, version, pid, ttl, t)
        PROVE  Sends
    BY <1>1, ClaimTells DEF TaskAcquire
  <1>2. ASSUME NEW id \in Ids, NEW t \in Stamps, NEW version \in 0..MaxVersion,
               \E child \in Ids, tags \in TagSets, timeoutAt \in Timeouts :
                 TaskFenceCreate(id, version, child, tags, timeoutAt, t)
        PROVE  Sends
    BY <1>2, StampIsNat, PromiseCreateTells, ServerAssumption DEF TaskFenceCreate
  <1>3. ASSUME NEW id \in Ids, NEW t \in Stamps, NEW version \in 0..MaxVersion,
               \E child \in Ids, state \in Outcomes :
                 TaskFenceSettle(id, version, child, state, t)
        PROVE  Sends
    BY <1>3, StampIsNat, SettleTells, ServerAssumption DEF TaskFenceSettle, PromiseSettle, Fresh
  <1>4. ASSUME NEW id \in Ids, NEW t \in Stamps, NEW version \in 0..MaxVersion,
               \E state \in Outcomes : TaskFulfill(id, version, state, t)
        PROVE  Sends
    BY <1>4, StampIsNat, SettleTells, ServerAssumption DEF TaskFulfill, Gate, Fresh
  <1>5. ASSUME NEW id \in Ids, NEW t \in Stamps, NEW version \in 0..MaxVersion,
               TaskRelease(id, version, t)
        PROVE  Sends
    BY <1>5, HandBackTells
  <1>6. ASSUME NEW id \in Ids, NEW t \in Stamps, NEW version \in 0..MaxVersion,
               \E A \in SUBSET Ids : \/ TaskSuspendRefused(id, version, A, t)
                                    \/ TaskSuspend(id, version, A, t)
        PROVE  Sends
    BY <1>6, ParkTells
  <1>7. ASSUME NEW pid \in Pids, NEW refs, NEW t, TaskHeartbeat(pid, refs, t)
        PROVE  Sends
    BY <1>7, HeartbeatTells
  <1>8. QED
    BY <1>1, <1>2, <1>3, <1>4, <1>5, <1>6, <1>7 DEF TaskNext

LEMMA StepTells ==
  ASSUME MInv, [Next]_vars, DebugTimes = {}
  PROVE  Sends
  <1>1. CASE PromiseNext
    BY <1>1, PromiseNextTells
  <1>2. CASE TaskCreateNext
    BY <1>2, TaskCreateNextTells
  <1>3. CASE TaskNext
    BY <1>3, TaskNextTells
  <1>4. CASE TaskControlNext
    BY <1>4, HandBackTells, ParkTells DEF TaskControlNext
  <1>5. CASE TickNext
    BY <1>5, StampIsNat, TickTells DEF TickNext
  <1>6. CASE ScheduleNext \/ Advance \/ UNCHANGED vars
    <2>1. /\ promises' = promises /\ tasks' = tasks /\ taskTimeouts' = taskTimeouts
          /\ outbox' = outbox /\ queue' = queue
      BY <1>6 DEF ScheduleNext, ScheduleCreate, ScheduleDelete, Advance, vars, store, mail
    <2>2. QED
      BY <2>1, OthersWait, SilentTells
  <1>7. ~DebugTick /\ ~DebugReset
    BY DEF DebugTick, DebugReset
  <1>8. QED
    BY <1>1, <1>2, <1>3, <1>4, <1>5, <1>6, <1>7 DEF Next

\* Whatever wakes, releases or redelivers a task, the last execute message sent
\* for it announces the version its next claim presents, and none is ahead.
THEOREM PendingTasksAreDispatched ==
  ASSUME DebugTimes = {}
  PROVE  Spec => []Dispatched
  <1>1. Init => Dispatched
    BY DEF Init, Dispatched, NoTask
  <1>2. MInv /\ Dispatched /\ [Next]_vars => Dispatched'
    BY MovesStep, StepTells, TellsKeep DEF Sends
  <1>3. QED
    BY <1>1, <1>2, MovesInvariance, PTL DEF Spec

-----------------------------------------------------------------------------
(* Schedules. *)

\* The multiples of a period before the next run are those up to now.
LEMMA NextIsNext ==
  ASSUME NEW n \in Nat \ {0}, NEW t \in Nat, NEW c \in Nat,
         c % n = 0, c < CronNext(n, t)
  PROVE  c <= t
  <1> DEFINE k == c \div n
             q == t \div n
  <1>1. k \in Int /\ q \in Int
    OBVIOUS
  <1>2. c = n * k
    OBVIOUS
  <1>3. n * q <= t
    OBVIOUS
  <1>4. n * k < n * (q + 1)
    BY <1>1, <1>2 DEF CronNext
  <1> HIDE DEF k, q
  <1>5. k <= q
    BY <1>1, <1>4
  <1>6. n * k <= n * q
    BY <1>1, <1>5
  <1>7. QED
    BY <1>1, <1>2, <1>3, <1>6

Remains == \A id \in Ids :
  promises[id].state # "absent" => promises'[id].state # "absent"

LEMMA NewPromiseIsThere ==
  ASSUME NEW tags, NEW timeoutAt, NEW t
  PROVE  NewPromise(tags, timeoutAt, t).state # "absent"
  BY DEF NewPromise, PendingPromise, BornSettled, NoPromise, TimedOutState

LEMMA CascadeRemains ==
  ASSUME TypeOK, NEW S \in SUBSET Ids, NEW settled \in [S -> Promise],
         CanSettle(S, settled), NEW id \in Ids
  PROVE  promises[id].state # "absent" => CascadePromises(settled)[id].state # "absent"
  BY CascadePromisesShape DEF PromiseAfter, SettledStates

LEMMA SettleRemains ==
  ASSUME TypeOK, NEW id \in Ids, NEW state \in SettledStates, NEW t \in Nat,
         Fresh(id, t), Settle(id, state, t)
  PROVE  Remains
  <1> DEFINE settled == [p \in {id} |-> Settled(promises[p], state, t)]
  <1>1. promises[id] \in Promise
    BY DEF TypeOK
  <1>2. settled \in [{id} -> Promise]
    BY <1>1, SettledType
  <1>3. CanSettle({id}, settled)
    BY <1>1 DEF CanSettle, Settled, Promise, Fresh
  <1>4. promises' = CascadePromises(settled)
    BY DEF Settle
  <1> HIDE DEF settled
  <1>5. QED
    BY <1>2, <1>3, <1>4, CascadeRemains DEF Remains

LEMMA RequestRemains ==
  ASSUME TypeOK, PromiseNext \/ TaskCreateNext \/ TaskNext \/ TaskControlNext
  PROVE  Remains /\ UNCHANGED crons
  <1>1. \A t \in Stamps : t \in Nat
    BY DEF Stamps, TypeOK
  <1>2. ASSUME NEW id \in Ids, NEW tags \in Tags, NEW timeoutAt \in Int, NEW t \in Nat,
               PromiseCreate(id, tags, timeoutAt, t)
        PROVE  Remains /\ UNCHANGED crons
    BY <1>2, NewPromiseIsThere DEF PromiseCreate, Remains, TypeOK
  <1>3. ASSUME NEW id \in Ids, NEW state \in SettledStates, NEW t \in Nat,
               Fresh(id, t), Settle(id, state, t)
        PROVE  Remains /\ UNCHANGED crons
    BY <1>3, SettleRemains DEF Settle
  <1>4. CASE PromiseNext
    <2>1. ASSUME NEW id \in Ids, NEW t \in Stamps,
                 \/ \E awaiter \in Ids : PromiseRegisterCallback(id, awaiter, t)
                 \/ \E address \in Addresses : PromiseRegisterListener(id, address, t)
          PROVE  Remains /\ UNCHANGED crons
      BY <2>1 DEF PromiseRegisterCallback, PromiseRegisterListener, Remains,
         TypeOK, Promise
    <2>2. QED
      BY <1>1, <1>2, <1>3, <1>4, <2>1, ServerAssumption DEF PromiseNext, PromiseSettle
  <1>5. CASE TaskCreateNext
    <2>1. ASSUME NEW id \in Ids, NEW t \in Stamps, NEW tags \in TagSets,
                 NEW timeoutAt \in Timeouts,
                 \/ \E pid \in Pids, ttl \in Ttls :
                      TaskCreateAcquired(id, tags, timeoutAt, pid, ttl, t)
                 \/ TaskCreateExpired(id, tags, timeoutAt, t)
          PROVE  Remains /\ UNCHANGED crons
      <3>1. PICK p \in {PendingPromise(tags, timeoutAt), BornSettled(tags, timeoutAt)} :
              promises' = [promises EXCEPT ![id] = p]
        BY <2>1 DEF TaskCreateAcquired, TaskCreateExpired
      <3>2. p.state # "absent"
        BY DEF PendingPromise, BornSettled, NoPromise, TimedOutState
      <3>3. QED
        BY <2>1, <3>1, <3>2 DEF TaskCreateAcquired, TaskCreateExpired, Remains, TypeOK
    <2>2. QED
      BY <1>5, <2>1 DEF TaskCreateNext, TaskCreateReacquire, Claim, Remains
  <1>6. CASE TaskNext
    <2>1. PICK id \in Ids, version \in 0..MaxVersion, t \in Stamps :
            \/ \E pid \in Pids, ttl \in Ttls : TaskAcquire(id, version, pid, ttl, t)
            \/ \E child \in Ids, tags \in TagSets, timeoutAt \in Timeouts :
                 TaskFenceCreate(id, version, child, tags, timeoutAt, t)
            \/ \E child \in Ids, state \in Outcomes :
                 TaskFenceSettle(id, version, child, state, t)
            \/ \E state \in Outcomes : TaskFulfill(id, version, state, t)
            \/ TaskRelease(id, version, t)
            \/ \E A \in SUBSET Ids : TaskSuspendRefused(id, version, A, t)
            \/ \E A \in SUBSET Ids : TaskSuspend(id, version, A, t)
            \/ \E pid \in Pids : TaskHeartbeat(pid, {<<id, version>>}, t)
      BY <1>6 DEF TaskNext
    <2>2. CASE \E child \in Ids, tags \in TagSets, timeoutAt \in Timeouts :
                 TaskFenceCreate(id, version, child, tags, timeoutAt, t)
      BY <1>1, <1>2, <2>2, ServerAssumption DEF TaskFenceCreate
    <2>3. CASE \/ \E child \in Ids, state \in Outcomes :
                    TaskFenceSettle(id, version, child, state, t)
               \/ \E state \in Outcomes : TaskFulfill(id, version, state, t)
      BY <1>1, <1>3, <2>3, ServerAssumption
      DEF TaskFenceSettle, TaskFulfill, PromiseSettle, Gate
    <2>4. CASE \E A \in SUBSET Ids : TaskSuspend(id, version, A, t)
      BY <2>4 DEF TaskSuspend, Remains, TypeOK, Promise
    <2>5. CASE \/ \E pid \in Pids, ttl \in Ttls : TaskAcquire(id, version, pid, ttl, t)
               \/ TaskRelease(id, version, t)
               \/ \E A \in SUBSET Ids : TaskSuspendRefused(id, version, A, t)
               \/ \E pid \in Pids : TaskHeartbeat(pid, {<<id, version>>}, t)
      BY <2>5 DEF TaskAcquire, Claim, TaskRelease, Redispatch, TaskSuspendRefused,
         TaskHeartbeat, Remains
    <2>6. QED
      BY <2>1, <2>2, <2>3, <2>4, <2>5
  <1>7. CASE TaskControlNext
    BY <1>7 DEF TaskControlNext, TaskHalt, TaskContinue, Redispatch, Remains
  <1>8. QED
    BY <1>4, <1>5, <1>6, <1>7

\* What NoMissedOccurrence says of one schedule: nothing is owed any more.
PaidUp(s) ==
  /\ scheduleTimeouts[s] = schedules[s].nextRunAt
  /\ \A c \in 0..MaxTime :
       /\ schedules[s].createdAt < c
       /\ c < schedules[s].nextRunAt
       /\ c % schedules[s].cron = 0
       => promises[OccurrenceId(s, c)].state # "absent"

LEMMA OwedStays ==
  ASSUME Remains, NEW s \in ScheduleIds, PaidUp(s), schedules'[s] = schedules[s],
         scheduleTimeouts'[s] = scheduleTimeouts[s]
  PROVE  PaidUp(s)'
  BY ServerAssumption DEF Remains, PaidUp

LEMMA TickPays ==
  ASSUME TypeOK, NoMissedOccurrence, NEW t \in 0..MaxTime, Tick(t)
  PROVE  NoMissedOccurrence'
  <1>1. PICK fire \in [FiredIds(t) -> Firings(t)] : TickWith(fire, t)
    BY DEF Tick
  <1>2. t \in Nat
    BY ServerAssumption
  <1>3. \A id \in FiredIds(t) : promises'[id].state # "absent"
    BY <1>1, NewPromiseIsThere DEF TickWith, FiredIds
  <1>4. Remains
    <2>1. \A id \in Ids \ FiredIds(t) : promises'[id] = CascadePromises(TimedOut(t))[id]
      BY <1>1 DEF TickWith
    <2>2. CanSettle(DuePromises(t), TimedOut(t))
      BY <1>1, <1>2, TickIsStep DEF CascadeStep
    <2>3. QED
      BY <1>2, <1>3, <2>1, <2>2, DuePromisesType, CascadeRemains DEF Remains
  <1>5. SUFFICES ASSUME NEW s \in ScheduleIds, schedules'[s] # NoSchedule
                 PROVE  PaidUp(s)'
    BY DEF NoMissedOccurrence, PaidUp
  <1>6. CASE s \notin DueSchedules(t)
    <2>1. /\ schedules'[s] = schedules[s]
          /\ scheduleTimeouts'[s] = scheduleTimeouts[s]
      BY <1>1, <1>6 DEF TickWith
    <2>2. PaidUp(s)
      BY <1>5, <2>1 DEF NoMissedOccurrence, PaidUp
    <2>3. QED
      BY <1>4, <2>1, <2>2, OwedStays
  <1>7. CASE s \in DueSchedules(t)
    <2>1. /\ schedules'[s] = CaughtUp(s, t)
          /\ scheduleTimeouts'[s] = CronNext(schedules[s].cron, t)
      BY <1>1, <1>7 DEF TickWith
    <2>2. schedules[s] \in Schedule /\ schedules[s] # NoSchedule
      BY <1>7 DEF TypeOK, DueSchedules
    <2>3. /\ schedules'[s].createdAt = schedules[s].createdAt
          /\ schedules'[s].cron = schedules[s].cron
          /\ schedules'[s].nextRunAt = CronNext(schedules[s].cron, t)
          /\ schedules[s].cron \in Nat \ {0}
          /\ schedules[s].nextRunAt \in Int
      BY <2>1, <2>2 DEF CaughtUp, Schedule
    <2>4. PaidUp(s)
      BY <2>2 DEF NoMissedOccurrence, PaidUp
    <2>5. ASSUME NEW c \in 0..MaxTime, schedules[s].createdAt < c,
                 c < CronNext(schedules[s].cron, t), c % schedules[s].cron = 0
          PROVE  promises'[OccurrenceId(s, c)].state # "absent"
      <3>1. c \in Nat /\ c <= t
        BY <1>2, <2>3, <2>5, NextIsNext, ServerAssumption
      <3>2. OccurrenceId(s, c) \in Ids
        BY ServerAssumption
      <3>3. CASE promises[OccurrenceId(s, c)].state # "absent"
        BY <1>4, <3>2, <3>3 DEF Remains
      <3>4. CASE promises[OccurrenceId(s, c)].state = "absent"
        <4>1. ~(c < schedules[s].nextRunAt)
          BY <2>4, <2>5, <3>4 DEF PaidUp
        <4>2. c \in MissedTimes(s, t)
          BY <1>2, <2>3, <2>5, <3>1, <4>1 DEF MissedTimes
        <4>3. <<s, c>> \in Firings(t)
          BY <1>7, <4>2 DEF Firings
        <4>4. OccurrenceId(s, c) \in FiredIds(t)
          BY <3>2, <3>4, <4>3 DEF FiredIds
        <4>5. QED
          BY <1>3, <4>4
      <3>5. QED
        BY <3>3, <3>4
    <2>6. QED
      BY <2>1, <2>3, <2>5 DEF PaidUp
  <1>8. QED
    BY <1>6, <1>7

LEMMA ScheduleOwesNothingYet ==
  ASSUME TypeOK, NoMissedOccurrence, ScheduleNext
  PROVE  NoMissedOccurrence'
  <1>1. Remains
    BY DEF ScheduleNext, ScheduleCreate, ScheduleDelete, store, Remains
  <1>2. ASSUME NEW s \in ScheduleIds, schedules'[s] # NoSchedule,
               schedules'[s] = schedules[s],
               scheduleTimeouts'[s] = scheduleTimeouts[s]
        PROVE  PaidUp(s)'
    BY <1>1, <1>2, OwedStays DEF NoMissedOccurrence, PaidUp
  <1>3. ASSUME NEW x \in ScheduleIds, NEW template \in ScheduleTemplates,
               NEW t \in Stamps, ScheduleCreate(x, template, t)
        PROVE  NoMissedOccurrence'
    <2> DEFINE next == CronNext(template.cron, t)
    <2>1. template.cron \in Nat \ {0} /\ t \in Nat
      BY ServerAssumption DEF Template, Stamps, TypeOK
    <2>2. /\ schedules'[x] =
               [cron |-> template.cron, promiseTimeout |-> template.promiseTimeout,
                tags |-> template.tags, createdAt |-> t, nextRunAt |-> next,
                lastRunAt |-> NotSet]
          /\ scheduleTimeouts'[x] = next
      BY <1>3 DEF ScheduleCreate, TypeOK
    <2> HIDE DEF next
    <2>3. /\ schedules'[x].cron = template.cron
          /\ schedules'[x].createdAt = t /\ schedules'[x].nextRunAt = next
      BY <2>2
    <2>4. \A c \in 0..MaxTime : c % template.cron = 0 /\ c < next => ~(t < c)
      <3>1. ASSUME NEW c \in 0..MaxTime, c % template.cron = 0, c < next
            PROVE  ~(t < c)
        <4>1. c \in Nat
          BY ServerAssumption
        <4>2. c <= t
          BY <2>1, <3>1, <4>1, NextIsNext DEF next
        <4>3. QED
          BY <2>1, <4>1, <4>2
      <3>2. QED
        BY <3>1
    <2>5. PaidUp(x)'
      BY <2>2, <2>3, <2>4 DEF PaidUp
    <2>6. \A s \in ScheduleIds \ {x} : /\ schedules'[s] = schedules[s]
                                       /\ scheduleTimeouts'[s] = scheduleTimeouts[s]
      BY <1>3 DEF ScheduleCreate, TypeOK
    <2>7. QED
      BY <1>2, <2>5, <2>6 DEF NoMissedOccurrence, PaidUp
  <1>4. ASSUME NEW x \in ScheduleIds, ScheduleDelete(x)
        PROVE  NoMissedOccurrence'
    <2>1. /\ schedules'[x] = NoSchedule
          /\ \A s \in ScheduleIds \ {x} : /\ schedules'[s] = schedules[s]
                                          /\ scheduleTimeouts'[s] = scheduleTimeouts[s]
      BY <1>4 DEF ScheduleDelete, TypeOK
    <2>2. QED
      BY <1>2, <2>1 DEF NoMissedOccurrence, PaidUp
  <1>5. QED
    BY <1>3, <1>4 DEF ScheduleNext

\* Catching up loses no occurrence, for any periods, however late the tick is
\* and whatever schedules are deleted, created again or reset in between.
THEOREM OccurrencesAreCreated == Spec => []NoMissedOccurrence
  <1>1. Init => NoMissedOccurrence
    BY DEF Init, NoMissedOccurrence
  <1>2. ASSUME TypeOK, NoMissedOccurrence, [Next]_vars
        PROVE  NoMissedOccurrence'
    <2>1. CASE PromiseNext \/ TaskCreateNext \/ TaskNext \/ TaskControlNext
      BY <1>2, <2>1, RequestRemains, OwedStays DEF NoMissedOccurrence, PaidUp, crons
    <2>2. CASE ScheduleNext
      BY <1>2, <2>2, ScheduleOwesNothingYet
    <2>3. CASE TickNext
      <3>1. \A t \in Stamps : t \in 0..MaxTime
        BY <1>2, ServerAssumption DEF Stamps, TypeOK
      <3>2. QED
        BY <1>2, <2>3, <3>1, TickPays DEF TickNext
    <2>4. CASE DebugTick
      BY <1>2, <2>4, TickPays, ServerAssumption DEF DebugTick
    <2>5. CASE DebugReset
      BY <2>5 DEF DebugReset, NoMissedOccurrence
    <2>6. CASE Advance \/ UNCHANGED vars
      BY <1>2, <2>6 DEF Advance, vars, store, crons, NoMissedOccurrence
    <2>7. QED
      BY <1>2, <2>1, <2>2, <2>3, <2>4, <2>5, <2>6 DEF Next
  <1>3. QED
    BY <1>1, <1>2, TypeCorrect, PTL DEF Spec

===============================================================================
