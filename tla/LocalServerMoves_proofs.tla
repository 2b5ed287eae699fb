------------------------ MODULE LocalServerMoves_proofs ------------------------
(***************************************************************************)
(* What one step of LocalServer may do to a promise and to a task, and the  *)
(* action properties it gives for every instance in which debug.reset is    *)
(* not called: debug.reset forgets tokens, registrations and outcomes.      *)
(* Then the refinement: LocalServer implements DurableTask where handlers   *)
(* commit with the timestamp of their commit.  The run stale_clock shows    *)
(* what an older timestamp does.                                            *)
(***************************************************************************)
EXTENDS LocalServer_proofs, LocalServerRefinement

\* No id has a version before its task exists.
VersionsStart ==
  \A id \in Ids : tasks[id].state = "absent" => tasks[id].version = 0
MInv == IInv /\ VersionsStart

-----------------------------------------------------------------------------
(* The moves. *)

\* The outcome of a promise is written by a holder of a fresh timestamp or is
\* what its deadline makes of it.
OutcomeWritten(id) ==
  \E t \in Stamps :
    \/ Fresh(id, t)
    \/ /\ promises[id].timeoutAt <= t
       /\ promises'[id].state = TimedOutState(promises[id].tags)
       /\ promises'[id].settledAt = promises[id].timeoutAt
SameOutcome(id) ==
  /\ promises'[id].state = promises[id].state
  /\ promises'[id].timeoutAt = promises[id].timeoutAt
  /\ promises'[id].settledAt = promises[id].settledAt
  /\ promises'[id].tags = promises[id].tags
PromiseMoves(id) ==
  \/ SameOutcome(id)
  \/ promises[id].state = "absent"
  \/ /\ promises[id].state = "pending"
     /\ promises'[id].state \in SettledStates
     /\ OutcomeWritten(id)

Goes(id, from, to) ==
  /\ tasks[id].state \in from
  /\ tasks'[id].state = to
  /\ tasks'[id].version = tasks[id].version
Stands(id) ==
  /\ tasks'[id].state = tasks[id].state
  /\ tasks'[id].version = tasks[id].version
Begins(id) ==
  /\ promises[id].state = "absent"
  /\ \E to \in {"pending", "fulfilled"} : Goes(id, {"absent"}, to)
IsClaimed(id) ==
  /\ tasks[id].state \in {"absent", "pending"}
  /\ tasks[id].state = "absent" => promises[id].state = "absent"
  /\ tasks'[id].state = "acquired"
  /\ tasks'[id].version = tasks[id].version + 1
IsParked(id) ==
  Goes(id, {"acquired"}, "suspended") /\ \E t \in Stamps : Fresh(id, t)
IsWoken(id) ==
  /\ Goes(id, {"suspended"}, "pending")
  /\ \E p \in Ids \ {id} : promises'[p].state \in SettledStates
TaskMoves(id) ==
  \/ Stands(id) \/ Begins(id) \/ IsClaimed(id) \/ IsParked(id) \/ IsWoken(id)
  \/ Goes(id, {"acquired"}, "pending")
  \/ Goes(id, {"pending", "acquired", "suspended"}, "halted")
  \/ Goes(id, {"halted"}, "pending")
  \/ Goes(id, Live, "fulfilled")

WakesAll(p) ==
  promises[p].state = "pending" /\ promises'[p].state # "pending" =>
    /\ \A id \in promises[p].callbacks :
         \/ tasks'[id].state = "fulfilled"
         \/ /\ p \in tasks'[id].resumes
            /\ tasks'[id].state \in {"pending", "acquired", "halted"}
    /\ \A a \in promises[p].listeners : Unblock(p, a) \in queue'

Moves == \A id \in Ids : PromiseMoves(id) /\ TaskMoves(id) /\ WakesAll(id)

-----------------------------------------------------------------------------
(* Steps that settle nothing. *)

LEMMA QuietMoves ==
  ASSUME \A id \in Ids : SameOutcome(id) /\ TaskMoves(id)
  PROVE  Moves
  BY DEF Moves, PromiseMoves, SameOutcome, WakesAll

LEMMA SameMoves ==
  ASSUME promises' = promises, tasks' = tasks
  PROVE  Moves
  BY QuietMoves DEF SameOutcome, TaskMoves, Stands

\* One task moves, no promise does.
LEMMA OneTaskMoves ==
  ASSUME NEW id \in Ids, TaskMoves(id), \A x \in Ids : SameOutcome(x),
         \A x \in Ids \ {id} : tasks'[x] = tasks[x]
  PROVE  Moves
  <1>1. \A x \in Ids \ {id} : TaskMoves(x)
    BY DEF TaskMoves, Stands
  <1>2. QED
    BY <1>1, QuietMoves

\* A promise without a record has no task yet.
LEMMA NoTaskYet ==
  ASSUME MInv, NEW id \in Ids, promises[id].state = "absent"
  PROVE  tasks[id].state = "absent" /\ tasks[id].version = 0
  <1>1. tasks[id] \in Task
    BY DEF MInv, IInv, TypeOK
  <1>2. tasks[id].state \notin Live \cup {"fulfilled"}
    BY DEF MInv, IInv, Consistent, Lockstep, SettledStates
  <1>3. QED
    BY <1>1, <1>2 DEF MInv, VersionsStart, Task, TaskStates, Live

LEMMA BirthMoves ==
  ASSUME MInv, NEW id \in Ids, promises[id].state = "absent",
         \/ Stands(id) \/ \E to \in {"pending", "fulfilled"} :
                            Goes(id, {"absent"}, to)
         \/ tasks'[id].state = "acquired" /\ tasks'[id].version = 1,
         \A x \in Ids \ {id} : promises'[x] = promises[x] /\ tasks'[x] = tasks[x]
  PROVE  Moves
  <1>1. PromiseMoves(id) /\ WakesAll(id)
    BY DEF PromiseMoves, WakesAll
  <1>2. TaskMoves(id)
    BY NoTaskYet DEF TaskMoves, Begins, IsClaimed
  <1>3. \A x \in Ids \ {id} : PromiseMoves(x) /\ TaskMoves(x) /\ WakesAll(x)
    BY DEF PromiseMoves, SameOutcome, TaskMoves, Stands, WakesAll
  <1>4. QED
    BY <1>1, <1>2, <1>3 DEF Moves

LEMMA NewTaskVersion ==
  ASSUME NEW tags \in Tags, NEW timeoutAt, NEW t
  PROVE  /\ NewTask(tags, timeoutAt, t).state \in {"absent", "pending", "fulfilled"}
         /\ NewTask(tags, timeoutAt, t).version = 0
  BY DEF NewTask, NoTask

LEMMA PromiseCreateMoves ==
  ASSUME MInv, NEW id \in Ids, NEW tags \in Tags, NEW timeoutAt, NEW t,
         PromiseCreate(id, tags, timeoutAt, t)
  PROVE  Moves
  <1>1. /\ promises[id].state = "absent"
        /\ tasks'[id] = NewTask(tags, timeoutAt, t)
        /\ \A x \in Ids \ {id} : promises'[x] = promises[x] /\ tasks'[x] = tasks[x]
    BY DEF PromiseCreate, MInv, IInv, TypeOK
  <1>2. tasks[id].state = "absent" /\ tasks[id].version = 0
    BY <1>1, NoTaskYet
  <1>3. Stands(id) \/ \E to \in {"pending", "fulfilled"} : Goes(id, {"absent"}, to)
    BY <1>1, <1>2, NewTaskVersion DEF Stands, Goes
  <1>4. QED
    BY <1>1, <1>3, BirthMoves

LEMMA TaskCreateMoves ==
  ASSUME MInv, NEW id \in Ids, NEW tags, NEW timeoutAt, NEW t,
         \/ \E pid \in Pids, ttl \in Ttls :
              TaskCreateAcquired(id, tags, timeoutAt, pid, ttl, t)
         \/ TaskCreateExpired(id, tags, timeoutAt, t)
  PROVE  Moves
  <1>1. /\ promises[id].state = "absent"
        /\ \A x \in Ids \ {id} : promises'[x] = promises[x] /\ tasks'[x] = tasks[x]
    BY DEF TaskCreateAcquired, TaskCreateExpired, MInv, IInv, TypeOK
  <1>2. \/ \E pid \in Pids, ttl \in Ttls : tasks'[id] = Acquired(NoTask, pid, ttl)
        \/ tasks'[id] = Fulfilled(NoTask)
    BY DEF TaskCreateAcquired, TaskCreateExpired, MInv, IInv, TypeOK
  <1>3. \/ tasks'[id].state = "acquired" /\ tasks'[id].version = 1
        \/ tasks'[id].state = "fulfilled" /\ tasks'[id].version = 0
    <2>1. \A pid, ttl : /\ Acquired(NoTask, pid, ttl).state = "acquired"
                       /\ Acquired(NoTask, pid, ttl).version = 1
      BY DEF Acquired, NoTask
    <2>2. Fulfilled(NoTask).state = "fulfilled" /\ Fulfilled(NoTask).version = 0
      BY DEF Fulfilled, Unheld, NoTask
    <2>3. QED
      BY <1>2, <2>1, <2>2
  <1>4. tasks[id].state = "absent" /\ tasks[id].version = 0
    BY <1>1, NoTaskYet
  <1>5. (tasks'[id].state = "acquired" /\ tasks'[id].version = 1)
        \/ \E to \in {"pending", "fulfilled"} : Goes(id, {"absent"}, to)
    BY <1>3, <1>4 DEF Goes
  <1>6. QED
    BY <1>1, <1>5, BirthMoves

LEMMA RegisterMoves ==
  ASSUME MInv, NEW p \in Ids, NEW t,
         \/ \E awaiter \in Ids : PromiseRegisterCallback(p, awaiter, t)
         \/ \E address \in Addresses : PromiseRegisterListener(p, address, t)
  PROVE  Moves
  <1>1. \A x \in Ids : SameOutcome(x)
    BY DEF PromiseRegisterCallback, PromiseRegisterListener, SameOutcome, MInv,
       IInv, TypeOK, Promise
  <1>2. tasks' = tasks
    BY DEF PromiseRegisterCallback, PromiseRegisterListener
  <1>3. QED
    BY <1>1, <1>2, QuietMoves DEF TaskMoves, Stands

LEMMA ClaimMoves ==
  ASSUME MInv, NEW id \in Ids, NEW pid, NEW ttl, NEW t, Claim(id, pid, ttl, t)
  PROVE  Moves
  <1>1. tasks[id] \in Task /\ tasks'[id] = Acquired(tasks[id], pid, ttl)
    BY DEF Claim, MInv, IInv, TypeOK
  <1>2. TaskMoves(id)
    <2>1. /\ tasks'[id].state = "acquired"
          /\ tasks'[id].version = tasks[id].version + 1
      BY <1>1 DEF Acquired, Task
    <2>2. tasks[id].state = "pending"
      BY DEF Claim
    <2>3. QED
      BY <2>1, <2>2 DEF TaskMoves, IsClaimed
  <1>3. \A x \in Ids \ {id} : tasks'[x] = tasks[x]
    BY DEF Claim, MInv, IInv, TypeOK
  <1>4. QED
    BY <1>2, <1>3, OneTaskMoves DEF Claim, SameOutcome

LEMMA HandBackMoves ==
  ASSUME MInv, NEW id \in Ids, NEW version, NEW t,
         TaskRelease(id, version, t) \/ TaskContinue(id, t) \/ TaskHalt(id)
  PROVE  Moves
  <1>1. tasks[id] \in Task /\ promises' = promises
    BY DEF TaskRelease, TaskContinue, TaskHalt, Redispatch, MInv, IInv, TypeOK
  <1>2. \A x \in Ids \ {id} : tasks'[x] = tasks[x]
    BY DEF TaskRelease, TaskContinue, TaskHalt, Redispatch, MInv, IInv, TypeOK
  <1>3. TaskMoves(id)
    <2>1. CASE TaskRelease(id, version, t)
      <3>1. tasks[id].state = "acquired" /\ tasks'[id] = Unheld(tasks[id], "pending")
        BY <2>1 DEF TaskRelease, Redispatch, Gate, MInv, IInv, TypeOK
      <3>2. QED
        BY <1>1, <3>1 DEF Unheld, Task, TaskMoves, Goes
    <2>2. CASE TaskContinue(id, t)
      <3>1. /\ tasks[id].state = "halted"
            /\ tasks'[id] = [tasks[id] EXCEPT !.state = "pending"]
        BY <2>2 DEF TaskContinue, Redispatch, MInv, IInv, TypeOK
      <3>2. QED
        BY <1>1, <3>1 DEF Task, TaskMoves, Goes
    <2>3. CASE TaskHalt(id)
      <3>1. /\ tasks[id].state \in {"pending", "acquired", "suspended"}
            /\ tasks'[id] = Unheld(tasks[id], "halted")
        BY <1>1, <2>3 DEF TaskHalt, MInv, IInv, TypeOK, Task, TaskStates
      <3>2. QED
        BY <1>1, <3>1 DEF Unheld, Task, TaskMoves, Goes
    <2>4. QED
      BY <2>1, <2>2, <2>3
  <1>4. QED
    BY <1>1, <1>2, <1>3, OneTaskMoves DEF SameOutcome

LEMMA SuspendMoves ==
  ASSUME MInv, NEW id \in Ids, NEW version, NEW A \in SUBSET Ids,
         NEW t \in Stamps,
         TaskSuspend(id, version, A, t) \/ TaskSuspendRefused(id, version, A, t)
  PROVE  Moves
  <1>1. tasks[id] \in Task /\ tasks[id].state = "acquired" /\ Fresh(id, t)
    BY DEF TaskSuspend, TaskSuspendRefused, SuspendGate, Gate, MInv, IInv, TypeOK
  <1>2. \A x \in Ids \ {id} : tasks'[x] = tasks[x]
    BY DEF TaskSuspend, TaskSuspendRefused, MInv, IInv, TypeOK
  <1>3. \A x \in Ids : SameOutcome(x)
    BY DEF TaskSuspend, TaskSuspendRefused, SameOutcome, MInv, IInv, TypeOK, Promise
  <1>4. TaskMoves(id)
    <2>1. CASE TaskSuspend(id, version, A, t)
      <3>1. tasks'[id] = [Unheld(tasks[id], "suspended") EXCEPT !.resumes = {}]
        BY <2>1 DEF TaskSuspend, MInv, IInv, TypeOK
      <3>2. QED
        BY <1>1, <3>1 DEF Unheld, Task, TaskMoves, IsParked, Goes
    <2>2. CASE TaskSuspendRefused(id, version, A, t)
      <3>1. tasks'[id] = [tasks[id] EXCEPT !.resumes = {}]
        BY <2>2 DEF TaskSuspendRefused, MInv, IInv, TypeOK
      <3>2. QED
        BY <1>1, <3>1 DEF Task, TaskMoves, Stands
    <2>3. QED
      BY <2>1, <2>2
  <1>5. QED
    BY <1>2, <1>3, <1>4, OneTaskMoves

-----------------------------------------------------------------------------
(* Steps that settle.  All of them are cascades: S settles as settled says, *)
(* the leases of Lost end, and Born is created.                             *)

Cascades(S, settled, Lost, Born) ==
  /\ CanSettle(S, settled)
  /\ \A id \in Lost : id \notin S /\ tasks[id].state = "acquired"
  /\ \A id \in Born : promises[id].state = "absent"
  /\ \A id \in Ids \ Born :
       /\ promises'[id] = CascadePromises(settled)[id]
       /\ tasks'[id] = IF id \in Lost
                       THEN Unheld(CascadeTasks(S)[id], "pending")
                       ELSE CascadeTasks(S)[id]
  /\ CascadeMessages(S) \subseteq queue'

LEMMA CascadeTaskMoves ==
  ASSUME MInv, TypeOK', Consistent', NEW S \in SUBSET Ids,
         NEW settled \in [S -> Promise], NEW Lost \in SUBSET Ids,
         NEW Born \in SUBSET Ids, Cascades(S, settled, Lost, Born),
         NEW id \in Ids \ Born
  PROVE  TaskMoves(id)
  <1> DEFINE task == CascadeTasks(S)[id]
  <1>1. TypeOK /\ tasks[id] \in Task /\ task \in Task
    BY CascadeTasksType DEF MInv, IInv, TypeOK
  <1>2. tasks[id].state \in {"absent", "fulfilled"} \cup Live
    BY <1>1 DEF Task, TaskStates, Live
  <1>3. task.version = tasks[id].version
    BY <1>1 DEF CascadeTasks, Fulfilled, Unheld, Resumed, Task
  <1>4. CASE id \in Lost
    <2>1. id \notin S /\ tasks[id].state = "acquired"
      BY <1>4 DEF Cascades
    <2>2. tasks'[id] = Unheld(task, "pending")
      BY <1>4 DEF Cascades
    <2>3. tasks'[id].state = "pending" /\ tasks'[id].version = task.version
      BY <1>1, <2>2 DEF Unheld, Task
    <2>4. QED
      BY <1>3, <2>1, <2>3 DEF TaskMoves, Goes
  <1>5. CASE id \in Woken(S)
    <2>1. tasks'[id] = task
      BY <1>5 DEF Cascades, Woken
    <2>2. task.state = "pending" /\ tasks[id].state = "suspended"
      BY <1>1, <1>5, CascadeTasksShape
    <2>3. \E p \in Ids \ {id} : promises'[p].state \in SettledStates
      <3>1. PICK p \in S : id \in promises[p].callbacks
        BY <1>5 DEF Woken, Awakening
      <3>2. p # id
        BY <1>5 DEF Woken
      <3>3. p \notin Born /\ p \in Ids
        BY DEF Cascades, CanSettle
      <3>4. promises'[p] = settled[p]
        BY <3>3 DEF Cascades, CascadePromises
      <3>5. QED
        BY <3>2, <3>3, <3>4 DEF Cascades, CanSettle
    <2>4. QED
      BY <1>3, <2>1, <2>2, <2>3 DEF TaskMoves, IsWoken, Goes
  <1>6. CASE id \notin Lost \cup Woken(S)
    <2>1. tasks'[id] = task
      BY <1>6 DEF Cascades
    <2>2. CASE id \in S /\ tasks[id].state \in Live
      <3>1. task.state = "fulfilled"
        BY <1>1, <2>2, CascadeTasksShape DEF Live
      <3>2. QED
        BY <1>3, <2>1, <2>2, <3>1 DEF TaskMoves, Goes
    <2>3. CASE id \in S /\ tasks[id].state \notin Live
      <3>1. promises[id].state = "pending"
        BY <2>3 DEF Cascades, CanSettle
      <3>2. tasks[id].state = "absent"
        BY <1>2, <2>3, <3>1 DEF MInv, IInv, Consistent, Lockstep, SettledStates
      <3>3. QED
        BY <1>1, <1>3, <2>1, <3>2, CascadeTasksShape DEF TaskMoves, Stands
    <2>4. CASE id \notin S
      <3>1. task.state = tasks[id].state
        BY <1>1, <1>6, <2>4, CascadeTasksShape
      <3>2. QED
        BY <1>3, <2>1, <3>1 DEF TaskMoves, Stands
    <2>5. QED
      BY <2>2, <2>3, <2>4
  <1>7. QED
    BY <1>4, <1>5, <1>6

\* An awaiter of a promise of S ends with the cascade or has the wake-up.
LEMMA CascadeWakes ==
  ASSUME MInv, NEW S \in SUBSET Ids, NEW settled \in [S -> Promise],
         NEW Lost \in SUBSET Ids, NEW Born \in SUBSET Ids,
         Cascades(S, settled, Lost, Born),
         NEW p \in S, NEW id \in promises[p].callbacks
  PROVE  \/ tasks'[id].state = "fulfilled"
         \/ /\ p \in tasks'[id].resumes
            /\ tasks'[id].state \in {"pending", "acquired", "halted"}
  <1> DEFINE task == CascadeTasks(S)[id]
  <1>1. /\ TypeOK /\ id \in Ids /\ id # p
        /\ tasks[id].state \in Live /\ promises[id].state = "pending"
    BY DEF MInv, IInv, TypeOK, Promise, Consistent, RegistrationsLive, Lockstep
  <1>2. tasks[id] \in Task /\ task \in Task
    BY <1>1, CascadeTasksType DEF TypeOK
  <1>3. id \notin Born
    BY <1>1 DEF Cascades
  <1>4. p \in Awakening(S, id)
    BY DEF Awakening
  <1>5. CASE id \in S
    <2>1. tasks'[id] = task
      BY <1>1, <1>3, <1>5 DEF Cascades
    <2>2. QED
      BY <1>1, <1>5, <2>1, CascadeTasksShape DEF Live
  <1>6. CASE id \notin S
    <2>1. task = Resumed(S, id)
      BY <1>1, <1>6 DEF CascadeTasks, Live
    <2>2. p \in task.resumes /\ task.state \in {"pending", "acquired", "halted"}
      <3>1. CASE id \in Woken(S)
        <4>1. tasks[id].state \notin {"pending", "acquired", "halted"}
          BY <3>1 DEF Woken
        <4>2. task = [tasks[id] EXCEPT !.state = "pending",
                                       !.resumes = Awakening(S, id)]
          BY <2>1, <3>1, <4>1 DEF Resumed
        <4>3. QED
          BY <1>2, <1>4, <4>2 DEF Task
      <3>2. CASE id \notin Woken(S)
        <4>1. tasks[id].state \in {"pending", "acquired", "halted"}
          BY <1>1, <1>4, <1>6, <3>2 DEF Woken, Live
        <4>2. task = [tasks[id] EXCEPT !.resumes = @ \cup Awakening(S, id)]
          BY <2>1, <3>2, <4>1 DEF Resumed
        <4>3. QED
          BY <1>2, <1>4, <4>1, <4>2 DEF Task
      <3>3. QED
        BY <3>1, <3>2
    <2>3. CASE id \in Lost
      <3>1. tasks'[id] = Unheld(task, "pending")
        BY <1>1, <1>3, <2>3 DEF Cascades
      <3>2. QED
        BY <1>2, <2>2, <3>1 DEF Unheld, Task
    <2>4. CASE id \notin Lost
      BY <1>1, <1>3, <2>2, <2>4 DEF Cascades
    <2>5. QED
      BY <2>3, <2>4
  <1>7. QED
    BY <1>5, <1>6

LEMMA CascadeWakesAll ==
  ASSUME MInv, NEW S \in SUBSET Ids, NEW settled \in [S -> Promise],
         NEW Lost \in SUBSET Ids, NEW Born \in SUBSET Ids,
         Cascades(S, settled, Lost, Born), NEW p \in Ids
  PROVE  WakesAll(p)
  <1>1. TypeOK
    BY DEF MInv, IInv
  <1>2. CASE p \in S
    <2>1. \A a \in promises[p].listeners : Unblock(p, a) \in queue'
      BY <1>2 DEF Cascades, CascadeMessages
    <2>2. QED
      BY <1>2, <2>1, CascadeWakes DEF WakesAll
  <1>3. CASE p \notin S /\ promises[p].state = "pending"
    <2>1. p \notin Born
      BY <1>3 DEF Cascades
    <2>2. promises'[p].state = "pending"
      BY <1>1, <1>3, <2>1, CascadePromisesShape DEF Cascades, PromiseAfter
    <2>3. QED
      BY <2>2 DEF WakesAll
  <1>4. QED
    BY <1>2, <1>3 DEF WakesAll

LEMMA CascadeSameOutcome ==
  ASSUME TypeOK, NEW S \in SUBSET Ids, NEW settled \in [S -> Promise],
         NEW id \in Ids, id \notin S,
         promises'[id] = CascadePromises(settled)[id]
  PROVE  SameOutcome(id)
  BY DEF CascadePromises, SameOutcome, TypeOK, Promise

\* promise.settle and task.fulfill.
LEMMA SettleMoves ==
  ASSUME MInv, TypeOK', Consistent', NEW id \in Ids,
         NEW state \in SettledStates, NEW t \in Stamps, Fresh(id, t),
         Settle(id, state, t)
  PROVE  Moves
  <1> DEFINE settled == [p \in {id} |-> Settled(promises[p], state, t)]
  <1>1. TypeOK /\ promises[id] \in Promise /\ t \in Nat
    BY DEF MInv, IInv, TypeOK, Stamps
  <1>2. Settled(promises[id], state, t) \in Promise
    BY <1>1, SettledType
  <1>3. settled \in [{id} -> Promise]
    BY <1>2
  <1>4. CanSettle({id}, settled) /\ settled[id].state = state
    BY <1>1 DEF CanSettle, Settled, Promise, Fresh
  <1>5. promises' = CascadePromises(settled)
    BY DEF Settle
  <1> HIDE DEF settled
  <1>6. Cascades({id}, settled, {}, {})
    BY <1>4, <1>5 DEF Cascades, Settle, Emit
  <1>7. PromiseMoves(id)
    <2>1. promises'[id].state = state
      BY <1>3, <1>4, <1>5 DEF CascadePromises
    <2>2. QED
      BY <2>1 DEF PromiseMoves, OutcomeWritten, Fresh
  <1>8. \A x \in Ids \ {id} : PromiseMoves(x)
    BY <1>1, <1>3, <1>5, CascadeSameOutcome DEF PromiseMoves
  <1>9. \A x \in Ids : TaskMoves(x) /\ WakesAll(x)
    BY <1>3, <1>6, CascadeTaskMoves, CascadeWakesAll
  <1>10. QED
    BY <1>7, <1>8, <1>9 DEF Moves

LEMMA TickIsCascade ==
  ASSUME MInv, NEW t \in Nat, NEW fire \in [FiredIds(t) -> Firings(t)],
         TickWith(fire, t)
  PROVE  /\ DuePromises(t) \in SUBSET Ids
         /\ TimedOut(t) \in [DuePromises(t) -> Promise]
         /\ LeaseLost(t) \in SUBSET Ids /\ FiredIds(t) \in SUBSET Ids
         /\ Cascades(DuePromises(t), TimedOut(t), LeaseLost(t), FiredIds(t))
  <1>1. /\ DuePromises(t) \in SUBSET Ids
        /\ TimedOut(t) \in [DuePromises(t) -> Promise]
    BY DuePromisesType DEF MInv, IInv
  <1>2. /\ LeaseLost(t) \in SUBSET Ids /\ FiredIds(t) \in SUBSET Ids
        /\ \A id \in FiredIds(t) : promises[id].state = "absent"
        /\ \A id \in LeaseLost(t) :
             id \notin DuePromises(t) /\ tasks[id].state = "acquired"
    BY DEF LeaseLost, DueTasks, FiredIds
  <1>3. CanSettle(DuePromises(t), TimedOut(t))
    <2>1. ASSUME NEW p \in DuePromises(t)
          PROVE  /\ promises[p].state = "pending"
                 /\ TimedOut(t)[p].state \in SettledStates
                 /\ TimedOut(t)[p].callbacks = {}
                 /\ TimedOut(t)[p].listeners = {}
      <3>1. promises[p] \in Promise
        BY <1>1 DEF MInv, IInv, TypeOK
      <3>2. TimedOutState(promises[p].tags) \in SettledStates
        BY DEF TimedOutState, SettledStates
      <3>3. TimedOut(t)[p] = Settled(promises[p], TimedOutState(promises[p].tags),
                                     promises[p].timeoutAt)
        BY DEF TimedOut
      <3>4. QED
        BY <3>1, <3>2, <3>3 DEF Settled, Promise, DuePromises
    <2>2. QED
      BY <2>1 DEF CanSettle
  <1>4. \A id \in Ids \ FiredIds(t) :
          /\ promises'[id] = CascadePromises(TimedOut(t))[id]
          /\ tasks'[id] = TickTask(id, t)
    BY DEF TickWith
  <1>5. CascadeMessages(DuePromises(t)) \subseteq queue'
    BY DEF TickWith, Emit, TickMessages
  <1>6. QED
    BY <1>1, <1>2, <1>3, <1>4, <1>5 DEF Cascades, TickTask

LEMMA TickMoves ==
  ASSUME MInv, TypeOK', Consistent', NEW t \in Stamps, Tick(t)
  PROVE  Moves
  <1>1. PICK fire \in [FiredIds(t) -> Firings(t)] : TickWith(fire, t)
    BY DEF Tick
  <1>2. TypeOK /\ t \in Nat
    BY DEF MInv, IInv, TypeOK, Stamps
  <1>3. /\ DuePromises(t) \in SUBSET Ids
        /\ TimedOut(t) \in [DuePromises(t) -> Promise]
        /\ LeaseLost(t) \in SUBSET Ids /\ FiredIds(t) \in SUBSET Ids
        /\ Cascades(DuePromises(t), TimedOut(t), LeaseLost(t), FiredIds(t))
    BY <1>1, <1>2, TickIsCascade
  <1>4. ASSUME NEW id \in FiredIds(t)
        PROVE  PromiseMoves(id) /\ TaskMoves(id)
    <2>1. id \in Ids /\ promises[id].state = "absent"
      BY DEF FiredIds
    <2>2. tasks[id].state = "absent" /\ tasks[id].version = 0
      BY <2>1, NoTaskYet
    <2>3. fire[id] \in Firings(t)
      OBVIOUS
    <2>4. FiringTags(fire[id]) \in Tags
      BY <1>2, <2>3, FiringType DEF FiringTags
    <2>5. tasks'[id] = NewTask(FiringTags(fire[id]), FiringTimeout(fire[id]),
                               fire[id][2])
      BY <1>1, <2>1 DEF TickWith
    <2>6. TaskMoves(id)
      BY <2>1, <2>2, <2>4, <2>5, NewTaskVersion DEF TaskMoves, Stands, Begins, Goes
    <2>7. QED
      BY <2>1, <2>6 DEF PromiseMoves
  <1>5. ASSUME NEW id \in DuePromises(t)
        PROVE  PromiseMoves(id)
    <2>1. /\ id \in Ids /\ promises[id].state = "pending"
          /\ promiseTimeouts[id] # NotSet /\ promiseTimeouts[id] <= t
      BY DEF DuePromises
    <2>2. promises[id].timeoutAt <= t
      BY <2>1 DEF MInv, IInv, Consistent, DeadlineArmed
    <2>3. id \notin FiredIds(t)
      BY <2>1 DEF FiredIds
    <2>4. promises'[id] = Settled(promises[id], TimedOutState(promises[id].tags),
                                  promises[id].timeoutAt)
      BY <1>3, <2>1, <2>3 DEF Cascades, CascadePromises, TimedOut
    <2>5. /\ promises'[id].state = TimedOutState(promises[id].tags)
          /\ promises'[id].settledAt = promises[id].timeoutAt
      BY <1>2, <2>1, <2>4 DEF Settled, TypeOK, Promise
    <2>6. TimedOutState(promises[id].tags) \in SettledStates
      BY DEF TimedOutState, SettledStates
    <2>7. QED
      BY <2>1, <2>2, <2>5, <2>6 DEF PromiseMoves, OutcomeWritten
  <1>6. \A id \in Ids \ (FiredIds(t) \cup DuePromises(t)) : PromiseMoves(id)
    BY <1>2, <1>3, CascadeSameOutcome DEF Cascades, PromiseMoves
  <1>7. \A id \in Ids \ FiredIds(t) : TaskMoves(id)
    BY <1>3, CascadeTaskMoves
  <1>8. \A id \in Ids : WakesAll(id)
    BY <1>3, CascadeWakesAll
  <1>9. QED
    BY <1>4, <1>5, <1>6, <1>7, <1>8 DEF Moves

-----------------------------------------------------------------------------
(* Every step. *)

LEMMA PromiseNextMoves ==
  ASSUME MInv, TypeOK', Consistent', PromiseNext
  PROVE  Moves
  <1>1. ASSUME NEW id \in Ids, NEW t \in Stamps,
               \E tags \in TagSets, timeoutAt \in Timeouts :
                 PromiseCreate(id, tags, timeoutAt, t)
        PROVE  Moves
    BY <1>1, PromiseCreateMoves, ServerAssumption
  <1>2. ASSUME NEW id \in Ids, NEW t \in Stamps,
               \E state \in Outcomes : PromiseSettle(id, state, t)
        PROVE  Moves
    BY <1>2, SettleMoves, ServerAssumption DEF PromiseSettle
  <1>3. ASSUME NEW id \in Ids, NEW t \in Stamps,
               \/ \E awaiter \in Ids : PromiseRegisterCallback(id, awaiter, t)
               \/ \E address \in Addresses : PromiseRegisterListener(id, address, t)
        PROVE  Moves
    BY <1>3, RegisterMoves
  <1>4. QED
    BY <1>1, <1>2, <1>3 DEF PromiseNext

LEMMA TaskCreateNextMoves ==
  ASSUME MInv, TaskCreateNext
  PROVE  Moves
  <1>1. ASSUME NEW id \in Ids, NEW t \in Stamps,
               \E pid \in Pids, ttl \in Ttls : TaskCreateReacquire(id, pid, ttl, t)
        PROVE  Moves
    BY <1>1, ClaimMoves DEF TaskCreateReacquire
  <1>2. ASSUME NEW id \in Ids, NEW t \in Stamps, NEW tags \in TagSets,
               NEW timeoutAt \in Timeouts,
               \/ \E pid \in Pids, ttl \in Ttls :
                    TaskCreateAcquired(id, tags, timeoutAt, pid, ttl, t)
               \/ TaskCreateExpired(id, tags, timeoutAt, t)
        PROVE  Moves
    BY <1>2, TaskCreateMoves
  <1>3. QED
    BY <1>1, <1>2 DEF TaskCreateNext

LEMMA TaskNextMoves ==
  ASSUME MInv, TypeOK', Consistent', TaskNext
  PROVE  Moves
  <1>1. ASSUME NEW id \in Ids, NEW t \in Stamps, NEW version \in 0..MaxVersion,
               \E pid \in Pids, ttl \in Ttls : TaskAcquire(id, version, pid, ttl, t)
        PROVE  Moves
    BY <1>1, ClaimMoves DEF TaskAcquire
  <1>2. ASSUME NEW id \in Ids, NEW t \in Stamps, NEW version \in 0..MaxVersion,
               \E child \in Ids, tags \in TagSets, timeoutAt \in Timeouts :
                 TaskFenceCreate(id, version, child, tags, timeoutAt, t)
        PROVE  Moves
    BY <1>2, PromiseCreateMoves, ServerAssumption DEF TaskFenceCreate
  <1>3. ASSUME NEW id \in Ids, NEW t \in Stamps, NEW version \in 0..MaxVersion,
               \E child \in Ids, state \in Outcomes :
                 TaskFenceSettle(id, version, child, state, t)
        PROVE  Moves
    BY <1>3, SettleMoves, ServerAssumption DEF TaskFenceSettle, PromiseSettle
  <1>4. ASSUME NEW id \in Ids, NEW t \in Stamps, NEW version \in 0..MaxVersion,
               \E state \in Outcomes : TaskFulfill(id, version, state, t)
        PROVE  Moves
    BY <1>4, SettleMoves, ServerAssumption DEF TaskFulfill, Gate
  <1>5. ASSUME NEW id \in Ids, NEW t \in Stamps, NEW version \in 0..MaxVersion,
               TaskRelease(id, version, t)
        PROVE  Moves
    BY <1>5, HandBackMoves
  <1>6. ASSUME NEW id \in Ids, NEW t \in Stamps, NEW version \in 0..MaxVersion,
               \E A \in SUBSET Ids : \/ TaskSuspendRefused(id, version, A, t)
                                    \/ TaskSuspend(id, version, A, t)
        PROVE  Moves
    BY <1>6, SuspendMoves
  <1>7. ASSUME NEW pid \in Pids, NEW refs, NEW t, TaskHeartbeat(pid, refs, t)
        PROVE  Moves
    BY <1>7, SameMoves DEF TaskHeartbeat
  <1>8. QED
    BY <1>1, <1>2, <1>3, <1>4, <1>5, <1>6, <1>7 DEF TaskNext

LEMMA StepMoves ==
  ASSUME MInv, TypeOK', Consistent', [Next]_vars, DebugTimes = {}
  PROVE  Moves
  <1>1. CASE PromiseNext
    BY <1>1, PromiseNextMoves
  <1>2. CASE TaskCreateNext
    BY <1>2, TaskCreateNextMoves
  <1>3. CASE TaskNext
    BY <1>3, TaskNextMoves
  <1>4. CASE TaskControlNext
    BY <1>4, HandBackMoves DEF TaskControlNext
  <1>5. CASE TickNext
    BY <1>5, TickMoves DEF TickNext
  <1>6. CASE ScheduleNext \/ Advance \/ UNCHANGED vars
    BY <1>6, SameMoves DEF ScheduleNext, ScheduleCreate, ScheduleDelete, Advance,
       vars, store
  <1>7. ~DebugTick /\ ~DebugReset
    BY DEF DebugTick, DebugReset
  <1>8. QED
    BY <1>1, <1>2, <1>3, <1>4, <1>5, <1>6, <1>7 DEF Next

LEMMA MovesKeepVersions ==
  ASSUME MInv, TypeOK', Moves
  PROVE  VersionsStart'
  <1>1. ASSUME NEW id \in Ids, tasks'[id].state = "absent"
        PROVE  tasks'[id].version = 0
    <2>1. Stands(id)
      BY <1>1 DEF Moves, TaskMoves, Begins, IsClaimed, IsParked, IsWoken, Goes
    <2>2. QED
      BY <1>1, <2>1 DEF Stands, MInv, VersionsStart
  <1>2. QED
    BY <1>1 DEF VersionsStart

LEMMA VersionsGrow ==
  ASSUME MInv, MInv', Moves, NEW id \in Ids
  PROVE  /\ tasks[id].version \in Nat /\ tasks'[id].version \in Nat
         /\ tasks[id].version <= tasks'[id].version
  <1>1. tasks[id].version \in Nat /\ tasks'[id].version \in Nat
    BY DEF MInv, IInv, TypeOK, Task
  <1>2. TaskMoves(id)
    BY DEF Moves
  <1>3. tasks'[id].version \in {tasks[id].version, tasks[id].version + 1}
    BY <1>2 DEF TaskMoves, Stands, Begins, IsClaimed, IsParked, IsWoken, Goes
  <1>4. QED
    BY <1>1, <1>3

LEMMA MovesStep ==
  ASSUME MInv, [Next]_vars, DebugTimes = {}
  PROVE  MInv' /\ Moves
  <1>1. IInv'
    BY ConsistentStep DEF MInv
  <1>2. Moves
    BY <1>1, StepMoves DEF IInv
  <1>3. QED
    BY <1>1, <1>2, MovesKeepVersions DEF MInv, IInv

LEMMA MovesInit ==
  ASSUME Init
  PROVE  MInv
  BY TypeInit, EmptyStoreConsistent DEF Init, MInv, IInv, VersionsStart, NoTask

THEOREM MovesInvariance ==
  ASSUME DebugTimes = {}
  PROVE  Spec => []MInv
  BY MovesInit, MovesStep, PTL DEF Spec

Fences(id) ==
  \/ /\ tasks'[id].version = tasks[id].version
     /\ tasks'[id].state = "acquired" => tasks[id].state = "acquired"
  \/ /\ tasks[id].state \in {"absent", "pending"}
     /\ tasks'[id].state = "acquired"
     /\ tasks'[id].version = tasks[id].version + 1

LEMMA MovesFence ==
  ASSUME Moves
  PROVE  \A id \in Ids : Fences(id)
  <1>1. \A id \in Ids : TaskMoves(id) => Fences(id)
    BY DEF TaskMoves, Stands, Begins, IsClaimed, IsParked, IsWoken, Goes, Fences
  <1>2. QED
    BY <1>1 DEF Moves

\* A version is a fencing token: every grant of a claim raises it by one, and
\* nothing else changes it, in requests of any order and any clock lag.
THEOREM TokensFence ==
  ASSUME DebugTimes = {}
  PROVE  Spec => FencingTokens
  <1>1. MInv /\ [Next]_vars => \A id \in Ids : Fences(id)
    BY MovesStep, MovesFence
  <1>2. QED
    BY <1>1, MovesInvariance, PTL DEF Spec, FencingTokens, Fences

\* A settlement reaches every registered awaiter and listener, whether one
\* request settles one promise or one tick settles many.
THEOREM WakeupsArrive ==
  ASSUME DebugTimes = {}
  PROVE  Spec => NoLostWakeup
  <1>1. MInv /\ [Next]_vars => \A p \in Ids : WakesAll(p)
    BY MovesStep DEF Moves
  <1>2. QED
    BY <1>1, MovesInvariance, PTL DEF Spec, NoLostWakeup, WakesAll

-----------------------------------------------------------------------------
(* What is seen of a promise. *)

LEMMA OnlyNow ==
  ASSUME TypeOK, ClockLag = 0
  PROVE  Stamps = {now}
  BY DEF Stamps, TypeOK

LEMMA ClockGrows ==
  ASSUME TypeOK, [Next]_vars
  PROVE  now' \in Nat /\ now \in Nat /\ now' >= now
  <1>1. now \in Nat
    BY DEF TypeOK
  <1>2. now' = now \/ now' = now + 1
    <2>1. CASE PromiseNext
      BY <2>1 DEF PromiseNext, PromiseCreate, PromiseSettle, Settle,
         PromiseRegisterCallback, PromiseRegisterListener
    <2>2. CASE TaskCreateNext
      BY <2>2 DEF TaskCreateNext, TaskCreateReacquire, TaskCreateAcquired,
         TaskCreateExpired, Claim
    <2>3. CASE TaskNext
      <3>1. \A id, version, t, pid, ttl :
              TaskAcquire(id, version, pid, ttl, t) => now' = now
        BY DEF TaskAcquire, Claim
      <3>2. \A id, version, t, child, tags, timeoutAt :
              TaskFenceCreate(id, version, child, tags, timeoutAt, t) => now' = now
        BY DEF TaskFenceCreate, PromiseCreate
      <3>3. \A id, version, t, child, state :
              /\ TaskFenceSettle(id, version, child, state, t) => now' = now
              /\ TaskFulfill(id, version, state, t) => now' = now
        BY DEF TaskFenceSettle, PromiseSettle, TaskFulfill, Settle
      <3>4. \A id, version, t, A :
              /\ TaskRelease(id, version, t) => now' = now
              /\ TaskSuspendRefused(id, version, A, t) => now' = now
              /\ TaskSuspend(id, version, A, t) => now' = now
        BY DEF TaskRelease, Redispatch, TaskSuspendRefused, TaskSuspend
      <3>5. \A pid, refs, t : TaskHeartbeat(pid, refs, t) => now' = now
        BY DEF TaskHeartbeat
      <3>6. QED
        BY <2>3, <3>1, <3>2, <3>3, <3>4, <3>5 DEF TaskNext
    <2>4. CASE TaskControlNext \/ ScheduleNext
      BY <2>4 DEF TaskControlNext, TaskHalt, TaskContinue, Redispatch,
         ScheduleNext, ScheduleCreate, ScheduleDelete
    <2>5. CASE TickNext \/ DebugTick
      BY <2>5 DEF TickNext, DebugTick, Tick, TickWith
    <2>6. CASE DebugReset \/ Advance \/ UNCHANGED vars
      BY <2>6 DEF DebugReset, Advance, vars
    <2>7. QED
      BY <2>1, <2>2, <2>3, <2>4, <2>5, <2>6 DEF Next
  <1>3. QED
    BY <1>1, <1>2

\* What a reader sees of a promise follows the moves of its record.

LEMMA ProjectedShape ==
  ASSUME NEW p \in Promise, NEW t \in Nat
  PROVE  /\ p.state = "pending" /\ p.timeoutAt <= t =>
              /\ Projected(p, t).state = TimedOutState(p.tags)
              /\ Projected(p, t).settledAt = p.timeoutAt
         /\ ~(p.state = "pending" /\ p.timeoutAt <= t) => Projected(p, t) = p
         /\ TimedOutState(p.tags) \in SettledStates
  BY DEF Projected, Promise, TimedOutState, SettledStates

LEMMA ObservationMoves ==
  ASSUME MInv, MInv', Moves, ClockLag = 0, NEW id \in Ids,
         now' \in Nat, now \in Nat, now' >= now
  PROVE  LET seen == Projected(promises[id], now)
             next == Projected(promises'[id], now')
         IN  /\ seen.state \in SettledStates =>
                  next.state = seen.state /\ next.settledAt = seen.settledAt
             /\ seen.state = "pending" =>
                  next.state \in {"pending"} \cup SettledStates
  <1> DEFINE seen == Projected(promises[id], now)
             next == Projected(promises'[id], now')
  <1>1. promises[id] \in Promise /\ promises'[id] \in Promise
    BY DEF MInv, IInv, TypeOK
  <1>2. Stamps = {now}
    BY OnlyNow DEF MInv, IInv
  <1>3. {"pending", "absent"} \cap SettledStates = {}
    BY DEF SettledStates
  <1>4. PromiseMoves(id)
    BY DEF Moves
  <1>5. CASE promises[id].state = "absent"
    BY <1>1, <1>3, <1>5, ProjectedShape
  <1>6. CASE promises[id].state # "absent" /\ SameOutcome(id)
    <2>1. promises[id].timeoutAt \in Int
      BY <1>1 DEF Promise
    <2>2. promises[id].state \in {"pending"} \cup SettledStates
      BY <1>1, <1>6 DEF Promise, PromiseStates
    <2>3. CASE promises[id].state = "pending" /\ promises[id].timeoutAt <= now
      <3>1. promises'[id].state = "pending" /\ promises'[id].timeoutAt <= now'
        BY <1>6, <2>1, <2>3 DEF SameOutcome
      <3>2. QED
        BY <1>1, <1>3, <1>6, <2>3, <3>1, ProjectedShape DEF SameOutcome
    <2>4. CASE ~(promises[id].state = "pending" /\ promises[id].timeoutAt <= now)
      <3>1. seen = promises[id]
        BY <1>1, <2>4, ProjectedShape
      <3>2. CASE promises[id].state = "pending"
        BY <1>1, <1>3, <1>6, <3>1, <3>2, ProjectedShape DEF SameOutcome
      <3>3. CASE promises[id].state \in SettledStates
        BY <1>1, <1>3, <1>6, <3>1, <3>3, ProjectedShape DEF SameOutcome
      <3>4. QED
        BY <2>2, <3>2, <3>3
    <2>5. QED
      BY <2>3, <2>4
  <1>7. CASE /\ promises[id].state = "pending"
             /\ promises'[id].state \in SettledStates
             /\ OutcomeWritten(id)
    <2>1. next = promises'[id]
      BY <1>1, <1>3, <1>7, ProjectedShape
    <2>2. promises[id].timeoutAt \in Int
      BY <1>1 DEF Promise
    <2>3. CASE Fresh(id, now)
      <3>1. seen = promises[id]
        BY <1>1, <2>2, <2>3, ProjectedShape DEF Fresh
      <3>2. QED
        BY <1>3, <1>7, <2>1, <3>1
    <2>4. CASE /\ promises[id].timeoutAt <= now
               /\ promises'[id].state = TimedOutState(promises[id].tags)
               /\ promises'[id].settledAt = promises[id].timeoutAt
      BY <1>1, <1>3, <1>7, <2>1, <2>4, ProjectedShape
    <2>5. QED
      BY <1>2, <1>7, <2>3, <2>4 DEF OutcomeWritten
  <1>8. QED
    BY <1>4, <1>5, <1>6, <1>7 DEF PromiseMoves

\* A settled observation is final: by a record or by its deadline, a promise
\* is seen with one outcome and one time of settlement.
THEOREM ObservationsAreFinal ==
  ASSUME DebugTimes = {}, ClockLag = 0
  PROVE  Spec => ObservationStable
  <1>1. MInv /\ [Next]_vars =>
          \A id \in Ids :
            LET seen == Projected(promises[id], now)
                next == Projected(promises'[id], now')
            IN  seen.state \in SettledStates =>
                  next.state = seen.state /\ next.settledAt = seen.settledAt
    BY MovesStep, ClockGrows, ObservationMoves DEF MInv, IInv
  <1>2. QED
    BY <1>1, MovesInvariance, PTL DEF Spec, ObservationStable

-----------------------------------------------------------------------------
(* The refinement. *)

LEMMA InitRefines ==
  ASSUME Init
  PROVE  Abstract!Init
  <1>1. \A id \in Ids : Projected(promises[id], now).state = "absent"
    BY DEF Init, NoPromise, Projected
  <1>2. \A id \in Ids : PhaseOf(tasks[id].state) = "none" /\ tasks[id].version = 0
    BY DEF Init, NoTask, PhaseOf
  <1>3. QED
    BY <1>1, <1>2 DEF Abstract!Init, ObservedOutcome

LEMMA SettledIsOutcome == SettledStates = Abstract!Outcome
  BY DEF SettledStates, Abstract!Outcome

\* A settled record is seen settled, whatever the time.
LEMMA SettledIsObserved ==
  ASSUME NEW p \in Promise, NEW t, p.state \in SettledStates
  PROVE  Projected(p, t).state \in SettledStates
  BY DEF Projected, SettledStates

LEMMA ObserveRefines ==
  ASSUME MInv, MInv', Moves, ClockLag = 0, NEW id \in Ids,
         now' \in Nat, now \in Nat, now' >= now
  PROVE  Abstract!Observe(id)
  <1> DEFINE seen == Projected(promises[id], now).state
             next == Projected(promises'[id], now').state
  <1>1. promises[id] \in Promise /\ promises'[id] \in Promise
    BY DEF MInv, IInv, TypeOK
  <1>2. /\ seen \in {"absent", "pending"} \cup SettledStates
        /\ next \in {"absent", "pending"} \cup SettledStates
    <2>1. \A p \in Promise, t \in Nat :
            Projected(p, t).state \in {"absent", "pending"} \cup SettledStates
      BY ProjectedShape DEF Promise, PromiseStates
    <2>2. QED
      BY <1>1, <2>1
  <1>3. seen \in SettledStates => next = seen
    BY ObservationMoves
  <1>4. seen = "pending" => next \in {"pending"} \cup SettledStates
    BY ObservationMoves
  <1>5. ObservedOutcome[id] = seen /\ ObservedOutcome'[id] = next
    BY DEF ObservedOutcome
  <1>6. QED
    BY <1>2, <1>3, <1>4, <1>5, SettledIsOutcome DEF Abstract!Observe

LEMMA TaskRefines ==
  ASSUME MInv, MInv', Moves, ClockLag = 0, NEW id \in Ids, now' \in Nat
  PROVE  Abstract!TaskStep(id)
  <1> DEFINE phase == [x \in Ids |-> PhaseOf(tasks[x].state)]
             token == [x \in Ids |-> tasks[x].version]
  <1>1. /\ tasks[id] \in Task /\ tasks'[id] \in Task
        /\ promises[id] \in Promise /\ promises'[id] \in Promise
        /\ now \in Nat
    BY DEF MInv, IInv, TypeOK
  <1>2. /\ phase[id] = PhaseOf(tasks[id].state)
        /\ phase'[id] = PhaseOf(tasks'[id].state)
        /\ token[id] = tasks[id].version /\ token'[id] = tasks'[id].version
    OBVIOUS
  <1>3. /\ ObservedOutcome[id] = Projected(promises[id], now).state
        /\ \A p \in Ids :
             ObservedOutcome'[p] = Projected(promises'[p], now').state
    BY DEF ObservedOutcome
  <1>4. promises[id].state = "absent" => ObservedOutcome[id] = "absent"
    BY <1>3 DEF Projected
  <1>5. \A p \in Ids : promises'[p].state \in SettledStates =>
                          ObservedOutcome'[p] \in Abstract!Outcome
    BY <1>3, SettledIsObserved, SettledIsOutcome DEF MInv, IInv, TypeOK
  <1>6. tasks'[id].state = "fulfilled" =>
          ObservedOutcome'[id] \in Abstract!Outcome
    BY <1>5 DEF MInv, IInv, Consistent, Lockstep
  <1>7. TaskMoves(id)
    BY DEF Moves
  <1>8. CASE Stands(id)
    BY <1>8 DEF Stands, Abstract!TaskStep, Abstract!Stays
  <1>9. CASE Begins(id)
    BY <1>4, <1>6, <1>9 DEF Begins, Goes, PhaseOf, Abstract!TaskStep,
       Abstract!Begin, Abstract!End, Abstract!Moves
  <1>10. CASE IsClaimed(id)
    BY <1>4, <1>10 DEF IsClaimed, PhaseOf, Abstract!TaskStep, Abstract!Claim
  <1>11. CASE IsParked(id)
    <2>1. Fresh(id, now)
      BY <1>11, OnlyNow DEF IsParked, MInv, IInv
    <2>2. ObservedOutcome[id] = "pending"
      BY <1>1, <1>3, <2>1 DEF Fresh, Projected, Promise
    <2>3. QED
      BY <1>11, <2>2 DEF IsParked, Goes, PhaseOf, Abstract!TaskStep,
         Abstract!Park, Abstract!Moves
  <1>12. CASE IsWoken(id)
    BY <1>5, <1>12 DEF IsWoken, Goes, PhaseOf, Abstract!TaskStep,
       Abstract!Wake, Abstract!Moves
  <1>13. CASE Goes(id, {"acquired"}, "pending")
    BY <1>13 DEF Goes, PhaseOf, Abstract!TaskStep, Abstract!Yield, Abstract!Moves
  <1>14. CASE Goes(id, {"pending", "acquired", "suspended"}, "halted")
    BY <1>14 DEF Goes, PhaseOf, Abstract!TaskStep, Abstract!Stop, Abstract!Moves
  <1>15. CASE Goes(id, {"halted"}, "pending")
    BY <1>15 DEF Goes, PhaseOf, Abstract!TaskStep, Abstract!Continue,
       Abstract!Moves
  <1>16. CASE Goes(id, Live, "fulfilled")
    BY <1>6, <1>16 DEF Goes, Live, PhaseOf, Abstract!TaskStep, Abstract!End,
       Abstract!Moves
  <1>17. QED
    BY <1>7, <1>8, <1>9, <1>10, <1>11, <1>12, <1>13, <1>14, <1>15, <1>16
    DEF TaskMoves

LEMMA StepRefines ==
  ASSUME MInv, [Next]_vars, DebugTimes = {}, ClockLag = 0
  PROVE  Abstract!Next
  <1>1. MInv' /\ Moves
    BY MovesStep
  <1>2. now' \in Nat /\ now \in Nat /\ now' >= now
    BY ClockGrows DEF MInv, IInv
  <1>3. QED
    BY <1>1, <1>2, ObserveRefines, TaskRefines DEF Abstract!Next

\* The server promises what DurableTask promises, for any number of promises
\* and workers: one outcome per promise, ever larger tokens, no task that
\* wakes or ends without a reason.
THEOREM ServerImplementsDurableTask ==
  ASSUME DebugTimes = {}, ClockLag = 0
  PROVE  Spec => ImplementsDurableTask
  <1>1. Init => Abstract!Init
    BY InitRefines
  <1>2. MInv /\ [Next]_vars => [Abstract!Next]_(Abstract!vars)
    BY StepRefines
  <1>3. QED
    BY <1>1, <1>2, MovesInvariance, PTL
    DEF Spec, ImplementsDurableTask, Abstract!Spec

================================================================================
