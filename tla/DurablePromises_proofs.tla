------------------------ MODULE DurablePromises_proofs -------------------------
(***************************************************************************)
(* What the server makes of the processes and clients of Worker and of      *)
(* NetworkHttp.  The requests they send are not those of its own Next, whose *)
(* tags and timeouts are parameters; every step of a composition is one     *)
(* request served now, one tick, or time that passes.  So the invariant of  *)
(* the server and the moves of its records carry over.  Then the waiters of *)
(* DurablePromises, whatever the network their messages come over.          *)
(***************************************************************************)
EXTENDS DurablePromises, LocalServerMoves_proofs

\* A request of any kind a worker or client sends, with any tags and timeout.
Stores(id, tags, timeoutAt) ==
  \/ PromiseCreate(id, tags, timeoutAt, now)
  \/ \E pid \in Pids, ttl \in Ttls :
       TaskCreateAcquired(id, tags, timeoutAt, pid, ttl, now)
  \/ TaskCreateExpired(id, tags, timeoutAt, now)
Requested ==
  \E id \in Ids :
    \/ \E tags \in Tags, timeoutAt \in Int : Stores(id, tags, timeoutAt)
    \/ \E state \in SettledStates : Fresh(id, now) /\ Settle(id, state, now)
    \/ \E address \in Addresses : PromiseRegisterListener(id, address, now)
    \/ \E pid \in Pids, ttl \in Ttls : Claim(id, pid, ttl, now)
    \/ \E version : TaskRelease(id, version, now)
    \/ \E version : \E A \in SUBSET Ids :
         TaskSuspend(id, version, A, now) \/ TaskSuspendRefused(id, version, A, now)
Beats == \E pid \in Pids, refs \in SUBSET (Ids \X Int) : TaskHeartbeat(pid, refs, now)
Passes ==
  /\ UNCHANGED <<store, crons, outbox>>
  /\ queue' \subseteq queue
  /\ now' = now \/ (now < MaxTime /\ now' = now + 1)
Served == Requested \/ Beats \/ Tick(now) \/ Passes

LEMMA NowIsStamp ==
  ASSUME TypeOK
  PROVE  now \in Nat /\ now \in Stamps
  BY ServerAssumption DEF TypeOK, Stamps

LEMMA ServedTypes ==
  ASSUME TypeOK, Served
  PROVE  TypeOK'
  <1>1. now \in Nat
    BY NowIsStamp
  <1>2. ASSUME NEW id \in Ids, NEW tags \in Tags, NEW timeoutAt \in Int,
               Stores(id, tags, timeoutAt)
        PROVE  TypeOK'
    BY <1>1, <1>2, PromiseCreateType, TaskCreateAcquiredType,
       TaskCreateExpiredType DEF Stores
  <1>3. ASSUME NEW id \in Ids, NEW state \in SettledStates, Settle(id, state, now)
        PROVE  TypeOK'
    BY <1>1, <1>3, SettleType
  <1>4. ASSUME NEW id \in Ids, NEW address \in Addresses,
               PromiseRegisterListener(id, address, now)
        PROVE  TypeOK'
    <2>1. [promises[id] EXCEPT !.listeners = @ \cup {address}] \in Promise
      BY DEF TypeOK, Promise
    <2>2. QED
      BY <1>4, <2>1 DEF PromiseRegisterListener, TypeOK, crons, mail
  <1>5. ASSUME NEW id \in Ids, NEW pid \in Pids, NEW ttl \in Ttls,
               Claim(id, pid, ttl, now)
        PROVE  TypeOK'
    BY <1>1, <1>5, ClaimType
  <1>6. ASSUME NEW id \in Ids, NEW version, TaskRelease(id, version, now)
        PROVE  TypeOK'
    BY <1>1, <1>6, TaskReleaseType
  <1>7. ASSUME NEW id \in Ids, NEW version, NEW A \in SUBSET Ids,
               TaskSuspend(id, version, A, now) \/ TaskSuspendRefused(id, version, A, now)
        PROVE  TypeOK'
    BY <1>7, TaskSuspendType, TaskSuspendRefusedType
  <1>8. CASE Beats
    BY <1>1, <1>8, TaskHeartbeatType DEF Beats
  <1>9. CASE Tick(now)
    BY <1>1, <1>9, TickType
  <1>10. CASE Passes
    BY <1>10, ServerAssumption DEF Passes, TypeOK, store, crons
  <1>11. QED
    BY <1>2, <1>3, <1>4, <1>5, <1>6, <1>7, <1>8, <1>9, <1>10 DEF Served, Requested

LEMMA ServedConsistent ==
  ASSUME IInv, Served
  PROVE  IInv'
  <1>1. TypeOK /\ Consistent /\ TypeOK' /\ now \in Nat
    BY ServedTypes, NowIsStamp DEF IInv
  <1>2. ASSUME NEW id \in Ids, NEW tags \in Tags, NEW timeoutAt \in Int,
               Stores(id, tags, timeoutAt)
        PROVE  Consistent'
    BY <1>1, <1>2, PromiseCreateConsistent, TaskCreateAcquiredConsistent,
       TaskCreateExpiredConsistent DEF Stores
  <1>3. ASSUME NEW id \in Ids, NEW state \in SettledStates, Fresh(id, now),
               Settle(id, state, now)
        PROVE  Consistent'
    BY <1>1, <1>3, SettleConsistent DEF Fresh
  <1>4. ASSUME NEW id \in Ids, NEW address \in Addresses,
               PromiseRegisterListener(id, address, now)
        PROVE  Consistent'
    BY <1>1, <1>4, PromiseRegisterConsistent
  <1>5. ASSUME NEW id \in Ids, NEW pid \in Pids, NEW ttl \in Ttls,
               Claim(id, pid, ttl, now)
        PROVE  Consistent'
    BY <1>1, <1>5, ClaimConsistent
  <1>6. ASSUME NEW id \in Ids, NEW version, TaskRelease(id, version, now)
        PROVE  Consistent'
    BY <1>1, <1>6, TaskReleaseConsistent
  <1>7. ASSUME NEW id \in Ids, NEW version, NEW A \in SUBSET Ids,
               TaskSuspend(id, version, A, now) \/ TaskSuspendRefused(id, version, A, now)
        PROVE  Consistent'
    BY <1>1, <1>7, TaskSuspendConsistent, TaskSuspendRefusedConsistent
  <1>8. ASSUME Beats PROVE Consistent'
    BY <1>1, <1>8, TaskHeartbeatConsistent DEF Beats
  <1>9. ASSUME Tick(now) PROVE Consistent'
    BY <1>1, <1>9, TickConsistent
  <1>10. ASSUME Passes PROVE Consistent'
    BY <1>1, <1>10, SameConsistent DEF Passes
  <1>11. QED
    BY <1>1, <1>2, <1>3, <1>4, <1>5, <1>6, <1>7, <1>8, <1>9, <1>10
    DEF Served, Requested, IInv

LEMMA ServedMoves ==
  ASSUME MInv, Served
  PROVE  MInv' /\ Moves
  <1>1. IInv' /\ TypeOK' /\ Consistent' /\ TypeOK
    BY ServedConsistent DEF MInv, IInv
  <1>2. now \in Stamps
    BY <1>1, NowIsStamp
  <1>3. ASSUME NEW id \in Ids, NEW tags \in Tags, NEW timeoutAt \in Int,
               Stores(id, tags, timeoutAt)
        PROVE  Moves
    BY <1>3, PromiseCreateMoves, TaskCreateMoves DEF Stores
  <1>4. ASSUME NEW id \in Ids, NEW state \in SettledStates, Fresh(id, now),
               Settle(id, state, now)
        PROVE  Moves
    BY <1>1, <1>2, <1>4, SettleMoves
  <1>5. ASSUME NEW id \in Ids, NEW address \in Addresses,
               PromiseRegisterListener(id, address, now)
        PROVE  Moves
    BY <1>5, RegisterMoves
  <1>6. ASSUME NEW id \in Ids, NEW pid \in Pids, NEW ttl \in Ttls,
               Claim(id, pid, ttl, now)
        PROVE  Moves
    BY <1>6, ClaimMoves
  <1>7. ASSUME NEW id \in Ids, NEW version, TaskRelease(id, version, now)
        PROVE  Moves
    BY <1>7, HandBackMoves
  <1>8. ASSUME NEW id \in Ids, NEW version, NEW A \in SUBSET Ids,
               TaskSuspend(id, version, A, now) \/ TaskSuspendRefused(id, version, A, now)
        PROVE  Moves
    BY <1>2, <1>8, SuspendMoves
  <1>9. ASSUME Beats PROVE Moves
    BY <1>9, SameMoves DEF Beats, TaskHeartbeat
  <1>10. ASSUME Tick(now) PROVE Moves
    BY <1>1, <1>2, <1>10, TickMoves
  <1>11. ASSUME Passes PROVE Moves
    BY <1>11, SameMoves DEF Passes, store
  <1>12. Moves
    BY <1>3, <1>4, <1>5, <1>6, <1>7, <1>8, <1>9, <1>10, <1>11 DEF Served, Requested
  <1>13. QED
    BY <1>1, <1>12, MovesKeepVersions DEF MInv

LEMMA ServedClock ==
  ASSUME Served
  PROVE  /\ now' \in {now, now + 1}
         /\ Tick(now) \/ UNCHANGED crons
  <1>1. ASSUME NEW id \in Ids, NEW tags \in Tags, NEW timeoutAt \in Int,
               Stores(id, tags, timeoutAt)
        PROVE  now' = now /\ UNCHANGED crons
    BY <1>1 DEF Stores, PromiseCreate, TaskCreateAcquired, TaskCreateExpired
  <1>2. ASSUME NEW id \in Ids, NEW state \in SettledStates, Settle(id, state, now)
        PROVE  now' = now /\ UNCHANGED crons
    BY <1>2 DEF Settle
  <1>3. ASSUME NEW id \in Ids, NEW address \in Addresses,
               PromiseRegisterListener(id, address, now)
        PROVE  now' = now /\ UNCHANGED crons
    BY <1>3 DEF PromiseRegisterListener
  <1>4. ASSUME NEW id \in Ids, NEW pid \in Pids, NEW ttl \in Ttls,
               Claim(id, pid, ttl, now)
        PROVE  now' = now /\ UNCHANGED crons
    BY <1>4 DEF Claim
  <1>5. ASSUME NEW id \in Ids, NEW version, TaskRelease(id, version, now)
        PROVE  now' = now /\ UNCHANGED crons
    BY <1>5 DEF TaskRelease, Redispatch
  <1>6. ASSUME NEW id \in Ids, NEW version, NEW A \in SUBSET Ids,
               TaskSuspend(id, version, A, now) \/ TaskSuspendRefused(id, version, A, now)
        PROVE  now' = now /\ UNCHANGED crons
    BY <1>6 DEF TaskSuspend, TaskSuspendRefused
  <1>7. CASE Beats
    BY <1>7 DEF Beats, TaskHeartbeat
  <1>8. CASE Tick(now)
    BY <1>8 DEF Tick, TickWith
  <1>9. CASE Passes
    BY <1>9 DEF Passes
  <1>10. QED
    BY <1>1, <1>2, <1>3, <1>4, <1>5, <1>6, <1>7, <1>8, <1>9 DEF Served, Requested

-----------------------------------------------------------------------------
(* What the messages of the server say is true when they are read: an       *)
(* unblock is of a settled promise, an execute has the version of a claim.   *)

MessageTrue(m) ==
  /\ m.kind = "unblock" => promises[m.id].state \in SettledStates
  /\ m.kind = "execute" => m.version \in Nat
QueueTrue == \A m \in queue : MessageTrue(m)
\* What a step offers, beyond what was offered before.
OffersTrue == \A m \in queue' : m \in queue \/ MessageTrue(m)'

LEMMA TruthLasts ==
  ASSUME Moves, NEW m \in Message, MessageTrue(m)
  PROVE  MessageTrue(m)'
  <1>1. m.id \in Ids
    BY DEF Message
  <1>2. PromiseMoves(m.id)
    BY <1>1 DEF Moves
  <1>3. QED
    BY <1>2 DEF MessageTrue, PromiseMoves, SameOutcome, SettledStates

LEMMA QueueStep ==
  ASSUME TypeOK, QueueTrue, Moves, OffersTrue
  PROVE  QueueTrue'
  BY TruthLasts DEF QueueTrue, OffersTrue, TypeOK

LEMMA ExecutesTrue ==
  ASSUME TypeOK, NEW S \in SUBSET Ids, NEW m \in Executes(S)
  PROVE  m.kind = "execute" /\ m.version \in Nat /\ MessageTrue(m)'
  BY DEF Executes, Execute, MessageTrue, TypeOK, Task

LEMMA NewMessagesTrue ==
  ASSUME NEW id, NEW tags, NEW timeoutAt, NEW t,
         NEW m \in NewMessages(id, tags, timeoutAt, t)
  PROVE  MessageTrue(m)'
  BY DEF NewMessages, Execute, MessageTrue

LEMMA SettleOffers ==
  ASSUME TypeOK, NEW id \in Ids, NEW state \in SettledStates, NEW t, Settle(id, state, t)
  PROVE  OffersTrue
  <1>1. queue' = queue \cup CascadeMessages({id})
    BY DEF Settle, Emit
  <1>2. promises'[id].state \in SettledStates
    <2>1. promises'[id] = Settled(promises[id], state, t)
      BY DEF Settle, CascadePromises
    <2>2. promises[id] \in Promise
      BY DEF TypeOK
    <2>3. QED
      BY <2>1, <2>2 DEF Settled, Promise
  <1>3. Woken({id}) \in SUBSET Ids
    BY DEF Woken
  <1>4. \A m \in CascadeMessages({id}) : MessageTrue(m)'
    <2>1. \A a : MessageTrue(Unblock(id, a))'
      BY <1>2 DEF MessageTrue, Unblock
    <2>2. \A m \in Executes(Woken({id})) : MessageTrue(m)'
      BY <1>3, ExecutesTrue
    <2>3. QED
      BY <2>1, <2>2 DEF CascadeMessages
  <1>5. QED
    BY <1>1, <1>4 DEF OffersTrue

LEMMA TickOffers ==
  ASSUME TypeOK, NEW t, Tick(t)
  PROVE  OffersTrue
  <1>1. PICK fire \in [FiredIds(t) -> Firings(t)] : TickWith(fire, t)
    BY DEF Tick
  <1> DEFINE births == UNION {NewMessages(id, FiringTags(fire[id]),
                                          FiringTimeout(fire[id]), fire[id][2]) :
                                id \in FiredIds(t)}
  <1>2. queue' = queue \cup TickMessages(t) \cup births
    BY <1>1 DEF TickWith, Emit
  <1>3. \A m \in births : MessageTrue(m)'
    BY NewMessagesTrue
  <1>4. ASSUME NEW p \in DuePromises(t)
        PROVE  promises'[p].state \in SettledStates
    <2>1. p \in Ids /\ p \notin FiredIds(t) /\ promises[p] \in Promise
      BY <1>4 DEF DuePromises, FiredIds, TypeOK
    <2>2. promises'[p] = TimedOut(t)[p]
      BY <1>1, <1>4, <2>1 DEF TickWith, CascadePromises, TimedOut
    <2>3. TimedOut(t)[p].state = TimedOutState(promises[p].tags)
      BY <1>4, <2>1 DEF TimedOut, Settled, Promise
    <2>4. QED
      BY <2>2, <2>3 DEF TimedOutState, SettledStates
  <1>5. \A m \in TickMessages(t) : MessageTrue(m)'
    <2>1. \A p \in DuePromises(t) : \A a : MessageTrue(Unblock(p, a))'
      BY <1>4 DEF MessageTrue, Unblock
    <2>2. /\ Woken(DuePromises(t)) \in SUBSET Ids
          /\ Redelivered(t) \cup LeaseLost(t) \in SUBSET Ids
      BY DEF Woken, Redelivered, LeaseLost, DueTasks
    <2>3. \A m \in Executes(Woken(DuePromises(t))) : MessageTrue(m)'
      BY <2>2, ExecutesTrue
    <2>4. \A m \in Executes(Redelivered(t) \cup LeaseLost(t)) : MessageTrue(m)'
      BY <2>2, ExecutesTrue
    <2>5. QED
      BY <2>1, <2>3, <2>4 DEF TickMessages, CascadeMessages
  <1> HIDE DEF births
  <1>6. QED
    BY <1>2, <1>3, <1>5 DEF OffersTrue

LEMMA ServedOffers ==
  ASSUME TypeOK, Served
  PROVE  OffersTrue
  <1>1. ASSUME NEW id \in Ids, NEW tags \in Tags, NEW timeoutAt \in Int,
               Stores(id, tags, timeoutAt)
        PROVE  OffersTrue
    <2>1. \A m \in NewMessages(id, tags, timeoutAt, now) : MessageTrue(m)'
      BY NewMessagesTrue
    <2>2. QED
      BY <1>1, <2>1 DEF Stores, PromiseCreate, TaskCreateAcquired,
         TaskCreateExpired, mail, Emit, OffersTrue
  <1>2. ASSUME NEW id \in Ids, NEW state \in SettledStates, Settle(id, state, now)
        PROVE  OffersTrue
    BY <1>2, SettleOffers
  <1>3. ASSUME NEW id \in Ids, NEW address \in Addresses,
               PromiseRegisterListener(id, address, now)
        PROVE  OffersTrue
    BY <1>3 DEF PromiseRegisterListener, mail, OffersTrue
  <1>4. ASSUME NEW id \in Ids, NEW pid \in Pids, NEW ttl \in Ttls,
               Claim(id, pid, ttl, now)
        PROVE  OffersTrue
    BY <1>4 DEF Claim, mail, OffersTrue
  <1>5. ASSUME NEW id \in Ids, NEW version, TaskRelease(id, version, now)
        PROVE  OffersTrue
    <2>1. \A m \in Executes({id}) : MessageTrue(m)'
      BY ExecutesTrue
    <2>2. QED
      BY <1>5, <2>1 DEF TaskRelease, Redispatch, Emit, OffersTrue
  <1>6. ASSUME NEW id \in Ids, NEW version, NEW A \in SUBSET Ids,
               TaskSuspend(id, version, A, now) \/ TaskSuspendRefused(id, version, A, now)
        PROVE  OffersTrue
    BY <1>6 DEF TaskSuspend, TaskSuspendRefused, mail, OffersTrue
  <1>7. CASE Beats
    BY <1>7 DEF Beats, TaskHeartbeat, mail, OffersTrue
  <1>8. CASE Tick(now)
    BY <1>8, TickOffers
  <1>9. CASE Passes
    BY <1>9 DEF Passes, OffersTrue
  <1>10. QED
    BY <1>1, <1>2, <1>3, <1>4, <1>5, <1>6, <1>7, <1>8, <1>9 DEF Served, Requested

\* A step that leaves the server alone, and all that one that is served gives.
LEMMA NothingIsServed ==
  ASSUME UNCHANGED vars
  PROVE  Served
  <1>1. Passes
    BY DEF Passes, vars, store, crons
  <1>2. QED
    BY <1>1 DEF Served

LEMMA ServedStep ==
  ASSUME MInv, QueueTrue, Served
  PROVE  /\ MInv' /\ Moves /\ QueueTrue'
         /\ now \in Nat /\ now' \in {now, now + 1}
  BY ServedMoves, ServedOffers, ServedClock, QueueStep, NowIsStamp DEF MInv, IInv

LEMMA QueueInit == Init => QueueTrue
  BY DEF Init, QueueTrue

-----------------------------------------------------------------------------
(* Answers of waiters.                                                      *)

WaitsShape == waits \in [Waiters -> Waiting]

\* A waiter that is told something is told the truth.
Answers(a) ==
  \E answer \in SettledStates :
    /\ waits' = [waits EXCEPT ![a].stage = "done", ![a].answer = answer]
    /\ Projected(promises[AwaitedId[a]], now).state = answer
MovesOn(a) ==
  \E stage \in {"registering", "subscribing", "listening", "pausing"} :
    \/ waits' = [waits EXCEPT ![a].stage = stage]
    \/ \E until \in Int :
         waits' = [waits EXCEPT ![a].stage = stage, ![a].until = until]
WaitsMove == waits' = waits \/ \E a \in Waiters : Answers(a) \/ MovesOn(a)

LEMMA TimersType ==
  ASSUME TypeOK
  PROVE  \A duration \in Nat : Timer(duration) \in Int
  BY ServerAssumption DEF Timer, TypeOK

LEMMA PauseMovesOn ==
  ASSUME TypeOK, NEW a \in Waiters, Waits(a, "pausing", ErrorPause)
  PROVE  MovesOn(a)
  BY TimersType, WaiterAssumption DEF Waits, MovesOn

LEMMA TruthAnswers ==
  ASSUME NEW a \in Waiters, NEW m \in Message, MessageTrue(m), Announces(m, a),
         Settles(a, promises[m.id].state)
  PROVE  Answers(a)
  <1>1. m.id = AwaitedId[a] /\ promises[m.id].state \in SettledStates
    BY DEF Announces, MessageTrue
  <1>2. Projected(promises[m.id], now).state = promises[m.id].state
    BY <1>1 DEF Projected, SettledStates
  <1>3. QED
    BY <1>1, <1>2 DEF Settles, Answers

LEMMA WaiterMoves ==
  ASSUME TypeOK, QueueTrue, NEW a \in Waiters, WaiterNext(a)
  PROVE  waits' = waits \/ Answers(a) \/ MovesOn(a)
  <1>1. Timer(Fallback) \in Int
    BY TimersType, WaiterAssumption
  <1>2. CASE \/ RegisterPending(a) \/ RegisterRefused(a) \/ Subscribe(a)
             \/ StopListening(a) \/ TryAgain(a)
    <2>1. CASE \E stage \in {"registering", "subscribing"} : Reaches(a, stage)
      BY <2>1 DEF Reaches, MovesOn
    <2>2. CASE Waits(a, "pausing", ErrorPause)
      BY <2>2, PauseMovesOn
    <2>3. CASE Waits(a, "listening", Fallback)
      BY <1>1, <2>3 DEF Waits, MovesOn
    <2>4. QED
      BY <1>2, <2>1, <2>2, <2>3
      DEF RegisterPending, RegisterRefused, Subscribe, StopListening, TryAgain
  <1>3. CASE RegisterFoundSettled(a)
    <2>1. Projected(promises[AwaitedId[a]], now).state \in SettledStates
      BY <1>3 DEF RegisterFoundSettled
    <2>2. Settles(a, Projected(promises[AwaitedId[a]], now).state)
      BY <1>3 DEF RegisterFoundSettled
    <2>3. QED
      BY <2>1, <2>2 DEF Settles, Answers
  <1>4. CASE TakeMessages(a)
    <2>1. \A m \in queue : m \in Message /\ MessageTrue(m)
      BY DEF TypeOK, QueueTrue
    <2>2. QED
      BY <1>4, <2>1, TruthAnswers DEF TakeMessages
  <1>5. QED
    BY <1>2, <1>3, <1>4 DEF WaiterNext

\* The requests of a waiter.
LEMMA WaiterServed ==
  ASSUME NEW a \in Waiters, WaiterNext(a)
  PROVE  Served
  <1>1. AwaitedId[a] \in Ids /\ UnicastOf[a] \in Addresses
    BY WaiterAssumption
  <1>2. CASE RegisterPending(a)
    BY <1>1, <1>2 DEF RegisterPending, Served, Requested
  <1>3. CASE TakeMessages(a)
    BY <1>3 DEF TakeMessages, Served, Passes
  <1>4. CASE \/ RegisterFoundSettled(a) \/ RegisterRefused(a) \/ Subscribe(a)
             \/ StopListening(a) \/ TryAgain(a)
    BY <1>4, NothingIsServed DEF RegisterFoundSettled, RegisterRefused, Subscribe,
       StopListening, TryAgain
  <1>5. QED
    BY <1>2, <1>3, <1>4 DEF WaiterNext

LEMMA WaitsInit ==
  ASSUME WaitersInit
  PROVE  WaitsShape /\ AnswerTrue
  BY DEF WaitersInit, NoWait, NotSet, Waiting, WaitsShape, AnswerTrue

LEMMA WaitsType ==
  ASSUME WaitsShape, WaitsMove
  PROVE  WaitsShape'
  <1>1. ASSUME NEW a \in Waiters, Answers(a)
        PROVE  WaitsShape'
    <2>1. PICK answer \in SettledStates :
            waits' = [waits EXCEPT ![a].stage = "done", ![a].answer = answer]
      BY <1>1 DEF Answers
    <2>2. QED
      BY <2>1 DEF WaitsShape, Waiting
  <1>2. ASSUME NEW a \in Waiters, MovesOn(a)
        PROVE  WaitsShape'
    <2>1. PICK stage \in {"registering", "subscribing", "listening", "pausing"} :
            \/ waits' = [waits EXCEPT ![a].stage = stage]
            \/ \E until \in Int :
                 waits' = [waits EXCEPT ![a].stage = stage, ![a].until = until]
      BY <1>2 DEF MovesOn
    <2>2. QED
      BY <2>1 DEF WaitsShape, Waiting
  <1>3. QED
    BY <1>1, <1>2 DEF WaitsMove, WaitsShape

\* An answer stays true: what is seen settled stays seen settled.
LEMMA AnswerMoves ==
  ASSUME MInv, MInv', Moves, WaitsShape, AnswerTrue, WaitsMove, ClockLag = 0,
         now \in Nat, now' \in Nat, now' >= now
  PROVE  AnswerTrue'
  <1>1. \A a \in Waiters : AwaitedId[a] \in Ids
    BY WaiterAssumption
  <1>2. \A id \in Ids : \A state \in SettledStates :
          Projected(promises[id], now).state = state =>
            Projected(promises'[id], now').state = state
    BY ObservationMoves
  <1>3. ASSUME NEW b \in Waiters, waits'[b] = waits[b], waits'[b].stage = "done"
        PROVE  /\ waits'[b].answer \in SettledStates
               /\ waits'[b].answer = Projected(promises'[AwaitedId[b]], now').state
    BY <1>1, <1>2, <1>3 DEF AnswerTrue
  <1>4. CASE waits' = waits
    BY <1>3, <1>4 DEF AnswerTrue
  <1>5. ASSUME NEW a \in Waiters, Answers(a)
        PROVE  AnswerTrue'
    <2>1. PICK answer \in SettledStates :
            /\ waits' = [waits EXCEPT ![a].stage = "done", ![a].answer = answer]
            /\ Projected(promises[AwaitedId[a]], now).state = answer
      BY <1>5 DEF Answers
    <2>2. \A b \in Waiters \ {a} : waits'[b] = waits[b]
      BY <2>1 DEF WaitsShape
    <2>3. waits'[a].answer = answer
      BY <2>1 DEF WaitsShape, Waiting
    <2>4. Projected(promises'[AwaitedId[a]], now').state = answer
      BY <1>1, <1>2, <2>1
    <2>5. QED
      BY <1>3, <2>2, <2>3, <2>4 DEF AnswerTrue
  <1>6. ASSUME NEW a \in Waiters, MovesOn(a)
        PROVE  AnswerTrue'
    <2>1. PICK stage \in {"registering", "subscribing", "listening", "pausing"} :
            \/ waits' = [waits EXCEPT ![a].stage = stage]
            \/ \E until \in Int :
                 waits' = [waits EXCEPT ![a].stage = stage, ![a].until = until]
      BY <1>6 DEF MovesOn
    <2>2. \A b \in Waiters \ {a} : waits'[b] = waits[b]
      BY <2>1 DEF WaitsShape
    <2>3. waits'[a].stage # "done"
      BY <2>1 DEF WaitsShape, Waiting
    <2>4. QED
      BY <1>3, <2>2, <2>3 DEF AnswerTrue
  <1>7. QED
    BY <1>4, <1>5, <1>6 DEF WaitsMove

================================================================================
