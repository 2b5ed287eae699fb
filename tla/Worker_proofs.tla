----------------------------- MODULE Worker_proofs -----------------------------
(***************************************************************************)
(* The theorems of Worker, for every number of workers, clients, faults and *)
(* restarts, and for every script: the server under the workers keeps what  *)
(* it promises, and the fibers keep what their claims and replays promise.  *)
(***************************************************************************)
EXTENDS WorkerMoves_proofs

WInv == MInv /\ Shape

LEMMA WInit ==
  ASSUME WorkerInit
  PROVE  WInv
  <1>1. MInv
    BY MovesInit DEF WorkerInit
  <1>2. runs \in [Fibers -> RunShape]
    BY NoRunShape DEF WorkerInit
  <1>3. \A f \in Fibers : runs[f] = NoRun /\ NoRun.stage = "idle" /\ Quiet(NoRun)
    BY NoRunShape DEF WorkerInit, NoRun
  <1>4. batch \in [Workers -> SUBSET Message]
    BY DEF WorkerInit
  <1>5. held \in [Workers -> [Ids -> Nat \cup {NotSet}]]
    BY DEF WorkerInit
  <1>6. QED
    BY <1>1, <1>2, <1>3, <1>4, <1>5 DEF WInv, Shape

LEMMA WStep ==
  ASSUME WInv, [WorkerNext]_system
  PROVE  /\ WInv' /\ Moves /\ RunsMove
         /\ now \in Nat /\ now' \in Nat /\ now' >= now
  <1>1. /\ MInv' /\ Moves /\ RunsMove /\ Shape'
        /\ now' \in {now, now + 1}
    BY ShapeStep DEF WInv
  <1>2. now \in Nat
    BY NowIsStamp DEF WInv, MInv, IInv
  <1>3. QED
    BY <1>1, <1>2 DEF WInv

-----------------------------------------------------------------------------
(* The server under the workers. *)

\* The inductive invariant of the server holds under the requests of workers
\* and clients too, with the types of the runs and held maps it is used with.
THEOREM WorkerInvariance == WorkerSpec => []WInv
  BY WInit, WStep, PTL DEF WorkerSpec

\* Every claim a worker or client is granted raises the version of its task.
THEOREM WorkerTokensFence == WorkerSpec => FencingTokens
  <1>1. WInv /\ [WorkerNext]_system => \A id \in Ids : Fences(id)
    BY WStep, MovesFence
  <1>2. QED
    BY <1>1, WorkerInvariance, PTL DEF WorkerSpec, FencingTokens, Fences

\* A settlement under a worker, a client or a tick wakes whoever waits for it,
\* the suspended runs of other processes among them.
THEOREM WorkerWakeupsArrive == WorkerSpec => NoLostWakeup
  <1>1. WInv /\ [WorkerNext]_system => \A p \in Ids : WakesAll(p)
    BY WStep DEF Moves
  <1>2. QED
    BY <1>1, WorkerInvariance, PTL DEF WorkerSpec, NoLostWakeup, WakesAll

\* The composition of server, workers and clients still is the durable task of
\* DurableTask: restarts, lost messages and refused requests do not show.
THEOREM WorkersImplementDurableTask ==
  ASSUME ClockLag = 0
  PROVE  WorkerSpec => ImplementsDurableTask
  <1>1. WorkerInit => Abstract!Init
    BY InitRefines DEF WorkerInit
  <1>2. WInv /\ [WorkerNext]_system => [Abstract!Next]_(Abstract!vars)
    <2>1. WInv /\ [WorkerNext]_system => Abstract!Next
      BY WStep, ObserveRefines, TaskRefines DEF WInv, Abstract!Next
    <2>2. QED
      BY <2>1
  <1>3. QED
    BY <1>1, <1>2, WorkerInvariance, PTL
    DEF WorkerSpec, ImplementsDurableTask, Abstract!Spec

-----------------------------------------------------------------------------
(* Claims. *)

LEMMA HeldIsRunStep ==
  ASSUME WInv, HeldIsRun, [WorkerNext]_system
  PROVE  HeldIsRun'
  <1>1. WInv' /\ RunsMove /\ Shape
    BY WStep DEF WInv
  <1> DEFINE Backed(w, id, f) ==
        /\ Process(f) = w /\ Under(runs[f])
        /\ runs[f].task = id /\ runs[f].version = held[w][id]
  <1>2. \A w \in Workers, id \in Ids :
          held[w][id] # NotSet => \E f \in Fibers : Backed(w, id, f)
    BY <1>1, ShapeOf DEF HeldIsRun
  <1>3. SUFFICES ASSUME NEW w \in Workers, NEW id \in Ids, held'[w][id] # NotSet
                 PROVE  \E f \in Fibers :
                          /\ Process(f) = w /\ Under(runs'[f])
                          /\ runs'[f].task = id /\ runs'[f].version = held'[w][id]
    BY DEF HeldIsRun, Claimed, Under, Process
  <1>4. CASE UNCHANGED <<runs, held>>
    BY <1>2, <1>3, <1>4
  <1>5. ASSUME NEW f \in Fibers, Proceeds(f), held' = held
        PROVE  \E g \in Fibers : Backed(w, id, g)'
    <2>1. PICK g \in Fibers : Backed(w, id, g)
      BY <1>2, <1>3, <1>5
    <2>2. Backed(w, id, g)'
      BY <1>5, <2>1 DEF Proceeds, Alone, SameClaim, Process
    <2>3. QED
      BY <2>2
  <1>6. ASSUME NEW f \in Fibers, LoopWaits(f)
        PROVE  \E g \in Fibers : Backed(w, id, g)'
    <2>1. PICK g \in Fibers : Backed(w, id, g)
      BY <1>2, <1>3, <1>6 DEF LoopWaits
    <2>2. Backed(w, id, g)'
      BY <1>6, <2>1 DEF LoopWaits, Alone, Process
    <2>3. QED
      BY <2>2
  <1>7. ASSUME NEW f \in Fibers, NEW x \in Ids, ClaimBegins(f, x)
        PROVE  \E g \in Fibers : Backed(w, id, g)'
    <2>1. CASE w = Process(f) /\ id = x
      <3>1. held'[w][id] = tasks'[x].version
        BY <1>1, <1>7, <2>1 DEF ClaimBegins, Shape
      <3>2. Backed(w, id, f)'
        BY <1>7, <2>1, <3>1 DEF ClaimBegins, RunStarts, Process
      <3>3. QED
        BY <3>2
    <2>2. CASE ~(w = Process(f) /\ id = x)
      <3>1. held'[w][id] = held[w][id]
        BY <1>1, <1>7, <2>2, ProcessIsWorker DEF ClaimBegins, Shape
      <3>2. PICK g \in Fibers : Backed(w, id, g)
        BY <1>2, <1>3, <3>1
      <3>3. Backed(w, id, g)'
        BY <1>7, <3>1, <3>2 DEF ClaimBegins, RunStarts, Alone, Process
      <3>4. QED
        BY <3>3
    <2>3. QED
      BY <2>1, <2>2
  <1>8. ASSUME NEW f \in Fibers, ClaimEnds(f)
        PROVE  \E g \in Fibers : Backed(w, id, g)'
    <2>1. ~(w = Process(f) /\ id = runs[f].task)
      BY <1>1, <1>3, <1>8, ProcessIsWorker DEF ClaimEnds, Shape
    <2>2. held'[w][id] = held[w][id]
      BY <1>1, <1>8, <2>1, ProcessIsWorker DEF ClaimEnds, Shape
    <2>3. PICK g \in Fibers : Backed(w, id, g)
      BY <1>2, <1>3, <2>2
    <2>4. Backed(w, id, g)'
      BY <1>8, <2>1, <2>2, <2>3 DEF ClaimEnds, Alone, Process
    <2>5. QED
      BY <2>4
  <1>9. ASSUME NEW v \in Workers, Restart(v)
        PROVE  \E g \in Fibers : Backed(w, id, g)'
    <2>1. w # v
      BY <1>1, <1>3, <1>9, RestartFields DEF Shape
    <2>2. held'[w][id] = held[w][id]
      BY <1>1, <1>9, <2>1, RestartFields DEF Shape
    <2>3. PICK g \in Fibers : Backed(w, id, g)
      BY <1>2, <1>3, <2>2
    <2>4. runs'[g] = runs[g]
      BY <1>1, <1>9, <2>1, <2>3, RestartFields
    <2>5. Backed(w, id, g)'
      BY <2>2, <2>3, <2>4 DEF Process
    <2>6. QED
      BY <2>5
  <1>10. QED
    BY <1>1, <1>4, <1>5, <1>6, <1>7, <1>8, <1>9 DEF RunsMove

\* The heartbeat of a process extends no claim that none of its fibers runs,
\* for any number of clients that share the process and its held map.
THEOREM HeldClaimsAreRun == WorkerSpec => []HeldIsRun
  <1>1. WorkerInit => HeldIsRun
    BY DEF WorkerInit, HeldIsRun
  <1>2. WInv /\ HeldIsRun /\ [WorkerNext]_system => HeldIsRun'
    BY HeldIsRunStep
  <1>3. QED
    BY <1>1, <1>2, WorkerInvariance, PTL DEF WorkerSpec

\* Without clients a process has one fiber, and the entry of its claim is its own.
LoopHolds ==
  \A f \in Fibers : Under(runs[f]) => held[f][runs[f].task] = runs[f].version

LEMMA OneFiberEach ==
  ASSUME Guests = {}
  PROVE  Fibers = Workers /\ \A f \in Fibers : Process(f) = f
  BY WorkerAssumption DEF Process

LEMMA LoopHoldsStep ==
  ASSUME WInv, LoopHolds, [WorkerNext]_system, Guests = {}
  PROVE  LoopHolds'
  <1>1. RunsMove /\ Shape /\ Fibers = Workers /\ \A f \in Fibers : Process(f) = f
    BY WStep, OneFiberEach DEF WInv
  <1>2. SUFFICES ASSUME NEW g \in Fibers, Under(runs'[g])
                 PROVE  held'[g][runs'[g].task] = runs'[g].version
    BY DEF LoopHolds, Under
  <1>3. CASE UNCHANGED <<runs, held>>
    BY <1>2, <1>3 DEF LoopHolds
  <1>4. ASSUME NEW f \in Fibers, Proceeds(f), held' = held
        PROVE  held'[g][runs'[g].task] = runs'[g].version
    BY <1>2, <1>4 DEF LoopHolds, Proceeds, Alone, SameClaim
  <1>5. ASSUME NEW f \in Fibers, LoopWaits(f)
        PROVE  held'[g][runs'[g].task] = runs'[g].version
    BY <1>2, <1>5 DEF LoopHolds, LoopWaits, Alone
  <1>6. ASSUME NEW f \in Fibers, NEW x \in Ids, ClaimBegins(f, x)
        PROVE  held'[g][runs'[g].task] = runs'[g].version
    <2>1. CASE g = f
      BY <1>1, <1>6, <2>1 DEF ClaimBegins, RunStarts, Shape
    <2>2. CASE g # f
      BY <1>1, <1>2, <1>6, <2>2 DEF ClaimBegins, RunStarts, Alone, Shape, LoopHolds
    <2>3. QED
      BY <2>1, <2>2
  <1>7. ASSUME NEW f \in Fibers, ClaimEnds(f)
        PROVE  held'[g][runs'[g].task] = runs'[g].version
    <2>1. g # f
      BY <1>2, <1>7, NoRunShape DEF ClaimEnds
    <2>2. held'[g] = held[g] /\ runs'[g] = runs[g]
      BY <1>1, <1>7, <2>1 DEF ClaimEnds, Alone, Shape
    <2>3. QED
      BY <1>2, <2>2 DEF LoopHolds
  <1>8. ASSUME NEW v \in Workers, Restart(v)
        PROVE  held'[g][runs'[g].task] = runs'[g].version
    <2>1. g # v
      BY <1>1, <1>2, <1>8, RestartFields, NoRunShape
    <2>2. held'[g] = held[g] /\ runs'[g] = runs[g]
      BY <1>1, <1>8, <2>1, RestartFields DEF Shape
    <2>3. QED
      BY <1>2, <2>2 DEF LoopHolds
  <1>9. QED
    BY <1>1, <1>3, <1>4, <1>5, <1>6, <1>7, <1>8 DEF RunsMove

\* In a process that no client shares, every claim that is worked on is in the
\* list the heartbeat sends, through every restart of the engine.
THEOREM ClaimsAreHeld ==
  ASSUME Guests = {}
  PROVE  WorkerSpec => []RunIsHeld
  <1>1. WorkerInit => LoopHolds
    BY NoRunShape DEF WorkerInit, LoopHolds
  <1>2. WInv /\ LoopHolds /\ [WorkerNext]_system => LoopHolds'
    BY LoopHoldsStep
  <1>3. WInv /\ LoopHolds => RunIsHeld
    BY OneFiberEach DEF LoopHolds, RunIsHeld, Claimed, Under
  <1>4. QED
    BY <1>1, <1>2, <1>3, WorkerInvariance, PTL DEF WorkerSpec

\* Claims are of versions the server has granted, each to one fiber.
Granted ==
  \A f \in Fibers : Under(runs[f]) => runs[f].version <= tasks[runs[f].task].version
Distinct ==
  \A f, g \in Fibers :
    /\ Under(runs[f]) /\ Under(runs[g])
    /\ runs[f].task = runs[g].task /\ runs[f].version = runs[g].version
    => f = g

LEMMA ClaimsStep ==
  ASSUME WInv, Granted, Distinct, [WorkerNext]_system
  PROVE  Granted' /\ Distinct'
  <1>1. /\ MInv /\ MInv' /\ Moves /\ RunsMove /\ Shape /\ Shape'
    BY WStep DEF WInv
  <1>2. \A id \in Ids : /\ tasks[id].version \in Nat /\ tasks'[id].version \in Nat
                        /\ tasks[id].version <= tasks'[id].version
    BY <1>1, VersionsGrow
  <1>3. \A f \in Fibers : /\ runs[f].version \in Int /\ runs'[f].version \in Int
                          /\ Under(runs[f]) => runs[f].task \in Ids
    BY <1>1 DEF Shape, RunShape, Under
  <1> DEFINE Same(g) == /\ runs'[g].task = runs[g].task
                        /\ runs'[g].version = runs[g].version
                        /\ Under(runs[g])
  \* Steps after which every claim is one there was.
  <1>4. ASSUME \A g \in Fibers : Under(runs'[g]) => Same(g)
        PROVE  Granted' /\ Distinct'
    <2>1. Granted'
      <3>1. ASSUME NEW g \in Fibers, Under(runs'[g])
            PROVE  runs'[g].version <= tasks'[runs'[g].task].version
        <4>1. Same(g) /\ runs[g].task \in Ids
          BY <1>3, <1>4, <3>1
        <4>2. runs[g].version <= tasks[runs[g].task].version
          BY <4>1 DEF Granted
        <4>3. QED
          BY <1>2, <1>3, <4>1, <4>2
      <3>2. QED
        BY <3>1 DEF Granted, Under
    <2>2. Distinct'
      BY <1>4 DEF Distinct, Under
    <2>3. QED
      BY <2>1, <2>2
  <1>5. CASE UNCHANGED <<runs, held>>
    BY <1>4, <1>5
  <1>6. ASSUME NEW f \in Fibers, Proceeds(f) \/ LoopWaits(f) \/ ClaimEnds(f)
        PROVE  Granted' /\ Distinct'
    <2>1. \A g \in Fibers : Under(runs'[g]) => Same(g)
      BY <1>6, NoRunShape DEF Proceeds, SameClaim, LoopWaits, ClaimEnds, Alone
    <2>2. QED
      BY <1>4, <2>1
  <1>7. ASSUME NEW v \in Workers, Restart(v)
        PROVE  Granted' /\ Distinct'
    <2>1. \A g \in Fibers : Under(runs'[g]) => Same(g)
      BY <1>1, <1>7, RestartFields, NoRunShape
    <2>2. QED
      BY <1>4, <2>1
  <1>8. ASSUME NEW f \in Fibers, NEW x \in Ids, ClaimBegins(f, x)
        PROVE  Granted' /\ Distinct'
    <2>1. /\ Under(runs'[f]) /\ runs'[f].task = x
          /\ runs'[f].version = tasks'[x].version
          /\ tasks'[x].version = tasks[x].version + 1
          /\ \A g \in Fibers \ {f} : runs'[g] = runs[g]
      BY <1>8 DEF ClaimBegins, RunStarts, Alone
    <2>2. \A g \in Fibers \ {f} : Under(runs[g]) =>
            /\ runs[g].task \in Ids
            /\ runs[g].version <= tasks[runs[g].task].version
      BY <1>3 DEF Granted
    <2>3. Granted'
      <3>1. ASSUME NEW g \in Fibers, Under(runs'[g])
            PROVE  runs'[g].version <= tasks'[runs'[g].task].version
        <4>1. CASE g = f
          BY <1>2, <2>1, <4>1
        <4>2. CASE g # f
          BY <1>2, <1>3, <2>1, <2>2, <3>1, <4>2
        <4>3. QED
          BY <4>1, <4>2
      <3>2. QED
        BY <3>1 DEF Granted, Under
    <2>4. ASSUME NEW g \in Fibers \ {f}, Under(runs'[g]), runs'[g].task = x
          PROVE  runs'[g].version # runs'[f].version
      BY <1>2, <1>3, <2>1, <2>2, <2>4
    <2>5. Distinct'
      BY <2>1, <2>4 DEF Distinct, Under
    <2>6. QED
      BY <2>3, <2>5
  <1>9. QED
    BY <1>1, <1>5, <1>6, <1>7, <1>8 DEF RunsMove

\* Of any number of fibers that believe they hold a task, after any crashes and
\* lost answers, one at most passes the fence of the server.
THEOREM OneHolderOnly == WorkerSpec => []OneHolder
  <1>1. WorkerInit => Granted /\ Distinct
    BY NoRunShape DEF WorkerInit, Granted, Distinct
  <1>2. WInv /\ Granted /\ Distinct /\ [WorkerNext]_system => Granted' /\ Distinct'
    BY ClaimsStep
  <1>3. Distinct => OneHolder
    BY DEF Distinct, OneHolder, Claimed, Under, Holds, Gate
  <1>4. QED
    BY <1>1, <1>2, <1>3, WorkerInvariance, PTL DEF WorkerSpec

-----------------------------------------------------------------------------
(* Replays. *)

InBudget ==
  \A f \in Fibers : Under(runs[f]) => \A c \in Locals(runs[f].task) :
    /\ runs[f].attempt[c] <= BudgetOf(f, c) + 1
    /\ runs[f].handle[c] = "waiting" => runs[f].attempt[c] <= BudgetOf(f, c)

LEMMA BudgetType ==
  ASSUME NEW id \in Ids, NEW c \in Locals(id)
  PROVE  Budget(LocalStep(id, c).policy) \in Nat
  BY LocalStepType DEF Step, Policy, Budget

LEMMA InBudgetStep ==
  ASSUME WInv, InBudget, [WorkerNext]_system
  PROVE  InBudget'
  <1>1. RunsMove /\ Shape /\ Shape'
    BY WStep DEF WInv
  <1> DEFINE Kept(g) == \A c \in Locals(runs'[g].task) :
        /\ runs'[g].attempt[c] <= Budget(LocalStep(runs'[g].task, c).policy) + 1
        /\ runs'[g].handle[c] = "waiting" =>
             runs'[g].attempt[c] <= Budget(LocalStep(runs'[g].task, c).policy)
  <1>2. SUFFICES ASSUME NEW g \in Fibers, Under(runs'[g])
                 PROVE  Kept(g)
    BY DEF InBudget, Under, BudgetOf
  <1>3. ASSUME runs'[g] = runs[g]
        PROVE  Kept(g)
    BY <1>2, <1>3 DEF InBudget, BudgetOf
  <1>4. ASSUME Proceeds(g)
        PROVE  Kept(g)
    <2>1. SUFFICES ASSUME NEW c \in Locals(runs[g].task)
                   PROVE  /\ runs'[g].attempt[c] <= BudgetOf(g, c) + 1
                          /\ runs'[g].handle[c] = "waiting" =>
                               runs'[g].attempt[c] <= BudgetOf(g, c)
      BY <1>4 DEF Proceeds, SameClaim, BudgetOf
    <2>2. runs[g].task \in Ids /\ c \in Ids
      BY <1>1, <1>4, ShapeOf, LocalsAreIds DEF Proceeds, SameClaim, Under
    <2>3. BudgetOf(g, c) \in Nat
      BY <2>2, BudgetType DEF BudgetOf
    <2>4. runs[g].attempt[c] \in Nat
      BY <1>1, <2>2, ShapeOf DEF RunShape
    <2>5. AttemptMoves(g, c)
      BY <1>4 DEF Proceeds
    <2>6. /\ runs[g].attempt[c] <= BudgetOf(g, c) + 1
          /\ runs[g].handle[c] = "waiting" => runs[g].attempt[c] <= BudgetOf(g, c)
      BY <1>4 DEF InBudget, Proceeds, SameClaim
    <2>7. QED
      BY <2>3, <2>4, <2>5, <2>6 DEF AttemptMoves
  <1>5. ASSUME NEW id \in Ids, ClaimBegins(g, id)
        PROVE  Kept(g)
    <2>1. /\ runs'[g].task = id
          /\ \A c \in Ids : runs'[g].attempt[c] = 0 /\ runs'[g].handle[c] = "none"
      BY <1>5 DEF ClaimBegins, RunStarts
    <2>2. \A c \in Locals(id) : Budget(LocalStep(id, c).policy) \in Nat
      BY BudgetType
    <2>3. QED
      BY <2>1, <2>2, LocalsAreIds
  <1>6. ASSUME NEW f \in Fibers, Proceeds(f) \/ LoopWaits(f) \/ ClaimEnds(f)
        PROVE  runs'[g] = runs[g] \/ Proceeds(g)
    BY <1>2, <1>6, NoRunShape DEF Proceeds, LoopWaits, ClaimEnds, Alone
  <1>7. ASSUME NEW f \in Fibers, NEW id \in Ids, ClaimBegins(f, id)
        PROVE  runs'[g] = runs[g] \/ ClaimBegins(g, id)
    BY <1>7 DEF ClaimBegins, RunStarts, Alone
  <1>8. ASSUME NEW v \in Workers, Restart(v)
        PROVE  runs'[g] = runs[g]
    BY <1>1, <1>2, <1>8, RestartFields, NoRunShape
  <1>9. QED
    BY <1>1, <1>3, <1>4, <1>5, <1>6, <1>7, <1>8 DEF RunsMove

\* No interleaving of the forked fibers of a run attempts a step more often
\* than its policy permits, whatever the policies and scripts are.
THEOREM AttemptsStayInBudget == WorkerSpec => []AttemptsInBudget
  <1>1. WorkerInit => InBudget
    BY NoRunShape DEF WorkerInit, InBudget
  <1>2. WInv /\ InBudget /\ [WorkerNext]_system => InBudget'
    BY InBudgetStep
  <1>3. InBudget => AttemptsInBudget
    BY DEF InBudget, AttemptsInBudget, Running, Under, BudgetOf
  <1>4. QED
    BY <1>1, <1>2, <1>3, WorkerInvariance, PTL DEF WorkerSpec

Faithful ==
  \A f \in Fibers, c \in Ids : Under(runs[f]) =>
    /\ runs[f].cache[c] \in SettledStates =>
         Projected(promises[c], now).state = runs[f].cache[c]
    /\ runs[f].handle[c] \in SettledStates =>
         Projected(promises[c], now).state = runs[f].handle[c]

\* What a step learned is what it left behind.
LEMMA LearnedIsTrue ==
  ASSUME MInv', NEW c \in Ids, NEW state \in SettledStates, Learned(c, state),
         now \in Nat, now' \in Nat, now' >= now
  PROVE  Projected(promises'[c], now').state = state
  <1>1. promises'[c] \in Promise
    BY DEF MInv, IInv, TypeOK
  <1>2. state # "pending"
    BY DEF SettledStates
  <1>3. QED
    BY <1>1, <1>2 DEF Learned, Projected, Promise

LEMMA FaithfulStep ==
  ASSUME WInv, Faithful, [WorkerNext]_system, ClockLag = 0
  PROVE  Faithful'
  <1>1. /\ MInv /\ MInv' /\ Moves /\ RunsMove /\ Shape
        /\ now \in Nat /\ now' \in Nat /\ now' >= now
    BY WStep DEF WInv
  <1> DEFINE True(c, state) ==
        state \in SettledStates => Projected(promises[c], now).state = state
  <1>2. \A c \in Ids : \A state : True(c, state) => True(c, state)'
    BY <1>1, ObservationMoves
  <1>3. \A c \in Ids : \A state : Learned(c, state) => True(c, state)'
    BY <1>1, LearnedIsTrue
  <1>4. \A state \in {"none", "running", "waiting", "lost", "absent"} :
          state \notin SettledStates
    BY DEF SettledStates
  <1>5. SUFFICES ASSUME NEW g \in Fibers, NEW c \in Ids, Under(runs'[g])
                 PROVE  True(c, runs[g].cache[c])' /\ True(c, runs[g].handle[c])'
    BY DEF Faithful, Under
  <1>6. ASSUME Under(runs[g])
        PROVE  True(c, runs[g].cache[c]) /\ True(c, runs[g].handle[c])
    BY <1>6 DEF Faithful
  <1>7. ASSUME runs'[g] = runs[g]
        PROVE  True(c, runs[g].cache[c])' /\ True(c, runs[g].handle[c])'
    BY <1>2, <1>5, <1>6, <1>7
  <1>8. ASSUME Proceeds(g)
        PROVE  True(c, runs[g].cache[c])' /\ True(c, runs[g].handle[c])'
    <2>1. CacheMoves(g, c) /\ HandleMoves(g, c) /\ Under(runs[g])
      BY <1>8 DEF Proceeds, SameClaim
    <2>2. QED
      BY <1>2, <1>3, <1>4, <1>6, <2>1 DEF CacheMoves, HandleMoves
  <1>9. ASSUME NEW id \in Ids, ClaimBegins(g, id)
        PROVE  True(c, runs[g].cache[c])' /\ True(c, runs[g].handle[c])'
    BY <1>3, <1>4, <1>9 DEF ClaimBegins, RunStarts
  <1>10. ASSUME NEW f \in Fibers, Proceeds(f) \/ LoopWaits(f) \/ ClaimEnds(f)
         PROVE  runs'[g] = runs[g] \/ Proceeds(g)
    BY <1>5, <1>10, NoRunShape DEF Proceeds, LoopWaits, ClaimEnds, Alone
  <1>11. ASSUME NEW f \in Fibers, NEW id \in Ids, ClaimBegins(f, id)
         PROVE  runs'[g] = runs[g] \/ ClaimBegins(g, id)
    BY <1>11 DEF ClaimBegins, RunStarts, Alone
  <1>12. ASSUME NEW v \in Workers, Restart(v)
         PROVE  runs'[g] = runs[g]
    BY <1>1, <1>5, <1>12, RestartFields, NoRunShape
  <1>13. QED
    BY <1>1, <1>7, <1>8, <1>9, <1>10, <1>11, <1>12 DEF RunsMove

\* A handler is never told of an outcome that another replay of it is not told
\* of: by the preload, by the answer of a fence or by a settle of its own.
THEOREM ReplaysAreFaithful ==
  ASSUME ClockLag = 0
  PROVE  WorkerSpec => []ReplayFaithful
  <1>1. WorkerInit => Faithful
    BY NoRunShape DEF WorkerInit, Faithful
  <1>2. WInv /\ Faithful /\ [WorkerNext]_system => Faithful'
    BY FaithfulStep
  <1>3. Faithful => ReplayFaithful
    BY DEF Faithful, ReplayFaithful, Running, Under
  <1>4. QED
    BY <1>1, <1>2, <1>3, WorkerInvariance, PTL DEF WorkerSpec

-----------------------------------------------------------------------------
(* Answers of waiting clients. *)

LEMMA WorkerWaitsMove ==
  ASSUME TypeOK, QueueTrue, [WorkerNext]_system
  PROVE  WaitsMove
  <1>1. ASSUME NEW f \in Fibers, FiberNext(f)
        PROVE  waits' = waits
    BY <1>1 DEF FiberNext, Suspend, SuspendStartsOver, SuspendFails, Release, Close
  <1>2. ASSUME NEW w \in Workers, LoopNext(w) \/ Heartbeat(w) \/ Restart(w)
        PROVE  waits' = waits
    BY <1>2 DEF LoopNext, TakeChunk, NextMessage, Acquire, AcquireFails, Heartbeat, Restart
  <1>3. CASE ClientNext
    <2>1. waits' = waits
      BY <1>3 DEF ClientNext, BeginRpc, BeginRunLost, BeginRun, BeginRunExpired,
         SettleExternal, ClientCancel
    <2>2. QED
      BY <2>1 DEF WaitsMove
  <1>4. CASE ServerTick \/ ClockMoves \/ UNCHANGED system
    <2>1. waits' = waits
      BY <1>4 DEF ServerTick, ClockMoves, system
    <2>2. QED
      BY <2>1 DEF WaitsMove
  <1>5. ASSUME NEW a \in Waiters, AwaitSettled(a)
        PROVE  WaitsMove
    BY <1>5, WaiterMoves DEF AwaitSettled, WaitsMove
  <1>6. ASSUME waits' = waits
        PROVE  WaitsMove
    BY <1>6 DEF WaitsMove
  <1>7. QED
    BY <1>1, <1>2, <1>3, <1>4, <1>5, <1>6 DEF WorkerNext

LEMMA AnswerStep ==
  ASSUME WInv, QueueTrue, WaitsShape, [WorkerNext]_system
  PROVE  /\ QueueTrue' /\ WaitsShape'
         /\ ClockLag = 0 /\ AnswerTrue => AnswerTrue'
  <1>1. /\ MInv /\ MInv' /\ Moves /\ Shape /\ TypeOK
        /\ now \in Nat /\ now' \in Nat /\ now' >= now
    BY WStep DEF WInv, MInv, IInv
  <1>2. QueueTrue'
    BY <1>1, WorkerServed, ServedStep
  <1>3. WaitsMove
    BY <1>1, WorkerWaitsMove
  <1>4. QED
    BY <1>1, <1>2, <1>3, WaitsType, AnswerMoves

\* What a client is told by awaitSettled is what every reader is told, however
\* many consumers the messages of the queue are shared with.
THEOREM AnswersAreTrue ==
  ASSUME ClockLag = 0
  PROVE  WorkerSpec => []AnswerTrue
  <1>1. WorkerInit => QueueTrue /\ WaitsShape /\ AnswerTrue
    BY QueueInit, WaitsInit DEF WorkerInit
  <1>2. WInv /\ QueueTrue /\ WaitsShape /\ AnswerTrue /\ [WorkerNext]_system =>
          QueueTrue' /\ WaitsShape' /\ AnswerTrue'
    BY AnswerStep
  <1>3. QED
    BY <1>1, <1>2, WorkerInvariance, PTL DEF WorkerSpec

================================================================================
