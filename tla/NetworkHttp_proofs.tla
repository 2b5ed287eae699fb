-------------------------- MODULE NetworkHttp_proofs --------------------------
(***************************************************************************)
(* The theorems of NetworkHttp, for every number of waiters and faults: a   *)
(* network that loses requests, answers, frames and connections neither     *)
(* corrupts the state of the client nor what the server promises, and what  *)
(* awaitSettled answers is true however late its take is read.              *)
(***************************************************************************)
EXTENDS NetworkHttp, DurablePromises_proofs

\* A take that says something says the truth whenever it is read.
TakeTrue(take) == take \in Message => MessageTrue(take)
InboxOf(s) == inbox[s].takes
TakesTrue ==
  /\ TakeTrue(last)
  /\ \A s \in Subscribers : \A k \in 1..Len(InboxOf(s)) : TakeTrue(InboxOf(s)[k])
HInv == MInv /\ QueueTrue /\ HttpTypeOK /\ TakesTrue

LEMMA KindsOfTakes ==
  /\ EndTake \notin Message /\ FailureTake \notin Message /\ NoTake \notin Message
  /\ EndTake # FailureTake /\ EndTake.kind = "end" /\ FailureTake.kind = "failure"
  /\ EndTake \in Takes /\ FailureTake \in Takes /\ NoTake \notin Takes
  /\ Message \subseteq Takes
  BY DEF EndTake, FailureTake, NoTake, Takes, Message

LEMMA TakeLasts ==
  ASSUME Moves, NEW take, TakeTrue(take)
  PROVE  TakeTrue(take)'
  BY TruthLasts DEF TakeTrue

-----------------------------------------------------------------------------
(* Every step is one request to the server, a tick or time that passes.     *)

LEMMA FrameServed ==
  ASSUME NEW m, TakeFromServer(m)
  PROVE  Served
  BY DEF TakeFromServer, Served, Passes

LEMMA StreamServed ==
  ASSUME StreamNext
  PROVE  Served
  BY FrameServed, NothingIsServed
  DEF StreamNext, Connect, ConnectionLost, Reconnect, ConnectUnauthorized,
      StreamEnds, DeliverFrame, MalformedFrame, FrameLost

LEMMA HttpWaiterServed ==
  ASSUME NEW a \in Waiters, HttpWaiterNext(a)
  PROVE  Served
  <1>1. CASE \/ RegisterPending(a) \/ RegisterFoundSettled(a)
             \/ RegisterRefused(a) \/ TryAgain(a) \/ Subscribe(a) \/ StopListening(a)
    BY <1>1, WaiterServed DEF WaiterNext
  <1>2. CASE RegisterFails(a)
    <2>1. AwaitedId[a] \in Ids /\ UnicastOf[a] \in Addresses
      BY WaiterAssumption
    <2>2. QED
      BY <1>2, <2>1, NothingIsServed DEF RegisterFails, Served, Requested
  <1>3. CASE ReadTake(a)
    BY <1>3, NothingIsServed DEF ReadTake
  <1>4. QED
    BY <1>1, <1>2, <1>3 DEF HttpWaiterNext, HttpSubscribe, HttpStopListening

LEMMA LoopServed ==
  ASSUME HttpTypeOK, LoopNext
  PROVE  Served
  <1>1. loop.task \in Ids /\ Loop \in Pids /\ LoopTtl \in Ttls
    BY HttpAssumption DEF HttpTypeOK, LoopState
  <1>2. CASE LoopReads
    BY <1>2, NothingIsServed DEF LoopReads
  <1>3. CASE LoopClaims
    BY <1>1, <1>3, NothingIsServed DEF LoopClaims, TaskAcquire, Served, Requested
  <1>4. CASE LoopFulfills
    <2>1. "resolved" \in SettledStates
      BY DEF SettledStates
    <2>2. QED
      BY <1>1, <1>4, <2>1, NothingIsServed
      DEF LoopFulfills, TaskFulfill, Gate, Served, Requested
  <1>5. CASE LoopReleases
    BY <1>1, <1>5, NothingIsServed DEF LoopReleases, Served, Requested
  <1>6. QED
    BY <1>2, <1>3, <1>4, <1>5 DEF LoopNext

LEMMA HttpServed ==
  ASSUME HttpTypeOK, [HttpNext]_http
  PROVE  Served
  <1>1. CASE Invoke
    <2>1. Root \in Ids /\ RootTags \in Tags /\ RootDeadline \in Int
      BY HttpAssumption, ServerAssumption
    <2>2. QED
      BY <1>1, <2>1 DEF Invoke, Served, Requested, Stores
  <1>2. CASE ServerTicks
    BY <1>2 DEF ServerTicks, Served
  <1>3. CASE TimePasses
    BY <1>3 DEF TimePasses, Advance, mail, Served, Passes
  <1>4. CASE UNCHANGED http
    BY <1>4, NothingIsServed DEF http, vars
  <1>5. QED
    BY <1>1, <1>2, <1>3, <1>4, StreamServed, HttpWaiterServed, LoopServed
    DEF HttpNext

-----------------------------------------------------------------------------
(* The takes that are published and read.                                   *)

\* What one step does to the takes: the last one and every one in an inbox is
\* one that was there or the one the step publishes.
KnownTake(take) ==
  \/ take = last
  \/ take \in {EndTake, FailureTake}
  \/ take \in queue
  \/ \E s \in Subscribers : \E k \in 1..Len(InboxOf(s)) : take = InboxOf(s)[k]
TakesMove ==
  /\ last' \in Takes \cup {NoTake} /\ (last' = last \/ KnownTake(last'))
  /\ inbox' \in [Subscribers -> Inbox]
  /\ \A s \in Subscribers : \A k \in 1..Len(inbox'[s].takes) : KnownTake(inbox'[s].takes[k])

\* What a take says is true after the step.
TrueAfter(take) ==
  take \in Message =>
    /\ take.kind = "unblock" => promises'[take.id].state \in SettledStates
    /\ take.kind = "execute" => take.version \in Nat

LEMMA TakesStep ==
  ASSUME Moves, QueueTrue, TakesTrue, TakesMove
  PROVE  TakesTrue'
  <1>1. \A take : KnownTake(take) => TrueAfter(take)
    <2>1. SUFFICES ASSUME NEW take, KnownTake(take)
                   PROVE  TrueAfter(take)
      OBVIOUS
    <2>2. TakeTrue(take)
      BY <2>1, KindsOfTakes DEF KnownTake, TakesTrue, TakeTrue, QueueTrue
    <2>3. TakeTrue(take)'
      BY <2>2, TakeLasts
    <2>4. QED
      BY <2>3 DEF TakeTrue, MessageTrue, TrueAfter
  <1>2. TrueAfter(last')
    BY <1>1 DEF TakesMove, KnownTake
  <1>3. \A s \in Subscribers : \A k \in 1..Len(inbox'[s].takes) :
          TrueAfter(inbox'[s].takes[k])
    BY <1>1 DEF TakesMove, InboxOf
  <1>4. QED
    BY <1>2, <1>3 DEF TakesTrue, TakeTrue, MessageTrue, TrueAfter, InboxOf

LEMMA SameTakes ==
  ASSUME HttpTypeOK, UNCHANGED <<last, inbox>>
  PROVE  TakesMove
  BY DEF HttpTypeOK, TakesMove, KnownTake, InboxOf

LEMMA PublishMoves ==
  ASSUME HttpTypeOK, NEW take \in Takes, KnownTake(take), Publish(take)
  PROVE  /\ TakesMove
         /\ \A s \in Subscribers : inbox'[s].on = inbox[s].on
  <1>1. \A s \in Subscribers : inbox[s] \in Inbox /\ InboxOf(s) \in Seq(Takes)
    BY DEF HttpTypeOK, Inbox, InboxOf
  <1>2. ASSUME NEW s \in Subscribers
        PROVE  /\ inbox'[s] \in Inbox /\ inbox'[s].on = inbox[s].on
               /\ \/ inbox'[s].takes = InboxOf(s)
                  \/ inbox'[s].takes = Append(InboxOf(s), take)
    <2> DEFINE more == Append(InboxOf(s), take)
    <2>1. more \in Seq(Takes)
      BY <1>1
    <2>2. inbox'[s] = IF inbox[s].on THEN [inbox[s] EXCEPT !.takes = more]
                                     ELSE inbox[s]
      BY DEF Publish, InboxOf
    <2> HIDE DEF more
    <2>3. QED
      BY <1>1, <2>1, <2>2 DEF Inbox, InboxOf, more
  <1>3. inbox' \in [Subscribers -> Inbox]
    <2>1. inbox' = [s \in Subscribers |-> inbox'[s]]
      BY DEF Publish
    <2>2. QED
      BY <1>2, <2>1
  <1>4. ASSUME NEW s \in Subscribers, NEW k \in 1..Len(inbox'[s].takes)
        PROVE  KnownTake(inbox'[s].takes[k])
    <2>1. CASE inbox'[s].takes = InboxOf(s)
      BY <1>4, <2>1 DEF KnownTake
    <2>2. CASE inbox'[s].takes = Append(InboxOf(s), take)
      <3>1. \/ k \in 1..Len(InboxOf(s)) /\ inbox'[s].takes[k] = InboxOf(s)[k]
            \/ inbox'[s].takes[k] = take
        BY <1>1, <1>4, <2>2
      <3>2. QED
        BY <3>1 DEF KnownTake
    <2>3. QED
      BY <1>2, <2>1, <2>2
  <1>5. QED
    BY <1>2, <1>3, <1>4 DEF TakesMove, Publish

\* A subscriber reads the first of its takes.
LEMMA ReadMoves ==
  ASSUME HttpTypeOK, NEW s \in Subscribers, InboxOf(s) # <<>>, last' = last,
         inbox' = [inbox EXCEPT ![s].takes = Tail(@)]
  PROVE  /\ TakesMove
         /\ \A z \in Subscribers : inbox'[z].on = inbox[z].on
         /\ Head(InboxOf(s)) \in Takes /\ Head(InboxOf(s)) = InboxOf(s)[1]
         /\ 1 \in 1..Len(InboxOf(s))
  <1>1. \A z \in Subscribers : inbox[z] \in Inbox /\ InboxOf(z) \in Seq(Takes)
    BY DEF HttpTypeOK, Inbox, InboxOf
  <1>2. /\ Tail(InboxOf(s)) \in Seq(Takes)
        /\ Len(Tail(InboxOf(s))) = Len(InboxOf(s)) - 1
        /\ \A k \in 1..Len(Tail(InboxOf(s))) :
             /\ k + 1 \in 1..Len(InboxOf(s))
             /\ Tail(InboxOf(s))[k] = InboxOf(s)[k + 1]
    BY <1>1
  <1>3. /\ Head(InboxOf(s)) \in Takes /\ Head(InboxOf(s)) = InboxOf(s)[1]
        /\ 1 \in 1..Len(InboxOf(s))
    BY <1>1
  <1> DEFINE read == [inbox[s] EXCEPT !.takes = Tail(InboxOf(s))]
  <1>4. inbox' = [inbox EXCEPT ![s] = read]
    BY DEF HttpTypeOK, InboxOf
  <1>5. read \in Inbox /\ read.on = inbox[s].on /\ read.takes = Tail(InboxOf(s))
    BY <1>1, <1>2 DEF Inbox
  <1> HIDE DEF read
  <1>6. /\ inbox' \in [Subscribers -> Inbox]
        /\ inbox'[s] = read /\ \A z \in Subscribers \ {s} : inbox'[z] = inbox[z]
    BY <1>4, <1>5 DEF HttpTypeOK
  <1>7. \A z \in Subscribers : \A k \in 1..Len(inbox'[z].takes) : KnownTake(inbox'[z].takes[k])
    <2>1. \A k \in 1..Len(inbox'[s].takes) : KnownTake(inbox'[s].takes[k])
      <3>1. inbox'[s].takes = Tail(InboxOf(s))
        BY <1>5, <1>6
      <3>2. \A k \in 1..Len(inbox'[s].takes) :
              /\ k + 1 \in 1..Len(InboxOf(s))
              /\ inbox'[s].takes[k] = InboxOf(s)[k + 1]
        BY <1>2, <3>1
      <3>3. QED
        BY <3>2 DEF KnownTake
    <2>2. \A z \in Subscribers \ {s} : inbox'[z].takes = InboxOf(z)
      BY <1>6 DEF InboxOf
    <2>3. QED
      BY <2>1, <2>2 DEF KnownTake
  <1>8. QED
    BY <1>3, <1>5, <1>6, <1>7 DEF TakesMove, HttpTypeOK

\* A waiter subscribes or unsubscribes.
LEMMA SubscriptionMoves ==
  ASSUME HttpTypeOK, NEW a \in Waiters, NEW on \in BOOLEAN, NEW takes,
         takes = <<>> \/ (last # NoTake /\ takes = <<last>>), last' = last,
         inbox' = [inbox EXCEPT ![a] = [on |-> on, takes |-> takes]]
  PROVE  /\ TakesMove /\ inbox'[a].on = on
         /\ \A z \in Subscribers \ {a} : inbox'[z].on = inbox[z].on
  <1>1. a \in Subscribers
    BY DEF Subscribers
  <1>2. takes \in Seq(Takes) /\ \A k \in 1..Len(takes) : takes[k] = last
    <2>1. CASE takes = <<>>
      BY <2>1
    <2>2. CASE last # NoTake /\ takes = <<last>>
      <3>1. last \in Takes
        BY <2>2 DEF HttpTypeOK
      <3>2. QED
        BY <2>2, <3>1
    <2>3. QED
      BY <2>1, <2>2
  <1>3. [on |-> on, takes |-> takes] \in Inbox
    BY <1>2 DEF Inbox
  <1>4. /\ inbox' \in [Subscribers -> Inbox]
        /\ inbox'[a] = [on |-> on, takes |-> takes]
        /\ \A z \in Subscribers \ {a} : inbox'[z] = inbox[z]
    BY <1>1, <1>3 DEF HttpTypeOK
  <1>5. \A z \in Subscribers : \A k \in 1..Len(inbox'[z].takes) : KnownTake(inbox'[z].takes[k])
    <2>1. inbox'[a].takes = takes
      BY <1>4
    <2>2. \A z \in Subscribers \ {a} : inbox'[z].takes = InboxOf(z)
      BY <1>4 DEF InboxOf
    <2>3. QED
      BY <1>2, <2>1, <2>2 DEF KnownTake
  <1>6. QED
    BY <1>4, <1>5 DEF TakesMove, HttpTypeOK

-----------------------------------------------------------------------------
(* The connection.                                                          *)

LEMMA BackOffType ==
  ASSUME TypeOK, conn \in Connection, BackOff
  PROVE  conn' \in Connection
  <1>1. NextPause \in Nat
    BY HttpAssumption DEF NextPause, Connection
  <1>2. Timer(NextPause) \in Int
    BY <1>1, TimersType
  <1> HIDE DEF NextPause
  <1>3. QED
    BY <1>1, <1>2 DEF BackOff, Connection

\* The stream publishes, the rest of the client stays as it is.
StreamMoves ==
  /\ conn' \in Connection
  /\ TakesMove
  /\ \A s \in Subscribers : inbox'[s].on = inbox[s].on
  /\ UNCHANGED <<loop, waits>>

LEMMA StreamStep ==
  ASSUME TypeOK, HttpTypeOK, StreamNext
  PROVE  StreamMoves
  <1>1. conn \in Connection
    BY DEF HttpTypeOK
  <1>2. CASE Connect \/ Reconnect \/ ConnectionLost
    <2>1. conn' \in Connection
      BY <1>1, <1>2, BackOffType DEF Connect, Reconnect, ConnectionLost, Connection
    <2>2. QED
      BY <1>2, <2>1, SameTakes DEF Connect, Reconnect, ConnectionLost, StreamMoves
  <1>3. CASE ConnectUnauthorized
    <2>1. conn' \in Connection
      BY <1>1, <1>3 DEF ConnectUnauthorized, Connection
    <2>2. QED
      BY <1>3, <2>1, KindsOfTakes, PublishMoves
      DEF ConnectUnauthorized, KnownTake, StreamMoves
  <1>4. CASE StreamEnds
    <2>1. conn' \in Connection
      BY <1>1, <1>4 DEF StreamEnds, Connection
    <2>2. QED
      BY <1>4, <2>1, KindsOfTakes, PublishMoves DEF StreamEnds, KnownTake, StreamMoves
  <1>5. ASSUME NEW m \in queue, DeliverFrame(m)
        PROVE  StreamMoves
    <2>1. conn' \in Connection
      BY <1>1, <1>5 DEF DeliverFrame, Connection
    <2>2. m \in Takes /\ KnownTake(m)
      BY KindsOfTakes DEF TypeOK, KnownTake
    <2>3. QED
      BY <1>5, <2>1, <2>2, PublishMoves DEF DeliverFrame, StreamMoves
  <1>6. ASSUME NEW m \in queue, MalformedFrame(m) \/ FrameLost(m)
        PROVE  StreamMoves
    <2>1. conn' \in Connection
      BY <1>1, <1>6, BackOffType DEF MalformedFrame, FrameLost, client
    <2>2. UNCHANGED <<last, inbox, loop, waits>>
      BY <1>6 DEF MalformedFrame, FrameLost, client
    <2>3. QED
      BY <2>1, <2>2, SameTakes DEF StreamMoves
  <1>7. QED
    BY <1>2, <1>3, <1>4, <1>5, <1>6 DEF StreamNext

-----------------------------------------------------------------------------
(* The waiters.                                                             *)

\* A waiter subscribes when it begins to listen, and only then.
Attends(a) ==
  /\ waits' = waits \/ Answers(a) \/ MovesOn(a)
  /\ inbox'[a].on <=> waits'[a].stage = "listening"
  /\ \A z \in Subscribers \ {a} : inbox'[z].on = inbox[z].on
  /\ TakesMove
  /\ UNCHANGED <<conn, loop>>

\* A waiter that goes on to another stage, or is done.
LEMMA StageAfter ==
  ASSUME HttpTypeOK, NEW a \in Waiters
  PROVE  /\ \A stage : Reaches(a, stage) => waits'[a].stage = stage
         /\ \A stage, d : Waits(a, stage, d) => waits'[a].stage = stage
         /\ \A answer : Settles(a, answer) => waits'[a].stage = "done"
  BY DEF HttpTypeOK, Waiting, Reaches, Waits, Settles

LEMMA RegisteringAttends ==
  ASSUME TypeOK, QueueTrue, HttpTypeOK, NEW a \in Waiters,
         \/ RegisterPending(a) \/ RegisterFoundSettled(a)
         \/ RegisterRefused(a) \/ TryAgain(a) \/ RegisterFails(a),
         UNCHANGED <<conn, last, inbox, loop>>
  PROVE  Attends(a)
  <1>1. waits' = waits \/ Answers(a) \/ MovesOn(a)
    BY WaiterMoves, PauseMovesOn DEF WaiterNext, RegisterFails
  <1>2. waits[a].stage # "listening" /\ waits'[a].stage # "listening"
    BY StageAfter DEF RegisterPending, RegisterFoundSettled, RegisterRefused,
       TryAgain, RegisterFails
  <1>3. inbox[a].on <=> waits[a].stage = "listening"
    BY DEF HttpTypeOK
  <1>4. QED
    BY <1>1, <1>2, <1>3, SameTakes DEF Attends

LEMMA SubscribingAttends ==
  ASSUME TypeOK, QueueTrue, HttpTypeOK, NEW a \in Waiters, HttpSubscribe(a)
  PROVE  Attends(a)
  <1>1. waits' = waits \/ Answers(a) \/ MovesOn(a)
    BY WaiterMoves DEF WaiterNext, HttpSubscribe
  <1>2. waits'[a].stage = "listening"
    BY StageAfter DEF HttpSubscribe, Subscribe
  <1> DEFINE takes == IF last = NoTake THEN <<>> ELSE <<last>>
  <1>3. /\ takes = <<>> \/ (last # NoTake /\ takes = <<last>>)
        /\ last' = last
        /\ inbox' = [inbox EXCEPT ![a] = [on |-> TRUE, takes |-> takes]]
    BY DEF HttpSubscribe
  <1> HIDE DEF takes
  <1>4. /\ TakesMove /\ inbox'[a].on = TRUE
        /\ \A z \in Subscribers \ {a} : inbox'[z].on = inbox[z].on
    BY <1>3, SubscriptionMoves
  <1>5. QED
    BY <1>1, <1>2, <1>4 DEF Attends, HttpSubscribe

LEMMA LeavingAttends ==
  ASSUME HttpTypeOK, NEW a \in Waiters, Unsubscribes(a), UNCHANGED <<conn, last, loop>>,
         Answers(a) \/ MovesOn(a), waits'[a].stage # "listening"
  PROVE  Attends(a)
  <1>1. inbox' = [inbox EXCEPT ![a] = [on |-> FALSE, takes |-> <<>>]]
    BY DEF Unsubscribes, Unsubscribed
  <1>2. /\ TakesMove /\ inbox'[a].on = FALSE
        /\ \A z \in Subscribers \ {a} : inbox'[z].on = inbox[z].on
    BY <1>1, SubscriptionMoves
  <1>3. QED
    BY <1>2 DEF Attends

LEMMA ReadingAttends ==
  ASSUME TypeOK, HttpTypeOK, TakesTrue, NEW a \in Waiters, ReadTake(a)
  PROVE  Attends(a)
  <1>1. a \in Subscribers /\ InboxOf(a) # <<>> /\ inbox[a] \in Inbox
    BY DEF Subscribers, ReadTake, InboxOf, HttpTypeOK
  <1>2. /\ Head(InboxOf(a)) = InboxOf(a)[1] /\ 1 \in 1..Len(InboxOf(a))
    BY <1>1 DEF Inbox, InboxOf
  <1>3. PICK take : take = Head(inbox[a].takes)
    OBVIOUS
  <1>4. TakeTrue(take)
    BY <1>1, <1>2, <1>3 DEF TakesTrue, InboxOf
  <1>5. UNCHANGED <<conn, last, loop>>
    BY DEF ReadTake
  <1>6. CASE take \in Message /\ Announces(take, a)
             /\ Settles(a, promises[take.id].state) /\ Unsubscribes(a)
    <2>1. Answers(a)
      BY <1>4, <1>6, TruthAnswers DEF TakeTrue
    <2>2. waits'[a].stage = "done"
      BY <1>6, StageAfter
    <2>3. QED
      BY <1>5, <1>6, <2>1, <2>2, LeavingAttends
  <1>7. CASE inbox' = [inbox EXCEPT ![a].takes = Tail(@)] /\ waits' = waits
    <2>1. TakesMove /\ \A z \in Subscribers : inbox'[z].on = inbox[z].on
      BY <1>1, <1>5, <1>7, ReadMoves
    <2>2. inbox[a].on <=> waits[a].stage = "listening"
      BY DEF HttpTypeOK
    <2>3. QED
      BY <1>1, <1>5, <1>7, <2>1, <2>2 DEF Attends
  <1>8. CASE Reaches(a, "registering") /\ Unsubscribes(a)
    <2>1. MovesOn(a) /\ waits'[a].stage = "registering"
      BY <1>8, StageAfter DEF MovesOn, Reaches
    <2>2. QED
      BY <1>5, <1>8, <2>1, LeavingAttends
  <1>9. CASE Reaches(a, "pausing") /\ Unsubscribes(a)
    <2>1. MovesOn(a) /\ waits'[a].stage = "pausing"
      BY <1>9, StageAfter DEF MovesOn, Reaches
    <2>2. QED
      BY <1>5, <1>9, <2>1, LeavingAttends
  <1>10. QED
    BY <1>3, <1>6, <1>7, <1>8, <1>9 DEF ReadTake

LEMMA HttpWaiterStep ==
  ASSUME TypeOK, QueueTrue, HttpTypeOK, TakesTrue, NEW a \in Waiters, HttpWaiterNext(a)
  PROVE  Attends(a)
  <1>1. CASE HttpStopListening(a)
    <2>1. waits'[a].stage = "registering" /\ MovesOn(a)
      BY <1>1, StageAfter DEF HttpStopListening, StopListening, Reaches, MovesOn
    <2>2. QED
      BY <1>1, <2>1, LeavingAttends DEF HttpStopListening
  <1>2. CASE RegisterFails(a)
    BY <1>2, RegisteringAttends DEF RegisterFails
  <1>3. QED
    BY <1>1, <1>2, RegisteringAttends, SubscribingAttends, ReadingAttends
    DEF HttpWaiterNext

-----------------------------------------------------------------------------
(* The message loop.                                                        *)

LoopMoves ==
  /\ loop' \in LoopState
  /\ TakesMove
  /\ \A s \in Subscribers : inbox'[s].on = inbox[s].on
  /\ UNCHANGED <<conn, waits>>

LEMMA LoopReadsMoves ==
  ASSUME HttpTypeOK, TakesTrue, LoopReads
  PROVE  LoopMoves
  <1>1. Loop \in Subscribers /\ InboxOf(Loop) # <<>> /\ loop \in LoopState
    BY DEF Subscribers, LoopReads, InboxOf, HttpTypeOK
  <1>2. /\ TakesMove /\ \A z \in Subscribers : inbox'[z].on = inbox[z].on
        /\ Head(InboxOf(Loop)) \in Takes /\ Head(InboxOf(Loop)) = InboxOf(Loop)[1]
        /\ 1 \in 1..Len(InboxOf(Loop))
    BY <1>1, ReadMoves DEF LoopReads
  <1>3. PICK take \in Takes : take = Head(inbox[Loop].takes)
    BY <1>2 DEF InboxOf
  <1>4. TakeTrue(take)
    BY <1>1, <1>2, <1>3 DEF TakesTrue, InboxOf
  <1>5. loop' = CASE take \in {EndTake, FailureTake} -> [loop EXCEPT !.stage = "stopped"]
                  [] take.kind = "unblock" -> loop
                  [] take.kind = "execute" ->
                       [stage |-> "claiming", task |-> take.id,
                        version |-> take.version]
    BY <1>3 DEF LoopReads
  <1>6. CASE take \in {EndTake, FailureTake}
    <2>1. take.kind # "unblock" /\ take.kind # "execute"
      BY <1>6, KindsOfTakes
    <2>2. loop' = [loop EXCEPT !.stage = "stopped"]
      BY <1>5, <1>6, <2>1
    <2>3. loop' \in LoopState
      BY <1>1, <2>2 DEF LoopState
    <2>4. QED
      BY <1>2, <2>3 DEF LoopReads, LoopMoves
  <1>7. CASE take \in Message
    <2>1. take \notin {EndTake, FailureTake}
      BY <1>7, KindsOfTakes
    <2>2. CASE take.kind = "unblock"
      <3>1. loop' = loop
        BY <1>5, <2>1, <2>2
      <3>2. QED
        BY <1>1, <1>2, <3>1 DEF LoopReads, LoopMoves
    <2>3. CASE take.kind = "execute"
      <3>1. loop' = [stage |-> "claiming", task |-> take.id, version |-> take.version]
        BY <1>5, <2>1, <2>3
      <3>2. take.id \in Ids /\ take.version \in Nat
        BY <1>4, <1>7, <2>3 DEF Message, TakeTrue, MessageTrue
      <3>3. loop' \in LoopState
        BY <3>1, <3>2 DEF LoopState
      <3>4. QED
        BY <1>2, <3>3 DEF LoopReads, LoopMoves
    <2>4. QED
      BY <1>7, <2>2, <2>3 DEF Message
  <1>8. QED
    BY <1>6, <1>7 DEF Takes

LEMMA LoopStep ==
  ASSUME HttpTypeOK, TakesTrue, LoopNext
  PROVE  LoopMoves
  <1>1. loop \in LoopState
    BY DEF HttpTypeOK
  <1>2. CASE LoopClaims \/ LoopFulfills \/ LoopReleases
    <2>1. loop' \in LoopState
      <3>1. ASSUME NEW stage \in {"idle", "claiming", "running", "releasing", "stopped"},
                   LoopReaches(stage)
            PROVE  loop' \in LoopState
        BY <1>1, <3>1 DEF LoopReaches, LoopState
      <3>2. CASE loop' = [loop EXCEPT !.stage = "running", !.version = @ + 1]
        <4> DEFINE next == loop.version + 1
        <4>1. next \in Nat
          BY <1>1 DEF LoopState
        <4>2. loop' = [loop EXCEPT !.stage = "running", !.version = next]
          BY <3>2
        <4> HIDE DEF next
        <4>3. QED
          BY <1>1, <4>1, <4>2 DEF LoopState
      <3>3. QED
        BY <1>2, <3>1, <3>2 DEF LoopClaims, LoopFulfills, LoopReleases, DropsMessage
    <2>2. UNCHANGED <<conn, last, inbox, waits>>
      BY <1>2 DEF LoopClaims, LoopFulfills, LoopReleases
    <2>3. QED
      BY <2>1, <2>2, SameTakes DEF LoopMoves
  <1>3. QED
    BY <1>2, LoopReadsMoves DEF LoopNext

-----------------------------------------------------------------------------
(* The invariant.                                                           *)

LEMMA HInit ==
  ASSUME HttpInit
  PROVE  HInv
  <1>1. MInv /\ QueueTrue
    BY MovesInit, QueueInit DEF HttpInit
  <1>2. waits \in [Waiters -> Waiting]
    BY WaitsInit DEF HttpInit, WaitsShape
  <1>3. \A a \in Waiters : a # Loop /\ waits[a].stage = "registering"
    BY HttpAssumption DEF HttpInit, WaitersInit, NoWait
  <1>4. \A s \in Subscribers :
          /\ inbox[s] = [on |-> (s = Loop), takes |-> <<>>]
          /\ inbox[s].on <=> s = Loop
          /\ inbox[s].takes = <<>>
    BY DEF HttpInit, Unsubscribed
  <1>5. inbox \in [Subscribers -> Inbox]
    <2>1. <<>> \in Seq(Takes)
      OBVIOUS
    <2>2. \A s \in Subscribers : [on |-> (s = Loop), takes |-> <<>>] \in Inbox
      BY <2>1 DEF Inbox
    <2>3. inbox = [s \in Subscribers |-> inbox[s]]
      BY DEF HttpInit
    <2>4. QED
      BY <1>4, <2>2, <2>3
  <1>6. \A a \in Waiters : inbox[a].on <=> waits[a].stage = "listening"
    BY <1>3, <1>4 DEF Subscribers
  <1>7. conn \in Connection /\ last \in Takes \cup {NoTake} /\ loop \in LoopState
    BY HttpAssumption DEF HttpInit, Connection, NotSet, LoopState
  <1>8. TakesTrue
    <2>1. last \notin Message
      BY KindsOfTakes DEF HttpInit
    <2>2. \A s \in Subscribers : InboxOf(s) = <<>>
      BY <1>4 DEF InboxOf
    <2>3. QED
      BY <2>1, <2>2 DEF TakesTrue, TakeTrue
  <1>9. QED
    BY <1>1, <1>2, <1>5, <1>6, <1>7, <1>8 DEF HInv, HttpTypeOK

\* What a step does to the client.
ClientMoves ==
  /\ conn' \in Connection /\ loop' \in LoopState
  /\ TakesMove
  /\ WaitsMove
  /\ \A a \in Waiters : inbox'[a].on <=> waits'[a].stage = "listening"

LEMMA ClientStep ==
  ASSUME TypeOK, QueueTrue, HttpTypeOK, TakesTrue, [HttpNext]_http
  PROVE  ClientMoves
  <1>1. /\ conn \in Connection /\ loop \in LoopState /\ waits \in [Waiters -> Waiting]
        /\ \A a \in Waiters : inbox[a].on <=> waits[a].stage = "listening"
        /\ Waiters \subseteq Subscribers
    BY DEF HttpTypeOK, Subscribers
  <1>2. CASE StreamNext
    <2>1. StreamMoves
      BY <1>2, StreamStep
    <2>2. QED
      BY <1>1, <2>1 DEF StreamMoves, ClientMoves, WaitsMove
  <1>3. ASSUME NEW a \in Waiters, HttpWaiterNext(a)
        PROVE  ClientMoves
    <2>1. Attends(a)
      BY <1>3, HttpWaiterStep
    <2>2. \A b \in Waiters \ {a} : waits'[b] = waits[b]
      BY <1>1, <2>1 DEF Attends, Answers, MovesOn
    <2>3. QED
      BY <1>1, <2>1, <2>2 DEF Attends, ClientMoves, WaitsMove
  <1>4. CASE LoopNext
    <2>1. LoopMoves
      BY <1>4, LoopStep
    <2>2. QED
      BY <1>1, <2>1 DEF LoopMoves, ClientMoves, WaitsMove
  <1>5. CASE Invoke \/ ServerTicks \/ TimePasses \/ UNCHANGED http
    <2>1. UNCHANGED client
      BY <1>5 DEF Invoke, ServerTicks, TimePasses, client, http
    <2>2. TakesMove
      BY <2>1, SameTakes DEF client
    <2>3. QED
      BY <1>1, <2>1, <2>2 DEF client, ClientMoves, WaitsMove
  <1>6. QED
    BY <1>2, <1>3, <1>4, <1>5 DEF HttpNext

LEMMA HStep ==
  ASSUME HInv, [HttpNext]_http
  PROVE  /\ HInv' /\ Moves /\ WaitsMove /\ WaitsShape
         /\ now \in Nat /\ now' \in Nat /\ now' >= now
  <1>1. TypeOK /\ WaitsShape
    BY DEF HInv, MInv, IInv, HttpTypeOK, WaitsShape
  <1>2. /\ MInv' /\ Moves /\ QueueTrue'
        /\ now \in Nat /\ now' \in {now, now + 1}
    BY HttpServed, ServedStep DEF HInv
  <1>3. ClientMoves
    BY <1>1, ClientStep DEF HInv
  <1>4. TakesTrue'
    BY <1>2, <1>3, TakesStep DEF HInv, ClientMoves
  <1>5. WaitsShape'
    BY <1>1, <1>3, WaitsType DEF ClientMoves
  <1>6. HttpTypeOK'
    BY <1>3, <1>5 DEF ClientMoves, TakesMove, WaitsShape, HttpTypeOK
  <1>7. QED
    BY <1>1, <1>2, <1>3, <1>4, <1>6 DEF HInv, ClientMoves

-----------------------------------------------------------------------------
(* The theorems.                                                            *)

\* The invariant of the server holds under this client too, and every message
\* that is on its way in the client says the truth whenever it is read.
THEOREM HttpInvariance == HttpSpec => []HInv
  <1>1. HInv /\ [HttpNext]_http => HInv'
    BY HStep
  <1>2. QED
    BY <1>1, HInit, PTL DEF HttpSpec

\* No order of faults, takes and timers leaves a subscription behind or a value
\* outside its type: the loop claims only versions a message may announce.
THEOREM HttpTypeCorrect == HttpSpec => []HttpTypeOK
  BY HttpInvariance, PTL DEF HInv

\* What awaitSettled returns over this network is what every reader is told,
\* whichever of the answer, the stream and the replayed last take came first.
THEOREM HttpAnswersAreTrue ==
  ASSUME ClockLag = 0
  PROVE  HttpSpec => []AnswerTrue
  <1>1. HttpInit => AnswerTrue
    BY WaitsInit DEF HttpInit
  <1>2. HInv /\ AnswerTrue /\ [HttpNext]_http => AnswerTrue'
    BY HStep, AnswerMoves DEF HInv
  <1>3. QED
    BY <1>1, <1>2, HttpInvariance, PTL DEF HttpSpec

\* A claim whose answer the network lost still has a version of its own.
THEOREM HttpTokensFence == HttpSpec => FencingTokens
  <1>1. HInv /\ [HttpNext]_http => \A id \in Ids : Fences(id)
    BY HStep, MovesFence
  <1>2. QED
    BY <1>1, HttpInvariance, PTL DEF HttpSpec, FencingTokens, Fences

\* No fault of the network costs an awaiter its wake-up or a listener its
\* unblock: what may be lost is the frame, never the message.
THEOREM HttpWakeupsArrive == HttpSpec => NoLostWakeup
  <1>1. HInv /\ [HttpNext]_http => \A p \in Ids : WakesAll(p)
    BY HStep DEF Moves
  <1>2. QED
    BY <1>1, HttpInvariance, PTL DEF HttpSpec, NoLostWakeup, WakesAll

\* Seen through its promises and tasks, server, network and client together
\* are the durable task of DurableTask: lost requests and answers do not show.
THEOREM HttpImplementsDurableTask ==
  ASSUME ClockLag = 0
  PROVE  HttpSpec => ImplementsDurableTask
  <1>1. HttpInit => Abstract!Init
    BY InitRefines DEF HttpInit
  <1>2. HInv /\ [HttpNext]_http => [Abstract!Next]_(Abstract!vars)
    <2>1. HInv /\ [HttpNext]_http => Abstract!Next
      BY HStep, ObserveRefines, TaskRefines DEF HInv, Abstract!Next
    <2>2. QED
      BY <2>1
  <1>3. QED
    BY <1>1, <1>2, HttpInvariance, PTL
    DEF HttpSpec, ImplementsDurableTask, Abstract!Spec

================================================================================
