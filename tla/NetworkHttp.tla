----------------------------- MODULE NetworkHttp -----------------------------
(***************************************************************************)
(* The HTTP network of src/network/Http.ts between one process and a        *)
(* server: requests that may fail, and the event stream of messages with    *)
(* its reconnects, published to whoever subscribes in the process.          *)
(*                                                                         *)
(* The remote server is not part of the repository; LocalServer, which      *)
(* speaks the same protocol, stands for it.  queue holds what the server    *)
(* has not written to a connection yet.  The subscribers are the message    *)
(* loop of a worker and the waiters of awaitSettled.  Of the run of a claim *)
(* only the requests at its ends are here; module Worker has the rest.      *)
(***************************************************************************)
EXTENDS DurablePromises, Sequences

CONSTANTS
  Loop,           \* the message loop, and the process id it claims under
  LoopTtl,
  Root,           \* the id its client invokes
  RootTags,
  RootDeadline,
  FirstPause,     \* the first pause before a reconnect
  PauseCap,       \* and the longest
  FaultsBefore,   \* bounds: when the network ceases to fail
  MaxFaults       \* and how often it does

Subscribers == {Loop} \cup Waiters
EndTake == [kind |-> "end"]           \* the Exit of a stream that ended
FailureTake == [kind |-> "failure"]   \* the Exit of one that failed
NoTake == [kind |-> "none"]
Takes == Message \cup {EndTake, FailureTake}

Connection == [stage : {"connecting", "open", "backingOff", "unauthorized",
                        "ended"}, pause : Nat, until : Int]
LoopState == [stage : {"idle", "claiming", "running", "releasing", "stopped"},
              task : Ids, version : Nat]
Inbox == [on : BOOLEAN, takes : Seq(Takes)]

ASSUME HttpAssumption ==
  /\ Loop \in Pids /\ Loop \notin Waiters
  /\ LoopTtl \in Ttls
  /\ Root \in Ids /\ RootTags \in TagSets /\ RootDeadline \in Nat
  /\ FirstPause \in Nat \ {0} /\ PauseCap \in Nat
  /\ FaultsBefore \in Nat /\ MaxFaults \in Nat

VARIABLES
  conn,    \* the connection of the event stream
  last,    \* the take a new subscriber is given first (replay: 1)
  inbox,   \* [Subscribers -> Inbox]
  loop,
  faults   \* how often the network has failed

client == <<conn, last, inbox, loop, waits>>
http == <<promises, tasks, promiseTimeouts, taskTimeouts, schedules,
          scheduleTimeouts, outbox, queue, now, conn, last, inbox, loop, waits, faults>>

Unsubscribed == [on |-> FALSE, takes |-> <<>>]

HttpInit ==
  /\ Init
  /\ WaitersInit
  /\ conn = [stage |-> "connecting", pause |-> 0, until |-> NotSet]
  /\ last = NoTake
  /\ inbox = [s \in Subscribers |-> [Unsubscribed EXCEPT !.on = (s = Loop)]]
  /\ loop = [stage |-> "idle", task |-> Root, version |-> 0]
  /\ faults = 0

Fault ==
  /\ now < FaultsBefore /\ faults < MaxFaults
  /\ faults' = faults + 1
NoFault == UNCHANGED faults

-----------------------------------------------------------------------------
(* The event stream. *)

Publish(take) ==
  /\ last' = take
  /\ inbox' = [s \in Subscribers |->
                 IF inbox[s].on
                 THEN [inbox[s] EXCEPT !.takes = Append(@, take)]
                 ELSE inbox[s]]

Connect ==
  /\ conn.stage = "connecting"
  /\ conn' = [conn EXCEPT !.stage = "open"]
  /\ UNCHANGED <<vars, last, inbox, loop, waits, faults>>

\* Each pause is twice the one before, up to the cap; the first element of a
\* connection starts them over.
NextPause ==
  IF conn.pause = 0 \/ 2 * conn.pause <= PauseCap
  THEN IF conn.pause = 0 THEN FirstPause ELSE 2 * conn.pause
  ELSE PauseCap

BackOff ==
  conn' = [stage |-> "backingOff", pause |-> NextPause,
           until |-> Timer(NextPause)]

\* A request or a connection that fails, a status that is not 200.
ConnectionLost ==
  /\ Fault
  /\ conn.stage \in {"connecting", "open"}
  /\ BackOff
  /\ UNCHANGED <<vars, last, inbox, loop, waits>>

Reconnect ==
  /\ conn.stage = "backingOff"
  /\ now >= conn.until
  /\ conn' = [conn EXCEPT !.stage = "connecting"]
  /\ UNCHANGED <<vars, last, inbox, loop, waits, faults>>

\* 401 and 403 are not retried: the failure is published.
ConnectUnauthorized ==
  /\ Fault
  /\ conn.stage = "connecting"
  /\ conn' = [conn EXCEPT !.stage = "unauthorized"]
  /\ Publish(FailureTake)
  /\ UNCHANGED <<vars, loop, waits>>

\* A response that ends without a failure is not retried either.
StreamEnds ==
  /\ Fault
  /\ conn.stage = "open"
  /\ conn' = [conn EXCEPT !.stage = "ended"]
  /\ Publish(EndTake)
  /\ UNCHANGED <<vars, loop, waits>>

TakeFromServer(m) ==
  /\ m \in queue
  /\ queue' = queue \ {m}
  /\ UNCHANGED <<store, crons, outbox, now>>

DeliverFrame(m) ==
  /\ conn.stage = "open"
  /\ TakeFromServer(m)
  /\ conn' = [conn EXCEPT !.pause = 0]
  /\ Publish(m)
  /\ UNCHANGED <<loop, waits, faults>>

\* A frame that does not decode fails the stream.
MalformedFrame(m) ==
  /\ Fault
  /\ conn.stage = "open"
  /\ TakeFromServer(m)
  /\ BackOff
  /\ UNCHANGED <<last, inbox, loop, waits>>

\* What the server sends while nobody is connected may be lost.
FrameLost(m) ==
  /\ Fault
  /\ conn.stage # "open"
  /\ TakeFromServer(m)
  /\ UNCHANGED client

StreamNext ==
  \/ Connect
  \/ ConnectionLost
  \/ Reconnect
  \/ ConnectUnauthorized
  \/ StreamEnds
  \/ \E m \in queue : DeliverFrame(m) \/ MalformedFrame(m) \/ FrameLost(m)

-----------------------------------------------------------------------------
(* awaitSettled on this network. *)

\* A waiter subscribes after it has registered: an unblock published in
\* between is seen only if it is still the last take.
HttpSubscribe(a) ==
  /\ Subscribe(a)
  /\ inbox' = [inbox EXCEPT
                 ![a] = [on |-> TRUE,
                         takes |-> IF last = NoTake THEN <<>> ELSE <<last>>]]
  /\ UNCHANGED <<conn, last, loop, faults>>

\* Mutant: the subscription outlives the stream it was for.
UnsubscribesNot(a) == UNCHANGED inbox
Unsubscribes(a) == inbox' = [inbox EXCEPT ![a] = Unsubscribed]

\* The stream of a waiter, raced against its fallback: an announcement answers,
\* the end of the stream starts the next round at once.  The race is for the
\* first success, so a failed stream leaves what remains of the fallback to
\* wait for; only requests that fail are tried again after a pause.
ReadTake(a) ==
  /\ waits[a].stage = "listening"
  /\ inbox[a].takes # <<>>
  /\ LET take == Head(inbox[a].takes) IN
       \/ /\ take \in Message /\ Announces(take, a)
          /\ Settles(a, promises[take.id].state)
          /\ Unsubscribes(a)
       \/ /\ take \in Message /\ ~Announces(take, a)
          /\ inbox' = [inbox EXCEPT ![a].takes = Tail(@)]
          /\ UNCHANGED waits
       \/ /\ take = EndTake
          /\ Reaches(a, "registering")
          /\ Unsubscribes(a)
       \/ /\ take = FailureTake
          /\ Reaches(a, "pausing")
          /\ Unsubscribes(a)
  /\ UNCHANGED <<vars, conn, last, loop, faults>>

\* The request fails, or the server has handled it and its answer is lost.
RegisterFails(a) ==
  /\ Fault
  /\ waits[a].stage = "registering"
  /\ \/ UNCHANGED vars
     \/ PromiseRegisterListener(AwaitedId[a], UnicastOf[a], now)
  /\ Waits(a, "pausing", ErrorPause)
  /\ UNCHANGED <<conn, last, inbox, loop>>

HttpStopListening(a) ==
  /\ StopListening(a)
  /\ Unsubscribes(a)
  /\ UNCHANGED <<conn, last, loop, faults>>

HttpWaiterNext(a) ==
  \/ /\ \/ RegisterPending(a) \/ RegisterFoundSettled(a)
        \/ RegisterRefused(a) \/ TryAgain(a)
     /\ UNCHANGED <<conn, last, inbox, loop, faults>>
  \/ RegisterFails(a)
  \/ HttpSubscribe(a)
  \/ ReadTake(a)
  \/ HttpStopListening(a)

-----------------------------------------------------------------------------
(* The message loop on this network. *)

LoopReads ==
  /\ loop.stage = "idle"
  /\ inbox[Loop].takes # <<>>
  /\ LET take == Head(inbox[Loop].takes) IN
       loop' = CASE take \in {EndTake, FailureTake} -> [loop EXCEPT !.stage = "stopped"]
                 [] take.kind = "unblock" -> loop
                 [] take.kind = "execute" ->
                      [stage |-> "claiming", task |-> take.id,
                       version |-> take.version]
  /\ inbox' = [inbox EXCEPT ![Loop].takes = Tail(@)]
  /\ UNCHANGED <<vars, conn, last, waits, faults>>

LoopReaches(stage) == loop' = [loop EXCEPT !.stage = stage]

Claimable ==
  /\ tasks[loop.task].state = "pending"
  /\ tasks[loop.task].version = loop.version
  /\ Fresh(loop.task, now)

\* The loop logs what a message ended with and reads the next.
\* Mutant: a failed claim ends the loop.
DropsMessageAndStops == LoopReaches("stopped")
DropsMessage == LoopReaches("idle")

\* A claim whose answer is lost is held by nobody until its lease ends.
LoopClaims ==
  /\ loop.stage = "claiming"
  /\ LET acquire == TaskAcquire(loop.task, loop.version, Loop, LoopTtl, now) IN
       \/ /\ acquire /\ NoFault
          /\ loop' = [loop EXCEPT !.stage = "running", !.version = @ + 1]
       \/ ~Claimable /\ UNCHANGED vars /\ NoFault /\ DropsMessage
       \/ (acquire \/ UNCHANGED vars) /\ Fault /\ DropsMessage
  /\ UNCHANGED <<conn, last, inbox, waits>>

HoldsClaim == Gate(loop.task, loop.version, now)

\* Whatever fails, the claim is released then.
LoopFulfills ==
  /\ loop.stage = "running"
  /\ LET fulfill == TaskFulfill(loop.task, loop.version, "resolved", now) IN
       \/ fulfill /\ NoFault /\ LoopReaches("idle")
       \/ ~HoldsClaim /\ UNCHANGED vars /\ NoFault /\ LoopReaches("releasing")
       \/ (fulfill \/ UNCHANGED vars) /\ Fault /\ LoopReaches("releasing")
  /\ UNCHANGED <<conn, last, inbox, waits>>

\* releaseBestEffort: one request, whatever becomes of it.
LoopReleases ==
  /\ loop.stage = "releasing"
  /\ \/ TaskRelease(loop.task, loop.version, now) /\ NoFault
     \/ ~HoldsClaim /\ UNCHANGED vars /\ NoFault
     \/ UNCHANGED vars /\ Fault
  /\ LoopReaches("idle")
  /\ UNCHANGED <<conn, last, inbox, waits>>

LoopNext == LoopReads \/ LoopClaims \/ LoopFulfills \/ LoopReleases

-----------------------------------------------------------------------------
Invoke ==
  /\ PromiseCreate(Root, RootTags, RootDeadline, now)
  /\ UNCHANGED <<client, faults>>
ServerTicks == Tick(now) /\ UNCHANGED <<client, faults>>
TimePasses == Advance /\ UNCHANGED <<client, faults>>

HttpNext ==
  \/ StreamNext
  \/ \E a \in Waiters : HttpWaiterNext(a)
  \/ LoopNext
  \/ Invoke
  \/ ServerTicks
  \/ TimePasses

\* The client keeps reading and reconnecting, the loop and the waiters go on,
\* the server ticks.  That the network fails is owed to nobody.
HttpSpec == HttpInit /\ [][HttpNext]_http
FairHttpSpec ==
  /\ HttpSpec
  /\ WF_http(Connect) /\ WF_http(Reconnect)
  /\ WF_http(\E m \in queue : DeliverFrame(m))
  /\ \A a \in Waiters : WF_http(HttpWaiterNext(a))
  /\ WF_http(LoopNext)
  /\ WF_http(ServerTicks) /\ WF_http(TimePasses)

-----------------------------------------------------------------------------
(* Properties. *)

\* Connection, subscriptions and loop hold values of their types, and only
\* who listens has a subscription.
HttpTypeOK ==
  /\ conn \in Connection
  /\ last \in Takes \cup {NoTake}
  /\ inbox \in [Subscribers -> Inbox]
  /\ loop \in LoopState
  /\ waits \in [Waiters -> Waiting]
  /\ \A a \in Waiters : inbox[a].on <=> waits[a].stage = "listening"

\* An invocation is executed through lost connections, lost frames, frames
\* that do not decode, lost requests and lost answers, unless the stream is
\* over for good.
StreamOver == conn.stage \in {"unauthorized", "ended"}
HttpExecuted ==
  (promises[Root].state = "pending")
    ~> (promises[Root].state = "resolved" \/ StreamOver)

\* The message loop listens until its scope closes; only a refused
\* authorization ends it (docs/plan/specs/07-http-network.md:29-30).
LoopListens == loop.stage = "stopped" => conn.stage = "unauthorized"
==============================================================================
