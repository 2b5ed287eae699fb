--------------------------- MODULE DurablePromises ---------------------------
(***************************************************************************)
(* awaitSettled of src/DurablePromise.ts on top of the server: register a   *)
(* listener, read the messages until the promise is announced as settled,   *)
(* register again when nothing came, pause when a request failed.           *)
(***************************************************************************)
EXTENDS LocalServer

CONSTANTS
  Waiters,       \* fibers in awaitSettled
  AwaitedId,     \* [Waiters -> Ids]
  UnicastOf,     \* [Waiters -> Addresses]: the unicast address of their network
  Fallback,      \* how long one subscription lasts
  ErrorPause,    \* the pause after a request that failed
  ListenBefore   \* bound: when waiters cease to take messages from the queue

Waiting == [stage : {"registering", "subscribing", "listening", "pausing",
                     "done"},
            until : Int, answer : {"none"} \cup SettledStates]

ASSUME WaiterAssumption ==
  /\ AwaitedId \in [Waiters -> Ids]
  /\ UnicastOf \in [Waiters -> Addresses]
  /\ Fallback \in Nat /\ ErrorPause \in Nat /\ ListenBefore \in Nat

VARIABLE waits   \* [Waiters -> Waiting]

NoWait == [stage |-> "registering", until |-> NotSet, answer |-> "none"]
WaitersInit == waits = [a \in Waiters |-> NoWait]

\* A timer that would fire past the end of the bounded clock fires at it.
Timer(duration) ==
  IF now + duration <= MaxTime THEN now + duration ELSE MaxTime

Settles(a, answer) ==
  waits' = [waits EXCEPT ![a].stage = "done", ![a].answer = answer]
Reaches(a, stage) == waits' = [waits EXCEPT ![a].stage = stage]
Waits(a, stage, duration) ==
  waits' = [waits EXCEPT ![a].stage = stage, ![a].until = Timer(duration)]

\* registerListener answers with the record as a reader sees it.
RegisterPending(a) ==
  /\ waits[a].stage = "registering"
  /\ PromiseRegisterListener(AwaitedId[a], UnicastOf[a], now)
  /\ Reaches(a, "subscribing")

RegisterFoundSettled(a) ==
  /\ waits[a].stage = "registering"
  /\ LET state == Projected(promises[AwaitedId[a]], now).state
     IN  state \in SettledStates /\ Settles(a, state)
  /\ UNCHANGED vars

\* 404, retried after a pause.
RegisterRefused(a) ==
  /\ waits[a].stage = "registering"
  /\ promises[AwaitedId[a]].state = "absent"
  /\ Waits(a, "pausing", ErrorPause)
  /\ UNCHANGED vars

\* The subscription starts, and with it the timer of the fallback.
Subscribe(a) ==
  /\ waits[a].stage = "subscribing"
  /\ Waits(a, "listening", Fallback)
  /\ UNCHANGED vars

\* The stream of the queue hands out all that is in it as one chunk; what the
\* waiter does not look for is gone.  An unblock is sent by the settlement and
\* carries the settled record.
\* Mutant: any message of the promise will do.
AnnouncesAny(m, a) == m.id = AwaitedId[a]
Announces(m, a) == m.kind = "unblock" /\ m.id = AwaitedId[a]

TakeMessages(a) ==
  /\ waits[a].stage = "listening"
  /\ now < ListenBefore
  /\ queue # {}
  /\ queue' = {}
  /\ IF \E m \in queue : Announces(m, a)
     THEN \E m \in {n \in queue : Announces(n, a)} : Settles(a, promises[m.id].state)
     ELSE UNCHANGED waits
  /\ UNCHANGED <<store, crons, outbox, now>>

\* Mutant: the fallback goes on listening.
StopListeningKeepsOn(a) ==
  /\ waits[a].stage = "listening" /\ now >= waits[a].until
  /\ Waits(a, "listening", Fallback)
  /\ UNCHANGED vars
StopListening(a) ==
  /\ waits[a].stage = "listening"
  /\ now >= waits[a].until
  /\ Reaches(a, "registering")
  /\ UNCHANGED vars

TryAgain(a) ==
  /\ waits[a].stage = "pausing"
  /\ now >= waits[a].until
  /\ Reaches(a, "registering")
  /\ UNCHANGED vars

WaiterNext(a) ==
  \/ RegisterPending(a)
  \/ RegisterFoundSettled(a)
  \/ RegisterRefused(a)
  \/ Subscribe(a)
  \/ TakeMessages(a)
  \/ StopListening(a)
  \/ TryAgain(a)

-----------------------------------------------------------------------------
(* Properties. *)

\* What awaitSettled returns is what every reader is told of the promise.
AnswerTrue ==
  \A a \in Waiters : waits[a].stage = "done" =>
    /\ waits[a].answer \in SettledStates
    /\ waits[a].answer = Projected(promises[AwaitedId[a]], now).state

\* A waiter whose promise is settled, or seen as timed out, is answered: the
\* unblock may have been sent before it listened, or to another consumer.
Answered ==
  \A a \in Waiters :
    (Projected(promises[AwaitedId[a]], now).state \in SettledStates)
      ~> (waits[a].stage = "done")
==============================================================================
