----------------------------- MODULE DurableTask -----------------------------
(***************************************************************************)
(* What a client may rely on: a durable promise gets one outcome and keeps *)
(* it, and the task that executes it is claimed under ever larger tokens.  *)
(* Tasks move independently of each other, except that a parked task is    *)
(* only woken once some other promise has an outcome, and a task ends only *)
(* together with its own promise.  Leases, timeouts, callbacks, messages   *)
(* and schedules are how a server brings this about.                       *)
(***************************************************************************)
EXTENDS Integers

CONSTANT Ids

Outcome == {"resolved", "rejected", "rejected_canceled", "rejected_timedout"}

VARIABLES
  outcome,   \* "absent", "pending" or the outcome every reader observes
  phase,     \* where the task is, "none" for a promise without one
  token      \* the token of the latest claim

vars == <<outcome, phase, token>>

Init ==
  /\ outcome = [id \in Ids |-> "absent"]
  /\ phase = [id \in Ids |-> "none"]
  /\ token = [id \in Ids |-> 0]

\* One step of the outcome: it is written once.
Observe(id) ==
  \/ outcome'[id] = outcome[id]
  \/ /\ outcome[id] = "absent"
     /\ outcome'[id] \in {"pending"} \cup Outcome
  \/ /\ outcome[id] = "pending"
     /\ outcome'[id] \in Outcome

Moves(id, from, to) ==
  /\ phase[id] \in from
  /\ phase'[id] = to
  /\ token'[id] = token[id]

Stays(id) == phase'[id] = phase[id] /\ token'[id] = token[id]
Begin(id) == outcome[id] = "absent" /\ Moves(id, {"none"}, "queued")
Claim(id) ==
  /\ phase[id] \in {"none", "queued"}
  /\ phase[id] = "none" => outcome[id] = "absent"
  /\ phase'[id] = "held"
  /\ token'[id] = token[id] + 1
Yield(id) == Moves(id, {"held"}, "queued")
Park(id) == outcome[id] = "pending" /\ Moves(id, {"held"}, "parked")
Wake(id) ==
  /\ Moves(id, {"parked"}, "queued")
  /\ \E p \in Ids \ {id} : outcome'[p] \in Outcome
Stop(id) == Moves(id, {"queued", "held", "parked"}, "stopped")
Continue(id) == Moves(id, {"stopped"}, "queued")
End(id) ==
  /\ outcome'[id] \in Outcome
  /\ Moves(id, {"none", "queued", "held", "parked", "stopped"}, "done")

TaskStep(id) ==
  \/ Stays(id) \/ Begin(id) \/ Claim(id) \/ Yield(id) \/ Park(id)
  \/ Wake(id) \/ Stop(id) \/ Continue(id) \/ End(id)

Next == \A id \in Ids : Observe(id) /\ TaskStep(id)

Spec == Init /\ [][Next]_vars
=============================================================================
