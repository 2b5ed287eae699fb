------------------------ MODULE LocalServerRefinement ------------------------
(* The server implements DurableTask, seen through the projection that every *)
(* response applies.                                                         *)
EXTENDS LocalServer

ObservedOutcome == [id \in Ids |-> Projected(promises[id], now).state]

PhaseOf(state) ==
  CASE state = "absent" -> "none"
    [] state = "pending" -> "queued"
    [] state = "acquired" -> "held"
    [] state = "suspended" -> "parked"
    [] state = "halted" -> "stopped"
    [] state = "fulfilled" -> "done"

Abstract == INSTANCE DurableTask WITH
  outcome <- ObservedOutcome,
  phase <- [id \in Ids |-> PhaseOf(tasks[id].state)],
  token <- [id \in Ids |-> tasks[id].version]

\* The server promises what DurableTask promises: every settled observation
\* is final, tokens only grow, tasks wake and end only for a reason.
ImplementsDurableTask == Abstract!Spec
===============================================================================
