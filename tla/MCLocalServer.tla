--------------------------- MODULE MCLocalServer ---------------------------
(* Small instances of LocalServer for TLC. *)
EXTENDS LocalServerRefinement, TLC

CONSTANTS p1, p2, w1, w2, a1, s1, s2

Plain == NoTags
Timer == [NoTags EXCEPT !.timer = TRUE]
Targeted == [NoTags EXCEPT !.target = TRUE]
Delayed == [Targeted EXCEPT !.delay = 1]

MCTags == {Plain, Timer, Targeted}
MCDelayTags == {Targeted, Delayed}
TargetTags == {Targeted}

NoTagSets == {}
NoTemplates == {}
NoOccurrence(s, c) == p1

OneOutcome == {"resolved"}

\* s1 has {{.timestamp}} in its template and names a promise per cron time, s2
\* has not and names p2 every time.
Occurrence(s, c) == IF s = s1 /\ c = 1 THEN p1 ELSE p2
MCTemplates ==
  {[cron |-> 1, promiseTimeout |-> 1, tags |-> Targeted],
   [cron |-> 2, promiseTimeout |-> 0, tags |-> Plain]}

\* Promises are interchangeable wherever no schedule names one.
IdSymmetry == Permutations(Ids)
===============================================================================
