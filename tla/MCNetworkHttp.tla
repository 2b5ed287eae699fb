---------------------------- MODULE MCNetworkHttp ----------------------------
(* A small instance of NetworkHttp for TLC. *)
EXTENDS NetworkHttp, TLC

CONSTANTS r, w1, a1, home

Targeted == [NoTags EXCEPT !.target = TRUE, !.global = TRUE]
MCTags == {Targeted}
NoTemplates == {}
NoOccurrence(s, c) == r
RootAwaited == [x \in Waiters |-> r]
HomeUnicast == [x \in Waiters |-> home]
==============================================================================
