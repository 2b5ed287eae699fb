------------------------------ MODULE MCWorker ------------------------------
(* Small instances of Worker for TLC. *)
EXTENDS Worker, TLC

CONSTANTS r, a, b, z, w1, w2, g1, client, home

Call(op, c, duration) ==
  [op |-> op, child |-> c, group |-> {}, duration |-> duration,
   policy |-> Never]
Await(c) == [Call("await", c, 0) EXCEPT !.group = {c}]
All(G) == [Call("await", r, 0) EXCEPT !.group = G]
RunWith(c, duration, policy) == [Call("run", c, duration) EXCEPT !.policy = policy]
RunAwaiting(c, duration, G) == [Call("run", c, duration) EXCEPT !.group = G]

RootTagSets == {RootTags}
NoTemplates == {}
NoOccurrence(s, c) == r

\* A local step and a detached call, awaited together; the call is cancelled
\* too late.
ForkJoin ==
  [id \in Ids |->
     IF id = r THEN <<Call("run", a, 1), Call("detached", b, 9), All({a, b}),
                      Call("cancel", b, 0)>>
     ELSE <<>>]

\* A local step that may fail and be retried, and an external promise that
\* others may settle before it is cancelled.
StepAndPromise ==
  [id \in Ids |->
     IF id = r THEN <<RunWith(a, 1, Constant(0, 1)), Call("promise", b, 9),
                      Await(a), Call("cancel", b, 0), Await(b)>>
     ELSE <<>>]

\* A local step whose effect awaits a remote call.
NestedWait ==
  [id \in Ids |->
     IF id = r THEN <<Call("rpc", b, 9), RunAwaiting(a, 9, {b}), Await(a)>>
     ELSE <<>>]

\* A sleep, then a remote call that is never awaited.
SleepSpawn ==
  [id \in Ids |->
     IF id = r THEN <<Call("sleep", z, 1), Await(z), Call("rpc", b, 9)>>
     ELSE <<>>]

OneStep ==
  [id \in Ids |-> IF id = r THEN <<Call("run", a, 9), Await(a)>> ELSE <<>>]

EveryFunction == [f \in Fibers |-> Ids]
\* A process that was started without the function of b.
PartlyRegistered == [f \in Fibers |-> IF f = w2 THEN Ids \ {b} ELSE Ids]

NobodyAwaits == [x \in {} |-> r]
NoUnicast == [x \in {} |-> home]
RootAwaited == [x \in {client} |-> r]
ClientUnicast == [x \in {client} |-> home]

NoHost == [g \in {} |-> w1]
GuestHost == [g \in {g1} |-> w1]

\* The handlers are ones the theorems speak of.
ASSUME HandlersAssumption == OwnNames /\ OwnHandles /\ SleepsAwaited /\ RootsApart
==============================================================================
