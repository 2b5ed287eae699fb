----------------------------- MODULE RetryPolicy -----------------------------
(***************************************************************************)
(* The retry policies of src/RetryPolicy.ts: pure functions of the number   *)
(* of the attempt that failed.  The fields a policy does not have are 0.    *)
(***************************************************************************)
EXTENDS Integers

Policy == [kind : {"constant", "exponential", "linear", "never"},
           delay : Nat, factor : Nat, maxRetries : Nat, maxDelay : Nat]

NoRetry == -1   \* null

Never == [kind |-> "never", delay |-> 0, factor |-> 0, maxRetries |-> 0,
          maxDelay |-> 0]
Constant(delay, maxRetries) ==
  [Never EXCEPT !.kind = "constant", !.delay = delay, !.maxRetries = maxRetries]
Linear(delay, maxRetries) ==
  [Never EXCEPT !.kind = "linear", !.delay = delay, !.maxRetries = maxRetries]
Exponential(delay, factor, maxRetries, maxDelay) ==
  [kind |-> "exponential", delay |-> delay, factor |-> factor,
   maxRetries |-> maxRetries, maxDelay |-> maxDelay]

Budget(policy) == IF policy.kind = "never" THEN 0 ELSE policy.maxRetries

Least(x, y) == IF x <= y THEN x ELSE y

\* The pause after a failed attempt of a policy with budget left.
Pause(policy, attempt) ==
  CASE policy.kind = "constant" -> policy.delay
    [] policy.kind = "exponential" ->
         Least(policy.delay * policy.factor ^ attempt, policy.maxDelay)
    [] policy.kind = "linear" -> policy.delay * attempt
    [] policy.kind = "never" -> 0

\* next.  Mutant: one attempt too many.
RetryNextOneMore(policy, attempt) ==
  IF attempt = 0 THEN 0
  ELSE IF attempt > Budget(policy) + 1 THEN NoRetry
  ELSE Pause(policy, attempt)
RetryNext(policy, attempt) ==
  IF attempt = 0 THEN 0
  ELSE IF attempt > Budget(policy) THEN NoRetry
  ELSE Pause(policy, attempt)
==============================================================================
