-------------------------------- MODULE Retry --------------------------------
(***************************************************************************)
(* retry.Do and retry.DoWithResult: one call of either, its timer, and a   *)
(* context that may be cancelled at any moment by another goroutine or by  *)
(* its deadline.  The two functions share their control flow and differ in *)
(* what they return.  The caller asks IsTransient about the error it gets. *)
(***************************************************************************)
EXTENDS Integers, Sequences, Transient

CONSTANTS AttemptCounts,           \* values of the attempts argument, of any sign
          Initials, Max,           \* Backoff.Initial and Backoff.Max, in ticks
          GrowthNum, GrowthDen,    \* Backoff.Multiplier, as a fraction
          Jitter,                  \* Backoff.Jitter
          Errors                   \* the errors of fn

ASSUME RetryAssumption ==
  /\ AttemptCounts \subseteq Int
  /\ Initials \subseteq Nat /\ Max \in Nat
  /\ GrowthNum \in Nat /\ GrowthDen \in Nat \ {0}
  /\ Jitter \in BOOLEAN
  /\ Errors \subseteq Seq(Layer) \ {nil}

VARIABLES attempts,    \* the argument of this call
          pc,          \* where the call is
          i,           \* the loop counter
          delay,       \* the delay of the next wait
          left,        \* ticks until the timer fires
          ctxErr,      \* ctx.Err(): not nil once ctx.Done() is closed
          lastErr,     \* what the last call of fn returned
          ret,         \* what the caller gets
          outcomes,    \* history: whether each call of fn succeeded
          slept,       \* history: the durations given to the timer
          late         \* history: calls of fn started after the cancellation

loopVars == <<attempts, i>>
timerVars == <<delay, left, slept>>
fnVars == <<lastErr, outcomes, late>>
vars == <<loopVars, timerVars, fnVars, pc, ctxErr, ret>>

ContextErrors == {<<[kind |-> k, code |-> 0]>> : k \in {"canceled", "deadline"}}
Cancelled == ctxErr # nil
------------------------------------------------------------------------------
(* Slips: faulty variants that no behaviour of the program uses.           *)

GrownUncapped(d) == (d * GrowthNum) \div GrowthDen
AfterFailureSleeps == "sleep"
NoAttemptLeftLate == i > attempts
LiveUnchecked == TRUE
KeptForgotten(err) == nil

Grown(d) == LET g == (d * GrowthNum) \div GrowthDen IN IF g < Max THEN g ELSE Max

(* The timer's duration: 50-100% of the delay under jitter.                *)
Durations(d) == IF Jitter THEN (d \div 2) .. d ELSE {d}

(* There is no wait after the last attempt.                                *)
AfterFailure == IF i = attempts - 1 THEN "end" ELSE "sleep"

NoAttemptLeft == i >= attempts
Live == ~Cancelled
Kept(err) == err

Return(err) == pc' = "returned" /\ ret' = err
------------------------------------------------------------------------------
Init ==
  /\ attempts \in AttemptCounts
  /\ pc = "loop" /\ i = 0
  /\ delay \in Initials /\ left = 0
  /\ ctxErr = nil /\ lastErr = nil /\ ret = nil
  /\ outcomes = << >> /\ slept = << >> /\ late = 0

Cancel ==
  /\ ~Cancelled /\ pc # "returned"
  /\ ctxErr' \in ContextErrors
  /\ UNCHANGED <<loopVars, timerVars, fnVars, pc, ret>>

Tick ==
  /\ pc = "wait" /\ left > 0
  /\ left' = left - 1
  /\ UNCHANGED <<loopVars, fnVars, pc, delay, slept, ctxErr, ret>>

(* ctx.Err() before an attempt.                                            *)
CtxErr ==
  /\ pc = "loop" /\ i < attempts /\ Cancelled
  /\ Return(ctxErr)
  /\ UNCHANGED <<loopVars, timerVars, fnVars, ctxErr>>

Attempt ==
  /\ pc = "loop" /\ i < attempts /\ Live
  /\ pc' = "call"
  /\ UNCHANGED <<loopVars, timerVars, fnVars, ctxErr, ret>>

(* The context may have been cancelled since it was looked at.             *)
CallFn ==
  /\ pc = "call"
  /\ pc' = "fn"
  /\ late' = late + (IF Cancelled THEN 1 ELSE 0)
  /\ UNCHANGED <<loopVars, timerVars, lastErr, outcomes, ctxErr, ret>>

FnSucceeds ==
  /\ pc = "fn"
  /\ outcomes' = Append(outcomes, TRUE) /\ lastErr' = nil
  /\ Return(nil)
  /\ UNCHANGED <<loopVars, timerVars, late, ctxErr>>

FnFails ==
  /\ pc = "fn"
  /\ outcomes' = Append(outcomes, FALSE)
  /\ \E err \in Errors : lastErr' = Kept(err)
  /\ pc' = AfterFailure
  /\ UNCHANGED <<loopVars, timerVars, late, ctxErr, ret>>

StartTimer ==
  /\ pc = "sleep"
  /\ \E d \in Durations(delay) : left' = d /\ slept' = Append(slept, d)
  /\ pc' = "wait"
  /\ UNCHANGED <<loopVars, fnVars, delay, ctxErr, ret>>

(* select: with both channels ready either case may be taken.              *)
CtxDone ==
  /\ pc = "wait" /\ Cancelled
  /\ Return(ctxErr)
  /\ UNCHANGED <<loopVars, timerVars, fnVars, ctxErr>>

TimerFires ==
  /\ pc = "wait" /\ left = 0
  /\ delay' = Grown(delay)
  /\ i' = i + 1 /\ pc' = "loop"
  /\ UNCHANGED <<attempts, fnVars, left, slept, ctxErr, ret>>

(* return lastErr: after the last attempt, or with no attempt to make.     *)
EndOfLoop ==
  /\ pc = "end" \/ (pc = "loop" /\ NoAttemptLeft)
  /\ Return(lastErr)
  /\ UNCHANGED <<loopVars, timerVars, fnVars, ctxErr>>

Returned == pc = "returned" /\ UNCHANGED vars

Step == CtxErr \/ Attempt \/ CallFn \/ FnSucceeds \/ FnFails \/ StartTimer
          \/ CtxDone \/ TimerFires \/ EndOfLoop

Next == Step \/ Tick \/ Cancel \/ Returned

Spec == Init /\ [][Next]_vars

(* The goroutine runs, fn returns, and time passes.                        *)
FairSpec == Spec /\ WF_vars(Step) /\ WF_vars(Tick)
------------------------------------------------------------------------------
(* Type invariant of a call of Do.                                         *)
TypeOK ==
  /\ attempts \in AttemptCounts
  /\ pc \in {"loop", "call", "fn", "sleep", "wait", "end", "returned"}
  /\ i \in Nat /\ (i = 0 \/ i < attempts)
  /\ delay \in Nat /\ left \in Nat
  /\ ctxErr \in ContextErrors \cup {nil}
  /\ lastErr \in Errors \cup {nil}
  /\ ret \in Errors \cup ContextErrors \cup {nil}
  /\ outcomes \in Seq(BOOLEAN)
  /\ slept \in Seq(Nat)
  /\ late \in Nat

(* No call of fn before the m-th succeeded.                                *)
FailedBefore(m) == \A k \in 1 .. Len(outcomes) : k < m => ~outcomes[k]

(* The caller learns the truth: nil means that the last call of fn         *)
(* succeeded and no earlier one did (or that there was none to make), an   *)
(* error that every one of the attempts was made and failed, with this     *)
(* error last, or that the context has ended and no call has succeeded.    *)
ReturnIsTruthful ==
  LET n == Len(outcomes)
  IN  /\ FailedBefore(n)
      /\ (pc = "returned" /\ ret = nil) =>
            IF n = 0 THEN attempts <= 0 ELSE outcomes[n]
      /\ (pc # "returned" \/ ret # nil) => FailedBefore(n + 1)
      /\ ret # nil => \/ ret = lastErr /\ n = attempts
                      \/ ret = ctxErr /\ n <= attempts

(* At most one call of fn starts after the context has been cancelled,     *)
(* although the context is looked at before the call and a timer that has  *)
(* fired may win the select against it.                                    *)
OneLateCall == late <= 1

(* A wait separates two calls of fn and nothing else: there is none before *)
(* the first call, none after the last attempt, never two in a row; and    *)
(* from the second wait on it is within Backoff.Max, jitter or not.        *)
WaitsBetweenCalls ==
  /\ Len(slept) <= Len(outcomes) /\ Len(outcomes) <= Len(slept) + 1
  /\ attempts > 0 => Len(slept) < attempts
  /\ \A n \in 2 .. Len(slept) : slept[n] <= Max

(* A caller that tries again when IsTransient says so gives up once the    *)
(* context has ended: neither the context's error nor an error of fn that  *)
(* the context caused, however wrapped, is transient.  A transient error   *)
(* is that of the last attempt, with none left to make.                    *)
CancellationIsFinal ==
  /\ Has(ret, {"canceled", "deadline"}) => ~IsTransient(ret)
  /\ IsTransient(ret) => ret = lastErr /\ Len(outcomes) = attempts

(* "This includes network timeouts": an error that a timeout of the        *)
(* network caused, and no context, is transient.                           *)
TimeoutIsTransient ==
  Has(ret, {"dial timeout", "net timeout"})
    /\ ~Has(ret, {"canceled", "deadline", "http"}) => IsTransient(ret)

(* A call of Do returns, whatever fn does and whether or not it is         *)
(* cancelled.                                                              *)
DoReturns == <>(pc = "returned")
==============================================================================
