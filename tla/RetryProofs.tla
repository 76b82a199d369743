---------------------------- MODULE RetryProofs ----------------------------
(* What holds of retry.Do and IsTransient for any attempts, backoff and    *)
(* errors.                                                                 *)
EXTENDS Retry, SequenceTheorems, WellFoundedInduction, TLAPS

(* Where the call is says how many calls of fn and how many waits there    *)
(* have been, and whether another attempt is left.                         *)
Progress ==
  LET n == Len(outcomes)
      s == Len(slept)
  IN  /\ pc \in {"loop", "call", "fn"} => n = i /\ s = i
      /\ pc \in {"call", "fn"} => i < attempts
      /\ pc \in {"sleep", "wait"} => n = i + 1 /\ i + 1 < attempts
      /\ pc = "sleep" => s = i
      /\ pc = "wait" => s = i + 1
      /\ pc = "end" => n = i + 1 /\ s = i /\ n = attempts
      /\ pc = "returned" => s <= n /\ n <= s + 1 /\ (attempts > 0 => s < attempts)

(* Before the return nothing has succeeded, and the last error is kept.    *)
Running ==
  pc # "returned" =>
    /\ ret = nil
    /\ FailedBefore(Len(outcomes) + 1)
    /\ lastErr = nil <=> outcomes = << >>

(* A late call is the last: the next look at the context ends Do.          *)
Lateness == late <= 1 /\ (pc = "call" => late = 0) /\ (late = 1 => Cancelled)

(* Only the first wait may be longer than Max.                             *)
Capped ==
  /\ i > 0 => delay <= Max
  /\ \A k \in 2 .. Len(slept) : slept[k] <= Max

RetryInv ==
  TypeOK /\ Progress /\ Running /\ Lateness /\ Capped /\ ReturnIsTruthful
------------------------------------------------------------------------------
(* Division rounds down within the naturals.                               *)
LEMMA DivNat == ASSUME NEW a \in Nat, NEW b \in Nat \ {0} PROVE a \div b \in Nat
BY SMT

(* The next delay is a delay, within Max.                                  *)
LEMMA GrownCapped == ASSUME NEW d \in Nat PROVE Grown(d) \in Nat /\ Grown(d) <= Max
<1> DEFINE g == (d * GrowthNum) \div GrowthDen
<1>1. d * GrowthNum \in Nat
  BY RetryAssumption
<1>2. g \in Nat
  BY <1>1, DivNat, RetryAssumption
<1> QED
  BY <1>2, RetryAssumption DEF Grown

(* A timer runs no longer than the delay.                                  *)
LEMMA DurationsBounded ==
  ASSUME NEW d \in Nat, NEW e \in Durations(d) PROVE e \in Nat /\ e <= d
<1>1. d \div 2 \in Nat
  BY DivNat
<1> QED
  BY <1>1 DEF Durations

LEMMA NilIsNoError == nil \notin Errors /\ nil \notin ContextErrors
BY RetryAssumption DEF nil, ContextErrors

LEMMA InitInv == Init => RetryInv
<1> SUFFICES ASSUME Init PROVE RetryInv
  OBVIOUS
<1> USE RetryAssumption DEF Init
<1>1. TypeOK
  BY DEF TypeOK
<1>2. Progress /\ Running /\ Lateness /\ Capped
  BY DEF Progress, Running, Lateness, Capped, FailedBefore, Cancelled
<1>3. ReturnIsTruthful
  BY DEF ReturnIsTruthful, FailedBefore
<1> QED
  BY <1>1, <1>2, <1>3 DEF RetryInv

LEMMA NextInv == RetryInv /\ [Next]_vars => RetryInv'
<1> SUFFICES ASSUME RetryInv, [Next]_vars PROVE RetryInv'
  OBVIOUS
<1> USE RetryAssumption DEF RetryInv, TypeOK, loopVars, timerVars, fnVars, vars
<1>1. CASE Cancel
  <2>1. TypeOK'
    BY <1>1 DEF Cancel
  <2>2. Progress'
    BY <1>1 DEF Cancel, Progress
  <2>3. Running'
    BY <1>1 DEF Cancel, Running, FailedBefore
  <2>4. Lateness'
    BY <1>1, NilIsNoError DEF Cancel, Lateness, Cancelled
  <2>5. Capped'
    BY <1>1 DEF Cancel, Capped
  <2>6. ReturnIsTruthful'
    BY <1>1 DEF Cancel, ReturnIsTruthful, FailedBefore, Running, Progress, Cancelled
  <2> QED
    BY <2>1, <2>2, <2>3, <2>4, <2>5, <2>6
<1>2. CASE Tick
  <2>1. TypeOK'
    BY <1>2 DEF Tick
  <2>2. Progress'
    BY <1>2 DEF Tick, Progress
  <2>3. Running'
    BY <1>2 DEF Tick, Running, FailedBefore
  <2>4. Lateness'
    BY <1>2 DEF Tick, Lateness, Cancelled
  <2>5. Capped'
    BY <1>2 DEF Tick, Capped
  <2>6. ReturnIsTruthful'
    BY <1>2 DEF Tick, ReturnIsTruthful, FailedBefore, Running
  <2> QED
    BY <2>1, <2>2, <2>3, <2>4, <2>5, <2>6
<1>3. CASE CtxErr
  <2>1. TypeOK'
    BY <1>3 DEF CtxErr, Return, Cancelled
  <2>2. Progress'
    BY <1>3 DEF CtxErr, Progress, Return
  <2>3. Running'
    BY <1>3 DEF CtxErr, Running, Return, FailedBefore
  <2>4. Lateness'
    BY <1>3 DEF CtxErr, Lateness, Cancelled, Return
  <2>5. Capped'
    BY <1>3 DEF CtxErr, Capped
  <2>6. ReturnIsTruthful'
    BY <1>3, NilIsNoError DEF CtxErr, ReturnIsTruthful, FailedBefore, Running, Progress, Return, Cancelled
  <2> QED
    BY <2>1, <2>2, <2>3, <2>4, <2>5, <2>6
<1>4. CASE Attempt
  <2>1. TypeOK'
    BY <1>4 DEF Attempt
  <2>2. Progress'
    BY <1>4 DEF Attempt, Progress
  <2>3. Running'
    BY <1>4 DEF Attempt, Running, FailedBefore
  <2>4. Lateness'
    BY <1>4 DEF Attempt, Lateness, Cancelled, Live
  <2>5. Capped'
    BY <1>4 DEF Attempt, Capped
  <2>6. ReturnIsTruthful'
    BY <1>4 DEF Attempt, ReturnIsTruthful, FailedBefore, Running
  <2> QED
    BY <2>1, <2>2, <2>3, <2>4, <2>5, <2>6
<1>5. CASE CallFn
  <2>1. TypeOK'
    BY <1>5 DEF CallFn
  <2>2. Progress'
    BY <1>5 DEF CallFn, Progress
  <2>3. Running'
    BY <1>5 DEF CallFn, Running, FailedBefore
  <2>4. Lateness'
    BY <1>5 DEF CallFn, Lateness, Cancelled
  <2>5. Capped'
    BY <1>5 DEF CallFn, Capped
  <2>6. ReturnIsTruthful'
    BY <1>5 DEF CallFn, ReturnIsTruthful, FailedBefore, Running
  <2> QED
    BY <2>1, <2>2, <2>3, <2>4, <2>5, <2>6
<1>6. CASE FnSucceeds
  <2>1. TypeOK'
    BY <1>6 DEF FnSucceeds, Return
  <2>2. Progress'
    BY <1>6 DEF FnSucceeds, Progress, Return
  <2>3. Running'
    BY <1>6 DEF FnSucceeds, Running, Return, FailedBefore
  <2>4. Lateness'
    BY <1>6 DEF FnSucceeds, Lateness, Cancelled, Return
  <2>5. Capped'
    BY <1>6 DEF FnSucceeds, Capped
  <2>6. ReturnIsTruthful'
    BY <1>6 DEF FnSucceeds, ReturnIsTruthful, FailedBefore, Running, Progress, Return
  <2> QED
    BY <2>1, <2>2, <2>3, <2>4, <2>5, <2>6
<1>7. CASE FnFails
  <2>1. TypeOK'
    BY <1>7 DEF FnFails, AfterFailure, Kept, Progress
  <2>2. Progress'
    BY <1>7 DEF FnFails, Progress, AfterFailure
  <2>3. Running'
    <3>1. PICK err \in Errors : lastErr' = err
      BY <1>7 DEF FnFails, Kept
    <3>2. lastErr' # nil
      BY <3>1, NilIsNoError
    <3>3. outcomes' # << >>
      <4>1. outcomes' = Append(outcomes, FALSE)
        BY <1>7 DEF FnFails
      <4>2. outcomes \in Seq(BOOLEAN)
        OBVIOUS
      <4>3. Len(outcomes') = Len(outcomes) + 1 /\ Len(outcomes) \in Nat
        BY <4>1, <4>2
      <4> QED
        BY <4>3
    <3>4. ret' = nil
      BY <1>7 DEF FnFails, Running
    <3>5. FailedBefore(Len(outcomes) + 1) /\ outcomes' = Append(outcomes, FALSE)
      BY <1>7 DEF FnFails, Running
    <3>6. FailedBefore(Len(outcomes) + 1)'
      BY <3>5 DEF FailedBefore
    <3> QED
      BY <3>2, <3>6, <3>3, <3>4 DEF Running
  <2>4. Lateness'
    BY <1>7 DEF FnFails, Lateness, Cancelled, AfterFailure
  <2>5. Capped'
    BY <1>7 DEF FnFails, Capped
  <2>6. ReturnIsTruthful'
    BY <1>7, NilIsNoError DEF FnFails, ReturnIsTruthful, FailedBefore, Running, AfterFailure
  <2> QED
    BY <2>1, <2>2, <2>3, <2>4, <2>5, <2>6
<1>8. CASE StartTimer
  <2>1. TypeOK'
    BY <1>8, DurationsBounded DEF StartTimer
  <2>2. Progress'
    BY <1>8 DEF StartTimer, Progress
  <2>3. Running'
    BY <1>8 DEF StartTimer, Running, FailedBefore
  <2>4. Lateness'
    BY <1>8 DEF StartTimer, Lateness, Cancelled
  <2>5. Capped'
    <3>1. PICK d \in Durations(delay) : slept' = Append(slept, d)
      BY <1>8 DEF StartTimer
    <3>2. d \in Nat /\ d <= delay
      BY <3>1, DurationsBounded
    <3>3. Len(slept') = i + 1 /\ i' = i /\ delay' = delay
      BY <1>8, <3>1, <3>2 DEF StartTimer, Progress
    <3>4. \A k \in 2 .. i : slept'[k] = slept[k]
      BY <1>8, <3>1, <3>2 DEF StartTimer, Progress
    <3>5. slept'[i + 1] = d
      BY <1>8, <3>1, <3>2 DEF StartTimer, Progress
    <3>6. \A k \in 2 .. Len(slept') : slept'[k] <= Max
      BY <1>8, <3>2, <3>3, <3>4, <3>5 DEF StartTimer, Progress, Capped
    <3> QED
      BY <3>3, <3>6 DEF Capped
  <2>6. ReturnIsTruthful'
    BY <1>8 DEF StartTimer, ReturnIsTruthful, FailedBefore, Running
  <2> QED
    BY <2>1, <2>2, <2>3, <2>4, <2>5, <2>6
<1>9. CASE CtxDone
  <2>1. TypeOK'
    BY <1>9 DEF CtxDone, Return, Cancelled
  <2>2. Progress'
    BY <1>9 DEF CtxDone, Progress, Return
  <2>3. Running'
    BY <1>9 DEF CtxDone, Running, Return, FailedBefore
  <2>4. Lateness'
    BY <1>9 DEF CtxDone, Lateness, Cancelled, Return
  <2>5. Capped'
    BY <1>9 DEF CtxDone, Capped
  <2>6. ReturnIsTruthful'
    BY <1>9, NilIsNoError DEF CtxDone, ReturnIsTruthful, FailedBefore, Running, Progress, Return, Cancelled
  <2> QED
    BY <2>1, <2>2, <2>3, <2>4, <2>5, <2>6
<1>10. CASE TimerFires
  <2>1. TypeOK'
    BY <1>10, GrownCapped DEF TimerFires, Progress
  <2>2. Progress'
    BY <1>10 DEF TimerFires, Progress
  <2>3. Running'
    BY <1>10 DEF TimerFires, Running, FailedBefore
  <2>4. Lateness'
    BY <1>10 DEF TimerFires, Lateness, Cancelled
  <2>5. Capped'
    BY <1>10, GrownCapped DEF TimerFires, Capped
  <2>6. ReturnIsTruthful'
    BY <1>10 DEF TimerFires, ReturnIsTruthful, FailedBefore, Running
  <2> QED
    BY <2>1, <2>2, <2>3, <2>4, <2>5, <2>6
<1>11. CASE EndOfLoop
  <2>1. TypeOK'
    BY <1>11 DEF EndOfLoop, Return, Running
  <2>2. Progress'
    BY <1>11 DEF EndOfLoop, Progress, Return, NoAttemptLeft
  <2>3. Running'
    BY <1>11 DEF EndOfLoop, Running, Return, FailedBefore
  <2>4. Lateness'
    BY <1>11 DEF EndOfLoop, Lateness, Cancelled, Return
  <2>5. Capped'
    BY <1>11 DEF EndOfLoop, Capped
  <2>6. ReturnIsTruthful'
    BY <1>11 DEF EndOfLoop, ReturnIsTruthful, FailedBefore, Running, Progress, Return, NoAttemptLeft
  <2> QED
    BY <2>1, <2>2, <2>3, <2>4, <2>5, <2>6
<1>12. CASE UNCHANGED vars
  BY <1>12 DEF Progress, Running, Lateness, Capped, ReturnIsTruthful, FailedBefore, Cancelled
<1> QED
  BY <1>1, <1>2, <1>3, <1>4, <1>5, <1>6, <1>7, <1>8, <1>9, <1>10, <1>11, <1>12 DEF Next, Step, Returned

LEMMA Invariance == Spec => []RetryInv
BY InitInv, NextInv, PTL DEF Spec

(* The state of a call of Do is well-typed, and the counter stays below    *)
(* attempts, whatever attempts and backoff the caller passes.              *)
THEOREM TypeCorrect == Spec => []TypeOK
BY Invariance, PTL DEF RetryInv

(* What Do returns is the truth about its calls of fn, for any number of   *)
(* attempts, any errors, and a cancellation at any moment.                 *)
THEOREM ReturnIsTruthfulHolds == Spec => []ReturnIsTruthful
BY Invariance, PTL DEF RetryInv

(* The race of the select costs one call of fn at most, however many       *)
(* attempts are left.                                                      *)
THEOREM OneLateCallHolds == Spec => []OneLateCall
<1>1. RetryInv => OneLateCall
  BY DEF RetryInv, Lateness, OneLateCall
<1> QED
  BY <1>1, Invariance, PTL

(* Waits separate calls of fn, and from the second on they are capped, for *)
(* any backoff with or without jitter.                                     *)
THEOREM WaitsBetweenCallsHolds == Spec => []WaitsBetweenCalls
<1>1. RetryInv => WaitsBetweenCalls
  BY RetryAssumption DEF RetryInv, TypeOK, Progress, Capped, WaitsBetweenCalls
<1> QED
  BY <1>1, Invariance, PTL
------------------------------------------------------------------------------
(* The classification of an error.                                         *)

LEMMA LeastOf ==
  ASSUME NEW S, S \subseteq Nat, S # {}
  PROVE  \E n \in S : \A m \in S : n <= m
<1>1. PICK n \in S : \A m \in S : <<m, n>> \notin OpToRel(<, Nat)
  BY NatLessThanWellFounded, WFMin
<1>2. \A x, y \in Nat : x < y => <<x, y>> \in OpToRel(<, Nat)
  BY DEF OpToRel
<1>3. \A m \in S : ~(m < n)
  BY <1>1, <1>2
<1> QED
  BY <1>3

(* errors.As finds the outermost layer of a kind, and only that one.       *)
LEMMA FirstOfLeads ==
  ASSUME NEW err \in Seq(Layer), NEW kinds, Has(err, kinds)
  PROVE  \E k \in DOMAIN err :
           /\ Leads(k, err, kinds) /\ FirstOf(err, kinds) = err[k]
           /\ \A j \in DOMAIN err : Leads(j, err, kinds) => j = k
<1> DEFINE S == {k \in DOMAIN err : err[k].kind \in kinds}
<1>1. S # {} /\ S \subseteq Nat
  BY DEF Has
<1>2. PICK k \in S : \A j \in S : k <= j
  <2> HIDE DEF S
  <2> QED
    BY <1>1, LeastOf
<1>3. k \in DOMAIN err /\ Leads(k, err, kinds)
  BY <1>2 DEF Leads
<1>4. \A j \in DOMAIN err : Leads(j, err, kinds) => j = k
  BY <1>2 DEF Leads
<1> QED
  BY <1>3, <1>4 DEF FirstOf

Wrapper == [kind : {"other"}, code : Nat]

(* Layers of other kinds around an error hide nothing of it.               *)
LEMMA WrapperHidesNothing ==
  ASSUME NEW w \in Seq(Wrapper), NEW err \in Seq(Layer),
         NEW kinds, "other" \notin kinds
  PROVE  /\ Has(w \o err, kinds) <=> Has(err, kinds)
         /\ Has(err, kinds) => FirstOf(w \o err, kinds) = FirstOf(err, kinds)
<1> DEFINE all == w \o err
           n == Len(w)
<1>1. w \in Seq(Layer) /\ n \in Nat /\ \A k \in 1 .. n : w[k].kind = "other"
  <2>1. \A l \in Wrapper : l \in Layer /\ l.kind = "other"
    BY DEF Layer, Kinds, Wrapper
  <2>2. w \in Seq(Layer)
    BY <2>1, SeqMonotonic
  <2> QED
    BY <2>1, <2>2, ElementOfSeq
<1>2. all \in Seq(Layer) /\ Len(all) = n + Len(err) /\ Len(err) \in Nat
  BY <1>1, ConcatProperties
<1>3. \A k \in 1 .. n : all[k].kind = "other"
  BY <1>1, <1>2, ConcatProperties
<1>4. \A k \in 1 .. Len(err) : all[n + k] = err[k]
  BY <1>1, <1>2, ConcatProperties
<1> HIDE DEF all, n
<1>5. ASSUME NEW k \in DOMAIN all, all[k].kind \in kinds
      PROVE  \E j \in DOMAIN err : k = n + j /\ err[j].kind \in kinds
  <2>1. k \in 1 .. n + Len(err) /\ k \notin 1 .. n
    BY <1>2, <1>3, <1>5
  <2>2. PICK j \in 1 .. Len(err) : k = n + j
    <3>1. k - n \in 1 .. Len(err) /\ k = n + (k - n)
      BY <1>1, <1>2, <2>1
    <3> QED
      BY <3>1
  <2> QED
    BY <1>4, <1>5, <2>2
<1>6. ASSUME NEW j \in DOMAIN err PROVE n + j \in DOMAIN all /\ all[n + j] = err[j]
  <2>1. j \in 1 .. Len(err) /\ DOMAIN all = 1 .. n + Len(err)
    BY <1>2
  <2>2. n + j \in 1 .. n + Len(err)
    BY <1>1, <1>2, <2>1
  <2> QED
    BY <1>4, <2>1, <2>2
<1>7. Has(all, kinds) <=> Has(err, kinds)
  BY <1>5, <1>6 DEF Has
<1>8. ASSUME Has(err, kinds) PROVE FirstOf(all, kinds) = FirstOf(err, kinds)
  <2>1. PICK k \in DOMAIN err : Leads(k, err, kinds) /\ FirstOf(err, kinds) = err[k]
    BY <1>8, FirstOfLeads
  <2>2. PICK m \in DOMAIN all :
          /\ FirstOf(all, kinds) = all[m]
          /\ \A j \in DOMAIN all : Leads(j, all, kinds) => j = m
    BY <1>2, <1>7, <1>8, FirstOfLeads
  <2>3. n + k \in DOMAIN all /\ all[n + k] = err[k]
    BY <1>6
  <2>4. Leads(n + k, all, kinds)
    <3>1. \A j \in DOMAIN all : all[j].kind \in kinds => n + k <= j
      BY <1>1, <1>2, <1>5, <2>1 DEF Leads
    <3> QED
      BY <2>1, <2>3, <3>1 DEF Leads
  <2> QED
    BY <2>1, <2>2, <2>3, <2>4
<1> QED
  BY <1>7, <1>8 DEF all

(* Wrapping an error, as fmt.Errorf with the verb w does, never changes    *)
(* whether it is transient, however many wrappers there are.               *)
THEOREM WrappingKeepsTransience ==
  ASSUME NEW w \in Seq(Wrapper), NEW err \in Seq(Layer)
  PROVE  IsTransient(w \o err) <=> IsTransient(err)
<1>1. "other" \notin IsContext \cup NetErrors \cup {"http", "op"}
  BY DEF IsContext, NetErrors
<1>2. Has(w \o err, IsContext) <=> Has(err, IsContext)
  BY <1>1, WrapperHidesNothing
<1>3. /\ Has(w \o err, {"http"}) <=> Has(err, {"http"})
      /\ Has(err, {"http"}) => FirstOf(w \o err, {"http"}) = FirstOf(err, {"http"})
  BY <1>1, WrapperHidesNothing
<1>4. Has(w \o err, {"op"}) <=> Has(err, {"op"})
  BY <1>1, WrapperHidesNothing
<1>5. /\ Has(w \o err, NetErrors) <=> Has(err, NetErrors)
      /\ Has(err, NetErrors) => FirstOf(w \o err, NetErrors) = FirstOf(err, NetErrors)
  BY <1>1, WrapperHidesNothing
<1> QED
  BY <1>2, <1>3, <1>4, <1>5 DEF IsTransient, ByType

LEMMA ContextIsFinal == \A err \in ContextErrors \cup {nil} : ~IsTransient(err)
<1>1. ASSUME NEW err \in ContextErrors PROVE Has(err, IsContext)
  <2>1. PICK k \in {"canceled", "deadline"} : err = <<[kind |-> k, code |-> 0]>>
    BY DEF ContextErrors
  <2>2. 1 \in DOMAIN err /\ err[1].kind = k
    BY <2>1
  <2> QED
    BY <2>2 DEF Has, IsContext
<1>2. ~Has(nil, {"http"}) /\ ~Has(nil, {"op"}) /\ ~Has(nil, NetErrors)
  BY DEF nil, Has
<1> QED
  BY <1>1, <1>2 DEF IsTransient, ByType

(* A caller that asks IsTransient about what Do returned is told to try    *)
(* again only after a last attempt that failed, never because the context  *)
(* has ended, for any errors of fn and a cancellation at any moment.       *)
THEOREM CancellationIsFinalHolds == Spec => []CancellationIsFinal
<1>1. RetryInv => CancellationIsFinal
  <2> SUFFICES ASSUME RetryInv PROVE CancellationIsFinal
    OBVIOUS
  <2>1. Has(ret, {"canceled", "deadline"}) => ~IsTransient(ret)
    BY DEF Has, IsTransient, IsContext
  <2>2. ASSUME IsTransient(ret) PROVE ret = lastErr /\ Len(outcomes) = attempts
    BY <2>2, ContextIsFinal DEF RetryInv, TypeOK, ReturnIsTruthful
  <2> QED
    BY <2>1, <2>2 DEF CancellationIsFinal
<1> QED
  BY <1>1, Invariance, PTL
------------------------------------------------------------------------------
(* A call of Do is finite: every step brings it closer to its return.      *)

Place == CASE pc = "loop" -> 6 [] pc = "call" -> 5 [] pc = "fn" -> 4
           [] pc = "sleep" -> 3 [] pc = "wait" -> 2 [] pc = "end" -> 1
           [] pc = "returned" -> 0

(* The attempts left, the steps left in this one, the ticks left of the    *)
(* wait, and the cancellation that may still come.                         *)
Work == <<IF i < attempts THEN attempts - i ELSE 0, Place, left,
          IF Cancelled THEN 0 ELSE 1>>
Works == [1 .. 4 -> Nat]
Lower == LexProductOrdering(OpToRel(<, Nat), Nat, 4)

LEMMA LowerIsWellFounded == IsWellFoundedOn(Lower, Works)
<1>1. 4 \in Nat
  OBVIOUS
<1> QED
  BY <1>1, WFLexProductOrdering, NatLessThanWellFounded DEF Lower, Works

(* A component falls and those before it stay.                             *)
LEMMA LowerMeans ==
  ASSUME NEW v \in Works, NEW w \in Works
  PROVE  /\ v[1] < w[1] => <<v, w>> \in Lower
         /\ v[1] = w[1] /\ v[2] < w[2] => <<v, w>> \in Lower
         /\ v[1] = w[1] /\ v[2] = w[2] /\ v[3] < w[3] => <<v, w>> \in Lower
         /\ v[1] = w[1] /\ v[2] = w[2] /\ v[3] = w[3] /\ v[4] < w[4]
              => <<v, w>> \in Lower
<1>1. ASSUME NEW j \in 1 .. 4, v[j] < w[j], \A k \in 1 .. j - 1 : v[k] = w[k]
      PROVE  <<v, w>> \in Lower
  BY <1>1 DEF Lower, LexProductOrdering, OpToRel, Works
<1>2. v[1] < w[1] => <<v, w>> \in Lower
  BY <1>1
<1>3. v[1] = w[1] /\ v[2] < w[2] => <<v, w>> \in Lower
  BY <1>1
<1>4. v[1] = w[1] /\ v[2] = w[2] /\ v[3] < w[3] => <<v, w>> \in Lower
  BY <1>1
<1>5. v[1] = w[1] /\ v[2] = w[2] /\ v[3] = w[3] /\ v[4] < w[4] => <<v, w>> \in Lower
  BY <1>1
<1> QED
  BY <1>2, <1>3, <1>4, <1>5

LEMMA WorkTyped == TypeOK => Work \in Works
<1> SUFFICES ASSUME TypeOK PROVE Work \in Works
  OBVIOUS
<1>1. (IF i < attempts THEN attempts - i ELSE 0) \in Nat
  BY RetryAssumption DEF TypeOK
<1>2. Place \in Nat
  BY DEF TypeOK, Place
<1>3. left \in Nat
  BY DEF TypeOK
<1> QED
  BY <1>1, <1>2, <1>3 DEF Work, Works

LEMMA StepLowers ==
  ASSUME RetryInv, Work \in Works, Work' \in Works, [Next]_vars, ~UNCHANGED vars
  PROVE  <<Work', Work>> \in Lower
<1> DEFINE Left == IF i < attempts THEN attempts - i ELSE 0
<1>1. /\ Work'[1] < Work[1] => <<Work', Work>> \in Lower
      /\ Work'[1] = Work[1] /\ Work'[2] < Work[2] => <<Work', Work>> \in Lower
      /\ Work'[1] = Work[1] /\ Work'[2] = Work[2] /\ Work'[3] < Work[3]
           => <<Work', Work>> \in Lower
      /\ Work'[1] = Work[1] /\ Work'[2] = Work[2] /\ Work'[3] = Work[3]
           /\ Work'[4] < Work[4] => <<Work', Work>> \in Lower
  BY LowerMeans
<1>2. /\ Work[1] = Left /\ Work[2] = Place /\ Work[3] = left
      /\ Work[4] = IF Cancelled THEN 0 ELSE 1
  BY DEF Work
<1>3. /\ Work'[1] = Left' /\ Work'[2] = Place' /\ Work'[3] = left'
      /\ Work'[4] = IF Cancelled' THEN 0 ELSE 1
  BY DEF Work
<1>4. ASSUME i' = i, attempts' = attempts, Place' < Place PROVE <<Work', Work>> \in Lower
  BY <1>1, <1>2, <1>3, <1>4
<1> USE RetryAssumption DEF RetryInv, TypeOK, loopVars, timerVars, fnVars, vars
<1>5. CASE CtxErr
  BY <1>4, <1>5 DEF CtxErr, Return, Place
<1>6. CASE Attempt
  BY <1>4, <1>6 DEF Attempt, Place
<1>7. CASE CallFn
  BY <1>4, <1>7 DEF CallFn, Place
<1>8. CASE FnSucceeds
  BY <1>4, <1>8 DEF FnSucceeds, Return, Place
<1>9. CASE FnFails
  BY <1>4, <1>9 DEF FnFails, AfterFailure, Place
<1>10. CASE StartTimer
  BY <1>4, <1>10 DEF StartTimer, Place
<1>11. CASE CtxDone
  BY <1>4, <1>11 DEF CtxDone, Return, Place
<1>12. CASE TimerFires
  <2>1. Left' < Left
    BY <1>12 DEF TimerFires, Progress
  <2> QED
    BY <1>1, <1>2, <1>3, <2>1
<1>13. CASE EndOfLoop
  BY <1>4, <1>13 DEF EndOfLoop, Return, Place
<1>14. CASE Tick
  <2>1. left' < left /\ Left' = Left /\ Place' = Place
    BY <1>14 DEF Tick, Place
  <2> QED
    BY <1>1, <1>2, <1>3, <2>1
<1>15. CASE Cancel
  <2>1. ~Cancelled /\ Cancelled' /\ Left' = Left /\ Place' = Place /\ left' = left
    BY <1>15, NilIsNoError DEF Cancel, Cancelled, Place
  <2> QED
    BY <1>1, <1>2, <1>3, <2>1
<1> QED
  BY <1>5, <1>6, <1>7, <1>8, <1>9, <1>10, <1>11, <1>12, <1>13, <1>14, <1>15
     DEF Next, Step, Returned

(* No call of Do goes on for ever: every step, the cancellation included,  *)
(* lowers a measure in a well-founded order, for any attempts, backoff and *)
(* errors.  Fairness is only needed for the steps to be taken at all.      *)
THEOREM NoEndlessCall ==
  IsWellFoundedOn(Lower, Works) /\ (Spec => [][(<<Work', Work>> \in Lower)]_vars)
<1>1. RetryInv => Work \in Works
  BY WorkTyped DEF RetryInv
<1>2. RetryInv /\ Work \in Works /\ (Work \in Works)' /\ [Next]_vars
        => [(<<Work', Work>> \in Lower)]_vars
  BY StepLowers
<1>3. Spec => [][(<<Work', Work>> \in Lower)]_vars
  BY <1>1, <1>2, Invariance, PTL DEF Spec
<1> QED
  BY <1>3, LowerIsWellFounded

(* The guards of Step and Tick.                                            *)
SomeGuard ==
  \/ pc = "loop" /\ i < attempts /\ (Cancelled \/ Live)
  \/ pc = "loop" /\ NoAttemptLeft
  \/ pc \in {"call", "fn", "end"}
  \/ pc = "sleep" /\ Durations(delay) # {}
  \/ pc = "wait" /\ (Cancelled \/ left = 0 \/ left > 0)

(* Until it has returned, a call of Do always has a step to take.          *)
THEOREM NeverStuck == Spec => [](pc # "returned" => SomeGuard)
<1>1. TypeOK => (pc # "returned" => SomeGuard)
  <2> SUFFICES ASSUME TypeOK, pc # "returned" PROVE SomeGuard
    OBVIOUS
  <2>1. delay \in Durations(delay)
    <3>1. delay \in Nat /\ delay \div 2 \in Nat /\ delay \div 2 <= delay
      BY DivNat DEF TypeOK
    <3> QED
      BY <3>1 DEF Durations
  <2> QED
    BY <2>1, RetryAssumption DEF TypeOK, SomeGuard, Live, NoAttemptLeft
<1> QED
  BY <1>1, TypeCorrect, PTL
=============================================================================
