---------------------------- MODULE BreakerProofs ----------------------------
(***************************************************************************)
(* What module Breaker promises for any number of goroutines, threshold    *)
(* and cooldown.  The type invariant and ThresholdDecides are inductive    *)
(* together; the action properties follow from them.                       *)
(***************************************************************************)
EXTENDS Breaker, FiniteSetTheorems, WellFoundedInduction, TLAPS

Inv == TypeOK /\ ThresholdDecides

LEMMA InvInit == Init => Inv
  BY BreakerAssumption DEF Init, Inv, TypeOK, ThresholdDecides

LEMMA InvStep == Inv /\ [Next]_vars => Inv'
<1> SUFFICES ASSUME Inv, [Next]_vars PROVE Inv'
  OBVIOUS
<1> USE BreakerAssumption DEF Inv, TypeOK, ThresholdDecides
<1>1. CASE Tick
  BY <1>1 DEF Tick
<1>2. CASE QueryState
  BY <1>2 DEF QueryState, CurrentState
<1>3. CASE Reset
  BY <1>3 DEF Reset, CountAfterReset
<1>4. ASSUME NEW c \in Callers, Reject(c) PROVE Inv'
  BY <1>4 DEF Reject, AgeAfterReject
<1>5. ASSUME NEW c \in Callers, Admit(c) PROVE Inv'
  BY <1>5 DEF Admit, CurrentState
<1>6. ASSUME NEW c \in Callers, Failure(c) PROVE Inv'
  BY <1>6 DEF Failure, Leave, Counted, Min
<1>7. ASSUME NEW c \in Callers, Success(c) PROVE Inv'
  BY <1>7 DEF Success, Leave
<1>8. ASSUME NEW c \in Callers, Panic(c) PROVE Inv'
  BY <1>8 DEF Panic, Leave
<1>9. CASE UNCHANGED vars
  BY <1>9 DEF vars
<1> QED
  BY <1>1, <1>2, <1>3, <1>4, <1>5, <1>6, <1>7, <1>8, <1>9 DEF Next, FnReturns

LEMMA Invariance == Spec => []Inv
  BY InvInit, InvStep, PTL DEF Spec

(* Every reachable state is well-typed.                                    *)
THEOREM TypeCorrect == Spec => []TypeOK
  BY Invariance, PTL DEF Inv

(* In every order in which outcomes are recorded, the breaker is closed    *)
(* exactly while fewer than threshold consecutive failures are counted.    *)
THEOREM ThresholdDecidesHolds == Spec => []ThresholdDecides
  BY Invariance, PTL DEF Inv

(* A failed probe re-opens the breaker for a whole cooldown.               *)
THEOREM FailedProbeReopensHolds == Spec => FailedProbeReopens
<1>1. Inv /\ [Next]_vars =>
        [\A c \in Callers :
           (Failure(c) /\ state = "half-open") => (state' = "open" /\ age' = 0)]_vars
  BY BreakerAssumption DEF Inv, TypeOK, ThresholdDecides, Failure, Counted, Min
<1> QED
  BY <1>1, Invariance, PTL DEF Spec, FailedProbeReopens

(* No call starts during a cooldown, unless a success or Reset has been     *)
(* recorded since the failure that began it.                                *)
THEOREM NoCallDuringCooldownHolds == Spec => NoCallDuringCooldown
<1> DEFINE Starts(c) == pc[c] = "idle" /\ pc'[c] = "fn"
           Quiet == \A c \in Callers :
                      Starts(c) => (failures < Threshold \/ age = Cooldown)
<1>1. ASSUME Inv, [Next]_vars PROVE [Quiet]_vars
  <2> SUFFICES ASSUME NEW c \in Callers, Starts(c), Next
               PROVE  failures < Threshold \/ age = Cooldown
    BY <1>1
  <2>1. Admit(c)
    BY <1>1 DEF Next, Tick, QueryState, Reset, Reject, Admit, FnReturns, Failure,
                Success, Panic, Leave, Inv, TypeOK, vars
  <2> QED
    BY <1>1, <2>1, BreakerAssumption
       DEF Admit, CurrentState, Inv, TypeOK, ThresholdDecides
<1> QED
  BY <1>1, Invariance, PTL DEF Spec, NoCallDuringCooldown
------------------------------------------------------------------------------
(* An outage is finite.                                                    *)

Outage == state = "open" /\ age < Cooldown
Running == {c \in Callers : pc[c] = "fn"}

(* The calls that may still fail, and the rest of the cooldown.            *)
OutageLeft == <<Cardinality(Running), Cooldown - age>>
Lower == LexPairOrdering(OpToRel(<, Nat), OpToRel(<, Nat), Nat, Nat)

LEMMA LowerMeans ==
  ASSUME NEW a \in Nat, NEW b \in Nat, NEW c \in Nat, NEW d \in Nat,
         a < c \/ (a = c /\ b < d)
  PROVE  <<<<a, b>>, <<c, d>>>> \in Lower
BY DEF Lower, LexPairOrdering, OpToRel

LEMMA OutageStep ==
  ASSUME IsFiniteSet(Callers), Inv, Inv', [Next]_vars, Outage, Outage', ~UNCHANGED vars
  PROVE  <<OutageLeft', OutageLeft>> \in Lower
<1> USE BreakerAssumption DEF Inv, TypeOK, vars, Outage
<1>1. IsFiniteSet(Running) /\ Cardinality(Running) \in Nat
  BY FS_Subset, FS_CardinalityType DEF Running
<1>2. Cooldown - age \in Nat /\ Cooldown - age' \in Nat
  <2>1. age \in 0 .. Cooldown /\ age' \in 0 .. Cooldown
    OBVIOUS
  <2>2. \A a \in 0 .. Cooldown : Cooldown - a \in Nat
    OBVIOUS
  <2> QED
    BY <2>1, <2>2
<1>3. CASE Tick
  <2>1. Running' = Running /\ Cooldown - age' < Cooldown - age
    BY <1>3 DEF Tick, Running
  <2> QED
    BY <1>1, <1>2, <2>1, LowerMeans DEF OutageLeft
<1>4. ASSUME NEW c \in Callers, Leave(c) PROVE <<OutageLeft', OutageLeft>> \in Lower
  <2>1. c \in Running /\ Running' = Running \ {c}
    BY <1>4 DEF Leave, Running
  <2>2. Cardinality(Running') = Cardinality(Running) - 1
    BY <1>1, <2>1, FS_RemoveElement
  <2>3. Cardinality(Running') \in Nat
    <3>1. IsFiniteSet(Running')
      BY <1>1, <2>1, FS_Subset
    <3> QED
      BY <3>1, FS_CardinalityType
  <2> QED
    BY <1>1, <1>2, <2>2, <2>3, LowerMeans DEF OutageLeft
<1>5. ~QueryState /\ ~Reset /\ \A c \in Callers : ~Reject(c) /\ ~Admit(c)
  BY DEF QueryState, CurrentState, Reset, Reject, AgeAfterReject, Admit
<1> QED
  BY <1>3, <1>4, <1>5 DEF Next, FnReturns, Failure, Success, Panic

(* However often an open breaker is called, every step of an outage ends   *)
(* it or lowers a measure in a well-founded order: rejected calls do not   *)
(* prolong it, and failures recorded late do so once for every call.       *)
THEOREM OutageIsFinite ==
  ASSUME IsFiniteSet(Callers)
  PROVE  /\ IsWellFoundedOn(Lower, Nat \X Nat)
         /\ Spec => [][Outage /\ Outage' => <<OutageLeft', OutageLeft>> \in Lower]_vars
<1>1. IsWellFoundedOn(Lower, Nat \X Nat)
  BY WFLexPairOrdering, NatLessThanWellFounded DEF Lower
<1>2. Inv /\ Inv' /\ [Next]_vars =>
        [Outage /\ Outage' => <<OutageLeft', OutageLeft>> \in Lower]_vars
  BY OutageStep
<1>3. Spec => [][Outage /\ Outage' => <<OutageLeft', OutageLeft>> \in Lower]_vars
  BY <1>2, Invariance, PTL DEF Spec
<1> QED
  BY <1>1, <1>3
------------------------------------------------------------------------------
(* A breaker that is not shared.                                           *)

(* No call is running while the breaker is open, and in the half-open      *)
(* state only the probe is.                                                *)
Unshared(c) ==
  /\ state = "open" => pc[c] = "idle"
  /\ state = "half-open" /\ pc[c] = "fn" => probing[c]

(* "After threshold consecutive failures, the breaker opens for cooldown   *)
(* duration.  After the cooldown, it allows one probe request.  If the     *)
(* probe succeeds, the breaker closes.  If it fails, it re-opens."         *)
Documented(c) ==
  /\ state = "closed" /\ state' # state =>
       Failure(c) /\ state' = "open" /\ failures + 1 = Threshold
  /\ state = "open" /\ state' # state =>
       Reset \/ (state' = "half-open" /\ age = Cooldown)
  /\ state = "half-open" /\ state' # state =>
       \/ Reset
       \/ probing[c] /\ Success(c) /\ state' = "closed"
       \/ probing[c] /\ Failure(c) /\ state' = "open"

(* What the comment of Breaker says is true of a breaker with one caller,  *)
(* whatever it is asked and whoever resets it.  With two, the run          *)
(* breaker_one_probe refutes it.                                           *)
THEOREM OneCallerAsDocumented ==
  ASSUME NEW c, Callers = {c}
  PROVE  Spec => []OneProbe /\ [][Documented(c)]_vars
<1> USE BreakerAssumption DEF Unshared
<1>1. Init => Unshared(c)
  BY DEF Init
<1>2. Inv /\ Unshared(c) /\ [Next]_vars => Unshared(c)'
  <2> SUFFICES ASSUME Inv, Unshared(c), [Next]_vars PROVE Unshared(c)'
    OBVIOUS
  <2> USE DEF Inv, TypeOK, ThresholdDecides, Leave
  <2>1. CASE Tick \/ Reset
    BY <2>1 DEF Tick, Reset
  <2>2. CASE QueryState
    BY <2>2 DEF QueryState, CurrentState
  <2>3. CASE Reject(c)
    BY <2>3 DEF Reject
  <2>4. CASE Admit(c)
    BY <2>4 DEF Admit, CurrentState
  <2>5. CASE FnReturns(c)
    BY <2>5 DEF FnReturns, Failure, Success, Panic
  <2>6. CASE UNCHANGED vars
    BY <2>6 DEF vars
  <2> QED
    BY <2>1, <2>2, <2>3, <2>4, <2>5, <2>6 DEF Next
<1>3. Inv /\ Unshared(c) /\ [Next]_vars => [Documented(c)]_vars
  <2> SUFFICES ASSUME Inv, Unshared(c), Next PROVE Documented(c)
    OBVIOUS
  <2> USE DEF Inv, TypeOK, ThresholdDecides, Documented, CurrentState
  <2>1. CASE Tick \/ Reset \/ QueryState \/ Reject(c) \/ Panic(c)
    BY <2>1 DEF Tick, Reset, QueryState, Reject, Panic
  <2>2. CASE Admit(c)
    BY <2>2 DEF Admit
  <2>3. CASE Failure(c)
    BY <2>3 DEF Failure, Counted, Min, Leave
  <2>4. CASE Success(c)
    BY <2>4 DEF Success, Leave
  <2> QED
    BY <2>1, <2>2, <2>3, <2>4 DEF Next, FnReturns
<1>4. OneProbe
  BY DEF OneProbe
<1> QED
  BY <1>1, <1>2, <1>3, <1>4, Invariance, PTL DEF Spec
==============================================================================
