------------------------------- MODULE Breaker -------------------------------
(***************************************************************************)
(* retry.Breaker: a circuit breaker shared by several goroutines.  Do      *)
(* holds the mutex while it decides and while it records the outcome, but  *)
(* not while fn runs, so outcomes are recorded in any order and in states  *)
(* other than the one the call was admitted in.  Each section under the    *)
(* mutex is one action.                                                    *)
(***************************************************************************)
EXTENDS Naturals

CONSTANTS Callers,        \* goroutines that call Do
          Threshold,      \* consecutive failures that open the breaker
          Cooldown        \* clock ticks before an open breaker probes

(* NewBreaker takes any int; below 1 it behaves as 1 does.                 *)
ASSUME BreakerAssumption == Threshold \in Nat \ {0} /\ Cooldown \in Nat

VARIABLES state,          \* Breaker.state
          failures,       \* Breaker.failures, which only its comparison with
                          \* threshold reads: kept at Threshold from there on
          age,            \* ticks since openedAt, kept at Cooldown from there on
          pc,             \* each caller: outside Do, or inside fn
          probing         \* history: fn was admitted in the half-open state

vars == <<state, failures, age, pc, probing>>

Min(a, b) == IF a < b THEN a ELSE b
------------------------------------------------------------------------------
(* Slips: faulty variants that no behaviour of the program uses.           *)

CurrentStateEager == IF state = "open" THEN "half-open" ELSE state
CountedAfresh == IF state = "half-open" THEN 1 ELSE Min(failures + 1, Threshold)
AgeAfterRejectRestarts == 0
CountAfterResetKept == failures

(* currentState, under the mutex.                                          *)
CurrentState ==
  IF state = "open" /\ age >= Cooldown THEN "half-open" ELSE state

(* A failure is counted in every state; a rejected call leaves openedAt as *)
(* it is; Reset forgets the failures.                                      *)
Counted == Min(failures + 1, Threshold)
AgeAfterReject == age
CountAfterReset == 0

(* fn is over, and with it the call of Do.                                 *)
Leave(c) == /\ pc[c] = "fn"
            /\ pc' = [pc EXCEPT ![c] = "idle"]
            /\ probing' = [probing EXCEPT ![c] = FALSE]
------------------------------------------------------------------------------
Init ==
  /\ state = "closed" /\ failures = 0
  /\ age = Cooldown            \* openedAt is the zero time
  /\ pc = [c \in Callers |-> "idle"]
  /\ probing = [c \in Callers |-> FALSE]

Tick ==
  /\ age < Cooldown
  /\ age' = age + 1
  /\ UNCHANGED <<state, failures, pc, probing>>

(* State(): looking at the breaker may move it to half-open.               *)
QueryState ==
  /\ state' = CurrentState
  /\ UNCHANGED <<failures, age, pc, probing>>

(* Do, first section: ErrCircuitOpen.                                      *)
Reject(c) ==
  /\ pc[c] = "idle" /\ CurrentState = "open"
  /\ age' = AgeAfterReject
  /\ UNCHANGED <<state, failures, pc, probing>>

(* Do, first section: the mutex is released and fn starts.                 *)
Admit(c) ==
  /\ pc[c] = "idle" /\ CurrentState # "open"
  /\ state' = CurrentState
  /\ pc' = [pc EXCEPT ![c] = "fn"]
  /\ probing' = [probing EXCEPT ![c] = CurrentState = "half-open"]
  /\ UNCHANGED <<failures, age>>

(* Do, second section: fn has failed.                                      *)
Failure(c) ==
  /\ Leave(c)
  /\ failures' = Counted
  /\ IF failures' >= Threshold THEN state' = "open" /\ age' = 0
                               ELSE UNCHANGED <<state, age>>

(* Do, second section: fn has succeeded, whenever it was admitted.         *)
Success(c) ==
  /\ Leave(c)
  /\ failures' = 0 /\ state' = "closed"
  /\ UNCHANGED age

(* A panic of fn passes through Do, which holds no lock and records nothing.*)
Panic(c) == Leave(c) /\ UNCHANGED <<state, failures, age>>

Reset ==
  /\ failures' = CountAfterReset /\ state' = "closed"
  /\ UNCHANGED <<age, pc, probing>>

FnReturns(c) == Failure(c) \/ Success(c) \/ Panic(c)

Next ==
  \/ Tick \/ QueryState \/ Reset
  \/ \E c \in Callers : Reject(c) \/ Admit(c) \/ FnReturns(c)

Spec == Init /\ [][Next]_vars

(* Time passes, and every fn returns or panics.  Nothing is assumed of the *)
(* callers: they may call as often as they like, or never again.           *)
FairSpec == Spec /\ WF_vars(Tick) /\ \A c \in Callers : WF_vars(FnReturns(c))
------------------------------------------------------------------------------
(* Type invariant of the breaker; half-open, the cooldown is over.         *)
TypeOK ==
  /\ state \in {"closed", "open", "half-open"}
  /\ failures \in 0 .. Threshold
  /\ age \in 0 .. Cooldown
  /\ state = "half-open" => age = Cooldown
  /\ pc \in [Callers -> {"idle", "fn"}]
  /\ probing \in [Callers -> BOOLEAN]

(* The breaker is closed exactly while fewer than threshold consecutive    *)
(* failures have been recorded: outcomes that arrive late, in a state they *)
(* were not admitted in, never leave it open without cause or closed above *)
(* the threshold.                                                          *)
ThresholdDecides == state = "closed" <=> failures < Threshold

(* No call starts within the cooldown after a failure at or above the      *)
(* threshold, unless a success or Reset has been recorded since.           *)
NoCallDuringCooldown ==
  [][\A c \in Callers :
       (pc[c] = "idle" /\ pc'[c] = "fn") => (failures < Threshold \/ age = Cooldown)]_vars

(* A failure recorded while the breaker is half-open re-opens it for a     *)
(* whole cooldown, whichever call it comes from.                           *)
FailedProbeReopens ==
  [][\A c \in Callers :
       (Failure(c) /\ state = "half-open") => (state' = "open" /\ age' = 0)]_vars

(* An open breaker comes to admit calls again, however often it is called  *)
(* meanwhile: rejected calls do not prolong the outage, and the failures   *)
(* of calls admitted before it can do so only a finite number of times.    *)
AdmitsAgain == (state = "open") ~> (CurrentState # "open")

(* "After the cooldown, it allows one probe request".                      *)
OneProbe ==
  \A b, c \in Callers : (probing[b] /\ probing[c]) => b = c
==============================================================================
