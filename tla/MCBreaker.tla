------------------------------ MODULE MCBreaker ------------------------------
(* Instance of Breaker for TLC: interchangeable callers.                   *)
EXTENDS Breaker, TLC

CONSTANTS c1, c2, c3

TwoCallers   == {c1, c2}
ThreeCallers == {c1, c2, c3}
==============================================================================
