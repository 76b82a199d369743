------------------------------ MODULE MCRetry ------------------------------
(* Instance of Retry for TLC: the errors of fn are a cause under at most   *)
(* one wrapper.                                                            *)
EXTENDS Retry

Causes == {<<[kind |-> k, code |-> 0]>> : k \in Kinds \ {"http", "op"}}
            \cup {<<[kind |-> "http", code |-> c]>> : c \in {404, 503}}
Wrapped == {<<[kind |-> k, code |-> 0]>> \o e : k \in {"op", "other"}, e \in Causes}
CausesOrWrapped == Causes \cup Wrapped
=============================================================================
