----------------------------- MODULE Transient -----------------------------
(***************************************************************************)
(* retry.IsTransient.  An error is the sequence of its layers in the order *)
(* in which errors.Is and errors.As visit them, outermost first; nil has   *)
(* none.  Of a layer the functions see its kind and its HTTP status.       *)
(***************************************************************************)
EXTENDS Naturals, Sequences

Kinds == {"canceled", "deadline",      \* context.Canceled, DeadlineExceeded
          "dial timeout",              \* net.errTimeout and http's timeoutError
          "net timeout",               \* a net.Error, Timeout() or Temporary()
          "net error",                 \* a net.Error, neither
          "op",                        \* *net.OpError
          "http",                      \* *HTTPError
          "other"}
Layer == [kind : Kinds, code : Nat]
nil == << >>

(* The methods Is of the timeouts of net and net/http say that they are    *)
(* context.DeadlineExceeded.                                               *)
IsContext == {"canceled", "deadline", "dial timeout"}

(* The kinds that have Timeout and Temporary, and those that say yes.      *)
NetErrors == {"net timeout", "net error", "op", "dial timeout", "deadline"}
SayYes    == {"net timeout", "dial timeout", "deadline"}

TransientCodes == {429, 502, 503, 504, 529}

Has(err, kinds) == \E k \in DOMAIN err : err[k].kind \in kinds
Leads(k, err, kinds) ==
  err[k].kind \in kinds /\ \A j \in DOMAIN err : err[j].kind \in kinds => k <= j
FirstOf(err, kinds) == err[CHOOSE k \in DOMAIN err : Leads(k, err, kinds)]

(* The checks of types, once the context is ruled out.                     *)
ByType(err) ==
  IF Has(err, {"http"}) THEN FirstOf(err, {"http"}).code \in TransientCodes
  ELSE Has(err, {"op"}) \/
       (Has(err, NetErrors) /\ FirstOf(err, NetErrors).kind \in SayYes)

(* Slip: the network checks come before the check of the context.          *)
IsTransientNetFirst(err) ==
  IF Has(err, NetErrors \cup {"http"}) THEN ByType(err) ELSE FALSE

IsTransient(err) == ~Has(err, IsContext) /\ ByType(err)
=============================================================================
