---------------------------- MODULE SerialServer ----------------------------
(***************************************************************************)
(* What an extension's request loop promises its host: requests are taken  *)
(* one at a time in the order of their ids, a response is only ever sent   *)
(* for the request being served, at most once, and none is sent after the  *)
(* loop has stopped.  A request may be given up without a response.        *)
(***************************************************************************)
EXTENDS Naturals

CONSTANT Ids              \* ids of requests, positive

VARIABLES last,           \* id of the last request taken, 0 before the first
          busy,           \* it is being served
          answered,       \* ids the host has received a response for
          running         \* the loop has not stopped

serverVars == <<last, busy, answered, running>>

ServerInit == last = 0 /\ busy = FALSE /\ answered = {} /\ running = TRUE

Take(id) ==
  /\ running /\ ~busy /\ id > last
  /\ last' = id /\ busy' = TRUE
  /\ UNCHANGED <<answered, running>>

Answer ==
  /\ busy /\ last \notin answered
  /\ answered' = answered \cup {last}
  /\ busy' = FALSE
  /\ running' \in BOOLEAN
  /\ UNCHANGED last

GiveUp ==
  /\ busy /\ busy' = FALSE
  /\ running' \in BOOLEAN
  /\ UNCHANGED <<last, answered>>

Stop ==
  /\ running /\ ~busy
  /\ running' = FALSE
  /\ UNCHANGED <<last, busy, answered>>

ServerNext == (\E id \in Ids : Take(id)) \/ Answer \/ GiveUp \/ Stop

ServerSpec == ServerInit /\ [][ServerNext]_serverVars
------------------------------------------------------------------------------
(* The request being served has no response yet, all earlier ones that have *)
(* one came before it, and a server that has stopped serves nothing.        *)
ServerInv ==
  /\ last \in Nat /\ answered \subseteq 1 .. last
  /\ busy => running /\ last \notin answered

(* Responses come one at a time, each for a later request than all those    *)
(* before it, and none once the server has stopped.                         *)
AscendingAnswer ==
  answered' # answered =>
    /\ running
    /\ \E id \in answered' :
         answered' = answered \cup {id} /\ \A a \in answered : a < id

AnswersAscend == [][AscendingAnswer]_serverVars
=============================================================================
