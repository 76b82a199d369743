------------------------------ MODULE Transport ------------------------------
(***************************************************************************)
(* The write side of jsonrpc.Transport.  Several goroutines (the request   *)
(* loop and the goroutines of the handlers, which share one Emitter) call  *)
(* SendResponse, SendError and SendNotification.  Each call marshals its   *)
(* message without the lock, then takes mu and issues two writes to the    *)
(* io.Writer: the data and the newline.  Either write may fail; the        *)
(* deferred Unlock releases mu on every path out.                          *)
(***************************************************************************)
EXTENDS Naturals, Sequences

CONSTANTS Writers,        \* goroutines that send messages
          MaxSends,       \* bound: calls each of them makes
          WriterFaults,   \* may the io.Writer return an error?
          NoWriter        \* mu is free

ASSUME TransportAssumption ==
  /\ MaxSends \in Nat
  /\ WriterFaults \in BOOLEAN
  /\ NoWriter \notin Writers

VARIABLES mu,             \* the goroutine that holds Transport.mu
          pc,             \* where each goroutine is in its call
          sent,           \* how many calls each goroutine has made
          failed,         \* the error the current call is about to return
          accepted,       \* history: messages whose call returned nil
          done, tail      \* what the io.Writer has been given (LineStream)

outVars == <<accepted, done, tail>>
vars == <<mu, pc, sent, failed, outVars>>

Message == [from : Writers, n : 1 .. MaxSends]
Current(w) == [from |-> w, n |-> sent[w]]

Out == INSTANCE LineStream WITH Messages <- Message

Whole(m) == Out!Whole(m)
Part(m)  == Out!Part(m)

Goto(w, place) == pc' = [pc EXCEPT ![w] = place]

Init ==
  /\ mu = NoWriter
  /\ pc = [w \in Writers |-> "idle"]
  /\ sent = [w \in Writers |-> 0]
  /\ failed = [w \in Writers |-> FALSE]
  /\ accepted = {}
  /\ done = << >>
  /\ tail = << >>

------------------------------------------------------------------------------
(* Slips: faulty variants that no behaviour of the program uses.           *)

FreeAlways == TRUE
AfterDataFailsGoesOn == "newline"
HeldAfterDataUnlocked == NoWriter
ErrorOfNewlineDropped == FALSE
ErrorOfLineReported == TRUE
AfterNewlineAgain == "data"
HolderAfterUnlock(w) == IF failed[w] THEN mu ELSE NoWriter

(* mu.Lock waits for the lock; both writes are made under it; an error of  *)
(* either is what the call returns, after the deferred Unlock.             *)
Free == mu = NoWriter
AfterDataFails == "unlock"
HeldAfterData == mu
ErrorOfNewline == TRUE
ErrorOfLine == FALSE
AfterNewline == "unlock"
Holder(w) == NoWriter
------------------------------------------------------------------------------
(* json.Marshal of the payload and of the envelope, before the lock.       *)
Marshal(w) ==
  /\ pc[w] = "idle" /\ sent[w] < MaxSends
  /\ sent' = [sent EXCEPT ![w] = @ + 1]
  /\ Goto(w, "lock")
  /\ UNCHANGED <<mu, failed, outVars>>

(* The payload has no JSON form: the call returns with nothing written.    *)
MarshalFails(w) ==
  /\ pc[w] = "idle" /\ sent[w] < MaxSends
  /\ sent' = [sent EXCEPT ![w] = @ + 1]
  /\ UNCHANGED <<mu, pc, failed, outVars>>

Lock(w) ==
  /\ pc[w] = "lock" /\ Free
  /\ mu' = w
  /\ Goto(w, "data")
  /\ UNCHANGED <<sent, failed, outVars>>

WriteData(w) ==
  /\ pc[w] = "data"
  /\ tail' = Append(tail, Whole(Current(w)))
  /\ mu' = HeldAfterData
  /\ Goto(w, "newline")
  /\ UNCHANGED <<sent, failed, accepted, done>>

(* An io.Writer that returns an error has written less than it was given.  *)
WriteDataFails(w) ==
  /\ WriterFaults
  /\ pc[w] = "data"
  /\ tail' \in {tail, Append(tail, Part(Current(w)))}
  /\ failed' = [failed EXCEPT ![w] = TRUE]
  /\ Goto(w, AfterDataFails)
  /\ UNCHANGED <<mu, sent, accepted, done>>

WriteNewline(w) ==
  /\ pc[w] = "newline"
  /\ done' = Append(done, tail)
  /\ tail' = << >>
  /\ failed' = [failed EXCEPT ![w] = ErrorOfLine]
  /\ Goto(w, AfterNewline)
  /\ UNCHANGED <<mu, sent, accepted>>

WriteNewlineFails(w) ==
  /\ WriterFaults
  /\ pc[w] = "newline"
  /\ failed' = [failed EXCEPT ![w] = ErrorOfNewline]
  /\ Goto(w, "unlock")
  /\ UNCHANGED <<mu, sent, outVars>>

(* The deferred Unlock, and the return to the caller.                      *)
Unlock(w) ==
  /\ pc[w] = "unlock"
  /\ mu' = Holder(w)
  /\ accepted' = IF failed[w] THEN accepted ELSE accepted \cup {Current(w)}
  /\ failed' = [failed EXCEPT ![w] = FALSE]
  /\ Goto(w, "idle")
  /\ UNCHANGED <<sent, done, tail>>

WriteLine(w) ==
  \/ WriteData(w) \/ WriteDataFails(w)
  \/ WriteNewline(w) \/ WriteNewlineFails(w)
  \/ Unlock(w)

Step(w) == Marshal(w) \/ MarshalFails(w) \/ Lock(w) \/ WriteLine(w)

(* Every goroutine has made its calls.                                     *)
Finished ==
  /\ \A w \in Writers : pc[w] = "idle" /\ sent[w] = MaxSends
  /\ UNCHANGED vars

Next == (\E w \in Writers : Step(w)) \/ Finished

Spec == Init /\ [][Next]_vars

(* A goroutine inside writeLine keeps running and the io.Writer returns.   *)
(* sync.Mutex hands the lock to a waiter that has been starved for 1 ms,   *)
(* so a goroutine that keeps waiting gets it: strong fairness of Lock.     *)
Fairness == \A w \in Writers : WF_vars(WriteLine(w)) /\ SF_vars(Lock(w))

FairSpec == Spec /\ Fairness
------------------------------------------------------------------------------
(* Type invariant of the write side of Transport.                          *)
TypeOK ==
  /\ mu \in Writers \cup {NoWriter}
  /\ pc \in [Writers -> {"idle", "lock", "data", "newline", "unlock"}]
  /\ sent \in [Writers -> 0 .. MaxSends]
  /\ failed \in [Writers -> BOOLEAN]
  /\ \A w \in Writers : failed[w] => pc[w] = "unlock"
  /\ accepted \subseteq Message
  /\ Out!LineStreamTypeOK

Inside(w) == pc[w] \in {"data", "newline", "unlock"}

(* Between Lock and Unlock a goroutine is alone: no other one can put text *)
(* between its data and its newline, on the success path or an error path. *)
MutualExclusion == \A v, w \in Writers : Inside(v) /\ Inside(w) => v = w

(* Text that shares a line with the message that ends it is what a failed  *)
(* call left behind: no call that returned nil has its text on the line of *)
(* another message.                                                        *)
SharedTextIsFailed ==
  \A i \in 1 .. Len(done) : \A k \in 1 .. Len(done[i]) - 1 :
    done[i][k].msg \notin accepted

(* Message m ends the i-th completed line.                                 *)
Ends(i, m) == done[i][Len(done[i])] = Whole(m)

(* A call that returned nil has ended exactly one line, whatever failed    *)
(* before it, and only the message that ends a line can make it            *)
(* well-formed.                                                            *)
AcceptedEndsOneLine ==
  \A m \in accepted : \E i \in 1 .. Len(done) :
    /\ Ends(i, m)
    /\ \A j \in 1 .. Len(done) : Ends(j, m) => i = j

(* A line the host can decode belongs to a call that returned nil or is    *)
(* about to: a caller told that its write failed is never contradicted by  *)
(* the host having received the message.                                   *)
DecodableMeansAccepted ==
  \A i \in 1 .. Len(done) : Out!WellFormed(done[i]) =>
    LET m == done[i][1].msg
    IN  \/ m \in accepted
        \/ m = Current(m.from) /\ pc[m.from] = "unlock" /\ ~failed[m.from]

(* The messages of one goroutine reach the host in the order of its calls. *)
CallOrder ==
  \A i, j \in 1 .. Len(done) :
    (i < j /\ Out!WellFormed(done[i]) /\ Out!WellFormed(done[j])) =>
      LET a == done[i][1].msg
          b == done[j][1].msg
      IN  a.from = b.from => a.n < b.n

(* The text of the call in progress, which LineStream does not show yet.   *)
Pending == \E w \in Writers : pc[w] = "newline"

(* writeLine is atomic to its callers: the two writes under mu implement   *)
(* the one-step writes of LineStream.                                      *)
Stream == INSTANCE LineStream WITH
            Messages <- Message,
            tail <- IF Pending THEN SubSeq(tail, 1, Len(tail) - 1) ELSE tail

AtomicLines == Stream!LineStreamSpec

(* A goroutine that has entered writeLine returns from it.                 *)
SendReturns == \A w \in Writers : pc[w] = "lock" ~> pc[w] = "idle"
==============================================================================
