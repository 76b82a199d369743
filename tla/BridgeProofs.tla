---------------------------- MODULE BridgeProofs ----------------------------
(* What holds between the test host and the extension, for any number of   *)
(* emitters, calls, notifications and line sizes.                          *)
EXTENDS Bridge, SequenceTheorems, TLAPS

USE DEF Wire!outVars, Wire!Free, Wire!HeldAfterData, Wire!ErrorOfLine,
        Wire!AfterNewline, Wire!Holder, Wire!Goto,
        hostVars, storeVars, loopVars, wireVars

LEMMA StepsOfTransport == [Next]_vars => [Wire!Next]_(Wire!vars)
<1> SUFFICES ASSUME [Next]_vars PROVE [Wire!Next]_(Wire!vars)
  OBVIOUS
<1> USE DEF Wire!vars, Wire!Next, Wire!Step, Wire!WriteLine
<1>1. CASE HostCalls \/ HostShutdown \/ HostStep \/ Signal \/ \E m \in NoteMethods : Receive(m)
  BY <1>1 DEF HostCalls, HostShutdown, HostStep, HostStores, HostAnswered, Signal, Receive
<1>2. CASE LoopStep
  BY <1>2 DEF LoopStep, LoopReads, LoopChecks, LoopTooLong, HandlerEmits, LoopReplies,
              LoopMute, Send, Goroutines
<1>3. ASSUME NEW e \in Emitters, EmitterStarts(e) PROVE Wire!Next
  BY <1>3 DEF EmitterStarts, Send, Goroutines
<1>4. ASSUME NEW w \in Goroutines, HostReads(w) \/ Lock(w) \/ Unlock(w)
      PROVE  [Wire!Next]_(Wire!vars)
  BY <1>4 DEF HostReads, HostReadsData, HostReadsNewline, HostTooLong, Lock, Unlock
<1>5. CASE UNCHANGED vars
  BY <1>5 DEF vars
<1> QED
  BY <1>1, <1>2, <1>3, <1>4, <1>5 DEF Next

(* The extension's goroutines use the Transport as Transport says: what is *)
(* proved of it holds here.                                                *)
THEOREM ImplementsTransport == Spec => Wire!Spec
<1>1. Init => Wire!Init
  BY DEF Init
<1> QED
  BY <1>1, StepsOfTransport, PTL DEF Spec, Wire!Spec

(* The theorems about Transport hold of Wire, which is the same Transport. *)
Proved == INSTANCE TransportProofs WITH
            Writers <- Goroutines, MaxSends <- MaxEmits + 2 * MaxCalls + 2,
            WriterFaults <- FALSE

LEMMA WireConstants == Proved!TransportAssumption
BY BridgeAssumption DEF Proved!TransportAssumption, Goroutines

LEMMA SameInit == Wire!Init => Proved!Init
BY DEF Wire!Init, Proved!Init

LEMMA SameSteps == [Wire!Next]_(Wire!vars) => [Proved!Next]_(Proved!vars)
<1> USE DEF Wire!Current, Proved!Current, Wire!Whole, Proved!Whole, Wire!Out!Whole, Proved!Out!Whole,
        Wire!vars, Proved!vars, Proved!outVars, Proved!Goto
<1>1. ASSUME NEW w \in Goroutines PROVE Wire!Step(w) => Proved!Step(w)
  <2>1. Wire!Marshal(w) => Proved!Marshal(w)
    BY DEF Wire!Marshal, Proved!Marshal
  <2>2. Wire!MarshalFails(w) => Proved!MarshalFails(w)
    BY DEF Wire!MarshalFails, Proved!MarshalFails
  <2>3. Wire!Lock(w) => Proved!Lock(w)
    BY DEF Wire!Lock, Proved!Lock, Proved!Free
  <2>4. Wire!WriteData(w) => Proved!WriteData(w)
    BY DEF Wire!WriteData, Proved!WriteData, Proved!HeldAfterData
  <2>5. Wire!WriteNewline(w) => Proved!WriteNewline(w)
    BY DEF Wire!WriteNewline, Proved!WriteNewline, Proved!ErrorOfLine, Proved!AfterNewline
  <2>6. Wire!Unlock(w) => Proved!Unlock(w)
    BY DEF Wire!Unlock, Proved!Unlock, Proved!Holder
  <2>7. ~Wire!WriteDataFails(w) /\ ~Wire!WriteNewlineFails(w)
    BY DEF Wire!WriteDataFails, Wire!WriteNewlineFails
  <2> QED
    BY <2>1, <2>2, <2>3, <2>4, <2>5, <2>6, <2>7
       DEF Wire!Step, Wire!WriteLine, Proved!Step, Proved!WriteLine
<1>2. Wire!Finished => Proved!Finished
  BY DEF Wire!Finished, Proved!Finished
<1> QED
  BY <1>1, <1>2 DEF Wire!Next, Proved!Next

LEMMA WireIsProved == Spec => Proved!Spec
BY ImplementsTransport, SameInit, SameSteps, PTL DEF Wire!Spec, Proved!Spec

LEMMA WireTyped == Spec => []Wire!TypeOK
<1>1. Proved!Spec => []Proved!TypeOK
  BY WireConstants, Proved!TypeCorrect
<1>2. Proved!TypeOK => Wire!TypeOK
  BY DEF Proved!TypeOK, Wire!TypeOK, Proved!Message, Wire!Message,
         Proved!Out!LineStreamTypeOK, Wire!Out!LineStreamTypeOK,
         Proved!Out!Fragment, Wire!Out!Fragment
<1> QED
  BY <1>1, <1>2, WireIsProved, PTL
------------------------------------------------------------------------------
(* The part of the types that the exchange depends on.                     *)
LoopTyped ==
  /\ pc \in [Goroutines -> {"idle", "lock", "data", "newline", "unlock"}]
  /\ loop \in {"read", "check", "handle", "notify", "notified", "reply", "returned"}
  /\ pc[Loop] # "idle" <=> loop \in {"notify", "reply"}
  /\ call.id \in Nat /\ call.size \in Nat

(* Every message has a name, and the one being sent is a response when the *)
(* loop is answering.                                                      *)
Names == NoteMethods \cup {"response"}
Answering(w) == w = Loop /\ loop = "reply"
NamesInv ==
  /\ names \in [Goroutines -> Seq(Names)]
  /\ \A w \in Goroutines : Len(names[w]) = sent[w]
  /\ \A w \in Goroutines : pc[w] # "idle" =>
       sent[w] >= 1 /\ (names[w][sent[w]] = "response" <=> Answering(w))

(* The loop is done with a request that does not end it.                   *)
GoesOn == ~Owes /\ loop # "returned" /\
          (loop = "reply" => reply.id # 0 /\ req.method # "shutdown")

(* The loop is busy with the host's own call.                              *)
Serves == Owes /\ req = call /\ (loop = "reply" => reply.id = call.id)

(* Between calls the extension is ready for another; during one it works   *)
(* on that call, until the host has read the line of its response, or has  *)
(* left it without one.                                                    *)
Exchange ==
  /\ host = "idle" => GoesOn /\ (call.id > 0 => line.id = call.id)
  /\ host # "idle" => call.id > 0
  /\ (host = "write" /\ call.size <= LoopLimit) => GoesOn
  /\ host = "read" => Serves \/ Unanswered
  /\ (host = "got" /\ IsNotification(line)) => Serves \/ Unanswered
  /\ (host = "got" /\ ~IsNotification(line)) =>
       line.id = call.id /\ (call.method # "shutdown" => GoesOn)
  /\ host = "down" => line.id = call.id
  /\ host # "mismatch"

ExchangeInv == LoopTyped /\ Exchange

LEMMA LoopIsNoEmitter == Loop \in Goroutines /\ Loop \notin Emitters
BY BridgeAssumption DEF Goroutines

LEMMA LimitIsNat == LoopLimit \in Nat
BY BridgeAssumption DEF LoopLimit

LEMMA ExchangeInit == Init => ExchangeInv /\ NamesInv
BY LoopIsNoEmitter
   DEF Init, Wire!Init, ExchangeInv, LoopTyped, Exchange, GoesOn, Owes, NamesInv

LEMMA ExchangeStep == ExchangeInv /\ NamesInv /\ [Next]_vars => ExchangeInv'
<1> SUFFICES ASSUME ExchangeInv, NamesInv, [Next]_vars PROVE ExchangeInv'
  OBVIOUS
<1> USE LoopIsNoEmitter
    DEF ExchangeInv, LoopTyped, Exchange, GoesOn, Serves, Owes, Unanswered, IsNotification
<1>1. CASE HostCalls
  BY <1>1, BridgeAssumption DEF HostCalls
<1>2. CASE HostShutdown
  BY <1>2 DEF HostShutdown
<1>3. CASE HostStores
  BY <1>3 DEF HostStores, AfterNotification
<1>4. CASE HostAnswered
  BY <1>4 DEF HostAnswered
<1>5. ASSUME NEW m \in NoteMethods, Receive(m) PROVE ExchangeInv'
  BY <1>5 DEF Receive
<1>6. CASE Signal
  BY <1>6 DEF Signal
<1>7. CASE LoopReads
  BY <1>7 DEF LoopReads, AfterWrite
<1>8. CASE LoopChecks
  BY <1>8 DEF LoopChecks, AfterCheck
<1>9. CASE LoopTooLong
  BY <1>9, LimitIsNat DEF LoopTooLong, Send, Wire!Marshal
<1>10. CASE HandlerEmits
  BY <1>10 DEF HandlerEmits, Send, Wire!Marshal
<1>11. CASE LoopReplies
  BY <1>11 DEF LoopReplies, Send, Wire!Marshal
<1>12. CASE LoopMute
  BY <1>12 DEF LoopMute
<1>13. ASSUME NEW e \in Emitters, EmitterStarts(e) PROVE ExchangeInv'
  <2>1. /\ pc' = [pc EXCEPT ![e] = "lock"] /\ e # Loop
        /\ UNCHANGED <<hostVars, storeVars, loopVars, signalled>>
    BY <1>13 DEF EmitterStarts, Send, Wire!Marshal
  <2>2. /\ pc' \in [Goroutines -> {"idle", "lock", "data", "newline", "unlock"}]
        /\ pc'[Loop] = pc[Loop]
    BY <2>1
  <2> QED
    BY <2>1, <2>2
<1>14. ASSUME NEW w \in Goroutines, HostReadsData(w) PROVE ExchangeInv'
  BY <1>14 DEF HostReadsData, Wire!WriteData
<1>15. ASSUME NEW w \in Goroutines, HostReadsNewline(w) PROVE ExchangeInv'
  <2>1. IsNotification(line') <=> ~Answering(w)
    BY <1>15 DEF HostReadsNewline, Wire!WriteNewline, LineOf, NamesInv, Answering
  <2>2. Answering(w) => line'.id = reply.id
    BY <1>15 DEF HostReadsNewline, LineOf, Answering
  <2> QED
    BY <1>15, <2>1, <2>2 DEF HostReadsNewline, Wire!WriteNewline, Answering
<1>16. ASSUME NEW w \in Goroutines, HostTooLong(w) PROVE ExchangeInv'
  BY <1>16 DEF HostTooLong
<1>17. ASSUME NEW w \in Goroutines, Lock(w) PROVE ExchangeInv'
  BY <1>17 DEF Lock, Wire!Lock
<1>18. ASSUME NEW w \in Goroutines, Unlock(w) PROVE ExchangeInv'
  BY <1>18 DEF Unlock, Wire!Unlock, AfterReply
<1>19. CASE UNCHANGED vars
  BY <1>19 DEF vars
<1> QED
  BY <1>1, <1>2, <1>3, <1>4, <1>5, <1>6, <1>7, <1>8, <1>9, <1>10, <1>11, <1>12,
     <1>13, <1>14, <1>15, <1>16, <1>17, <1>18, <1>19
     DEF Next, HostStep, LoopStep, HostReads

(* A goroutine that sends a message names it.                              *)
LEMMA SendNames ==
  ASSUME Wire!TypeOK, NamesInv, NEW w \in Goroutines, NEW name \in Names, Send(w, name),
         name = "response" <=> Answering(w)',
         \A v \in Goroutines \ {w} : Answering(v)' <=> Answering(v)
  PROVE  NamesInv'
<1>1. /\ sent \in [Goroutines -> Nat] /\ sent' = [sent EXCEPT ![w] = @ + 1]
      /\ pc \in [Goroutines -> {"idle", "lock", "data", "newline", "unlock"}]
      /\ pc' = [pc EXCEPT ![w] = "lock"]
      /\ names' = [names EXCEPT ![w] = Append(@, name)]
  BY DEF Send, Wire!Marshal, Wire!TypeOK
<1>2. /\ names[w] \in Seq(Names) /\ Len(names[w]) = sent[w]
      /\ names'[w] = Append(names[w], name) /\ names'[w] \in Seq(Names)
      /\ Len(names'[w]) = sent[w] + 1 /\ names'[w][sent[w] + 1] = name
  BY <1>1, AppendProperties DEF NamesInv
<1>3. names' \in [Goroutines -> Seq(Names)]
  BY <1>1, <1>2 DEF NamesInv
<1>4. ASSUME NEW v \in Goroutines
      PROVE  /\ Len(names'[v]) = sent'[v]
             /\ pc'[v] # "idle" =>
                  sent'[v] >= 1 /\ (names'[v][sent'[v]] = "response" <=> Answering(v)')
  BY <1>1, <1>2 DEF NamesInv
<1> QED
  BY <1>3, <1>4 DEF NamesInv

LEMMA NamesStep ==
  ASSUME Wire!TypeOK, ExchangeInv, NamesInv, [Next]_vars
  PROVE  NamesInv'
<1> USE LoopIsNoEmitter DEF ExchangeInv, LoopTyped
<1>s. ASSUME names' = names, sent' = sent,
             \A w \in Goroutines : pc'[w] # "idle" =>
               pc[w] # "idle" /\ (Answering(w)' <=> Answering(w))
      PROVE  NamesInv'
  BY <1>s DEF NamesInv
<1>1. CASE HostCalls \/ HostShutdown \/ HostStep \/ Signal \/ \E m \in NoteMethods : Receive(m)
  BY <1>1, <1>s DEF HostCalls, HostShutdown, HostStep, HostStores, HostAnswered, Signal, Receive,
     Answering
<1>2. CASE LoopReads \/ LoopChecks \/ LoopMute
  BY <1>2, <1>s DEF LoopReads, LoopChecks, LoopMute, Answering
<1>3. CASE LoopTooLong
  BY <1>3, SendNames DEF LoopTooLong, Answering, Names
<1>4. CASE HandlerEmits
  <2>1. PICK m \in NoteMethods : Send(Loop, m)
    BY <1>4 DEF HandlerEmits
  <2> QED
    BY <1>4, <2>1, SendNames, BridgeAssumption DEF HandlerEmits, Answering, Names
<1>5. CASE LoopReplies
  BY <1>5, SendNames DEF LoopReplies, Answering, Names
<1>6. ASSUME NEW e \in Emitters, EmitterStarts(e) PROVE NamesInv'
  <2>1. PICK m \in NoteMethods : Send(e, m)
    BY <1>6 DEF EmitterStarts
  <2> QED
    BY <1>6, <2>1, SendNames, BridgeAssumption DEF EmitterStarts, Answering, Names, Goroutines
<1>7. ASSUME NEW w \in Goroutines, HostReads(w) \/ Lock(w) PROVE NamesInv'
  BY <1>7, <1>s DEF HostReads, HostReadsData, HostReadsNewline, HostTooLong, Lock, Answering,
     Wire!WriteData, Wire!WriteNewline, Wire!Lock
<1>8. ASSUME NEW w \in Goroutines, Unlock(w) PROVE NamesInv'
  BY <1>8, <1>s DEF Unlock, Wire!Unlock, Answering
<1>9. CASE UNCHANGED vars
  BY <1>9, <1>s DEF vars, Answering
<1> QED
  BY <1>1, <1>2, <1>3, <1>4, <1>5, <1>6, <1>7, <1>8, <1>9 DEF Next, LoopStep

LEMMA ExchangeHolds == Spec => [](ExchangeInv /\ NamesInv)
BY ExchangeInit, ExchangeStep, NamesStep, WireTyped, PTL DEF Spec

(* Over unbuffered pipes, host and loop are never both waiting for the     *)
(* other, unless a line is longer than its reader can take or the code     *)
(* leaves the request without a response: after a signal, or for           *)
(* registrations that have no JSON form.                                   *)
THEOREM NoCircularWaitHolds == Spec => []NoCircularWait
<1>1. ExchangeInv => NoCircularWait
  BY DEF ExchangeInv, Exchange, GoesOn, Serves, NoCircularWait
<1> QED
  BY <1>1, ExchangeHolds, PTL

(* FakeKova may take the next response for its own: no interference of the *)
(* emitters makes it the response to another request.                      *)
THEOREM OwnResponseHolds == Spec => []OwnResponse
<1>1. ExchangeInv => OwnResponse
  BY DEF ExchangeInv, Exchange, OwnResponse
<1> QED
  BY <1>1, ExchangeHolds, PTL
------------------------------------------------------------------------------
(* The types of the host and of the loop.                                  *)

ExchangeTyped ==
  /\ host \in {"idle", "write", "read", "got"} \cup Ended
  /\ call \in Request /\ req \in Request /\ reply \in Reply
  /\ encodes \in BOOLEAN /\ started \in BOOLEAN /\ signalled \in BOOLEAN

LEMMA TypedStep ==
  ASSUME ExchangeTyped, [Next]_vars
  PROVE  ExchangeTyped'
<1> USE BridgeAssumption DEF ExchangeTyped, Ended, Request, Reply, Methods
<1>1. CASE HostCalls
  BY <1>1 DEF HostCalls
<1>2. CASE HostShutdown
  BY <1>2 DEF HostShutdown
<1>3. CASE HostStores
  BY <1>3 DEF HostStores, AfterNotification
<1>4. CASE HostAnswered
  BY <1>4 DEF HostAnswered
<1>5. CASE Signal \/ \E m \in NoteMethods : Receive(m)
  BY <1>5 DEF Receive, Signal
<1>6. CASE LoopReads
  BY <1>6 DEF LoopReads, AfterWrite
<1>7. CASE LoopChecks
  BY <1>7 DEF LoopChecks
<1>8. CASE LoopTooLong
  BY <1>8 DEF LoopTooLong, Send
<1>9. CASE HandlerEmits
  BY <1>9 DEF HandlerEmits, Send
<1>10. CASE LoopReplies
  <2>1. reply' \in Reply
    <3>1. req.id \in Nat /\ ResultSizes \subseteq Nat
      OBVIOUS
    <3>2. PICK ok \in BOOLEAN, s \in ResultSizes : reply' = [id |-> req.id, ok |-> ok, size |-> s]
      BY <1>10 DEF LoopReplies
    <3> QED
      BY <3>1, <3>2
  <2> QED
    BY <1>10, <2>1 DEF LoopReplies, Send
<1>11. CASE LoopMute
  BY <1>11 DEF LoopMute
<1>12. CASE \E e \in Emitters : EmitterStarts(e)
  BY <1>12 DEF EmitterStarts, Send
<1>13. ASSUME NEW w \in Goroutines, HostReads(w) PROVE ExchangeTyped'
  BY <1>13 DEF HostReads, HostReadsData, HostReadsNewline, HostTooLong
<1>14. ASSUME NEW w \in Goroutines, Lock(w) \/ Unlock(w) PROVE ExchangeTyped'
  BY <1>14 DEF Lock, Unlock
<1>15. CASE UNCHANGED vars
  BY <1>15 DEF vars
<1> QED
  BY <1>1, <1>2, <1>3, <1>4, <1>5, <1>6, <1>7, <1>8, <1>9, <1>10, <1>11, <1>12, <1>13,
     <1>14, <1>15 DEF Next, HostStep, LoopStep

(* The exchange is well-typed, its Transport included.                     *)
THEOREM TypeCorrect == Spec => []TypeOK
<1>1. Init => ExchangeTyped
  <2>1. [id |-> 0, method |-> "method", size |-> 1, succeeds |-> TRUE] \in Request
    BY DEF Request, Methods
  <2>2. [id |-> 0, ok |-> TRUE, size |-> 1] \in Reply
    BY DEF Reply
  <2> QED
    BY <2>1, <2>2 DEF Init, ExchangeTyped
<1>2. ExchangeTyped /\ [Next]_vars => ExchangeTyped'
  BY TypedStep
<1>3. Wire!TypeOK /\ ExchangeInv /\ NamesInv /\ ExchangeTyped => TypeOK
  BY DEF ExchangeInv, ExchangeTyped, LoopTyped, NamesInv, Names, TypeOK
<1> QED
  BY <1>1, <1>2, <1>3, WireTyped, ExchangeHolds, PTL DEF Spec
------------------------------------------------------------------------------
(* The notifications.                                                      *)

Id == [from : Goroutines, n : Nat \ {0}]

(* The host has read the line of a message.                                *)
Read(id) ==
  id.n < sent[id.from] \/ (id.n = sent[id.from] /\ pc[id.from] \in {"unlock", "idle"})

(* It has been told that the write of a message has succeeded.             *)
AcceptedRead == \A id \in accepted : id \in Id /\ Read(id)

InHand(id) == host = "got" /\ IsNotification(line) /\ line.msg = id

(* What the host has read of one goroutine and one method is in the list   *)
(* of that method, in the order of the calls, the line in hand last.       *)
InOrder ==
  /\ received \in [NoteMethods -> Seq(Id)] /\ stored \in [NoteMethods -> Seq(Id)]
  /\ \A m \in NoteMethods :
       /\ \A k \in 1 .. Len(Kept(m)) : Read(Kept(m)[k]) /\ Name(Kept(m)[k]) = m
       /\ \A j, k \in 1 .. Len(Kept(m)) :
            (j < k /\ Kept(m)[j].from = Kept(m)[k].from) => Kept(m)[j].n < Kept(m)[k].n
  /\ host = "got" /\ IsNotification(line) =>
       /\ line.method \in NoteMethods
       /\ line.msg \in Id /\ Read(line.msg) /\ Name(line.msg) = line.method
       /\ \A k \in 1 .. Len(Kept(line.method)) :
            Kept(line.method)[k].from = line.msg.from => Kept(line.method)[k].n < line.msg.n

(* A notification that has been read is in a list or in hand.              *)
Listed(id) == \E m \in NoteMethods : \E k \in 1 .. Len(Kept(m)) : Kept(m)[k] = id
Arrived(id) == Name(id) = "response" \/ Listed(id) \/ InHand(id)
AllArrive == \A id \in Id : Read(id) => Arrived(id)

LEMMA KeptTyped == ASSUME InOrder, NEW m \in NoteMethods PROVE Kept(m) \in Seq(Id)
BY ConcatProperties DEF InOrder, Kept

LEMMA KeptMeans == InOrder /\ AllArrive /\ AcceptedRead => NotificationsKept
<1> SUFFICES ASSUME InOrder, AllArrive, AcceptedRead PROVE NotificationsKept
  OBVIOUS
<1>1. ASSUME NEW id \in accepted, Name(id) \in NoteMethods
      PROVE  LET at == {k \in 1 .. Len(Kept(Name(id))) : Kept(Name(id))[k] = id}
             IN  (\E k \in at : at = {k}) \/ (host = "got" /\ line.msg = id)
  <2> DEFINE at == {k \in 1 .. Len(Kept(Name(id))) : Kept(Name(id))[k] = id}
  <2>1. id \in Id /\ Arrived(id) /\ Name(id) # "response"
    BY <1>1, BridgeAssumption DEF AllArrive, AcceptedRead
  <2>2. CASE InHand(id)
    BY <2>2 DEF InHand
  <2>3. CASE Listed(id)
    <3>1. PICK m \in NoteMethods : \E k \in 1 .. Len(Kept(m)) : Kept(m)[k] = id
      BY <2>3 DEF Listed
    <3>2. m = Name(id)
      BY <3>1 DEF InOrder
    <3>3. at # {}
      BY <3>1, <3>2
    <3>4. Kept(m) \in Seq(Id)
      BY KeptTyped
    <3>5. ASSUME NEW j \in at, NEW k \in at, j < k PROVE FALSE
      <4>1. Kept(m)[j].n < Kept(m)[k].n
        BY <3>2, <3>5 DEF InOrder
      <4> QED
        BY <2>1, <3>2, <4>1 DEF Id
    <3>6. \A j, k \in at : j = k
      BY <3>2, <3>4, <3>5
    <3> QED
      BY <3>3, <3>6
  <2> QED
    BY <2>1, <2>2, <2>3 DEF Arrived
<1> QED
  BY <1>1 DEF NotificationsKept, InOrder

(* A list grows at its end, and only that of the line's method.            *)
LEMMA KeptGrows ==
  ASSUME InOrder, HostStores
  PROVE  /\ line.method \in NoteMethods /\ line.msg \in Id
         /\ received' \in [NoteMethods -> Seq(Id)] /\ stored' \in [NoteMethods -> Seq(Id)]
         /\ \A m \in NoteMethods :
              Kept(m)' = IF m = line.method THEN Append(Kept(m), line.msg) ELSE Kept(m)
<1>1. /\ received \in [NoteMethods -> Seq(Id)] /\ stored \in [NoteMethods -> Seq(Id)]
      /\ line.method \in NoteMethods /\ line.msg \in Id /\ received' = received
      /\ stored' = [stored EXCEPT ![line.method] = Append(@, line.msg)]
  BY DEF InOrder, HostStores, Store
<1>2. ASSUME NEW m \in NoteMethods, NEW s, s = stored[m], NEW r, r = received[m]
      PROVE  /\ Append(s, line.msg) \in Seq(Id)
             /\ r \o Append(s, line.msg) = Append(r \o s, line.msg)
  <2>1. s \in Seq(Id) /\ r \in Seq(Id) /\ r \o s \in Seq(Id) /\ <<line.msg>> \in Seq(Id)
    BY <1>1, <1>2, ConcatProperties
  <2>2. Append(s, line.msg) = s \o <<line.msg>> /\ Append(s, line.msg) \in Seq(Id)
    BY <1>1, <2>1, AppendIsConcat, AppendProperties
  <2>3. (r \o s) \o <<line.msg>> = r \o (s \o <<line.msg>>)
    BY <2>1, ConcatAssociative
  <2>4. Append(r \o s, line.msg) = (r \o s) \o <<line.msg>>
    BY <1>1, <2>1, AppendIsConcat
  <2> QED
    BY <2>2, <2>3, <2>4
<1>3. stored' \in [NoteMethods -> Seq(Id)]
  BY <1>1, <1>2
<1>4. ASSUME NEW m \in NoteMethods
      PROVE  Kept(m)' = IF m = line.method THEN Append(Kept(m), line.msg) ELSE Kept(m)
  <2>1. received'[m] = received[m]
        /\ stored'[m] = IF m = line.method THEN Append(stored[m], line.msg) ELSE stored[m]
    BY <1>1
  <2> QED
    BY <1>2, <2>1 DEF Kept
<1> QED
  BY <1>1, <1>3, <1>4

(* Handing out a list leaves every list as it is.                          *)
LEMMA KeptMoves ==
  ASSUME InOrder, NEW l \in NoteMethods, Receive(l)
  PROVE  /\ received' \in [NoteMethods -> Seq(Id)] /\ stored' \in [NoteMethods -> Seq(Id)]
         /\ \A m \in NoteMethods : Kept(m)' = Kept(m)
<1>1. /\ received \in [NoteMethods -> Seq(Id)] /\ stored \in [NoteMethods -> Seq(Id)]
      /\ received' = [received EXCEPT ![l] = Kept(l)]
      /\ stored' = [stored EXCEPT ![l] = << >>]
  BY DEF InOrder, Receive, LeftOf, Kept
<1>2. Kept(l) \in Seq(Id) /\ << >> \in Seq(Id)
  BY KeptTyped, EmptySeq
<1>3. ASSUME NEW m \in NoteMethods PROVE Kept(m)' = Kept(m)
  <2>1. CASE m = l
    <3>1. Kept(m)' = Kept(l) \o << >>
      BY <1>1, <2>1 DEF Kept
    <3> QED
      BY <1>2, <2>1, <3>1, ConcatEmptySeq
  <2>2. CASE m # l
    BY <1>1, <2>2 DEF Kept
  <2> QED
    BY <2>1, <2>2
<1> QED
  BY <1>1, <1>2, <1>3

(* What a step does to the lines the host has read.                        *)
Quiet ==
  /\ UNCHANGED storeVars /\ line' = line
  /\ (host' = "got" /\ IsNotification(line)) <=> (host = "got" /\ IsNotification(line))

LEMMA HostLines ==
  ASSUME [Next]_vars
  PROVE  \/ HostStores
         \/ \E m \in NoteMethods : Receive(m)
         \/ \E w \in Goroutines : HostReadsNewline(w)
         \/ Quiet
<1> USE DEF Quiet
<1>1. CASE HostCalls
  BY <1>1 DEF HostCalls
<1>2. CASE HostShutdown
  BY <1>2 DEF HostShutdown
<1>3. CASE HostAnswered
  BY <1>3 DEF HostAnswered
<1>4. CASE LoopStep
  BY <1>4 DEF LoopStep, LoopReads, AfterWrite, LoopChecks, LoopTooLong, HandlerEmits,
              LoopReplies, LoopMute, Send
<1>5. CASE Signal \/ \E e \in Emitters : EmitterStarts(e)
  BY <1>5 DEF Signal, EmitterStarts, Send
<1>6. ASSUME NEW w \in Goroutines, HostReadsData(w) \/ HostTooLong(w) PROVE Quiet
  BY <1>6 DEF HostReadsData, HostTooLong
<1>7. ASSUME NEW w \in Goroutines, Lock(w) \/ Unlock(w) PROVE Quiet
  BY <1>7 DEF Lock, Unlock
<1>8. CASE UNCHANGED vars
  BY <1>8 DEF vars
<1> QED
  BY <1>1, <1>2, <1>3, <1>4, <1>5, <1>6, <1>7, <1>8 DEF Next, HostStep, HostReads

LEMMA ReadStays ==
  ASSUME Wire!TypeOK, [Next]_vars, NEW id \in Id, Read(id)
  PROVE  Read(id)'
<1> USE DEF Wire!TypeOK, Id, Read
<1>1. ASSUME NEW w \in Goroutines, Wire!Step(w) PROVE Read(id)'
  BY <1>1 DEF Wire!Step, Wire!WriteLine, Wire!Marshal, Wire!MarshalFails, Wire!Lock,
     Wire!WriteData, Wire!WriteDataFails, Wire!WriteNewline, Wire!WriteNewlineFails, Wire!Unlock
<1>2. CASE UNCHANGED Wire!vars
  BY <1>2 DEF Wire!vars
<1> QED
  BY <1>1, <1>2, StepsOfTransport DEF Wire!Next, Wire!Finished

(* The name of what has been read stays what it is.                        *)
LEMMA NameStays ==
  ASSUME Wire!TypeOK, NamesInv, [Next]_vars, NEW id \in Id, Read(id)
  PROVE  Name(id)' = Name(id)
<1>1. /\ id.from \in Goroutines /\ id.n \in 1 .. Len(names[id.from])
      /\ names[id.from] \in Seq(Names) /\ names \in [Goroutines -> Seq(Names)]
  BY DEF Wire!TypeOK, NamesInv, Id, Read
<1>2. ASSUME NEW w \in Goroutines, NEW name, Send(w, name) PROVE Name(id)' = Name(id)
  <2>1. names' = [names EXCEPT ![w] = Append(@, name)]
    BY <1>2 DEF Send
  <2>2. CASE w = id.from
    <3>1. names'[id.from] = Append(names[id.from], name)
      BY <1>1, <2>1, <2>2
    <3>2. Append(names[id.from], name)[id.n] = names[id.from][id.n]
      BY <1>1
    <3> QED
      BY <3>1, <3>2 DEF Name
  <2>3. CASE w # id.from
    BY <1>1, <2>1, <2>3 DEF Name
  <2> QED
    BY <2>2, <2>3
<1>3. CASE names' = names
  BY <1>3 DEF Name
<1>4. names' = names \/ \E w \in Goroutines : \E name : Send(w, name)
  <2>1. CASE HostCalls \/ HostShutdown \/ HostStep \/ Signal \/ \E m \in NoteMethods : Receive(m)
    BY <2>1 DEF HostCalls, HostShutdown, HostStep, HostStores, HostAnswered, Signal, Receive
  <2>2. CASE LoopStep
    BY <2>2, LoopIsNoEmitter DEF LoopStep, LoopReads, LoopChecks, LoopTooLong, HandlerEmits,
       LoopReplies, LoopMute
  <2>3. CASE \E e \in Emitters : EmitterStarts(e)
    BY <2>3 DEF EmitterStarts, Goroutines
  <2>4. ASSUME NEW w \in Goroutines, HostReads(w) \/ Lock(w) \/ Unlock(w) PROVE names' = names
    BY <2>4 DEF HostReads, HostReadsData, HostReadsNewline, HostTooLong, Lock, Unlock
  <2>5. CASE UNCHANGED vars
    BY <2>5 DEF vars
  <2> QED
    BY <2>1, <2>2, <2>3, <2>4, <2>5 DEF Next
<1> QED
  BY <1>2, <1>3, <1>4

(* The line the host reads next is newer than all it has of its goroutine. *)
LEMMA NextLine ==
  ASSUME Wire!TypeOK, NamesInv, NEW w \in Goroutines, HostReadsNewline(w),
         NEW id, id = Wire!Current(w)
  PROVE  /\ line'.msg = id /\ id \in Id /\ id.from = w /\ Read(id)'
         /\ \A l \in Id : Read(l) /\ l.from = w => l.n < id.n
         /\ host = "read" /\ host' = "got" /\ UNCHANGED storeVars /\ names' = names
         /\ line'.method = Name(id) /\ Name(id) \in Names
<1>1. /\ line' = LineOf(w) /\ host = "read" /\ host' = "got" /\ UNCHANGED storeVars
      /\ pc[w] = "newline" /\ pc' = [pc EXCEPT ![w] = "unlock"] /\ sent' = sent
      /\ names' = names
  BY DEF HostReadsNewline, Wire!WriteNewline
<1>2. /\ id.from = w /\ id.n = sent[w] /\ sent[w] \in Nat /\ sent[w] >= 1 /\ id \in Id
      /\ names[w] \in Seq(Names) /\ Len(names[w]) = sent[w]
      /\ names[w][sent[w]] = "response" <=> Answering(w)
  BY <1>1 DEF Wire!Current, Wire!TypeOK, Id, NamesInv
<1>3. line'.msg = id /\ line'.method = names[w][sent[w]]
  BY <1>1, <1>2 DEF LineOf, Answering
<1>4. names[w][sent[w]] \in Names
  BY <1>2
<1>5. pc'[w] = "unlock"
  BY <1>1 DEF Wire!TypeOK
<1>6. Read(id)'
  BY <1>1, <1>2, <1>5 DEF Read
<1>7. \A l \in Id : Read(l) /\ l.from = w => l.n < id.n
  BY <1>1, <1>2 DEF Read
<1> QED
  BY <1>1, <1>2, <1>3, <1>4, <1>6, <1>7 DEF Name

(* What the invariant says of a list is still so, when the list is.        *)
LEMMA KeptStays ==
  ASSUME Wire!TypeOK, NamesInv, InOrder, [Next]_vars, NEW m \in NoteMethods,
         NEW k \in 1 .. Len(Kept(m)), NEW id, id = Kept(m)[k]
  PROVE  id \in Id /\ Read(id)' /\ Name(id)' = m
<1>1. Kept(m) \in Seq(Id)
  BY KeptTyped
<1>2. id \in Id
  BY <1>1
<1>3. Read(id) /\ Name(id) = m
  BY DEF InOrder
<1> QED
  BY <1>2, <1>3, ReadStays, NameStays

LEMMA InOrderStep ==
  ASSUME Wire!TypeOK, NamesInv, InOrder, [Next]_vars
  PROVE  InOrder'
<1>1. \A m \in NoteMethods : Kept(m) \in Seq(Id)
  BY KeptTyped
<1>2. ASSUME NEW m \in NoteMethods, Kept(m)' = Kept(m)
      PROVE  /\ \A k \in 1 .. Len(Kept(m)') : Read(Kept(m)[k])' /\ Name(Kept(m)[k])' = m
             /\ \A j, k \in 1 .. Len(Kept(m)') :
                  (j < k /\ Kept(m)'[j].from = Kept(m)'[k].from) => Kept(m)'[j].n < Kept(m)'[k].n
  <2>1. ASSUME NEW k \in 1 .. Len(Kept(m)) PROVE Read(Kept(m)[k])' /\ Name(Kept(m)[k])' = m
    <3>1. PICK id : id = Kept(m)[k]
      OBVIOUS
    <3>2. Read(id)' /\ Name(id)' = m
      BY <3>1, KeptStays
    <3> QED
      BY <1>2, <3>1, <3>2 DEF Read, Name
  <2> QED
    BY <1>2, <2>1 DEF InOrder
<1>3. CASE HostStores
  <2> DEFINE l == line.method
  <2>1. /\ l \in NoteMethods /\ line.msg \in Id
        /\ received' \in [NoteMethods -> Seq(Id)] /\ stored' \in [NoteMethods -> Seq(Id)]
        /\ \A m \in NoteMethods :
             Kept(m)' = IF m = l THEN Append(Kept(m), line.msg) ELSE Kept(m)
    BY <1>3, KeptGrows
  <2>2. /\ host' # "got" /\ Read(line.msg) /\ Name(line.msg) = l
        /\ \A k \in 1 .. Len(Kept(l)) : Kept(l)[k].from = line.msg.from => Kept(l)[k].n < line.msg.n
    BY <1>3 DEF HostStores, AfterNotification, InOrder
  <2>3. ASSUME NEW m \in NoteMethods, m = l
        PROVE  /\ \A k \in 1 .. Len(Kept(m)') : Read(Kept(m)[k])' /\ Name(Kept(m)[k])' = m
               /\ \A j, k \in 1 .. Len(Kept(m)') :
                    (j < k /\ Kept(m)'[j].from = Kept(m)'[k].from)
                      => Kept(m)'[j].n < Kept(m)'[k].n
    <3>1. PICK old \in Seq(Id) : old = Kept(m)
      BY <1>1
    <3>2. PICK new : new = Kept(m)' /\ new = Append(old, line.msg)
      BY <2>1, <2>3, <3>1
    <3>3. /\ Len(new) = Len(old) + 1 /\ new[Len(old) + 1] = line.msg
          /\ \A k \in 1 .. Len(old) : new[k] = old[k]
      BY <2>1, <3>2
    <3>4. ASSUME NEW k \in 1 .. Len(new) PROVE Read(new[k])' /\ Name(new[k])' = m
      <4>1. CASE k \in 1 .. Len(old)
        <5>1. PICK id : id = old[k]
          OBVIOUS
        <5>2. Read(id)' /\ Name(id)' = m
          BY <3>1, <4>1, <5>1, KeptStays
        <5> QED
          BY <3>2, <3>3, <4>1, <5>1, <5>2 DEF Read, Name
      <4>2. CASE k = Len(old) + 1
        <5>1. PICK id : id = line.msg
          OBVIOUS
        <5>2. Read(id)' /\ Name(id)' = m
          BY <2>1, <2>2, <2>3, <5>1, ReadStays, NameStays
        <5> QED
          BY <3>2, <3>3, <4>2, <5>1, <5>2 DEF Read, Name
      <4> QED
        BY <3>3, <4>1, <4>2
    <3>5. \A j, k \in 1 .. Len(new) :
            (j < k /\ new[j].from = new[k].from) => new[j].n < new[k].n
      <4> TAKE j, k \in 1 .. Len(new)
      <4>1. CASE k \in 1 .. Len(old)
        <5>1. j < k => j \in 1 .. Len(old)
          BY <3>3, <4>1
        <5>2. \A i, h \in 1 .. Len(old) :
                (i < h /\ old[i].from = old[h].from) => old[i].n < old[h].n
          BY <2>3, <3>1 DEF InOrder
        <5> QED
          BY <3>3, <4>1, <5>1, <5>2
      <4>2. CASE k = Len(old) + 1
        BY <2>2, <2>3, <3>1, <3>3, <4>2
      <4> QED
        BY <3>3, <4>1, <4>2
    <3> QED
      BY <3>2, <3>4, <3>5 DEF Read, Name
  <2>4. ASSUME NEW m \in NoteMethods
        PROVE  /\ \A k \in 1 .. Len(Kept(m)') : Read(Kept(m)[k])' /\ Name(Kept(m)[k])' = m
               /\ \A j, k \in 1 .. Len(Kept(m)') :
                    (j < k /\ Kept(m)'[j].from = Kept(m)'[k].from)
                      => Kept(m)'[j].n < Kept(m)'[k].n
    BY <1>2, <2>1, <2>3
  <2> QED
    BY <2>1, <2>2, <2>4 DEF InOrder
<1>4. ASSUME NEW l \in NoteMethods, Receive(l) PROVE InOrder'
  <2>1. /\ received' \in [NoteMethods -> Seq(Id)] /\ stored' \in [NoteMethods -> Seq(Id)]
        /\ \A m \in NoteMethods : Kept(m)' = Kept(m)
        /\ host' = host /\ line' = line /\ sent' = sent /\ pc' = pc /\ names' = names
    BY <1>4, KeptMoves DEF Receive
  <2> QED
    BY <1>2, <2>1 DEF InOrder, IsNotification, Read, Name
<1>5. ASSUME NEW w \in Goroutines, HostReadsNewline(w) PROVE InOrder'
  <2>1. PICK id : id = Wire!Current(w)
    OBVIOUS
  <2>2. /\ line'.msg = id /\ id \in Id /\ Read(id)' /\ id.from = w
        /\ \A l \in Id : Read(l) /\ l.from = w => l.n < id.n
        /\ received' = received /\ stored' = stored /\ names' = names
        /\ line'.method = Name(id) /\ Name(id) \in Names
    BY <1>5, <2>1, NextLine
  <2>3. \A m \in NoteMethods : Kept(m)' = Kept(m)
    BY <2>2 DEF Kept
  <2>4. ASSUME IsNotification(line)'
        PROVE  /\ line'.method \in NoteMethods /\ Read(line.msg)'
               /\ Name(line.msg)' = line'.method
               /\ \A k \in 1 .. Len(Kept(line.method)') :
                    Kept(line.method)'[k].from = line'.msg.from
                      => Kept(line.method)'[k].n < line'.msg.n
    <3>1. PICK m : m = line'.method
      OBVIOUS
    <3>2. m \in NoteMethods
      BY <2>2, <2>4, <3>1 DEF IsNotification, Names
    <3>3. \A k \in 1 .. Len(Kept(m)) : Kept(m)[k].from = id.from => Kept(m)[k].n < id.n
      BY <1>1, <2>2, <3>2 DEF InOrder
    <3>4. Kept(line.method)' = Kept(m)
      BY <2>2, <3>1 DEF Kept
    <3>5. Read(line.msg)' /\ Name(line.msg)' = line'.method
      BY <2>2 DEF Read, Name
    <3> QED
      BY <2>2, <3>1, <3>2, <3>3, <3>4, <3>5
  <2> QED
    BY <1>2, <2>2, <2>3, <2>4 DEF InOrder
<1>6. CASE Quiet
  <2>1. received' = received /\ stored' = stored /\ line' = line
        /\ \A m \in NoteMethods : Kept(m)' = Kept(m)
    BY <1>6 DEF Quiet, Kept
  <2>2. ASSUME host' = "got", IsNotification(line)'
        PROVE  /\ line.method \in NoteMethods /\ line.msg \in Id
               /\ Read(line.msg)' /\ Name(line.msg)' = line.method
               /\ \A k \in 1 .. Len(Kept(line.method)) :
                    Kept(line.method)[k].from = line.msg.from
                      => Kept(line.method)[k].n < line.msg.n
    <3>1. host = "got" /\ IsNotification(line)
      BY <1>6, <2>1, <2>2 DEF Quiet, IsNotification
    <3>2. PICK id : id = line.msg
      OBVIOUS
    <3>3. Read(id)' /\ Name(id)' = Name(id)
      BY <3>1, <3>2, ReadStays, NameStays DEF InOrder
    <3>4. Read(line.msg)' /\ Name(line.msg)' = Name(line.msg)
      BY <2>1, <3>2, <3>3 DEF Read, Name
    <3> QED
      BY <3>1, <3>4 DEF InOrder
  <2>3. Kept(line.method)' = Kept(line.method)
    BY <2>1 DEF Kept
  <2> QED
    BY <1>2, <2>1, <2>2, <2>3 DEF InOrder
<1> QED
  BY <1>3, <1>4, <1>5, <1>6, HostLines

(* What the host has of a notification it keeps.                           *)
LEMMA ListedStays ==
  ASSUME InOrder, [Next]_vars, NEW id, Listed(id) \/ InHand(id)
  PROVE  (Listed(id) \/ InHand(id))'
<1>1. \A m \in NoteMethods : Kept(m) \in Seq(Id)
  BY KeptTyped
<1>2. ASSUME \A m \in NoteMethods : Kept(m)' = Kept(m) PROVE Listed(id) => Listed(id)'
  BY <1>2 DEF Listed
<1>3. CASE HostStores
  <2>1. /\ line.method \in NoteMethods /\ line.msg \in Id
        /\ \A m \in NoteMethods :
             Kept(m)' = IF m = line.method THEN Append(Kept(m), line.msg) ELSE Kept(m)
    BY <1>3, KeptGrows
  <2>2. CASE InHand(id)
    <3>1. PICK m \in NoteMethods : m = line.method
      BY <2>1
    <3>2. Kept(m)' = Append(Kept(m), id)
      BY <2>1, <2>2, <3>1 DEF InHand
    <3>3. id \in Id /\ Kept(m) \in Seq(Id)
      BY <1>1, <2>1, <2>2 DEF InHand
    <3>4. Len(Kept(m)) + 1 \in 1 .. Len(Append(Kept(m), id))
          /\ Append(Kept(m), id)[Len(Kept(m)) + 1] = id
      BY <3>3
    <3>5. \E k \in 1 .. Len(Kept(m)') : Kept(m)'[k] = id
      BY <3>2, <3>4
    <3> QED
      BY <3>5 DEF Listed
  <2>3. CASE Listed(id)
    <3>1. PICK m \in NoteMethods : \E k \in 1 .. Len(Kept(m)) : Kept(m)[k] = id
      BY <2>3 DEF Listed
    <3>2. \E k \in 1 .. Len(Kept(m)') : Kept(m)'[k] = id
      <4>1. PICK k \in 1 .. Len(Kept(m)) : Kept(m)[k] = id
        BY <3>1
      <4>2. CASE m # line.method
        BY <2>1, <4>1, <4>2
      <4>3. CASE m = line.method
        <5>1. /\ k \in 1 .. Len(Append(Kept(m), line.msg))
              /\ Append(Kept(m), line.msg)[k] = id
          BY <1>1, <2>1, <4>1
        <5> QED
          BY <2>1, <4>3, <5>1
      <4> QED
        BY <4>2, <4>3
    <3> QED
      BY <3>2 DEF Listed
  <2> QED
    BY <2>2, <2>3
<1>4. ASSUME NEW l \in NoteMethods, Receive(l) PROVE (Listed(id) \/ InHand(id))'
  <2>1. (\A m \in NoteMethods : Kept(m)' = Kept(m)) /\ host' = host /\ line' = line
    BY <1>4, KeptMoves DEF Receive
  <2> QED
    BY <1>2, <2>1 DEF InHand, IsNotification
<1>5. CASE \E w \in Goroutines : HostReadsNewline(w)
  <2>1. (\A m \in NoteMethods : Kept(m)' = Kept(m)) /\ host = "read"
    BY <1>5 DEF HostReadsNewline, Kept
  <2> QED
    BY <1>2, <2>1 DEF InHand
<1>6. CASE Quiet
  <2>1. (\A m \in NoteMethods : Kept(m)' = Kept(m)) /\ line' = line
    BY <1>6 DEF Quiet, Kept
  <2> QED
    BY <1>2, <1>6, <2>1 DEF Quiet, InHand, IsNotification
<1> QED
  BY <1>3, <1>4, <1>5, <1>6, HostLines

(* A message is read when the host reads its newline, and accepted later.  *)
LEMMA ReadOnce ==
  ASSUME Wire!TypeOK, [Next]_vars, NEW id \in Id, Read(id)', ~Read(id)
  PROVE  \E w \in Goroutines : HostReadsNewline(w) /\ id = Wire!Current(w)
<1> USE DEF Wire!TypeOK, Id, Read
<1>1. ASSUME NEW w \in Goroutines, Wire!Marshal(w) PROVE FALSE
  BY <1>1 DEF Wire!Marshal
<1>2. ASSUME NEW w \in Goroutines, HostReadsNewline(w) PROVE id = Wire!Current(w)
  BY <1>2 DEF HostReadsNewline, Wire!WriteNewline, Wire!Current
<1>3. CASE HostCalls \/ HostShutdown \/ HostStep \/ Signal \/ \E m \in NoteMethods : Receive(m)
  BY <1>3 DEF HostCalls, HostShutdown, HostStep, HostStores, HostAnswered, Signal, Receive
<1>4. CASE LoopStep
  BY <1>1, <1>4, LoopIsNoEmitter DEF LoopStep, LoopReads, LoopChecks, LoopTooLong, HandlerEmits,
     LoopReplies, LoopMute, Send
<1>5. CASE \E e \in Emitters : EmitterStarts(e)
  BY <1>1, <1>5 DEF EmitterStarts, Send, Goroutines
<1>6. ASSUME NEW w \in Goroutines, HostReadsData(w) \/ HostTooLong(w) \/ Lock(w) \/ Unlock(w)
      PROVE  FALSE
  BY <1>6 DEF HostReadsData, HostTooLong, Lock, Unlock, Wire!WriteData, Wire!Lock, Wire!Unlock
<1>7. CASE UNCHANGED vars
  BY <1>7 DEF vars
<1> QED
  BY <1>2, <1>3, <1>4, <1>5, <1>6, <1>7 DEF Next, HostReads

LEMMA ArriveStep ==
  ASSUME Wire!TypeOK, NamesInv, InOrder, AllArrive, [Next]_vars
  PROVE  AllArrive'
<1> SUFFICES ASSUME NEW id \in Id, Read(id)' PROVE Arrived(id)'
  BY DEF AllArrive, Id
<1>1. CASE Read(id)
  <2>1. Arrived(id) /\ Name(id)' = Name(id)
    BY <1>1, NameStays DEF AllArrive
  <2> QED
    BY <2>1, ListedStays DEF Arrived
<1>2. CASE ~Read(id)
  <2>1. PICK w \in Goroutines : HostReadsNewline(w) /\ id = Wire!Current(w)
    BY <1>2, ReadOnce
  <2>2. /\ line'.msg = id /\ host' = "got" /\ names' = names
        /\ line'.method = Name(id) /\ Name(id) \in Names
    BY <2>1, NextLine
  <2> QED
    BY <2>2 DEF Arrived, InHand, IsNotification, Name
<1> QED
  BY <1>1, <1>2

LEMMA AcceptStep ==
  ASSUME Wire!TypeOK, NamesInv, AcceptedRead, [Next]_vars
  PROVE  AcceptedRead'
<1> SUFFICES ASSUME NEW id \in accepted' PROVE id \in Id /\ Read(id)'
  BY DEF AcceptedRead, Id
<1>1. \/ id \in accepted
      \/ \E w \in Goroutines : pc[w] = "unlock" /\ id = Wire!Current(w)
  <2>1. ASSUME NEW w \in Goroutines, Wire!Step(w), id \notin accepted
        PROVE  pc[w] = "unlock" /\ id = Wire!Current(w)
    BY <2>1 DEF Wire!TypeOK, Wire!Step, Wire!WriteLine, Wire!Marshal, Wire!MarshalFails,
       Wire!Lock, Wire!WriteData, Wire!WriteDataFails, Wire!WriteNewline,
       Wire!WriteNewlineFails, Wire!Unlock
  <2>2. CASE UNCHANGED Wire!vars
    BY <2>2 DEF Wire!vars
  <2> QED
    BY <2>1, <2>2, StepsOfTransport DEF Wire!Next, Wire!Finished
<1>2. id \in Id /\ Read(id)
  BY <1>1 DEF AcceptedRead, Wire!Current, Wire!TypeOK, NamesInv, Id, Read
<1> QED
  BY <1>2, ReadStays

LEMMA NotesHold == Spec => [](InOrder /\ AllArrive /\ AcceptedRead)
<1>1. Init => InOrder /\ AllArrive /\ AcceptedRead
  BY EmptySeq DEF Init, Wire!Init, InOrder, AllArrive, AcceptedRead, Kept, Id, Read
<1>2. /\ Wire!TypeOK /\ NamesInv /\ InOrder /\ AllArrive /\ AcceptedRead /\ [Next]_vars
      => InOrder' /\ AllArrive' /\ AcceptedRead'
  BY InOrderStep, ArriveStep, AcceptStep
<1> QED
  BY <1>1, <1>2, WireTyped, ExchangeHolds, PTL DEF Spec

(* No notification is lost on the way to the test, none is handed out      *)
(* twice or for another method, and those of one goroutine and method stay *)
(* in order, for any number of emitters, methods and calls.                *)
THEOREM NotificationsKeptHolds == Spec => []NotificationsKept
BY NotesHold, KeptMeans, PTL
------------------------------------------------------------------------------
(* What is proved of Transport, said of the exchange.                      *)

WireWhole ==
  /\ \A w \in Goroutines : Wire!Inside(w) <=> mu = w
  /\ \A w \in Goroutines : pc[w] = "newline" => tail = <<Wire!Whole(Wire!Current(w))>>

LEMMA WireWholeHolds == Spec => []WireWhole
<1>1. Proved!Spec => []Proved!WholeInv
  BY WireConstants, Proved!WholeInvariance
<1>2. Proved!WholeInv => WireWhole
  BY DEF Proved!WholeInv, Proved!LockHeldInside, Proved!TailIsCurrent, Proved!Inside,
         Proved!Whole, Proved!Current, Proved!Out!Whole,
         WireWhole, Wire!Inside, Wire!Whole, Wire!Current, Wire!Out!Whole
<1> QED
  BY <1>1, <1>2, WireIsProved, PTL

(* The loop and the emitters share the Transport without mixing lines:     *)
(* every line on the pipe is one message, a call of Send that returned has *)
(* ended one line, and the lines of one goroutine are in its order.        *)
THEOREM LinesAreWholeHere ==
  Spec => [](/\ Wire!MutualExclusion
             /\ \A k \in 1 .. Len(done) : Wire!Out!WellFormed(done[k])
             /\ Wire!AcceptedEndsOneLine
             /\ Wire!CallOrder)
<1>1. Proved!Spec => [](/\ Proved!MutualExclusion /\ Proved!LinesAreWhole
                        /\ Proved!AcceptedEndsOneLine /\ Proved!CallOrder)
  <2>1. Proved!Spec => []Proved!MutualExclusion
    BY WireConstants, Proved!MutualExclusionHolds
  <2>2. Proved!Spec => []Proved!LinesAreWhole
    BY WireConstants, Proved!LinesWhole
  <2>3. Proved!Spec => []Proved!AcceptedEndsOneLine
    BY WireConstants, Proved!AcceptedEndsOneLineHolds
  <2>4. Proved!Spec => []Proved!CallOrder
    BY WireConstants, Proved!CallOrderHolds
  <2> QED
    BY <2>1, <2>2, <2>3, <2>4, PTL
<1>2. Proved!MutualExclusion => Wire!MutualExclusion
  BY DEF Proved!MutualExclusion, Wire!MutualExclusion, Proved!Inside, Wire!Inside
<1>3. Proved!LinesAreWhole => \A k \in 1 .. Len(done) : Wire!Out!WellFormed(done[k])
  BY DEF Proved!LinesAreWhole, Proved!Out!WellFormed, Wire!Out!WellFormed
<1>4. Proved!AcceptedEndsOneLine => Wire!AcceptedEndsOneLine
  BY DEF Proved!AcceptedEndsOneLine, Wire!AcceptedEndsOneLine, Proved!Ends, Wire!Ends,
         Proved!Whole, Wire!Whole, Proved!Out!Whole, Wire!Out!Whole
<1>5. Proved!CallOrder => Wire!CallOrder
  BY DEF Proved!CallOrder, Wire!CallOrder, Proved!Out!WellFormed, Wire!Out!WellFormed
<1> QED
  BY <1>1, <1>2, <1>3, <1>4, <1>5, WireIsProved, PTL

LineIsLast == done # << >> => done[Len(done)] = <<Wire!Whole(line.msg)>>

(* What the host acts on is the last line of the pipe, the text of one     *)
(* message and of nothing else.                                            *)
THEOREM HostReadsWholeLines == Spec => []LineIsLast
<1>1. Init => LineIsLast
  BY DEF Init, Wire!Init, LineIsLast
<1>2. Wire!TypeOK /\ WireWhole /\ LineIsLast /\ [Next]_vars => LineIsLast'
  <2> SUFFICES ASSUME Wire!TypeOK, WireWhole, LineIsLast, [Next]_vars PROVE LineIsLast'
    OBVIOUS
  <2>1. ASSUME NEW w \in Goroutines, HostReadsNewline(w) PROVE LineIsLast'
    <3>1. /\ done' = Append(done, tail) /\ tail = <<Wire!Whole(Wire!Current(w))>>
          /\ line'.msg = Wire!Current(w)
      BY <2>1 DEF HostReadsNewline, Wire!WriteNewline, WireWhole, LineOf
    <3>2. done \in Seq(Seq(Wire!Out!Fragment)) /\ tail \in Seq(Wire!Out!Fragment)
      BY DEF Wire!TypeOK, Wire!Out!LineStreamTypeOK
    <3>3. done'[Len(done')] = tail
      BY <3>1, <3>2
    <3> QED
      BY <3>1, <3>3 DEF LineIsLast, Wire!Whole, Wire!Out!Whole
  <2>2. CASE UNCHANGED <<done, line>>
    BY <2>2 DEF LineIsLast, Wire!Whole, Wire!Out!Whole
  <2>3. UNCHANGED <<done, line>> \/ \E w \in Goroutines : HostReadsNewline(w)
    <3>1. CASE \/ HostCalls \/ HostShutdown \/ HostStep \/ Signal
               \/ \E m \in NoteMethods : Receive(m)
      BY <3>1 DEF HostCalls, HostShutdown, HostStep, HostStores, HostAnswered, Signal, Receive
    <3>2. CASE LoopStep
      BY <3>2 DEF LoopStep, LoopReads, LoopChecks, LoopTooLong, HandlerEmits, LoopReplies,
                  LoopMute, Send, Wire!Marshal
    <3>3. CASE \E e \in Emitters : EmitterStarts(e)
      BY <3>3 DEF EmitterStarts, Send, Wire!Marshal
    <3>4. ASSUME NEW w \in Goroutines, HostReadsData(w) \/ HostTooLong(w)
          PROVE  UNCHANGED <<done, line>>
      BY <3>4 DEF HostReadsData, HostTooLong, Wire!WriteData
    <3>5. ASSUME NEW w \in Goroutines, Lock(w) \/ Unlock(w) PROVE UNCHANGED <<done, line>>
      BY <3>5 DEF Lock, Unlock, Wire!Lock, Wire!Unlock
    <3>6. CASE UNCHANGED vars
      BY <3>6 DEF vars
    <3> QED
      BY <3>1, <3>2, <3>3, <3>4, <3>5, <3>6 DEF Next, HostReads
  <2> QED
    BY <2>1, <2>2, <2>3
<1> QED
  BY <1>1, <1>2, WireTyped, WireWholeHolds, PTL DEF Spec
------------------------------------------------------------------------------
(* What the loop is past when Shutdown returns.                             *)

(* Shutdown returns once the loop is past its last Write.                  *)
LoopLeaves ==
  /\ host = "got" /\ ~IsNotification(line) /\ call.method = "shutdown" =>
       loop = "returned" \/ (loop = "reply" /\ pc[Loop] = "unlock" /\ req.method = "shutdown")
  /\ host = "down" =>
       loop = "returned" \/ (loop = "reply" /\ pc[Loop] = "unlock" /\ req.method = "shutdown")

LEMMA LeavesStep == ExchangeInv /\ NamesInv /\ LoopLeaves /\ [Next]_vars => LoopLeaves'
<1> SUFFICES ASSUME ExchangeInv, NamesInv, LoopLeaves, [Next]_vars PROVE LoopLeaves'
  OBVIOUS
<1> USE LoopIsNoEmitter DEF ExchangeInv, LoopTyped, LoopLeaves, IsNotification
<1>1. CASE HostCalls \/ HostShutdown \/ HostStep \/ Signal \/ \E m \in NoteMethods : Receive(m)
  BY <1>1 DEF HostCalls, HostShutdown, HostStep, HostStores, HostAnswered, Signal, Receive,
     AfterNotification
<1>2. CASE LoopReads \/ LoopChecks \/ LoopMute
  BY <1>2 DEF LoopReads, AfterWrite, LoopChecks, LoopMute
<1>3. CASE LoopTooLong \/ HandlerEmits \/ LoopReplies
  BY <1>3 DEF LoopTooLong, HandlerEmits, LoopReplies, Send, Wire!Marshal
<1>4. CASE \E e \in Emitters : EmitterStarts(e)
  BY <1>4 DEF EmitterStarts, Send, Wire!Marshal
<1>5. ASSUME NEW w \in Goroutines, HostReadsNewline(w) PROVE LoopLeaves'
  <2>1. IsNotification(line') <=> ~Answering(w)
    BY <1>5 DEF HostReadsNewline, Wire!WriteNewline, LineOf, NamesInv, Answering
  <2> QED
    BY <1>5, <2>1 DEF HostReadsNewline, Wire!WriteNewline, Answering, Exchange, Serves, Owes,
       Unanswered
<1>6. ASSUME NEW w \in Goroutines, HostReadsData(w) \/ HostTooLong(w) PROVE LoopLeaves'
  BY <1>6 DEF HostReadsData, HostTooLong, Wire!WriteData
<1>7. ASSUME NEW w \in Goroutines, Lock(w) PROVE LoopLeaves'
  BY <1>7 DEF Lock, Wire!Lock
<1>8. ASSUME NEW w \in Goroutines, Unlock(w) PROVE LoopLeaves'
  BY <1>8 DEF Unlock, Wire!Unlock, AfterReply
<1>9. CASE UNCHANGED vars
  BY <1>9 DEF vars
<1> QED
  BY <1>1, <1>2, <1>3, <1>4, <1>5, <1>6, <1>7, <1>8, <1>9 DEF Next, LoopStep, HostReads

LEMMA LeavesHold == Spec => []LoopLeaves
<1>1. Init => LoopLeaves
  BY DEF Init, LoopLeaves
<1> QED
  BY <1>1, LeavesStep, ExchangeHolds, PTL DEF Spec

(* A handler's notifications are the test's before its result is: the      *)
(* order that the protocol promises for a stream, as FakeKova sees it.     *)
THEOREM StreamBeforeResultHolds == Spec => []StreamBeforeResult
<1>1. ASSUME Wire!TypeOK, ExchangeInv, NamesInv, InOrder, AllArrive, LoopLeaves
      PROVE  StreamBeforeResult
  <2> SUFFICES ASSUME host \in {"idle", "down"},
                      NEW n \in 1 .. Len(names[Loop]), names[Loop][n] \in NoteMethods
               PROVE  \E k \in 1 .. Len(Kept(names[Loop][n])) :
                        Kept(names[Loop][n])[k] = [from |-> Loop, n |-> n]
    BY DEF StreamBeforeResult
  <2> DEFINE id == [from |-> Loop, n |-> n]
  <2>1. pc[Loop] \in {"idle", "unlock"}
    BY <1>1, LoopIsNoEmitter DEF ExchangeInv, LoopTyped, Exchange, GoesOn, Owes, LoopLeaves
  <2>2. id \in Id /\ n <= sent[Loop] /\ sent[Loop] \in Nat
    BY <1>1, LoopIsNoEmitter DEF NamesInv, Id, Wire!TypeOK
  <2>3. Read(id)
    BY <2>1, <2>2 DEF Read
  <2>4. Name(id) = names[Loop][n] /\ Name(id) # "response"
    BY BridgeAssumption DEF Name
  <2>5. Listed(id)
    BY <1>1, <2>2, <2>3, <2>4 DEF AllArrive, Arrived, InHand
  <2>6. PICK m \in NoteMethods : \E k \in 1 .. Len(Kept(m)) : Kept(m)[k] = id
    BY <2>5 DEF Listed
  <2>7. m = names[Loop][n]
    BY <1>1, <2>4, <2>6 DEF InOrder
  <2> QED
    BY <2>6, <2>7
<1> QED
  BY <1>1, WireTyped, ExchangeHolds, NotesHold, LeavesHold, PTL
------------------------------------------------------------------------------
(* Nobody waits for ever: the state half of CallReturns and RunReturns.    *)

(* At most a notification and a response of the loop for each call, so     *)
(* that the bound on calls, and no other, limits what the loop sends.      *)
SendsBounded ==
  /\ host = "write" => /\ loop \in {"read", "reply", "returned"}
                       /\ loop = "reply" /\ reply.id # 0 => pc[Loop] = "unlock"
  /\ host = "idle" => call.method # "shutdown"
  /\ call.id <= MaxCalls \/ (call.id = MaxCalls + 1 /\ call.method = "shutdown")
  /\ sent[Loop] <= 2 * call.id
  /\ host = "write" /\ (loop = "read" \/ (loop = "reply" /\ reply.id # 0))
       => sent[Loop] <= 2 * (call.id - 1)
  /\ loop \in {"check", "handle"} => sent[Loop] <= 2 * (call.id - 1)
  /\ loop \in {"notify", "notified"} => sent[Loop] <= 2 * call.id - 1

LEMMA BoundedStep ==
  ASSUME Wire!TypeOK, ExchangeInv, SendsBounded, [Next]_vars
  PROVE  SendsBounded'
<1> USE LoopIsNoEmitter, BridgeAssumption DEF ExchangeInv, LoopTyped, SendsBounded
<1>0. sent[Loop] \in Nat /\ sent \in [Goroutines -> 0 .. MaxEmits + 2 * MaxCalls + 2]
  BY DEF Wire!TypeOK
<1>1. CASE HostCalls
  BY <1>0, <1>1 DEF HostCalls, Exchange, GoesOn, Owes
<1>2. CASE HostShutdown
  BY <1>0, <1>2 DEF HostShutdown, Exchange, GoesOn, Owes
<1>3. CASE HostStep \/ Signal \/ \E m \in NoteMethods : Receive(m)
  BY <1>0, <1>3 DEF HostStep, HostStores, HostAnswered, Signal, Receive, AfterNotification,
     IsNotification
<1>4. CASE LoopReads
  BY <1>0, <1>4 DEF LoopReads, AfterWrite
<1>5. CASE LoopChecks \/ LoopMute
  BY <1>0, <1>5 DEF LoopChecks, AfterCheck, LoopMute, Exchange, GoesOn, Owes
<1>6. CASE LoopTooLong
  <2>1. sent'[Loop] = sent[Loop] + 1 /\ pc'[Loop] = "lock"
    BY <1>0, <1>6 DEF LoopTooLong, Send, Wire!Marshal
  <2> QED
    BY <1>0, <1>6, <2>1 DEF LoopTooLong, Send, Exchange
<1>7. CASE HandlerEmits \/ LoopReplies
  <2>1. sent'[Loop] = sent[Loop] + 1 /\ pc'[Loop] = "lock"
    BY <1>0, <1>7 DEF HandlerEmits, LoopReplies, Send, Wire!Marshal
  <2> QED
    BY <1>0, <1>7, <2>1 DEF HandlerEmits, LoopReplies, Send, Exchange
<1>8. CASE \E e \in Emitters : EmitterStarts(e)
  BY <1>0, <1>8 DEF EmitterStarts, Send, Wire!Marshal
<1>9. ASSUME NEW w \in Goroutines, HostReadsNewline(w) PROVE SendsBounded'
  BY <1>0, <1>9 DEF HostReadsNewline, Wire!WriteNewline
<1>10. ASSUME NEW w \in Goroutines, HostReadsData(w) \/ HostTooLong(w) PROVE SendsBounded'
  BY <1>0, <1>10 DEF HostReadsData, HostTooLong, Wire!WriteData
<1>11. ASSUME NEW w \in Goroutines, Lock(w) PROVE SendsBounded'
  BY <1>0, <1>11 DEF Lock, Wire!Lock
<1>12. ASSUME NEW w \in Goroutines, Unlock(w) PROVE SendsBounded'
  BY <1>0, <1>12 DEF Unlock, Wire!Unlock, AfterReply
<1>13. CASE UNCHANGED vars
  BY <1>0, <1>13 DEF vars
<1> QED
  BY <1>1, <1>2, <1>3, <1>4, <1>5, <1>6, <1>7, <1>8, <1>9, <1>10, <1>11, <1>12, <1>13
     DEF Next, LoopStep, HostReads

(* A step of the host or of the loop is possible: the guards of HostStep   *)
(* and LoopStep.                                                           *)
ExchangeGuard ==
  \/ host = "got"
  \/ host = "write" /\ loop = "read"
  \/ loop = "check"
  \/ /\ loop \in {"handle", "notified"} /\ ResultSizes # {}
     /\ sent[Loop] < MaxEmits + 2 * MaxCalls + 2

(* A step of a writer is: the guards of Lock, HostReads and Unlock.        *)
WriterGuard(w) ==
  \/ pc[w] = "lock" /\ mu = NoWriter
  \/ pc[w] \in {"data", "newline"} /\ host = "read"
  \/ pc[w] = "unlock"

(* During a call whose line the extension can read, and whose request the  *)
(* code does not leave without a response, somebody can always move: the   *)
(* host, the loop, or the goroutine whose lock the loop waits for; and     *)
(* after Shutdown nothing keeps the loop from returning.                   *)
NoDeadlock ==
  /\ (Calling /\ call.size <= LoopLimit) =>
       (host = "read" /\ Unanswered) \/ ExchangeGuard \/ \E w \in {Loop, mu} \cap Goroutines : WriterGuard(w)
  /\ host = "down" /\ loop # "returned" => pc[Loop] = "unlock"

(* Unbuffered pipes, one mutex and one reader never bring a call to a      *)
(* halt, for any number of emitters, calls and sizes: only a request that  *)
(* gets no response, after a signal or for registrations without a JSON    *)
(* form, does.                                                             *)
THEOREM NoDeadlockHolds == ASSUME ResultSizes # {} PROVE Spec => []NoDeadlock
<1>1. Init => SendsBounded
  BY LoopIsNoEmitter, BridgeAssumption DEF Init, Wire!Init, SendsBounded
<1>2. ASSUME Wire!TypeOK, WireWhole, ExchangeInv, LoopLeaves, SendsBounded
      PROVE  NoDeadlock
  <2> USE LoopIsNoEmitter, BridgeAssumption DEF ExchangeInv, LoopTyped
  <2>1. CASE host = "got"
    BY <2>1 DEF NoDeadlock, ExchangeGuard
  <2>2. ASSUME host = "write", call.size <= LoopLimit
        PROVE  ExchangeGuard \/ WriterGuard(Loop)
    BY <1>2, <2>2 DEF Exchange, GoesOn, Owes, ExchangeGuard, WriterGuard
  <2>3. ASSUME host = "read", ~Unanswered
        PROVE  ExchangeGuard \/ \E w \in {Loop, mu} \cap Goroutines : WriterGuard(w)
    <3>0. CASE loop = "check"
      BY <3>0 DEF ExchangeGuard
    <3>1. CASE loop \in {"handle", "notified"}
      <4>1. sent[Loop] \in Nat
        BY <1>2 DEF Wire!TypeOK
      <4>2. call.id \in Nat /\ call.id <= MaxCalls + 1 /\ sent[Loop] <= 2 * call.id - 1
        BY <1>2, <3>1, <4>1 DEF SendsBounded
      <4> QED
        BY <3>1, <4>1, <4>2 DEF ExchangeGuard
    <3>2. CASE loop \in {"notify", "reply"} /\ pc[Loop] # "lock"
      BY <1>2, <2>3, <3>2 DEF WriterGuard
    <3>3. CASE pc[Loop] = "lock" /\ mu = NoWriter
      BY <1>2, <3>3 DEF WriterGuard
    <3>4. CASE mu # NoWriter
      <4>1. mu \in Goroutines /\ Wire!Inside(mu)
        BY <1>2, <3>4 DEF Wire!TypeOK, WireWhole
      <4> QED
        BY <1>2, <2>3, <4>1 DEF Wire!Inside, WriterGuard
    <3> QED
      BY <1>2, <2>3, <3>0, <3>1, <3>2, <3>3, <3>4 DEF Exchange, Serves, Owes
  <2>4. host = "down" /\ loop # "returned" => pc[Loop] = "unlock"
    BY <1>2 DEF LoopLeaves
  <2> QED
    BY <2>1, <2>2, <2>3, <2>4 DEF NoDeadlock, Calling
<1> QED
  BY <1>1, <1>2, WireTyped, WireWholeHolds, ExchangeHolds, LeavesHold, BoundedStep,
     PTL DEF Spec
=============================================================================
