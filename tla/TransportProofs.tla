--------------------------- MODULE TransportProofs ---------------------------
(***************************************************************************)
(* What module Transport promises for any number of goroutines and calls.  *)
(***************************************************************************)
EXTENDS Transport, TLAPS

(* The choices of writeLine, which every step below looks into.            *)
USE DEF Free, AfterDataFails, HeldAfterData, ErrorOfNewline, ErrorOfLine,
        AfterNewline, Holder, WriteLine, outVars

(* The lock is held exactly by the goroutine inside the critical section:  *)
(* the deferred Unlock of writeLine covers every path out of it.           *)
LockHeldInside == \A w \in Writers : Inside(w) <=> mu = w

(* Without write errors the text behind the last newline is the message of *)
(* the goroutine that is about to write its newline, and nothing else.     *)
TailIsCurrent ==
  ~WriterFaults =>
    /\ \A w \in Writers : pc[w] = "newline" => tail = <<Whole(Current(w))>>
    /\ (\A w \in Writers : pc[w] # "newline") => tail = << >>

LEMMA NoWriterIsNone == NoWriter \notin Writers
  BY TransportAssumption

(* Appending a fragment to a stream gives a stream.                        *)
LEMMA FragmentsAppend ==
  ASSUME NEW s \in Seq(Out!Fragment), NEW m \in Message
  PROVE  /\ Append(s, Whole(m)) \in Seq(Out!Fragment)
         /\ Append(s, Part(m)) \in Seq(Out!Fragment)
  BY DEF Out!Fragment, Whole, Part, Out!Whole, Out!Part

LEMMA CurrentIsMessage ==
  ASSUME TypeOK, NEW w \in Writers, sent[w] # 0
  PROVE  Current(w) \in Message
  BY DEF TypeOK, Current, Message

(* A goroutine inside a call has begun one.                                *)
CallBegun == \A w \in Writers : pc[w] # "idle" => sent[w] # 0

TypeInv == TypeOK /\ CallBegun

LEMMA TypeInvInit == Init => TypeInv
  BY TransportAssumption DEF Init, TypeInv, TypeOK, CallBegun, Out!LineStreamTypeOK

LEMMA TypeInvStep == TypeInv /\ [Next]_vars => TypeInv'
<1> SUFFICES ASSUME TypeInv, [Next]_vars PROVE TypeInv'
  OBVIOUS
<1> USE TransportAssumption DEF TypeInv, TypeOK, CallBegun, Goto, Out!LineStreamTypeOK
<1>1. ASSUME NEW w \in Writers, Marshal(w) PROVE TypeInv'
  BY <1>1 DEF Marshal
<1>2. ASSUME NEW w \in Writers, MarshalFails(w) PROVE TypeInv'
  BY <1>2 DEF MarshalFails
<1>3. ASSUME NEW w \in Writers, Lock(w) PROVE TypeInv'
  BY <1>3 DEF Lock
<1>4. ASSUME NEW w \in Writers, WriteData(w) PROVE TypeInv'
  <2>1. tail' \in Seq(Out!Fragment)
    BY <1>4, CurrentIsMessage, FragmentsAppend DEF WriteData
  <2> QED
    BY <1>4, <2>1 DEF WriteData
<1>5. ASSUME NEW w \in Writers, WriteDataFails(w) PROVE TypeInv'
  <2>1. tail' \in Seq(Out!Fragment)
    BY <1>5, CurrentIsMessage, FragmentsAppend DEF WriteDataFails
  <2> QED
    BY <1>5, <2>1 DEF WriteDataFails
<1>6. ASSUME NEW w \in Writers, WriteNewline(w) PROVE TypeInv'
  BY <1>6 DEF WriteNewline
<1>7. ASSUME NEW w \in Writers, WriteNewlineFails(w) PROVE TypeInv'
  BY <1>7 DEF WriteNewlineFails
<1>8. ASSUME NEW w \in Writers, Unlock(w) PROVE TypeInv'
  <2>1. Current(w) \in Message
    BY <1>8, CurrentIsMessage DEF Unlock
  <2> QED
    BY <1>8, <2>1 DEF Unlock
<1>9. CASE UNCHANGED vars
  BY <1>9 DEF vars
<1> QED
  BY <1>1, <1>2, <1>3, <1>4, <1>5, <1>6, <1>7, <1>8, <1>9 DEF Next, Step, Finished

(* Every reachable state is well-typed: no error path of writeLine leaves  *)
(* the transport in a state outside its type.                              *)
THEOREM TypeCorrect == Spec => []TypeOK
<1>1. Spec => []TypeInv
  BY TypeInvInit, TypeInvStep, PTL DEF Spec
<1> QED
  BY <1>1, PTL DEF TypeInv

LEMMA LockInit == Init => LockHeldInside
  BY NoWriterIsNone DEF Init, LockHeldInside, Inside

LEMMA LockStep == TypeOK /\ LockHeldInside /\ [Next]_vars => LockHeldInside'
<1> SUFFICES ASSUME TypeOK, LockHeldInside, [Next]_vars PROVE LockHeldInside'
  OBVIOUS
<1> USE NoWriterIsNone DEF TypeOK, LockHeldInside, Inside, Goto
<1>1. ASSUME NEW w \in Writers, Marshal(w) PROVE LockHeldInside'
  BY <1>1 DEF Marshal
<1>2. ASSUME NEW w \in Writers, MarshalFails(w) PROVE LockHeldInside'
  BY <1>2 DEF MarshalFails
<1>3. ASSUME NEW w \in Writers, Lock(w) PROVE LockHeldInside'
  BY <1>3 DEF Lock
<1>4. ASSUME NEW w \in Writers, WriteData(w) PROVE LockHeldInside'
  BY <1>4 DEF WriteData
<1>5. ASSUME NEW w \in Writers, WriteDataFails(w) PROVE LockHeldInside'
  BY <1>5 DEF WriteDataFails
<1>6. ASSUME NEW w \in Writers, WriteNewline(w) PROVE LockHeldInside'
  BY <1>6 DEF WriteNewline
<1>7. ASSUME NEW w \in Writers, WriteNewlineFails(w) PROVE LockHeldInside'
  BY <1>7 DEF WriteNewlineFails
<1>8. ASSUME NEW w \in Writers, Unlock(w) PROVE LockHeldInside'
  BY <1>8 DEF Unlock
<1>9. CASE UNCHANGED vars
  BY <1>9 DEF vars
<1> QED
  BY <1>1, <1>2, <1>3, <1>4, <1>5, <1>6, <1>7, <1>8, <1>9 DEF Next, Step, Finished

LEMMA LockInvariant == Spec => []LockHeldInside
  BY TypeCorrect, LockInit, LockStep, PTL DEF Spec

(* At most one goroutine is between Lock and Unlock.                       *)
THEOREM MutualExclusionHolds == Spec => []MutualExclusion
<1>1. LockHeldInside => MutualExclusion
  BY DEF LockHeldInside, MutualExclusion
<1> QED
  BY <1>1, LockInvariant, PTL

(* How far a goroutine is from its Unlock.                                 *)
ToUnlock(w) ==
  CASE pc[w] = "data" -> 3 [] pc[w] = "newline" -> 2 [] pc[w] = "unlock" -> 1
    [] ~Inside(w) -> 0

(* No path out of writeLine, with an error or without, forgets the lock:   *)
(* whoever holds it is on its way to the deferred Unlock, every step of a  *)
(* goroutine inside brings it nearer, and nobody else moves it.            *)
LockIsOnLoan ==
  /\ [](mu # NoWriter => mu \in Writers /\ Inside(mu))
  /\ [][\A w \in Writers : Inside(w) =>
          pc'[w] = pc[w] \/ ToUnlock(w)' < ToUnlock(w)]_vars

LEMMA LoanStep ==
  ASSUME TypeOK, [Next]_vars, NEW w \in Writers, Inside(w)
  PROVE  pc'[w] = pc[w] \/ ToUnlock(w)' < ToUnlock(w)
<1>1. CASE pc' = pc
  BY <1>1
<1>2. PICK v \in Writers : pc' # pc => Step(v)
  BY DEF Next, Finished, vars
<1>3. CASE v # w /\ Step(v)
  BY <1>3 DEF TypeOK, Step, Goto, Marshal, MarshalFails, Lock, WriteData, WriteDataFails,
     WriteNewline, WriteNewlineFails, Unlock
<1>4. CASE v = w /\ Step(v)
  <2>1. \/ pc[w] = "data" /\ pc'[w] \in {"newline", "unlock"}
        \/ pc[w] = "newline" /\ pc'[w] = "unlock"
        \/ pc[w] = "unlock" /\ pc'[w] = "idle"
    BY <1>4 DEF TypeOK, Inside, Step, Goto, Marshal, MarshalFails, Lock, WriteData,
       WriteDataFails, WriteNewline, WriteNewlineFails, Unlock
  <2> QED
    BY <2>1 DEF ToUnlock, Inside
<1> QED
  BY <1>1, <1>2, <1>3, <1>4

(* For any goroutines and any errors, the mutex of writeLine is only lent.  *)
THEOREM LockIsReleased == Spec => LockIsOnLoan
<1>1. TypeOK /\ LockHeldInside => (mu # NoWriter => mu \in Writers /\ Inside(mu))
  BY DEF TypeOK, LockHeldInside
<1>2. TypeOK /\ [Next]_vars
        => [\A w \in Writers : Inside(w) =>
              pc'[w] = pc[w] \/ ToUnlock(w)' < ToUnlock(w)]_vars
  BY LoanStep
<1> QED
  BY <1>1, <1>2, TypeCorrect, LockInvariant, PTL DEF Spec, LockIsOnLoan

(* While the io.Writer returns no error, every line the host reads is the  *)
(* text of exactly one message.                                            *)
LinesAreWhole ==
  ~WriterFaults => \A i \in 1 .. Len(done) : Out!WellFormed(done[i])

WholeInv ==
  /\ TypeInv /\ LockHeldInside /\ TailIsCurrent /\ LinesAreWhole

LEMMA WholeInit == Init => TailIsCurrent /\ LinesAreWhole
  BY DEF Init, TailIsCurrent, LinesAreWhole

LEMMA WholeStep == WholeInv /\ [Next]_vars => (TailIsCurrent /\ LinesAreWhole)'
<1> SUFFICES ASSUME WholeInv, [Next]_vars, ~WriterFaults
             PROVE  (TailIsCurrent /\ LinesAreWhole)'
  BY DEF TailIsCurrent, LinesAreWhole
<1> USE DEF WholeInv, TypeInv, TypeOK, TailIsCurrent, LinesAreWhole, Goto, Current,
            Out!LineStreamTypeOK
<1>1. ASSUME NEW w \in Writers, Marshal(w) PROVE (TailIsCurrent /\ LinesAreWhole)'
  BY <1>1 DEF Marshal
<1>2. ASSUME NEW w \in Writers, MarshalFails(w) PROVE (TailIsCurrent /\ LinesAreWhole)'
  BY <1>2 DEF MarshalFails
<1>3. ASSUME NEW w \in Writers, Lock(w) PROVE (TailIsCurrent /\ LinesAreWhole)'
  BY <1>3 DEF Lock
<1>4. ASSUME NEW w \in Writers, WriteData(w) PROVE (TailIsCurrent /\ LinesAreWhole)'
  <2>1. \A v \in Writers : pc[v] # "newline"
    BY <1>4, NoWriterIsNone DEF WriteData, LockHeldInside, Inside
  <2>2. tail' = << Whole(Current(w)) >>
    <3>1. tail = << >>
      BY <2>1
    <3> QED
      BY <1>4, <3>1 DEF WriteData
  <2>3. pc' = [pc EXCEPT ![w] = "newline"] /\ done' = done /\ sent' = sent
    BY <1>4 DEF WriteData
  <2>4. \A v \in Writers : pc'[v] = "newline" => v = w
    BY <2>1, <2>3
  <2> QED
    BY <2>2, <2>3, <2>4
<1>5. ASSUME NEW w \in Writers, WriteNewline(w) PROVE (TailIsCurrent /\ LinesAreWhole)'
  <2>1. Out!WellFormed(tail)
    <3>1. tail = <<Whole(Current(w))>>
      BY <1>5 DEF WriteNewline
    <3> QED
      BY <3>1 DEF Out!WellFormed, Whole, Out!Whole
  <2>2. done' = Append(done, tail) /\ tail' = << >>
    BY <1>5 DEF WriteNewline
  <2>3. LinesAreWhole'
    BY <2>1, <2>2
  <2>4. \A v \in Writers : pc'[v] # "newline"
    BY <1>5, NoWriterIsNone DEF WriteNewline, LockHeldInside, Inside
  <2> QED
    BY <2>2, <2>3, <2>4
<1>6. ASSUME NEW w \in Writers, Unlock(w) PROVE (TailIsCurrent /\ LinesAreWhole)'
  BY <1>6 DEF Unlock
<1>7. CASE UNCHANGED vars
  BY <1>7 DEF vars
<1> QED
  BY <1>1, <1>2, <1>3, <1>4, <1>5, <1>6, <1>7
     DEF Next, Step, Finished, WriteDataFails, WriteNewlineFails

LEMMA WholeInvariance == Spec => []WholeInv
<1>1. Init => WholeInv
  BY TypeInvInit, LockInit, WholeInit DEF WholeInv
<1>2. WholeInv /\ [Next]_vars => WholeInv'
  BY TypeInvStep, LockStep, WholeStep DEF WholeInv, TypeInv
<1> QED
  BY <1>1, <1>2, PTL DEF Spec

(* As long as the io.Writer reports no error, the host can decode every    *)
(* line: no two goroutines ever share one.                                 *)
THEOREM LinesWhole == Spec => []LinesAreWhole
<1>1. WholeInv => LinesAreWhole
  BY DEF WholeInv
<1> QED
  BY <1>1, WholeInvariance, PTL
------------------------------------------------------------------------------
(* The refinement.  While a newline is due, the text behind the last        *)
(* newline ends with the message of the goroutine that owes it.             *)
TailEndsWithCurrent ==
  \A w \in Writers : pc[w] = "newline" =>
    /\ tail # << >>
    /\ tail[Len(tail)] = Whole(Current(w))

RefinementInv == TypeInv /\ LockHeldInside /\ TailEndsWithCurrent

LEMMA LastOfAppend ==
  ASSUME NEW S, NEW s \in Seq(S), NEW x \in S
  PROVE  Append(s, x) # << >> /\ Append(s, x)[Len(Append(s, x))] = x
  OBVIOUS

LEMMA TailEndsStep ==
  RefinementInv /\ [Next]_vars => TailEndsWithCurrent'
<1> SUFFICES ASSUME RefinementInv, [Next]_vars PROVE TailEndsWithCurrent'
  OBVIOUS
<1> USE NoWriterIsNone
    DEF RefinementInv, TypeInv, TypeOK, LockHeldInside, Inside, TailEndsWithCurrent,
        Goto, Current, Out!LineStreamTypeOK
<1>1. ASSUME NEW w \in Writers, Marshal(w) PROVE TailEndsWithCurrent'
  BY <1>1 DEF Marshal
<1>2. ASSUME NEW w \in Writers, MarshalFails(w) PROVE TailEndsWithCurrent'
  BY <1>2 DEF MarshalFails
<1>3. ASSUME NEW w \in Writers, Lock(w) PROVE TailEndsWithCurrent'
  BY <1>3 DEF Lock
<1>4. ASSUME NEW w \in Writers, WriteData(w) PROVE TailEndsWithCurrent'
  <2>0. Whole(Current(w)) \in Out!Fragment
    BY <1>4, CurrentIsMessage DEF WriteData, CallBegun, Whole, Out!Whole, Out!Fragment
  <2>1. tail' # << >> /\ tail'[Len(tail')] = Whole(Current(w)')
    <3>1. tail' = Append(tail, Whole(Current(w))) /\ Current(w)' = Current(w)
      BY <1>4 DEF WriteData
    <3>2. tail \in Seq(Out!Fragment)
      OBVIOUS
    <3> HIDE DEF Current
    <3> QED
      BY <2>0, <3>1, <3>2, LastOfAppend
  <2>2. \A v \in Writers : pc'[v] = "newline" => v = w
    BY <1>4 DEF WriteData
  <2> QED
    BY <2>1, <2>2
<1>5. ASSUME NEW w \in Writers, WriteDataFails(w) PROVE TailEndsWithCurrent'
  <2>1. \A v \in Writers : pc'[v] # "newline"
    BY <1>5 DEF WriteDataFails
  <2> QED
    BY <2>1
<1>6. ASSUME NEW w \in Writers, WriteNewline(w) PROVE TailEndsWithCurrent'
  <2>1. \A v \in Writers : pc'[v] # "newline"
    BY <1>6 DEF WriteNewline
  <2> QED
    BY <2>1
<1>7. ASSUME NEW w \in Writers, WriteNewlineFails(w) PROVE TailEndsWithCurrent'
  BY <1>7 DEF WriteNewlineFails
<1>8. ASSUME NEW w \in Writers, Unlock(w) PROVE TailEndsWithCurrent'
  BY <1>8 DEF Unlock
<1>9. CASE UNCHANGED vars
  BY <1>9 DEF vars
<1> QED
  BY <1>1, <1>2, <1>3, <1>4, <1>5, <1>6, <1>7, <1>8, <1>9 DEF Next, Step, Finished

(* All but the last element of a sequence.                                  *)
Front(s) == SubSeq(s, 1, Len(s) - 1)

LEMMA FrontOfAppend ==
  ASSUME NEW S, NEW s \in Seq(S), NEW x \in S
  PROVE  Front(Append(s, x)) = s
  BY DEF Front

LEMMA AppendToFront ==
  ASSUME NEW S, NEW s \in Seq(S), s # << >>
  PROVE  /\ Front(s) \in Seq(S)
         /\ Append(Front(s), s[Len(s)]) = s
  BY DEF Front

(* The output as LineStream sees it.                                        *)
StreamTail == IF Pending THEN SubSeq(tail, 1, Len(tail) - 1) ELSE tail

LEMMA RefinementStep ==
  RefinementInv /\ [Next]_vars => [Stream!LineStreamNext]_(Stream!lineVars)
<1> SUFFICES ASSUME RefinementInv, [Next]_vars
             PROVE  [Stream!LineStreamNext]_(Stream!lineVars)
  OBVIOUS
<1> DEFINE Same == done' = done /\ StreamTail' = StreamTail
           Ok(m) == /\ done' = Append(done, Append(StreamTail, Whole(m)))
                    /\ StreamTail' = << >>
           Fails(m) == /\ WriterFaults
                       /\ StreamTail' \in {StreamTail, Append(StreamTail, Part(m)),
                                           Append(StreamTail, Whole(m))}
                       /\ done' = done
           Goal == Same \/ \E m \in Message : Ok(m) \/ Fails(m)
<1>0. Goal => [Stream!LineStreamNext]_(Stream!lineVars)
  BY DEF Goal, Same, Ok, Fails, StreamTail, Whole, Part, Out!Whole, Out!Part,
         Stream!LineStreamNext, Stream!lineVars, Stream!WriteOk, Stream!WriteFails,
         Stream!Whole, Stream!Part
<1>t. tail \in Seq(Out!Fragment) /\ pc \in [Writers -> {"idle", "lock", "data", "newline", "unlock"}]
  BY DEF RefinementInv, TypeInv, TypeOK, Out!LineStreamTypeOK
<1>m. \A w \in Writers : pc[w] # "idle" => Current(w) \in Message
  BY CurrentIsMessage DEF RefinementInv, TypeInv, CallBegun
<1>s. ASSUME done' = done, tail' = tail, Pending' = Pending PROVE Same
  BY <1>s DEF StreamTail
<1>1. ASSUME NEW w \in Writers, Marshal(w) \/ MarshalFails(w) PROVE Same
  <2>1. Pending' = Pending
    BY <1>1, <1>t DEF Marshal, MarshalFails, Pending, Goto
  <2> QED
    BY <1>1, <1>s, <2>1 DEF Marshal, MarshalFails
<1>2. ASSUME NEW w \in Writers, Lock(w) \/ Unlock(w) PROVE Same
  <2>1. Pending' = Pending
    BY <1>2, <1>t DEF Lock, Unlock, Pending, Goto
  <2> QED
    BY <1>2, <1>s, <2>1 DEF Lock, Unlock
<1>3. ASSUME NEW w \in Writers, WriteData(w) PROVE Same
  <2>1. ~Pending /\ Pending'
    BY <1>3, <1>t, NoWriterIsNone
       DEF WriteData, Pending, Goto, RefinementInv, LockHeldInside, Inside
  <2>2. Whole(Current(w)) \in Out!Fragment
    BY <1>3, <1>m DEF WriteData, Whole, Out!Whole, Out!Fragment
  <2>3. Front(tail') = tail /\ done' = done
    BY <1>3, <1>t, <2>2, FrontOfAppend DEF WriteData
  <2> QED
    BY <2>1, <2>3 DEF StreamTail, Front
<1>4. ASSUME NEW w \in Writers, WriteDataFails(w) PROVE Fails(Current(w))
  <2>1. ~Pending /\ ~Pending'
    BY <1>4, <1>t, NoWriterIsNone
       DEF WriteDataFails, Pending, Goto, RefinementInv, LockHeldInside, Inside
  <2> QED
    BY <1>4, <2>1 DEF WriteDataFails, StreamTail
<1>5. ASSUME NEW w \in Writers, pc[w] = "newline" PROVE Append(StreamTail, Whole(Current(w))) = tail
  <2>1. tail # << >> /\ tail[Len(tail)] = Whole(Current(w))
    BY <1>5 DEF RefinementInv, TailEndsWithCurrent
  <2>2. Append(Front(tail), tail[Len(tail)]) = tail
    BY <1>t, <2>1, AppendToFront
  <2>3. Pending
    BY <1>5 DEF Pending
  <2> QED
    BY <2>1, <2>2, <2>3 DEF StreamTail, Front
<1>6. ASSUME NEW w \in Writers, pc[w] = "newline", Goto(w, "unlock") PROVE ~Pending'
  BY <1>6, <1>t, NoWriterIsNone
     DEF Pending, Goto, RefinementInv, LockHeldInside, Inside
<1>7. ASSUME NEW w \in Writers, WriteNewline(w) PROVE Ok(Current(w))
  BY <1>7, <1>5, <1>6 DEF WriteNewline, StreamTail
<1>8. ASSUME NEW w \in Writers, WriteNewlineFails(w) PROVE Fails(Current(w))
  BY <1>8, <1>5, <1>6 DEF WriteNewlineFails, StreamTail
<1>9. ASSUME UNCHANGED vars PROVE Same
  BY <1>9, <1>s DEF vars, Pending
<1> HIDE DEF Same, Ok, Fails, Goal
<1>10. ASSUME NEW w \in Writers, Step(w) PROVE Goal
  <2>1. WriteData(w) \/ WriteDataFails(w) \/ WriteNewline(w) \/ WriteNewlineFails(w)
           => Current(w) \in Message
    BY <1>m DEF WriteData, WriteDataFails, WriteNewline, WriteNewlineFails
  <2> QED
    BY <1>10, <1>1, <1>2, <1>3, <1>4, <1>7, <1>8, <2>1 DEF Step, Goal
<1>11. Goal
  BY <1>9, <1>10 DEF Next, Finished, Goal
<1> QED
  BY <1>0, <1>11

(* writeLine implements the one-step write of LineStream: to its callers    *)
(* and to the host, the two writes under the mutex are atomic, on the paths *)
(* where either of them fails too.                                          *)
THEOREM WritesAreAtomic == Spec => AtomicLines
<1>1. Init => RefinementInv
  BY TypeInvInit, LockInit DEF RefinementInv, TailEndsWithCurrent, Init
<1>2. RefinementInv /\ [Next]_vars => RefinementInv'
  BY TypeInvStep, LockStep, TailEndsStep DEF RefinementInv, TypeInv
<1>3. Init => Stream!LineStreamInit
  BY DEF Init, Stream!LineStreamInit, Pending
<1> QED
  BY <1>1, <1>2, <1>3, RefinementStep, PTL DEF Spec, AtomicLines, Stream!LineStreamSpec
------------------------------------------------------------------------------
(* Shared lines.  Text that waits for a newline nobody owes is that of a    *)
(* call which has failed and will never be accepted.                        *)
Lost(m) ==
  /\ m \notin accepted
  /\ m.n <= sent[m.from]
  /\ m.n = sent[m.from] => \/ pc[m.from] = "idle"
                           \/ pc[m.from] = "unlock" /\ failed[m.from]

(* An accepted call has returned.                                           *)
AcceptedIsOver ==
  \A m \in accepted :
    m.n <= sent[m.from] /\ (m.n = sent[m.from] => pc[m.from] = "idle")

TailIsLost == \A k \in 1 .. Len(tail) : Lost(tail[k].msg) \/ (k = Len(tail) /\ Pending)

SharedIsLost ==
  \A i \in 1 .. Len(done) : \A k \in 1 .. Len(done[i]) - 1 : Lost(done[i][k].msg)

SharedInv == RefinementInv /\ AcceptedIsOver /\ TailIsLost /\ SharedIsLost

LEMMA OverStep ==
  TypeInv /\ AcceptedIsOver /\ [Next]_vars => AcceptedIsOver'
<1> SUFFICES ASSUME TypeInv, AcceptedIsOver, [Next]_vars PROVE AcceptedIsOver'
  OBVIOUS
<1> USE DEF TypeInv, TypeOK, AcceptedIsOver, Message, Goto
<1>1. ASSUME NEW w \in Writers, Unlock(w) PROVE AcceptedIsOver'
  BY <1>1 DEF Unlock, Current
<1>2. ASSUME NEW w \in Writers, Step(w), ~Unlock(w) PROVE AcceptedIsOver'
  BY <1>2 DEF Step, Marshal, MarshalFails, Lock, WriteData, WriteDataFails,
              WriteNewline, WriteNewlineFails
<1>3. CASE UNCHANGED vars
  BY <1>3 DEF vars
<1> QED
  BY <1>1, <1>2, <1>3 DEF Next, Finished

LEMMA LostStays ==
  ASSUME TypeInv, [Next]_vars, NEW m \in Message, Lost(m)
  PROVE  Lost(m)'
<1> USE DEF TypeInv, TypeOK, Lost, Message, Goto
<1>1. ASSUME NEW w \in Writers, Unlock(w) PROVE Lost(m)'
  BY <1>1 DEF Unlock, Current
<1>2. ASSUME NEW w \in Writers, Step(w), ~Unlock(w) PROVE Lost(m)'
  BY <1>2 DEF Step, Marshal, MarshalFails, Lock, WriteData, WriteDataFails,
              WriteNewline, WriteNewlineFails
<1>3. CASE UNCHANGED vars
  BY <1>3 DEF vars
<1> QED
  BY <1>1, <1>2, <1>3 DEF Next, Finished

(* The message of a write that fails is lost.                               *)
LEMMA FailedIsLost ==
  ASSUME TypeInv, AcceptedIsOver, NEW w \in Writers,
         WriteDataFails(w) \/ WriteNewlineFails(w)
  PROVE  Lost(Current(w))'
<1>1. Current(w) \notin accepted
  BY DEF AcceptedIsOver, Current, WriteDataFails, WriteNewlineFails
<1>2. /\ Current(w)' = Current(w) /\ accepted' = accepted
      /\ pc'[w] = "unlock" /\ failed'[w] /\ sent'[w] = sent[w] /\ sent[w] \in Nat
  BY DEF Current, WriteDataFails, WriteNewlineFails, Goto, TypeInv, TypeOK
<1> QED
  BY <1>1, <1>2 DEF Lost, Current

LEMMA SharedStep ==
  SharedInv /\ [Next]_vars => (TailIsLost /\ SharedIsLost)'
<1> SUFFICES ASSUME SharedInv, [Next]_vars PROVE (TailIsLost /\ SharedIsLost)'
  OBVIOUS
<1>t. /\ tail \in Seq(Out!Fragment) /\ done \in Seq(Seq(Out!Fragment))
      /\ pc \in [Writers -> {"idle", "lock", "data", "newline", "unlock"}]
      /\ TypeInv
  BY DEF SharedInv, RefinementInv, TypeInv, TypeOK, Out!LineStreamTypeOK
<1>m. /\ \A k \in 1 .. Len(tail) : tail[k].msg \in Message
      /\ \A i \in 1 .. Len(done) : \A k \in 1 .. Len(done[i]) - 1 : done[i][k].msg \in Message
  <2>1. \A f \in Out!Fragment : f.msg \in Message
    BY DEF Out!Fragment
  <2>2. \A k \in 1 .. Len(tail) : tail[k] \in Out!Fragment
    BY <1>t
  <2>3. ASSUME NEW i \in 1 .. Len(done), NEW k \in 1 .. Len(done[i]) - 1
        PROVE  done[i][k] \in Out!Fragment
    <3>1. done[i] \in Seq(Out!Fragment)
      BY <1>t
    <3> QED
      BY <3>1
  <2> QED
    BY <2>1, <2>2, <2>3
<1> DEFINE LostNext(m) ==
             /\ m \notin accepted'
             /\ m.n <= sent'[m.from]
             /\ m.n = sent'[m.from] => \/ pc'[m.from] = "idle"
                                       \/ pc'[m.from] = "unlock" /\ failed'[m.from]
           LinesNext == \A i \in 1 .. Len(done) : \A k \in 1 .. Len(done[i]) - 1 :
                          LostNext(done[i][k].msg)
<1>k. \A m \in Message : Lost(m) => LostNext(m)
  <2>1. ASSUME NEW m \in Message, Lost(m) PROVE Lost(m)'
    BY <2>1, <1>t, LostStays
  <2> QED
    BY <2>1 DEF Lost
<1>g. TailIsLost' <=> \A k \in 1 .. Len(tail') : LostNext(tail'[k].msg) \/ (k = Len(tail') /\ Pending')
  BY DEF TailIsLost, Lost
<1>h. SharedIsLost' <=> \A i \in 1 .. Len(done') : \A k \in 1 .. Len(done'[i]) - 1 :
                           LostNext(done'[i][k].msg)
  BY DEF SharedIsLost, Lost
<1>l. LinesNext
  BY <1>m, <1>k DEF SharedInv, SharedIsLost
<1>n. \A k \in 1 .. Len(tail) : LostNext(tail[k].msg) \/ (k = Len(tail) /\ Pending)
  BY <1>m, <1>k DEF SharedInv, TailIsLost
<1>f. ASSUME NEW w \in Writers, WriteDataFails(w) \/ WriteNewlineFails(w)
      PROVE  LostNext(Current(w))
  <2>1. Lost(Current(w))'
    BY <1>f, <1>t, FailedIsLost DEF SharedInv
  <2>2. Current(w)' = Current(w)
    BY <1>f DEF Current, WriteDataFails, WriteNewlineFails
  <2> QED
    BY <2>1, <2>2 DEF Lost
<1> HIDE DEF LostNext
<1>s. ASSUME done' = done, tail' = tail, Pending' = Pending
      PROVE  (TailIsLost /\ SharedIsLost)'
  BY <1>s, <1>g, <1>h, <1>l, <1>n
<1>1. ASSUME NEW w \in Writers, Marshal(w) \/ MarshalFails(w) \/ Lock(w) \/ Unlock(w)
      PROVE  (TailIsLost /\ SharedIsLost)'
  <2>1. Pending' = Pending
    BY <1>1, <1>t DEF Marshal, MarshalFails, Lock, Unlock, Pending, Goto
  <2> QED
    BY <1>1, <1>s, <2>1 DEF Marshal, MarshalFails, Lock, Unlock
<1>2. ASSUME NEW w \in Writers, WriteData(w) PROVE (TailIsLost /\ SharedIsLost)'
  <2>1. ~Pending /\ Pending'
    BY <1>2, <1>t, NoWriterIsNone
       DEF WriteData, Pending, Goto, SharedInv, RefinementInv, LockHeldInside, Inside
  <2>2. tail' = Append(tail, Whole(Current(w))) /\ done' = done
    BY <1>2 DEF WriteData
  <2>3. Len(tail') = Len(tail) + 1 /\ \A k \in 1 .. Len(tail) : tail'[k] = tail[k]
    BY <1>t, <2>2
  <2>4. \A k \in 1 .. Len(tail') : k = Len(tail') \/ LostNext(tail'[k].msg)
    BY <1>t, <1>n, <2>1, <2>3
  <2> QED
    BY <1>g, <1>h, <1>l, <2>1, <2>2, <2>4
<1>3. ASSUME NEW w \in Writers, WriteDataFails(w) PROVE (TailIsLost /\ SharedIsLost)'
  <2>1. ~Pending /\ done' = done
    BY <1>3, <1>t, NoWriterIsNone
       DEF WriteDataFails, Pending, SharedInv, RefinementInv, LockHeldInside, Inside
  <2>2. CASE tail' = tail
    BY <1>g, <1>h, <1>l, <1>n, <2>1, <2>2
  <2>3. CASE tail' = Append(tail, Part(Current(w)))
    <3>1. /\ Len(tail') = Len(tail) + 1
          /\ \A k \in 1 .. Len(tail) : tail'[k] = tail[k]
          /\ tail'[Len(tail')] = Part(Current(w))
      BY <1>t, <2>3
    <3>2. LostNext(tail'[Len(tail')].msg)
      BY <1>3, <1>f, <3>1 DEF Part, Out!Part
    <3>3. \A k \in 1 .. Len(tail') : LostNext(tail'[k].msg)
      BY <1>t, <1>n, <2>1, <3>1, <3>2
    <3> QED
      BY <1>g, <1>h, <1>l, <2>1, <3>3
  <2> QED
    BY <1>3, <2>2, <2>3 DEF WriteDataFails
<1>4. ASSUME NEW w \in Writers, WriteNewline(w) PROVE (TailIsLost /\ SharedIsLost)'
  <2>1. tail' = << >> /\ done' = Append(done, tail)
    BY <1>4 DEF WriteNewline
  <2>2. TailIsLost'
    BY <1>g, <2>1
  <2>3. /\ Len(done') = Len(done) + 1 /\ done'[Len(done')] = tail
        /\ \A i \in 1 .. Len(done) : done'[i] = done[i]
    BY <1>t, <2>1
  <2>4. \A k \in 1 .. Len(tail) - 1 : LostNext(tail[k].msg)
    BY <1>t, <1>n
  <2>5. ASSUME NEW i \in 1 .. Len(done'), NEW k \in 1 .. Len(done'[i]) - 1
        PROVE  LostNext(done'[i][k].msg)
    <3>1. CASE i = Len(done')
      BY <2>3, <2>4, <3>1
    <3>2. CASE i # Len(done')
      <4>1. i \in 1 .. Len(done) /\ done'[i] = done[i]
        BY <1>t, <2>3, <3>2
      <4> QED
        BY <1>l, <4>1
    <3> QED
      BY <3>1, <3>2
  <2>6. SharedIsLost'
    BY <1>h, <2>5
  <2> QED
    BY <2>2, <2>6
<1>5. ASSUME NEW w \in Writers, WriteNewlineFails(w) PROVE (TailIsLost /\ SharedIsLost)'
  <2>1. tail' = tail /\ done' = done
    BY <1>5 DEF WriteNewlineFails
  <2>2. tail[Len(tail)].msg = Current(w)
    <3>1. tail[Len(tail)] = Whole(Current(w))
      BY <1>5 DEF WriteNewlineFails, SharedInv, RefinementInv, TailEndsWithCurrent
    <3> QED
      BY <3>1 DEF Whole, Out!Whole
  <2>3. LostNext(tail[Len(tail)].msg)
    BY <1>5, <1>f, <2>2
  <2>4. \A k \in 1 .. Len(tail) : LostNext(tail[k].msg)
    BY <1>n, <2>3
  <2> QED
    BY <1>g, <1>h, <1>l, <2>1, <2>4
<1>6. CASE UNCHANGED vars
  BY <1>6, <1>s DEF vars, Pending
<1> QED
  BY <1>1, <1>2, <1>3, <1>4, <1>5, <1>6 DEF Next, Step, Finished

(* No call that returned nil has its text on the line of another message:   *)
(* what shares a line with the message that ends it is text of failed calls.*)
THEOREM SharedTextIsFailedHolds == Spec => []SharedTextIsFailed
<1>1. Init => SharedInv
  BY TypeInvInit, LockInit
     DEF SharedInv, RefinementInv, TailEndsWithCurrent, AcceptedIsOver, TailIsLost,
         SharedIsLost, Init
<1>2. SharedInv /\ [Next]_vars => SharedInv'
  BY TypeInvStep, LockStep, TailEndsStep, OverStep, SharedStep
     DEF SharedInv, RefinementInv, TypeInv
<1>3. SharedInv => SharedTextIsFailed
  BY DEF SharedInv, SharedIsLost, SharedTextIsFailed, Lost
<1> QED
  BY <1>1, <1>2, <1>3, PTL DEF Spec
------------------------------------------------------------------------------
(* What ends a line.  The last fragment of a line is a whole message, whose *)
(* call has returned nil or is about to.                                    *)
LastOf(line) == line[Len(line)]

Settled(m) ==
  \/ m \in accepted
  \/ m = Current(m.from) /\ pc[m.from] = "unlock" /\ ~failed[m.from]

LinesEndSettled ==
  \A i \in 1 .. Len(done) :
    /\ done[i] # << >>
    /\ LastOf(done[i]).whole
    /\ LastOf(done[i]).msg \in Message
    /\ Settled(LastOf(done[i]).msg)

(* The messages that end lines are those of their goroutines, in order.     *)
EndsInOrder ==
  \A i, j \in 1 .. Len(done) :
    (i < j /\ LastOf(done[i]).msg.from = LastOf(done[j]).msg.from) =>
       LastOf(done[i]).msg.n < LastOf(done[j]).msg.n

(* A settled message ends a line.                                           *)
SettledEnds ==
  /\ \A m \in accepted : \E i \in 1 .. Len(done) : Ends(i, m)
  /\ \A w \in Writers : (pc[w] = "unlock" /\ ~failed[w]) =>
       \E i \in 1 .. Len(done) : Ends(i, Current(w))

EndsInv ==
  RefinementInv /\ AcceptedIsOver /\ LinesEndSettled /\ EndsInOrder /\ SettledEnds

LEMMA SettledStays ==
  ASSUME TypeInv, [Next]_vars, NEW m \in Message, Settled(m)
  PROVE  Settled(m)'
<1> USE DEF TypeInv, TypeOK, Settled, Message, Goto, Current
<1>1. ASSUME NEW w \in Writers, Unlock(w) PROVE Settled(m)'
  BY <1>1 DEF Unlock
<1>2. ASSUME NEW w \in Writers, Step(w), ~Unlock(w) PROVE Settled(m)'
  BY <1>2 DEF Step, Marshal, MarshalFails, Lock, WriteData, WriteDataFails,
              WriteNewline, WriteNewlineFails
<1>3. CASE UNCHANGED vars
  BY <1>3 DEF vars
<1> QED
  BY <1>1, <1>2, <1>3 DEF Next, Finished

LEMMA LinesCounted == EndsInv => Len(done) \in Nat
<1>1. EndsInv => done \in Seq(Seq(Out!Fragment))
  BY DEF EndsInv, RefinementInv, TypeInv, TypeOK, Out!LineStreamTypeOK
<1> QED
  BY <1>1

(* WriteNewline is the step that completes a line, with its own message.    *)
LEMMA NewlineEnds ==
  ASSUME EndsInv, NEW w \in Writers, WriteNewline(w)
  PROVE  /\ Len(done') = Len(done) + 1
         /\ \A i \in 1 .. Len(done) : done'[i] = done[i]
         /\ done'[Len(done')] # << >>
         /\ LastOf(done'[Len(done')]) = Whole(Current(w))
         /\ Current(w)' = Current(w) /\ Current(w) \in Message
         /\ accepted' = accepted /\ pc'[w] = "unlock" /\ ~failed'[w]
<1>1. /\ done' = Append(done, tail)
      /\ tail # << >> /\ LastOf(tail) = Whole(Current(w))
  BY DEF WriteNewline, EndsInv, RefinementInv, TailEndsWithCurrent, LastOf
<1>2. tail \in Seq(Out!Fragment) /\ done \in Seq(Seq(Out!Fragment))
  BY DEF EndsInv, RefinementInv, TypeInv, TypeOK, Out!LineStreamTypeOK
<1>3. /\ Len(done') = Len(done) + 1 /\ done'[Len(done')] = tail
      /\ \A i \in 1 .. Len(done) : done'[i] = done[i]
  BY <1>1, <1>2
<1>4. Current(w)' = Current(w) /\ Current(w) \in Message
  BY CurrentIsMessage
     DEF WriteNewline, Current, EndsInv, RefinementInv, TypeInv, CallBegun
<1>5. accepted' = accepted /\ pc'[w] = "unlock" /\ ~failed'[w]
  BY DEF WriteNewline, Goto, EndsInv, RefinementInv, TypeInv, TypeOK
<1> QED
  BY <1>1, <1>3, <1>4, <1>5

LEMMA DoneStays ==
  ASSUME [Next]_vars, ~\E w \in Writers : WriteNewline(w)
  PROVE  done' = done
BY DEF Next, Step, Finished, vars, Marshal, MarshalFails, Lock, WriteData,
       WriteDataFails, WriteNewlineFails, Unlock

LEMMA EndSettledStep == EndsInv /\ [Next]_vars => LinesEndSettled'
<1> SUFFICES ASSUME EndsInv, [Next]_vars PROVE LinesEndSettled'
  OBVIOUS
<1> DEFINE SettledNext(m) == m \in accepted' \/
             /\ m = [from |-> m.from, n |-> sent'[m.from]]
             /\ pc'[m.from] = "unlock" /\ ~failed'[m.from]
<1>s. \A m \in Message : Settled(m) => SettledNext(m)
  <2>1. ASSUME NEW m \in Message, Settled(m) PROVE Settled(m)'
    BY <2>1, SettledStays DEF EndsInv, RefinementInv
  <2> QED
    BY <2>1 DEF Settled, Current
<1>g. LinesEndSettled' <=>
        \A i \in 1 .. Len(done') : /\ done'[i] # << >>
                                   /\ LastOf(done'[i]).whole
                                   /\ LastOf(done'[i]).msg \in Message
                                   /\ SettledNext(LastOf(done'[i]).msg)
  BY DEF LinesEndSettled, Settled, LastOf, Current
<1>o. \A i \in 1 .. Len(done) : /\ done[i] # << >>
                                /\ LastOf(done[i]).whole
                                /\ LastOf(done[i]).msg \in Message
                                /\ SettledNext(LastOf(done[i]).msg)
  BY <1>s DEF EndsInv, LinesEndSettled
<1>1. CASE \E w \in Writers : WriteNewline(w)
  <2> PICK w \in Writers : WriteNewline(w)
    BY <1>1
  <2>1. Current(w).from = w /\ Current(w)' = [from |-> w, n |-> sent'[w]]
    BY DEF Current
  <2>2. SettledNext(Current(w))
    BY <2>1, NewlineEnds
  <2>3. Whole(Current(w)).whole /\ Whole(Current(w)).msg = Current(w)
    BY DEF Whole, Out!Whole
  <2> HIDE DEF SettledNext
  <2>4. ASSUME NEW i \in 1 .. Len(done') PROVE i \in 1 .. Len(done) \/ i = Len(done')
    BY <2>4, NewlineEnds, LinesCounted
  <2> QED
    BY <1>g, <1>o, <2>2, <2>3, <2>4, NewlineEnds
<1>2. CASE ~\E w \in Writers : WriteNewline(w)
  BY <1>2, <1>g, <1>o, DoneStays
<1> QED
  BY <1>1, <1>2

LEMMA EndsInOrderStep == EndsInv /\ [Next]_vars => EndsInOrder'
<1> SUFFICES ASSUME EndsInv, [Next]_vars PROVE EndsInOrder'
  OBVIOUS
<1>1. CASE \E w \in Writers : WriteNewline(w)
  <2> PICK w \in Writers : WriteNewline(w)
    BY <1>1
  <2>1. Current(w) = [from |-> w, n |-> sent[w]] /\ pc[w] = "newline" /\ sent[w] \in Nat
    BY DEF Current, WriteNewline, EndsInv, RefinementInv, TypeInv, TypeOK
  <2>2. \A m \in accepted : m.from = w => m.n < sent[w]
    BY <2>1 DEF EndsInv, AcceptedIsOver, RefinementInv, TypeInv, TypeOK, Message
  <2>3. ASSUME NEW i \in 1 .. Len(done), LastOf(done[i]).msg.from = w
        PROVE  LastOf(done[i]).msg.n < sent[w]
    BY <2>1, <2>2, <2>3 DEF EndsInv, LinesEndSettled, Settled
  <2>4. LastOf(done'[Len(done')]).msg = Current(w)
    <3>1. LastOf(done'[Len(done')]) = Whole(Current(w))
      BY NewlineEnds
    <3>2. Whole(Current(w)).msg = Current(w)
      BY DEF Whole, Out!Whole
    <3> QED
      BY <3>1, <3>2
  <2>5. ASSUME NEW i \in 1 .. Len(done') PROVE i \in 1 .. Len(done) \/ i = Len(done')
    BY <2>5, NewlineEnds, LinesCounted
  <2>6. ASSUME NEW i \in 1 .. Len(done'), NEW j \in 1 .. Len(done'), i < j,
               LastOf(done'[i]).msg.from = LastOf(done'[j]).msg.from
        PROVE  LastOf(done'[i]).msg.n < LastOf(done'[j]).msg.n
    <3>1. i \in 1 .. Len(done) /\ done'[i] = done[i]
      BY <2>5, <2>6, NewlineEnds, LinesCounted
    <3>2. CASE j \in 1 .. Len(done)
      BY <2>6, <3>1, <3>2, NewlineEnds DEF EndsInv, EndsInOrder
    <3>3. CASE j = Len(done')
      BY <2>1, <2>3, <2>4, <2>6, <3>1, <3>3
    <3> QED
      BY <2>5, <3>2, <3>3
  <2> QED
    BY <2>6 DEF EndsInOrder, LastOf
<1>2. CASE ~\E w \in Writers : WriteNewline(w)
  BY <1>2, DoneStays DEF EndsInv, EndsInOrder, LastOf
<1> QED
  BY <1>1, <1>2

LEMMA SettledEndsStep == EndsInv /\ [Next]_vars => SettledEnds'
<1> SUFFICES ASSUME EndsInv, [Next]_vars PROVE SettledEnds'
  OBVIOUS
<1> DEFINE EndsNext(m) == \E i \in 1 .. Len(done') : LastOf(done'[i]) = Whole(m)
<1>g. SettledEnds' <=>
        /\ \A m \in accepted' : EndsNext(m)
        /\ \A w \in Writers : (pc'[w] = "unlock" /\ ~failed'[w]) => EndsNext(Current(w)')
  BY DEF SettledEnds, Ends, LastOf
<1>o. ASSUME NEW m, \E i \in 1 .. Len(done) : Ends(i, m) PROVE EndsNext(m)
  <2>1. CASE \E w \in Writers : WriteNewline(w)
    <3>1. PICK w \in Writers : WriteNewline(w)
      BY <2>1
    <3>2. PICK i \in 1 .. Len(done) : Ends(i, m)
      BY <1>o
    <3>3. LastOf(done[i]) = Whole(m)
      BY <3>2 DEF Ends, LastOf
    <3>4. i \in 1 .. Len(done') /\ done'[i] = done[i]
      BY <3>1, NewlineEnds, LinesCounted
    <3> QED
      BY <3>3, <3>4
  <2>2. CASE ~\E w \in Writers : WriteNewline(w)
    BY <1>o, <2>2, DoneStays DEF Ends, LastOf
  <2> QED
    BY <2>1, <2>2
<1>a. \A m \in accepted : EndsNext(m)
  BY <1>o DEF EndsInv, SettledEnds
<1>b. \A w \in Writers : (pc[w] = "unlock" /\ ~failed[w]) => EndsNext(Current(w))
  BY <1>o DEF EndsInv, SettledEnds
<1>n. ASSUME NEW w \in Writers, WriteNewline(w) PROVE EndsNext(Current(w))
  BY <1>n, NewlineEnds, LinesCounted
<1> HIDE DEF EndsNext
<1>t. TypeOK
  BY DEF EndsInv, RefinementInv, TypeInv
<1>1. ASSUME NEW w \in Writers, Unlock(w) PROVE SettledEnds'
  BY <1>1, <1>a, <1>b, <1>g, <1>t DEF Unlock, TypeOK, Goto, Current
<1>2. ASSUME NEW w \in Writers, WriteNewline(w) PROVE SettledEnds'
  BY <1>2, <1>a, <1>b, <1>g, <1>n, <1>t DEF WriteNewline, TypeOK, Goto, Current
<1>3. ASSUME NEW w \in Writers, Step(w), ~Unlock(w), ~WriteNewline(w) PROVE SettledEnds'
  BY <1>3, <1>a, <1>b, <1>g, <1>t
     DEF Step, Marshal, MarshalFails, Lock, WriteData, WriteDataFails,
         WriteNewlineFails, TypeOK, Goto, Current
<1>4. CASE UNCHANGED vars
  BY <1>4, <1>a, <1>b, <1>g DEF vars, Current
<1> QED
  BY <1>1, <1>2, <1>3, <1>4 DEF Next, Finished

LEMMA EndsInvariance == Spec => []EndsInv
<1>1. Init => EndsInv
  BY TypeInvInit, LockInit
     DEF EndsInv, RefinementInv, TailEndsWithCurrent, AcceptedIsOver, LinesEndSettled,
         EndsInOrder, SettledEnds, Init
<1>2. EndsInv /\ [Next]_vars => EndsInv'
  BY TypeInvStep, LockStep, TailEndsStep, OverStep, EndSettledStep, EndsInOrderStep,
     SettledEndsStep DEF EndsInv, RefinementInv, TypeInv
<1> QED
  BY <1>1, <1>2, PTL DEF Spec

(* Whatever fails before or after it, a call that returned nil has put its  *)
(* message at the end of one line, and of no other.                         *)
THEOREM AcceptedEndsOneLineHolds == Spec => []AcceptedEndsOneLine
<1>1. ASSUME EndsInv PROVE AcceptedEndsOneLine
  <2> SUFFICES ASSUME NEW m \in accepted
               PROVE  \E i \in 1 .. Len(done) :
                        /\ Ends(i, m)
                        /\ \A j \in 1 .. Len(done) : Ends(j, m) => i = j
    BY DEF AcceptedEndsOneLine
  <2>1. PICK i \in 1 .. Len(done) : Ends(i, m)
    BY <1>1 DEF EndsInv, SettledEnds
  <2>2. ASSUME NEW j \in 1 .. Len(done), Ends(j, m), NEW k \in 1 .. Len(done), Ends(k, m)
        PROVE  ~ j < k
    <3>1. m \in Message /\ m.n \in Nat
      BY <1>1 DEF EndsInv, RefinementInv, TypeInv, TypeOK, Message
    <3>2. LastOf(done[j]).msg = m /\ LastOf(done[k]).msg = m
      BY <2>2 DEF Ends, LastOf, Whole, Out!Whole
    <3> QED
      BY <1>1, <3>1, <3>2 DEF EndsInv, EndsInOrder
  <2>3. \A j \in 1 .. Len(done) : Ends(j, m) => i = j
    BY <2>1, <2>2
  <2> QED
    BY <2>1, <2>3
<1> QED
  BY <1>1, EndsInvariance, PTL

(* A line the host can decode was written by a call that reports success:   *)
(* no caller is told of a failure the host has not seen.                    *)
THEOREM DecodableMeansAcceptedHolds == Spec => []DecodableMeansAccepted
<1>1. ASSUME EndsInv PROVE DecodableMeansAccepted
  <2> SUFFICES ASSUME NEW i \in 1 .. Len(done), Out!WellFormed(done[i])
               PROVE  Settled(done[i][1].msg)
    BY DEF DecodableMeansAccepted, Settled
  <2> QED
    BY <1>1 DEF EndsInv, LinesEndSettled, LastOf, Out!WellFormed
<1> QED
  BY <1>1, EndsInvariance, PTL

(* The host decodes the messages of one goroutine in the order of its calls.*)
THEOREM CallOrderHolds == Spec => []CallOrder
<1>1. ASSUME EndsInv PROVE CallOrder
  BY <1>1 DEF EndsInv, EndsInOrder, LastOf, Out!WellFormed, CallOrder
<1> QED
  BY <1>1, EndsInvariance, PTL
==============================================================================
