-------------------------- MODULE RunnerCallProofs --------------------------
(***************************************************************************)
(* What module Runner promises about the calls of the handlers: which      *)
(* requests reach them, and how the answers relate to the calls.           *)
(***************************************************************************)
EXTENDS RunnerProofs
------------------------------------------------------------------------------
(* The steps of the loop, seen from the handlers.                           *)

AtHandler == pc \in {"initialize", "method", "shutdown"}
Lifecycle == {"initialize", "shutdown"}

LEMMA EnterRoutes ==
  ASSUME Enter
  PROVE  /\ signalled <=> pc' = "returned"
         /\ pc' \in Lifecycle => req.method = pc'
         /\ pc' = "method" => req.method \notin Lifecycle
         /\ pc' = "shutdown" => todo' = Registered
         /\ pc' = "reply" => req.method # "shutdown"
         /\ encodable' \in {encodable, TRUE}
  BY DEF Enter, Cancelled, EnterInitialize, EnterShutdown, EnterMethod, Live, Answer, Send,
         Goto, ToShutDown, Lifecycle, walkVars

(* The walks end with a response, except for an initialize whose             *)
(* registrations have no JSON form.                                         *)
LEMMA HandleCases ==
  ASSUME TypeOK, Handle, calls' = calls
  PROVE  /\ UNCHANGED walkVars
         /\ \/ pc = "shutdown" /\ todo = {} /\ pc' = "reply"
            \/ /\ pc = "initialize" /\ todo = {}
               /\ pc' = "reply" \/ (pc' = "read" /\ ~encodable)
<1>1. CASE InitializeDone
  BY <1>1 DEF InitializeDone, Send, Goto
<1>2. CASE ShutdownDone
  BY <1>2 DEF ShutdownDone, Answer, Send
<1>3. CASE \E op, k, out : Called(op, k, out)
  <2>1. calls' # calls
    BY <1>3 DEF Called, TypeOK
  <2> QED
    BY <2>1
<1>4. InitializeHandler \/ MethodReturns \/ ShutdownHandler \/ HandlerPanics
        => \E op, k, out : Called(op, k, out)
  BY DEF InitializeHandler, MethodReturns, ShutdownHandler, HandlerPanics
<1> QED
  BY <1>1, <1>2, <1>3, <1>4 DEF Handle

(* A step calls no handler, or the loop calls the one it has come to.       *)
LEMMA CallsStep ==
  ASSUME [Next]_vars
  PROVE  \/ calls' = calls
         \/ /\ Handle /\ AtHandler
            /\ \E k \in Kinds, out \in Outcomes :
                 /\ Called(pc, k, out)
                 /\ pc = "method" => out \in {"ok", "err", "unencodable", "panic"}
                 /\ out = "panic" => pc' = "crashed"
                 /\ pc' # "read"
                 /\ pc \in Lifecycle => k \in todo
                 /\ pc = "shutdown" /\ pc' # "crashed" => todo' = todo \ {k} /\ pc' = pc
<1> USE DEF AtHandler, Outcomes, Lifecycle
<1>1. CASE Handle
  <2>1. CASE InitializeHandler
    BY <1>1, <2>1 DEF InitializeHandler, First, Answer, Send
  <2>2. CASE InitializeDone \/ ShutdownDone
    BY <2>2 DEF InitializeDone, ShutdownDone
  <2>3. CASE MethodReturns
    BY <1>1, <2>3, RunnerAssumption DEF MethodReturns, Handler, Answer, Send
  <2>4. CASE ShutdownHandler
    BY <1>1, <2>4 DEF ShutdownHandler, First, LeftAfter
  <2>5. CASE HandlerPanics
    <3>1. PICK k \in Kinds :
            /\ (pc \in {"initialize", "shutdown"} /\ First(k)) \/ pc = "method"
            /\ Called(pc, k, "panic") /\ pc' = "crashed"
      BY <2>5 DEF HandlerPanics, AfterPanic, Goto
    <3> QED
      BY <1>1, <3>1 DEF First
  <2> QED
    BY <1>1, <2>1, <2>2, <2>3, <2>4, <2>5 DEF Handle
<1>2. CASE ~Handle
  BY <1>2, ReadShape, EnterShape, ReplyShape, EnvironmentShape
     DEF Next, LoopStep, Emit, GoroutinePanics, Idle, vars, loopVars
<1> QED
  BY <1>1, <1>2

LEMMA CalledShape ==
  ASSUME TypeOK, NEW op, NEW k, NEW out, Called(op, k, out)
  PROVE  /\ Len(calls) \in Nat /\ Len(calls') = Len(calls) + 1
         /\ \A i \in 1 .. Len(calls) : calls'[i] = calls[i]
         /\ calls'[Len(calls) + 1].op = op /\ calls'[Len(calls) + 1].kind = k
         /\ calls'[Len(calls) + 1].id = req.id /\ calls'[Len(calls) + 1].out = out
<1>1. calls \in Seq(Call)
  BY DEF TypeOK
<1> QED
  BY <1>1 DEF Called

(* A line is left for another one only by reading it.                       *)
LEMMA ReqStep ==
  ASSUME TypeOK, NumberInv, [Next]_vars
  PROVE  \/ req' = req /\ taken' = taken
         \/ /\ Read /\ req' = Head(stdin) /\ req.id \in Nat /\ req'.id \in Nat
            /\ req'.id > req.id
            /\ \/ taken' = taken
               \/ taken' = taken \cup {Head(stdin)} /\ Head(stdin).form = "request"
<1>1. CASE Read
  <2>1. CASE stdin # << >> /\ req' = Head(stdin)
    BY <1>1, <2>1, NewLine, ReadShape
  <2> QED
    BY <1>1, <2>1, ReadShape
<1>2. CASE ~Read
  BY <1>2, EnterShape, HandleShape, ReplyShape, EnvironmentShape
     DEF Next, LoopStep, Emit, GoroutinePanics, Idle, vars, loopVars
<1> QED
  BY <1>1, <1>2

(* The requests read, and the calls made, are no later than the line being  *)
(* handled.                                                                 *)
TakenInv ==
  \A r \in taken : /\ r.id >= 1 /\ r.id <= req.id /\ r.form = "request"
                   /\ r.id = req.id => r = req

CallInv == \A i \in 1 .. Len(calls) : calls[i].id <= req.id

LEMMA TakenStep ==
  ASSUME TypeOK, NumberInv, TakenInv, [Next]_vars
  PROVE  TakenInv'
<1>t. req.id \in Nat /\ \A r \in taken : r.id \in Nat
  BY RunnerAssumption DEF TypeOK, Line
<1> QED
  BY <1>t, ReqStep DEF TakenInv

LEMMA CallStep ==
  ASSUME TypeOK, NumberInv, CallInv, [Next]_vars
  PROVE  CallInv'
<1>t. req.id \in Nat /\ \A i \in 1 .. Len(calls) : calls[i].id \in Nat
  <2>1. \A i \in 1 .. Len(calls) : calls[i] \in Call
    BY DEF TypeOK
  <2> QED
    BY <2>1, RunnerAssumption DEF TypeOK, Line, Call
<1>1. CASE calls' = calls
  <2>1. req'.id >= req.id /\ req'.id \in Nat
    BY <1>t, ReqStep
  <2> QED
    BY <1>t, <1>1, <2>1 DEF CallInv
<1>2. CASE calls' # calls
  <2>1. PICK k, out : Called(pc, k, out) /\ req' = req
    BY <1>2, CallsStep, HandleShape
  <2> QED
    BY <1>t, <2>1, CalledShape DEF CallInv
<1> QED
  BY <1>1, <1>2
------------------------------------------------------------------------------
(* The signal.                                                              *)

SigInv ==
  /\ SignalStopsDispatch
  /\ signalled /\ AtHandler => req.id <= sigTaken

LEMMA SigStep ==
  ASSUME TypeOK, CallInv, SigInv, [Next]_vars
  PROVE  SigInv'
<1>t. req.id \in Nat /\ sigTaken \in Nat /\ signalled \in BOOLEAN
  BY RunnerAssumption DEF TypeOK, Line
<1> USE DEF SigInv, SignalStopsDispatch
<1>1. CASE Environment
  <2>1. UNCHANGED <<pc, req, calls>>
    BY <1>1, EnvironmentShape
  <2>2. CASE UNCHANGED sigVars
    BY <2>1, <2>2 DEF AtHandler, sigVars
  <2>3. CASE signalled' = TRUE /\ sigTaken' = req.id
    BY <2>1, <2>3, <1>t DEF CallInv
  <2> QED
    BY <1>1, <2>2, <2>3, EnvironmentShape
<1>2. CASE Handle
  <2>1. signalled' = signalled /\ sigTaken' = sigTaken /\ req' = req /\ AtHandler
    BY <1>2, HandleShape DEF sigVars, AtHandler
  <2>2. CASE calls' = calls
    BY <2>1, <2>2
  <2>3. CASE calls' # calls
    <3>1. PICK k, out : Called(pc, k, out)
      BY <2>3, CallsStep
    <3> QED
      BY <2>1, <3>1, CalledShape
  <2> QED
    BY <2>2, <2>3
<1>3. CASE Enter
  BY <1>3, EnterShape, EnterRoutes DEF AtHandler, sigVars
<1>4. CASE Read \/ Reply
  <2>1. ~AtHandler' /\ UNCHANGED <<sigVars, calls>>
    BY <1>4, ReadShape, ReplyShape DEF AtHandler, Send, Answer
  <2> QED
    BY <2>1 DEF sigVars
<1>5. CASE Emit \/ GoroutinePanics \/ UNCHANGED vars
  <2>1. UNCHANGED <<sigVars, calls, req>> /\ (pc' = pc \/ ~AtHandler')
    BY <1>5 DEF Emit, GoroutinePanics, AtHandler, vars, loopVars
  <2> QED
    BY <2>1 DEF sigVars, AtHandler
<1> QED
  BY <1>1, <1>2, <1>3, <1>4, <1>5 DEF Next, LoopStep, Idle

(* However the signal races the loop: no request read after it reaches a    *)
(* handler.                                                                 *)
THEOREM SignalStopsDispatchHolds == Spec => []SignalStopsDispatch
<1>1. Init => CallInv /\ SigInv
  BY DEF Init, CallInv, SigInv, SignalStopsDispatch
<1>2. TypeOK /\ OrderInv /\ CallInv /\ SigInv /\ [Next]_vars => (CallInv /\ SigInv)'
  BY CallStep, SigStep DEF OrderInv
<1>3. SigInv => SignalStopsDispatch
  BY DEF SigInv
<1> QED
  BY <1>1, <1>2, <1>3, OrderInit, OrderStep, TypeCorrect, PTL DEF Spec
------------------------------------------------------------------------------
(* Shutdown.                                                                *)

(* A handler told to shut down: the loop is in the shutdown request's walk,  *)
(* past that handler, or beyond.                                            *)
DownInv ==
  /\ pc = "shutdown" => req.method = "shutdown"
  /\ \A i \in 1 .. Len(calls) : calls[i].op = "shutdown" =>
       /\ req.method = "shutdown"
       /\ pc \in {"shutdown", "reply", "returned", "crashed"}
       /\ pc = "shutdown" => calls[i].kind \notin todo

LEMMA DownStep ==
  ASSUME TypeOK, DownInv, NoCallAfterShutdown, [Next]_vars
  PROVE  (DownInv /\ NoCallAfterShutdown)'
<1>1. CASE calls' # calls
  <2>1. PICK k \in Kinds, out \in Outcomes :
          /\ Called(pc, k, out) /\ AtHandler
          /\ pc \in Lifecycle => k \in todo
          /\ \/ pc # "shutdown"
             \/ pc' = "crashed"
             \/ todo' = todo \ {k} /\ pc' = pc
    BY <1>1, CallsStep
  <2>2. Handle
    BY <1>1, CallsStep
  <2>3. req' = req /\ pc' \in {pc, "read", "reply", "crashed"}
    BY <2>2, HandleShape
  <2>4. /\ Len(calls) \in Nat /\ Len(calls') = Len(calls) + 1
        /\ \A i \in 1 .. Len(calls) : calls'[i] = calls[i]
        /\ calls'[Len(calls) + 1].op = pc /\ calls'[Len(calls) + 1].kind = k
    BY <2>1, CalledShape
  <2>5. CASE pc = "shutdown"
    <3>1. DownInv'
      BY <2>1, <2>3, <2>4, <2>5 DEF DownInv
    <3>2. NoCallAfterShutdown'
      BY <2>1, <2>4, <2>5 DEF DownInv, NoCallAfterShutdown, Lifecycle
    <3> QED
      BY <3>1, <3>2
  <2>6. CASE pc # "shutdown"
    <3>1. \A i \in 1 .. Len(calls') : calls'[i].op # "shutdown"
      BY <2>1, <2>4, <2>6 DEF DownInv, AtHandler
    <3> QED
      BY <2>3, <2>6, <3>1 DEF DownInv, NoCallAfterShutdown
  <2> QED
    BY <2>5, <2>6
<1>2. CASE calls' = calls
  <2>1. NoCallAfterShutdown'
    BY <1>2 DEF NoCallAfterShutdown
  <2>2. CASE Read \/ Enter
    <3>1. \A i \in 1 .. Len(calls) : calls[i].op # "shutdown"
      BY <2>2, ReadShape, EnterShape DEF DownInv
    <3>2. pc' = "shutdown" => req'.method = "shutdown"
      BY <2>2, ReadShape, EnterShape, EnterRoutes DEF Send, Lifecycle
    <3> QED
      BY <1>2, <3>1, <3>2, <2>1 DEF DownInv
  <2>3. CASE Reply
    <3>1. req' = req /\ pc = "reply" /\ pc' \in {"reply", AfterReply}
      BY <2>3, ReplyShape DEF Answer, Send
    <3> QED
      BY <1>2, <2>1, <3>1 DEF DownInv, AfterReply
  <2>4. CASE Handle
    <3>1. req' = req /\ pc' \in {pc, "read", "reply", "crashed"}
      BY <2>4, HandleShape
    <3>2. pc = "shutdown" => pc' = "reply"
      BY <1>2, <2>4, HandleCases
    <3>3. pc # "shutdown" => \A i \in 1 .. Len(calls) : calls[i].op # "shutdown"
      BY <2>4, HandleShape DEF DownInv
    <3> QED
      BY <1>2, <2>1, <3>1, <3>2, <3>3 DEF DownInv
  <2>5. CASE ~(Read \/ Enter \/ Handle \/ Reply)
    <3>1. req' = req /\ todo' = todo /\ pc' \in {pc, "crashed"}
      BY <2>5, EmitShape, EnvironmentShape
         DEF Next, LoopStep, GoroutinePanics, Idle, vars, loopVars, walkVars
    <3> QED
      BY <1>2, <2>1, <3>1 DEF DownInv
  <2> QED
    BY <2>2, <2>3, <2>4, <2>5
<1> QED
  BY <1>1, <1>2

(* Whatever fails, panics or is pipelined behind it: nothing is asked of a  *)
(* handler once one has been told to shut down, and none is told twice.     *)
THEOREM NoCallAfterShutdownHolds == Spec => []NoCallAfterShutdown
<1>1. Init => DownInv /\ NoCallAfterShutdown
  BY DEF Init, DownInv, NoCallAfterShutdown
<1>2. TypeOK /\ DownInv /\ NoCallAfterShutdown /\ [Next]_vars
        => (DownInv /\ NoCallAfterShutdown)'
  BY DownStep
<1> QED
  BY <1>1, <1>2, TypeCorrect, PTL DEF Spec
------------------------------------------------------------------------------
(* Answers.                                                                 *)

(* A response the host has received stays received.                         *)
LEMMA AnsweredStays ==
  ASSUME TypeOK, [Next]_vars, NEW id, Answered(id)
  PROVE  Answered(id)'
<1>1. CASE done' = done
  BY <1>1, SameResponses DEF Answered
<1>2. CASE Reply /\ Out!WriteOk(reply)
  <2>1. reply \in Message
    BY DEF TypeOK
  <2> QED
    BY <1>2, <2>1, WriteResponses DEF Answered
<1>3. CASE Emit
  BY <1>3, EmitShape DEF Answered
<1> QED
  BY <1>1, <1>2, <1>3, ReadShape, EnterShape, HandleShape, ReplyShape, EnvironmentShape
     DEF Next, LoopStep, GoroutinePanics, Idle, vars, outVars, Out!WriteFails

(* Behind whole lines, what is written can be decoded.                      *)
LEMMA WriteAnswers ==
  ASSUME TypeOK, tail = << >>, NEW m \in Message, m.type = "response", Out!WriteOk(m)
  PROVE  Answered(m.id)'
<1> DEFINE line == Append(tail, Out!Whole(m))
<1>1. done \in Seq(Seq(Out!Fragment)) /\ Out!Whole(m) \in Out!Fragment
  BY DEF TypeOK, Out!LineStreamTypeOK, Out!Whole, Out!Fragment
<1>2. line \in Seq(Out!Fragment) /\ Len(line) = 1 /\ line[1] = Out!Whole(m)
  BY <1>1
<1>3. Len(done) + 1 \in 1 .. Len(done') /\ done'[Len(done) + 1] = line
  BY <1>1, <1>2 DEF Out!WriteOk
<1>4. Out!WellFormed(line) /\ line[1].msg = m
  BY <1>2 DEF Out!WellFormed, Out!Whole
<1> QED
  BY <1>3, <1>4 DEF Answered, Responses, Decodable, Msg

(* A handler has returned registrations to r that have no JSON form.        *)
MuteCall(c) == calls[c].op = "initialize" /\ calls[c].out = "unencodable"
Mute(r) == \E c \in CallsFor(r.id) : MuteCall(c)

(* AnsweredInTurn, whether or not registrations have a JSON form.           *)
AnsweredOrMute ==
  \A r \in taken : (r.id < req.id \/ pc \in {"read", "returned"}) =>
    \/ Answered(r.id)
    \/ r = req /\ pc = "returned" /\ signalled
    \/ Mute(r)

MuteInv ==
  /\ pc = "initialize" /\ ~encodable => Mute(req)
  /\ \A c \in 1 .. Len(calls) : MuteCall(c) => "initialize" \in Unencodable

AnswerInv == tail = << >> /\ MuteInv /\ AnsweredOrMute

LEMMA MuteStays ==
  ASSUME TypeOK, [Next]_vars, NEW r, Mute(r)
  PROVE  Mute(r)'
<1>1. CASE calls' = calls
  BY <1>1 DEF Mute, MuteCall, CallsFor
<1>2. CASE calls' # calls
  <2>1. PICK k, out : Called(pc, k, out)
    BY <1>2, CallsStep
  <2>2. /\ Len(calls) \in Nat /\ Len(calls') = Len(calls) + 1
        /\ \A i \in 1 .. Len(calls) : calls'[i] = calls[i]
    BY <2>1, CalledShape
  <2> QED
    BY <2>2 DEF Mute, MuteCall, CallsFor
<1> QED
  BY <1>1, <1>2

LEMMA MuteStep ==
  ASSUME TypeOK, MuteInv, [Next]_vars
  PROVE  MuteInv'
<1>1. CASE InitializeHandler /\ Handle
  <2>1. PICK k, out :
          /\ Called("initialize", k, out)
          /\ out = "unencodable" => "initialize" \in Unencodable
          /\ \/ pc' = "reply"
             \/ pc' = pc /\ encodable' = encodable
             \/ pc' = pc /\ encodable' = (encodable /\ out = "ok") /\ out \in {"ok", "unencodable"}
    BY <1>1 DEF InitializeHandler, Answer, Send
  <2>2. /\ Len(calls) \in Nat /\ Len(calls') = Len(calls) + 1 /\ pc = "initialize"
        /\ \A i \in 1 .. Len(calls) : calls'[i] = calls[i]
        /\ calls'[Len(calls) + 1].op = "initialize" /\ calls'[Len(calls) + 1].out = out
        /\ calls'[Len(calls) + 1].id = req.id /\ req' = req
    BY <1>1, <2>1, CalledShape, HandleShape DEF InitializeHandler
  <2>3. \A c \in 1 .. Len(calls') : MuteCall(c)' => "initialize" \in Unencodable
    BY <2>1, <2>2 DEF MuteInv, MuteCall
  <2>4. CASE ~encodable
    <3>1. Mute(req)
      BY <2>2, <2>4 DEF MuteInv
    <3>2. PICK r : r = req
      OBVIOUS
    <3>3. Mute(r)'
      BY <3>1, <3>2, MuteStays
    <3> QED
      BY <2>2, <2>3, <3>2, <3>3 DEF MuteInv
  <2>5. CASE encodable /\ pc' # "reply" /\ ~encodable'
    <3>1. out = "unencodable"
      BY <2>1, <2>5
    <3>2. PICK n, r : n = Len(calls) + 1 /\ r = req
      OBVIOUS
    <3>3. n \in CallsFor(r.id)' /\ MuteCall(n)'
      BY <2>2, <3>1, <3>2 DEF CallsFor, MuteCall
    <3>4. Mute(r)' /\ req' = r
      BY <2>2, <3>2, <3>3 DEF Mute
    <3> QED
      BY <2>3, <3>4 DEF MuteInv
  <2> QED
    BY <2>1, <2>2, <2>3, <2>4, <2>5 DEF MuteInv, TypeOK
<1>2. CASE calls' = calls
  <2>1. \A c : MuteCall(c)' <=> MuteCall(c)
    BY <1>2 DEF MuteCall
  <2>2. pc' = "initialize" /\ ~encodable' =>
          pc = "initialize" /\ encodable' = encodable /\ req' = req
    <3>1. CASE Handle
      BY <1>2, <3>1, HandleCases, HandleShape DEF walkVars
    <3>2. CASE Enter
      BY <3>2 DEF Enter, Cancelled, EnterInitialize, EnterShutdown, EnterMethod, Live,
         Answer, Send, Goto
    <3>3. CASE ~(Handle \/ Enter)
      BY <3>3, ReadShape, ReplyShape, EnvironmentShape
         DEF Next, LoopStep, Emit, GoroutinePanics, Idle, vars, loopVars, walkVars,
             Send, Answer
    <3> QED
      BY <3>1, <3>2, <3>3
  <2>3. ASSUME pc = "initialize", ~encodable, req' = req PROVE Mute(req)'
    BY <2>3, <1>2 DEF MuteInv, Mute, MuteCall, CallsFor
  <2> QED
    BY <1>2, <2>1, <2>2, <2>3 DEF MuteInv
<1>3. CASE calls' # calls /\ ~InitializeHandler
  <2>1. MethodReturns \/ ShutdownHandler \/ HandlerPanics
    BY <1>3, CallsStep DEF Handle, InitializeDone, ShutdownDone
  <2>2. pc' # "initialize"
    BY <2>1 DEF MethodReturns, ShutdownHandler, HandlerPanics, Answer, Send, Goto, AfterPanic
  <2>3. PICK op, k, out : Called(op, k, out) /\ (op = "initialize" => out = "panic")
    BY <2>1 DEF MethodReturns, ShutdownHandler, HandlerPanics
  <2>4. /\ Len(calls) \in Nat /\ Len(calls') = Len(calls) + 1
        /\ \A i \in 1 .. Len(calls) : calls'[i] = calls[i]
        /\ calls'[Len(calls) + 1].op = op /\ calls'[Len(calls) + 1].out = out
    BY <2>3, CalledShape
  <2>5. ASSUME NEW c \in 1 .. Len(calls'), MuteCall(c)' PROVE "initialize" \in Unencodable
    <3>1. CASE c \in 1 .. Len(calls)
      BY <2>4, <2>5, <3>1 DEF MuteInv, MuteCall
    <3>2. CASE c = Len(calls) + 1
      BY <2>3, <2>4, <2>5, <3>2 DEF MuteCall
    <3> QED
      BY <2>4, <3>1, <3>2
  <2> QED
    BY <2>2, <2>5 DEF MuteInv
<1> QED
  BY <1>1, <1>2, <1>3, CallsStep

LEMMA AnswerStep ==
  ASSUME ~WriterFaults, TypeOK, OrderInv, TakenInv, AnswerInv, [Next]_vars
  PROVE  AnswerInv'
<1>t. /\ req.id \in Nat /\ \A r \in taken : r.id \in Nat /\ r.id <= req.id
      /\ \A r \in taken : r.id = req.id => r = req
      /\ \A r \in taken : r.form = "request"
  BY RunnerAssumption DEF TypeOK, Line, TakenInv
<1>k. \A r \in taken : r.id < req.id \/ pc = "read" => Answered(r.id) \/ Mute(r)
  BY <1>t DEF AnswerInv, AnsweredOrMute
<1>a. \A r \in taken : Answered(r.id) \/ Mute(r) => Answered(r.id)' \/ Mute(r)'
  BY AnsweredStays, MuteStays
<1>w. \A m : ~Out!WriteFails(m)
  BY DEF Out!WriteFails
<1>1. tail' = << >>
  <2>1. \A m : Out!WriteOk(m) => tail' = << >>
    BY DEF Out!WriteOk
  <2> QED
    BY <1>w, <2>1, ReadShape, EnterShape, HandleShape, ReplyShape, EnvironmentShape
       DEF Next, LoopStep, Emit, GoroutinePanics, Idle, vars, outVars, AnswerInv
<1>2. MuteInv'
  BY MuteStep DEF AnswerInv
<1>3. AnsweredOrMute'
  (* The loop stays with its line, or leaves it for good.                   *)
  <2>1. ASSUME req' = req, taken' = taken, pc' \notin {"read", "returned"} \/ pc = "read"
        PROVE  AnsweredOrMute'
    BY <2>1, <1>k, <1>a DEF AnsweredOrMute
  <2>2. ASSUME req' = req, taken' = taken,
               Answered(req.id)' \/ Mute(req)' \/ req \notin taken
        PROVE  AnsweredOrMute'
    BY <2>2, <1>k, <1>a, <1>t DEF AnsweredOrMute
  <2>3. CASE Read
    <3>1. CASE req' = req /\ taken' = taken
      BY <2>1, <2>3, <3>1, ReadShape
    <3>2. CASE ~(req' = req /\ taken' = taken)
      <4>1. /\ req'.id > req.id /\ pc = "read" /\ pc' \notin {"read", "returned"}
            /\ taken' \subseteq taken \cup {req'}
        BY <2>3, <3>2, ReqStep, ReadShape DEF OrderInv, Send
      <4>2. req'.id \in Nat
        BY <3>2, ReqStep DEF OrderInv
      <4> QED
        BY <4>1, <4>2, <1>k, <1>a DEF AnsweredOrMute
    <3> QED
      BY <3>1, <3>2
  <2>4. CASE Enter
    <3>1. req' = req /\ taken' = taken /\ signalled' = signalled /\ pc' # "read"
      BY <2>4, EnterShape DEF sigVars
    <3>2. CASE pc' = "returned"
      BY <2>4, <3>1, <3>2, <1>k, <1>a, <1>t, EnterRoutes DEF AnsweredOrMute
    <3>3. CASE pc' # "returned"
      BY <2>1, <3>1, <3>3
    <3> QED
      BY <3>2, <3>3
  <2>5. CASE Handle
    <3>1. req' = req /\ taken' = taken /\ pc' # "returned"
      BY <2>5, HandleShape
    <3>2. CASE pc' # "read"
      BY <2>1, <3>1, <3>2
    <3>3. CASE pc' = "read"
      <4>1. calls' = calls
        BY <3>3, CallsStep
      <4>2. pc = "initialize" /\ ~encodable
        BY <2>5, <3>3, <4>1, HandleCases
      <4>3. Mute(req)'
        BY <3>1, <4>1, <4>2 DEF AnswerInv, MuteInv, Mute, MuteCall, CallsFor
      <4> QED
        BY <2>2, <3>1, <4>3
    <3> QED
      BY <3>2, <3>3
  <2>6. CASE Reply
    <3>1. /\ req' = req /\ taken' = taken /\ Out!WriteOk(reply) /\ reply \in Message
          /\ reply.type = "response"
          /\ reply.id = IF req.form = "garbage" THEN 0 ELSE req.id
      BY <2>6, <1>w, ReplyShape DEF OrderInv, ReplyInv, TypeOK
    <3>2. PICK m \in Message : m = reply
      BY <3>1
    <3>3. Answered(m.id)'
      BY <3>1, <3>2, WriteAnswers DEF AnswerInv
    <3>4. CASE req.form = "garbage"
      BY <1>t, <2>2, <3>1, <3>4
    <3>5. CASE req.form # "garbage"
      <4>1. m.id = req'.id
        BY <3>1, <3>2, <3>5
      <4> QED
        BY <2>2, <3>1, <3>3, <4>1
    <3> QED
      BY <3>4, <3>5
  <2>7. CASE Emit
    <3>1. UNCHANGED <<req, taken, pc, signalled>>
      BY <2>7, EmitShape
    <3> QED
      BY <3>1, <1>a DEF AnsweredOrMute, AnswerInv
  <2>8. CASE Environment
    <3>1. UNCHANGED <<req, taken, pc>>
      BY <2>8, EnvironmentShape
    <3>2. signalled' = signalled \/ signalled' = TRUE
      BY <2>8, EnvironmentShape DEF sigVars
    <3> QED
      BY <3>1, <3>2, <1>a DEF AnsweredOrMute, AnswerInv
  <2>9. CASE GoroutinePanics
    BY <2>1, <2>9 DEF GoroutinePanics
  <2>10. CASE UNCHANGED vars
    <3>1. UNCHANGED <<req, taken, pc, signalled>>
      BY <2>10 DEF vars, loopVars, sigVars
    <3> QED
      BY <3>1, <1>a DEF AnsweredOrMute, AnswerInv
  <2> QED
    BY <2>3, <2>4, <2>5, <2>6, <2>7, <2>8, <2>9, <2>10 DEF Next, LoopStep, Idle
<1> QED
  BY <1>1, <1>2, <1>3 DEF AnswerInv

LEMMA AnswerInvariance == ASSUME ~WriterFaults PROVE Spec => []AnswerInv
<1>1. Init => TakenInv /\ AnswerInv
  BY DEF Init, TakenInv, AnswerInv, MuteInv, AnsweredOrMute, Out!LineStreamInit
<1>2. TypeOK /\ OrderInv /\ TakenInv /\ AnswerInv /\ [Next]_vars => (TakenInv /\ AnswerInv)'
  BY TakenStep, AnswerStep DEF OrderInv
<1> QED
  BY <1>1, <1>2, OrderInit, OrderStep, TypeCorrect, PTL DEF Spec

(* While stdout takes every line, the only requests that are forgotten are  *)
(* the one read when the context was cancelled and an initialize for which  *)
(* a handler returned registrations without a JSON form.                    *)
THEOREM OnlyMuteIsForgotten == ASSUME ~WriterFaults PROVE Spec => []AnsweredOrMute
<1>1. AnswerInv => AnsweredOrMute
  BY DEF AnswerInv
<1> QED
  BY <1>1, AnswerInvariance, PTL

(* While stdout takes every line and registrations have a JSON form, no     *)
(* request that was read is forgotten, except for the one read when the     *)
(* context was cancelled, and a panic costs at most the response of the     *)
(* request being handled.                                                   *)
THEOREM AnsweredInTurnHolds ==
  ASSUME ~WriterFaults, "initialize" \notin Unencodable
  PROVE  Spec => []AnsweredInTurn
<1>1. AnswerInv => AnsweredInTurn
  BY DEF AnswerInv, MuteInv, Mute, CallsFor, AnsweredOrMute, AnsweredInTurn
<1> QED
  BY <1>1, AnswerInvariance, PTL
------------------------------------------------------------------------------
(* The calls made for the request being handled.                            *)

Mine == CallsFor(req.id)
MineOf(k) == {c \in Mine : calls[c].kind = k}

(* The calls for any request stay as they are, and a new one is for the     *)
(* request being handled.                                                   *)
LEMMA CalledMine ==
  ASSUME TypeOK, NEW op, NEW k, NEW out, Called(op, k, out), req' = req
  PROVE  /\ Mine' = Mine \cup {Len(calls) + 1} /\ Mine \subseteq 1 .. Len(calls)
         /\ \A id : id # req.id => CallsFor(id)' = CallsFor(id)
         /\ \A id : CallsFor(id) \subseteq 1 .. Len(calls)
         /\ \A i \in 1 .. Len(calls) : calls'[i] = calls[i]
         /\ Len(calls) \in Nat
         /\ calls'[Len(calls) + 1].kind = k /\ calls'[Len(calls) + 1].out = out
<1>1. /\ Len(calls) \in Nat /\ Len(calls') = Len(calls) + 1
      /\ \A i \in 1 .. Len(calls) : calls'[i] = calls[i]
      /\ calls'[Len(calls) + 1].kind = k /\ calls'[Len(calls) + 1].id = req.id
      /\ calls'[Len(calls) + 1].out = out
  BY CalledShape
<1>2. 1 .. Len(calls') = 1 .. Len(calls) \cup {Len(calls) + 1}
  BY <1>1
<1>3. Mine' = Mine \cup {Len(calls) + 1}
  BY <1>1, <1>2 DEF Mine, CallsFor
<1>4. ASSUME NEW id, id # req.id PROVE CallsFor(id)' = CallsFor(id)
  BY <1>1, <1>2, <1>4 DEF CallsFor
<1>5. Mine \subseteq 1 .. Len(calls) /\ \A id : CallsFor(id) \subseteq 1 .. Len(calls)
  BY DEF Mine, CallsFor
<1> QED
  BY <1>1, <1>3, <1>4, <1>5

LEMMA SameCalls ==
  ASSUME calls' = calls
  PROVE  /\ \A id : CallsFor(id)' = CallsFor(id)
         /\ req' = req => Mine' = Mine /\ \A k : MineOf(k)' = MineOf(k)
  BY DEF CallsFor, Mine, MineOf

(* A request that was only read has been passed to no handler.              *)
FreshInv ==
  /\ pc \in {"check", "method"} => Mine = {}
  /\ pc = "method" => req.method \notin Lifecycle
  /\ pc = "initialize" => req.method = "initialize"

LEMMA FreshStep ==
  ASSUME TypeOK, NumberInv, CallInv, FreshInv, [Next]_vars
  PROVE  FreshInv'
<1>1. CASE Read
  <2>1. CASE pc' = "check"
    <3>1. stdin # << >> /\ req' = Head(stdin) /\ calls' = calls
      BY <1>1, <2>1, ReadShape DEF Send
    <3>2. req'.id > req.id /\ req'.id \in Nat /\ req.id \in Nat
      BY <3>1, NewLine
    <3>3. \A i \in 1 .. Len(calls) : calls[i].id \in Nat
      <4>1. \A i \in 1 .. Len(calls) : calls[i] \in Call
        BY DEF TypeOK
      <4> QED
        BY <4>1, RunnerAssumption DEF Call
    <3>4. Mine' = {}
      BY <3>1, <3>2, <3>3 DEF CallInv, Mine, CallsFor
    <3> QED
      BY <2>1, <3>4 DEF FreshInv
  <2> QED
    BY <1>1, <2>1, ReadShape DEF FreshInv, Send
<1>2. CASE Enter
  BY <1>2, EnterShape, EnterRoutes, SameCalls DEF FreshInv, Lifecycle
<1>3. CASE Handle
  <2>1. req' = req /\ (pc' = pc \/ pc' \notin {"check", "method", "initialize"})
    BY <1>3, HandleShape
  <2>2. CASE pc # "method"
    BY <1>3, <2>1, <2>2, HandleShape DEF FreshInv
  <2>3. CASE pc = "method"
    <3>1. pc' # "method"
      BY <1>3, <2>3
         DEF Handle, InitializeHandler, InitializeDone, MethodReturns, ShutdownHandler,
             ShutdownDone, HandlerPanics, AfterPanic, Goto, Answer, Send
    <3> QED
      BY <2>1, <2>3, <3>1, HandleShape, <1>3 DEF FreshInv
  <2> QED
    BY <2>2, <2>3
<1>4. CASE Reply
  BY <1>4, ReplyShape DEF FreshInv, Answer, Send
<1>5. CASE Environment \/ Emit \/ GoroutinePanics \/ UNCHANGED vars
  <2>1. req' = req /\ calls' = calls /\ pc' \in {pc, "crashed"}
    BY <1>5, EnvironmentShape, EmitShape DEF GoroutinePanics, vars, loopVars
  <2> QED
    BY <2>1, SameCalls DEF FreshInv
<1> QED
  BY <1>1, <1>2, <1>3, <1>4, <1>5 DEF Next, LoopStep, Idle
------------------------------------------------------------------------------
(* Shutting down.                                                           *)

Once(k) == \E c : MineOf(k) = {c}
AllOnce == \A k \in Registered : Once(k)

(* The walk of a shutdown has called those it is past, once, and no other.  *)
ShutInv ==
  /\ pc = "shutdown" => \A k \in Registered :
                           IF k \in todo THEN MineOf(k) = {} ELSE Once(k)
  /\ pc = "shutdown" => req.method = "shutdown"
  /\ (pc = "reply" /\ req.form = "request" /\ req.method = "shutdown") => AllOnce
  /\ pc = "read" => req.form # "request" \/ req.method # "shutdown"
  /\ (pc = "returned" /\ req.form = "request" /\ req.method = "shutdown") =>
       AllOnce \/ (signalled /\ Mine = {})

LEMMA ShutInvMeans == TakenInv /\ ShutInv => ShutdownAllOrNone
  BY DEF TakenInv, ShutInv, ShutdownAllOrNone, AllOnce, Once, MineOf, Mine

LEMMA ShutStep ==
  ASSUME TypeOK, OrderInv, CallInv, FreshInv, ShutInv, [Next]_vars
  PROVE  ShutInv'
<1>s. ASSUME calls' = calls, req' = req
      PROVE  Mine' = Mine /\ (AllOnce' <=> AllOnce) /\ \A k : MineOf(k)' = MineOf(k)
  BY <1>s, SameCalls DEF AllOnce, Once
<1>1. CASE Read
  BY <1>1, ReadShape DEF ShutInv, Send
<1>2. CASE Enter
  <2>1. calls' = calls /\ req' = req /\ Mine = {} /\ signalled' = signalled
    BY <1>2, EnterShape DEF FreshInv, sigVars
  <2>2. CASE pc' = "shutdown"
    <3>1. todo' = Registered /\ req.method = "shutdown"
      BY <1>2, <2>2, EnterRoutes DEF Lifecycle
    <3>2. \A k \in Registered : MineOf(k)' = {}
      BY <2>1, <1>s DEF MineOf
    <3> QED
      BY <2>1, <2>2, <3>1, <3>2 DEF ShutInv
  <2>3. CASE pc' # "shutdown"
    BY <1>2, <1>s, <2>1, <2>3, EnterShape, EnterRoutes DEF ShutInv
  <2> QED
    BY <2>2, <2>3
<1>3. CASE Handle
  <2>1. req' = req /\ pc' \in {pc, "read", "reply", "crashed"} /\ AtHandler
    BY <1>3, HandleShape DEF AtHandler
  <2>2. CASE pc # "shutdown"
    BY <2>1, <2>2 DEF ShutInv, FreshInv, AtHandler, Lifecycle
  <2>3. CASE pc = "shutdown" /\ calls' = calls
    <3>1. todo = {} /\ pc' = "reply"
      BY <1>3, <2>3, HandleCases
    <3>2. AllOnce
      BY <2>3, <3>1 DEF ShutInv, AllOnce
    <3> QED
      BY <1>s, <2>1, <2>3, <3>1, <3>2 DEF ShutInv
  <2>4. CASE pc = "shutdown" /\ calls' # calls
    <3>1. PICK k \in Kinds, out \in Outcomes :
            /\ Called(pc, k, out) /\ k \in todo
            /\ pc' = "crashed" \/ (todo' = todo \ {k} /\ pc' = pc)
      BY <2>4, CallsStep DEF Lifecycle
    <3>2. CASE pc' = "crashed"
      BY <3>2 DEF ShutInv
    <3>3. CASE todo' = todo \ {k} /\ pc' = pc
      <4> DEFINE n == Len(calls) + 1
      <4>1. /\ Mine' = Mine \cup {n} /\ Mine \subseteq 1 .. Len(calls)
            /\ \A i \in 1 .. Len(calls) : calls'[i] = calls[i]
            /\ calls'[n].kind = k /\ Len(calls) \in Nat
        BY <2>1, <3>1, CalledMine
      <4>2. ASSUME NEW j PROVE MineOf(j)' = IF j = k THEN MineOf(j) \cup {n} ELSE MineOf(j)
        BY <4>1 DEF MineOf
      <4>3. MineOf(k)' = {n}
        <5>1. MineOf(k) = {}
          BY <2>4, <3>1 DEF ShutInv, TypeOK
        <5> QED
          BY <4>2, <5>1
      <4>4. ASSUME NEW j \in Registered
            PROVE  IF j \in todo' THEN MineOf(j)' = {} ELSE Once(j)'
        <5>1. CASE j = k
          BY <3>3, <4>3, <5>1 DEF Once
        <5>2. CASE j # k
          BY <2>4, <3>3, <4>2, <5>2 DEF Once, ShutInv
        <5> QED
          BY <5>1, <5>2
      <4> QED
        BY <2>1, <2>4, <3>3, <4>4 DEF ShutInv
    <3> QED
      BY <3>1, <3>2, <3>3
  <2> QED
    BY <2>2, <2>3, <2>4
<1>4. CASE Reply
  <2>1. calls' = calls /\ req' = req /\ pc = "reply" /\ pc' \in {"reply", AfterReply}
    BY <1>4, ReplyShape DEF Answer, Send
  <2> QED
    BY <1>s, <2>1 DEF ShutInv, AfterReply
<1>5. CASE Environment \/ Emit \/ GoroutinePanics \/ UNCHANGED vars
  <2>1. /\ req' = req /\ calls' = calls /\ todo' = todo /\ pc' \in {pc, "crashed"}
        /\ signalled' = signalled \/ signalled' = TRUE
    BY <1>5, EnvironmentShape, EmitShape
       DEF GoroutinePanics, vars, loopVars, walkVars, sigVars
  <2>2. \A k : (Once(k)' <=> Once(k)) /\ MineOf(k)' = MineOf(k)
    BY <1>s, <2>1 DEF Once
  <2>3. CASE pc' = "crashed"
    BY <2>3 DEF ShutInv
  <2>4. CASE pc' = pc
    BY <1>s, <2>1, <2>2, <2>4 DEF ShutInv
  <2> QED
    BY <2>1, <2>3, <2>4
<1> QED
  BY <1>1, <1>2, <1>3, <1>4, <1>5 DEF Next, LoopStep, Idle

(* Failing Shutdowns, failing writes and signals notwithstanding: when Run  *)
(* returns on a shutdown request, every handler has been told once, or the  *)
(* context was cancelled first and none has.                                *)
THEOREM ShutdownAllOrNoneHolds == Spec => []ShutdownAllOrNone
<1>1. Init => TakenInv /\ CallInv /\ FreshInv /\ ShutInv
  BY DEF Init, TakenInv, CallInv, FreshInv, ShutInv, NoLine
<1>2. TypeOK /\ OrderInv /\ TakenInv /\ CallInv /\ FreshInv /\ ShutInv /\ [Next]_vars
        => (TakenInv /\ CallInv /\ FreshInv /\ ShutInv)'
  BY TakenStep, CallStep, FreshStep, ShutStep DEF OrderInv
<1> QED
  BY <1>1, <1>2, ShutInvMeans, OrderInit, OrderStep, TypeCorrect, PTL DEF Spec
==============================================================================
