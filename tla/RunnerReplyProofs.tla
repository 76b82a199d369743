-------------------------- MODULE RunnerReplyProofs --------------------------
(***************************************************************************)
(* What module Runner promises about the content of the responses: how the *)
(* code of each relates to the calls of the handlers.                      *)
(***************************************************************************)
EXTENDS RunnerCallProofs
------------------------------------------------------------------------------
(* A response the host can decode is as it was, with the calls made for it  *)
(* and the requests it may answer, or it is the one being sent.             *)
LEMMA OldOrNew ==
  ASSUME TypeOK, OrderInv, TakenInv, [Next]_vars, NEW i \in Responses'
  PROVE  \/ /\ i \in Responses /\ Msg(i)' = Msg(i)
            /\ CallsFor(Msg(i).id)' = CallsFor(Msg(i).id)
            /\ \A c \in CallsFor(Msg(i).id) : calls'[c] = calls[c]
            /\ \A r \in taken' : r.id = Msg(i).id => r \in taken
         \/ /\ pc = "reply" /\ Msg(i)' = reply
            /\ calls' = calls /\ req' = req /\ taken' = taken
            /\ \A r \in taken : r.id = reply.id => r = req /\ req.form = "request"
<1>t. req.id \in Nat /\ \A r \in taken : r.id \in Nat
  BY RunnerAssumption DEF TypeOK, Line
<1>1. \/ i \in Responses /\ Msg(i)' = Msg(i)
      \/ Reply /\ Msg(i)' = reply
  <2>1. CASE done' = done
    BY <2>1, SameResponses
  <2>2. CASE Reply /\ Out!WriteOk(reply)
    <3>1. PICK m \in Message : m = reply
      BY DEF TypeOK
    <3>2. Out!WriteOk(m)
      BY <2>2, <3>1
    <3> QED
      BY <2>2, <3>1, <3>2, WriteResponses
  <2>3. CASE Emit
    BY <2>3, EmitShape
  <2> QED
    BY <2>1, <2>2, <2>3, ReadShape, EnterShape, HandleShape, ReplyShape, EnvironmentShape
       DEF Next, LoopStep, GoroutinePanics, Idle, vars, outVars, Out!WriteFails
<1>2. CASE i \in Responses /\ Msg(i)' = Msg(i)
  <2>1. Msg(i).id \in Nat
    BY <1>2, DecodedTypes
  <2>2. /\ CallsFor(Msg(i).id)' = CallsFor(Msg(i).id)
        /\ \A c \in CallsFor(Msg(i).id) : calls'[c] = calls[c]
    <3> DEFINE id == Msg(i).id
    <3>1. PICK n \in Nat : n = id
      BY <2>1
    <3>2. CallsFor(n)' = CallsFor(n) /\ \A c \in CallsFor(n) : calls'[c] = calls[c]
      <4>1. CASE calls' = calls
        BY <4>1, SameCalls
      <4>2. CASE calls' # calls
        <5>1. PICK k, out : Called(pc, k, out)
          BY <4>2, CallsStep
        <5>2. req' = req /\ n # req.id
          BY <1>t, <1>2, <3>1, <4>2, CallsStep, HandleShape
             DEF OrderInv, SentBefore, Busy, Stopped
        <5> QED
          BY <5>1, <5>2, CalledMine
      <4> QED
        BY <4>1, <4>2
    <3>3. CallsFor(Msg(i).id)' = CallsFor(n)'
      BY <1>2, <3>1
    <3> QED
      BY <3>1, <3>2, <3>3
  <2>3. ASSUME NEW r \in taken', r.id = Msg(i).id PROVE r \in taken
    <3>1. CASE taken' = taken
      BY <3>1
    <3>2. CASE taken' # taken
      <4>1. /\ pc = "read" /\ req'.id > req.id /\ req'.id \in Nat
            /\ taken' = taken \cup {req'}
        BY <3>2, ReqStep, ReadShape DEF OrderInv
      <4>2. Msg(i).id <= req.id
        BY <1>2, <4>1 DEF OrderInv, SentBefore
      <4> QED
        BY <1>t, <2>1, <2>3, <4>1, <4>2
    <3> QED
      BY <3>1, <3>2
  <2> QED
    BY <1>2, <2>2, <2>3
<1>3. CASE Reply /\ Msg(i)' = reply
  <2>1. pc = "reply" /\ calls' = calls /\ req' = req /\ taken' = taken
    BY <1>3, ReplyShape
  <2>2. ASSUME NEW r \in taken, r.id = reply.id PROVE r = req /\ req.form = "request"
    <3>1. reply.id = IF req.form = "garbage" THEN 0 ELSE req.id
      BY <2>1 DEF OrderInv, ReplyInv
    <3>2. r.id >= 1 /\ r.form = "request" /\ (r.id = req.id => r = req)
      BY DEF TakenInv
    <3> QED
      BY <2>2, <3>1, <3>2
  <2> QED
    BY <1>3, <2>1, <2>2
<1> QED
  BY <1>1, <1>2, <1>3

(* How a response comes to be sent.                                         *)
LEMMA ReplyStarts ==
  ASSUME TypeOK, OrderInv, FreshInv, DownInv, [Next]_vars, pc' = "reply"
  PROVE  \/ UNCHANGED <<pc, req, reply, calls>>
         \/ req'.form = "garbage" /\ reply'.code = "ParseError"
         \/ /\ req' = req /\ calls' = calls /\ Mine = {}
            /\ \/ reply'.code = "InvalidParams"
               \/ /\ reply'.code = "MethodNotFound"
                  /\ \A k \in Registered : req.method \notin DOMAIN Dispatch[k]
         \/ /\ pc = "reply" /\ reply'.code = "Internal"
            /\ req' = req /\ calls' = calls
         \/ /\ req' = req /\ req.method = "initialize" /\ pc = "initialize"
            /\ \/ InitializeHandler /\ reply'.code = "NotReady"
               \/ /\ InitializeDone /\ todo = {} /\ encodable /\ calls' = calls
                  /\ reply'.code = "ok" /\ reply'.regs = merged
         \/ /\ req' = req /\ req.method = "shutdown" /\ reply'.code \in {"ok", "Internal"}
         \/ /\ req' = req /\ req.method \notin Lifecycle /\ Mine = {}
            /\ \E k \in Kinds, out \in Outcomes :
                 /\ Called("method", k, out)
                 /\ \/ out = "ok" /\ reply'.code = "ok"
                    \/ out = "unencodable" /\ reply'.code = "Internal"
                    \/ /\ out = "err"
                       /\ reply'.code \notin
                            {"ok", "MethodNotFound", "InvalidParams", "NotReady"}
<1>r. \A id, code, regs : Response(id, code, regs).code = code
                          /\ Response(id, code, regs).regs = regs
  BY DEF Response
<1>1. CASE Read
  BY <1>1, <1>r, ReadShape DEF Send
<1>2. CASE Enter
  <2>1. req' = req /\ calls' = calls /\ Mine = {}
    BY <1>2, EnterShape DEF FreshInv
  <2>2. CASE EnterInitialize
    BY <2>1, <2>2, <1>r DEF EnterInitialize, Goto, Answer, Send
  <2>3. CASE EnterMethod
    <3>1. CASE /\ \A k \in Handler(req.method) : req.method \notin DOMAIN Dispatch[k]
               /\ Answer("MethodNotFound", TRUE)
      <4>1. ASSUME NEW k \in Registered PROVE req.method \notin DOMAIN Dispatch[k]
        <5>1. k \in Kinds
          BY RunnerAssumption
        <5> QED
          BY <3>1, <5>1, TablesAgree DEF Handler
      <4>2. reply'.code = "MethodNotFound"
        BY <3>1, <1>r DEF Answer, Send
      <4> QED
        BY <2>1, <4>1, <4>2
    <3>2. CASE Answer("InvalidParams", TRUE)
      BY <2>1, <3>2, <1>r DEF Answer, Send
    <3>3. CASE Goto("method")
      BY <3>3 DEF Goto
    <3> QED
      BY <2>3, <3>1, <3>2, <3>3 DEF EnterMethod
  <2>4. CASE Cancelled \/ EnterShutdown
    BY <2>4 DEF Cancelled, EnterShutdown, Goto
  <2> QED
    BY <1>2, <2>2, <2>3, <2>4 DEF Enter
<1>3. CASE Handle
  <2>1. req' = req
    BY <1>3, HandleShape
  <2>2. CASE InitializeHandler
    <3>1. pc = "initialize" /\ req.method = "initialize"
      BY <2>2 DEF InitializeHandler, FreshInv
    <3>2. Answer("NotReady", FALSE)
      BY <2>2, <3>1 DEF InitializeHandler
    <3> QED
      BY <2>1, <2>2, <3>1, <3>2, <1>r DEF Answer, Send
  <2>3. CASE InitializeDone
    BY <2>1, <2>3, <1>r DEF InitializeDone, FreshInv, Send, Goto
  <2>4. CASE MethodReturns
    <3>1. req.method \notin Lifecycle /\ Mine = {}
      BY <2>4 DEF MethodReturns, FreshInv
    <3>2. PICK k \in Handler(req.method) :
            \/ Called("method", k, "ok") /\ Answer("ok", TRUE)
            \/ Called("method", k, "err") /\ Answer(FailCode(k), TRUE)
            \/ Called("method", k, "unencodable") /\ Answer("Internal", FALSE)
      BY <2>4 DEF MethodReturns
    <3>3. k \in Kinds
      BY RunnerAssumption DEF Handler
    <3>4. FailCode(k) \notin {"ok", "MethodNotFound", "InvalidParams", "NotReady"}
      BY <3>3, TablesAgree DEF Handler, FailCode
    <3> QED
      BY <2>1, <3>1, <3>2, <3>3, <3>4, <1>r DEF Answer, Send, Outcomes
  <2>5. CASE ShutdownDone
    BY <2>1, <2>5, <1>r DEF ShutdownDone, DownInv, Answer, Send
  <2>6. CASE ShutdownHandler
    BY <2>6 DEF ShutdownHandler
  <2>7. CASE HandlerPanics
    BY <2>7 DEF HandlerPanics, AfterPanic, Goto
  <2> QED
    BY <1>3, <2>2, <2>3, <2>4, <2>5, <2>6, <2>7 DEF Handle
<1>4. CASE Reply
  <2>1. pc = "reply" /\ req' = req /\ calls' = calls /\ Answer("Internal", FALSE)
    BY <1>4, ReplyShape
  <2> QED
    BY <2>1, <1>r DEF Answer, Send
<1>5. CASE ~(Read \/ Enter \/ Handle \/ Reply)
  BY <1>5, EnvironmentShape
     DEF Next, LoopStep, Emit, GoroutinePanics, Idle, vars, loopVars
<1> QED
  BY <1>1, <1>2, <1>3, <1>4, <1>5

(* The calls for the request being handled, when one more is made.          *)
LEMMA CalledOnce ==
  ASSUME TypeOK, NEW op, NEW k, NEW out, Called(op, k, out), req' = req, Mine = {}
  PROVE  \E c \in Mine' : Mine' = {c} /\ calls'[c].out = out
  BY CalledMine
------------------------------------------------------------------------------
(* Codes.                                                                   *)

OneCall(id, out) == \E c \in CallsFor(id) : CallsFor(id) = {c} /\ calls[c].out = out
NoPanic(id) == \A c, d \in CallsFor(id) : c = d /\ calls[c].out # "panic"
NoCallCodes == {"MethodNotFound", "InvalidParams"}

Honest(code, id) ==
  /\ code \in NoCallCodes => CallsFor(id) = {}
  /\ code = "ok" => OneCall(id, "ok")
  /\ code = "Internal" => NoPanic(id)
  /\ code \notin NoCallCodes \cup {"ok", "Internal"} => OneCall(id, "err")

HonestAnswers ==
  \A i \in Responses, r \in taken :
    Msg(i).id = r.id /\ r.method \notin Lifecycle => Honest(Msg(i).code, r.id)

(* The response being sent is honest, and so would the internal error be    *)
(* that replaces it if it cannot be sent.                                   *)
HonestInv ==
  /\ HonestAnswers
  /\ pc = "reply" /\ req.form = "request" /\ req.method \notin Lifecycle
       => Honest(reply.code, req.id) /\ Honest("Internal", req.id)

LEMMA HonestMeans == HonestAnswers => CodesAreHonest
<1> SUFFICES ASSUME HonestAnswers,
                    NEW i \in Responses, NEW r \in taken,
                    Msg(i).id = r.id, r.method \notin {"initialize", "shutdown"}
             PROVE  LET mine == CallsFor(r.id)
                        One(out) == \E c \in mine : mine = {c} /\ calls[c].out = out
                    IN  CASE Msg(i).code \in {"MethodNotFound", "InvalidParams"} -> mine = {}
                          [] Msg(i).code = "ok" -> One("ok")
                          [] Msg(i).code = "Internal" ->
                               \A c, d \in mine : c = d /\ calls[c].out # "panic"
                          [] OTHER -> One("err")
  BY DEF CodesAreHonest
<1>1. Honest(Msg(i).code, r.id)
  BY DEF HonestAnswers, Lifecycle
<1> QED
  BY <1>1 DEF Honest, OneCall, NoPanic, NoCallCodes

LEMMA HonestStays ==
  ASSUME NEW id, NEW code, CallsFor(id)' = CallsFor(id),
         \A c \in CallsFor(id) : calls'[c] = calls[c], Honest(code, id)
  PROVE  Honest(code, id)'
  BY DEF Honest, OneCall, NoPanic

LEMMA HonestStep ==
  ASSUME TypeOK, OrderInv, TakenInv, FreshInv, DownInv, HonestInv, [Next]_vars
  PROVE  HonestInv'
<1>1. ASSUME NEW i \in Responses', NEW r \in taken',
             Msg(i)'.id = r.id, r.method \notin Lifecycle
      PROVE  Honest(Msg(i).code, r.id)'
  <2>1. CASE /\ i \in Responses /\ Msg(i)' = Msg(i)
             /\ CallsFor(Msg(i).id)' = CallsFor(Msg(i).id)
             /\ \A c \in CallsFor(Msg(i).id) : calls'[c] = calls[c]
             /\ r \in taken
    <3>1. PICK id, code : id = Msg(i).id /\ code = Msg(i).code
      OBVIOUS
    <3>2. Honest(code, id) /\ id = r.id
      BY <1>1, <2>1, <3>1 DEF HonestInv, HonestAnswers
    <3>3. CallsFor(id)' = CallsFor(id) /\ \A c \in CallsFor(id) : calls'[c] = calls[c]
      <4>1. CallsFor(id)' = CallsFor(Msg(i).id)'
        BY <2>1, <3>1
      <4> QED
        BY <2>1, <3>1, <4>1
    <3>4. Honest(code, id)'
      BY <3>2, <3>3, HonestStays
    <3> QED
      BY <2>1, <3>1, <3>2, <3>4
  <2>2. CASE /\ pc = "reply" /\ Msg(i)' = reply /\ calls' = calls
             /\ r \in taken /\ (r.id = reply.id => r = req /\ req.form = "request")
    <3>1. PICK id, code : id = reply.id /\ code = reply.code
      OBVIOUS
    <3>2. r = req /\ id = req.id /\ Honest(code, id)
      BY <1>1, <2>2, <3>1 DEF HonestInv
    <3>3. Honest(code, id)'
      BY <2>2, <3>2, SameCalls, HonestStays
    <3> QED
      BY <2>2, <3>1, <3>2, <3>3
  <2> QED
    BY <1>1, <2>1, <2>2, OldOrNew
<1>2. ASSUME pc' = "reply", req'.form = "request", req'.method \notin Lifecycle
      PROVE  (Honest(reply.code, req.id) /\ Honest("Internal", req.id))'
  <2>h. Mine' = CallsFor(req.id)'
    BY DEF Mine
  <2>1. CASE UNCHANGED <<pc, req, reply, calls>>
    BY <1>2, <2>1 DEF HonestInv, Honest, OneCall, NoPanic, CallsFor
  <2>2. CASE pc = "reply" /\ reply'.code = "Internal" /\ req' = req /\ calls' = calls
    BY <1>2, <2>2 DEF HonestInv, Honest, OneCall, NoPanic, CallsFor
  <2>3. CASE req' = req /\ calls' = calls /\ Mine = {} /\ reply'.code \in NoCallCodes
    BY <2>3 DEF Honest, NoPanic, Mine, CallsFor, NoCallCodes
  <2>4. ASSUME NEW k \in Kinds, NEW out \in Outcomes, Called("method", k, out),
               req' = req, Mine = {},
               \/ out = "ok" /\ reply'.code = "ok"
               \/ out = "unencodable" /\ reply'.code = "Internal"
               \/ out = "err" /\ reply'.code \notin NoCallCodes \cup {"ok"}
        PROVE  (Honest(reply.code, req.id) /\ Honest("Internal", req.id))'
    <3>1. OneCall(req.id, out)'
      BY <2>4, <2>h, CalledOnce DEF OneCall
    <3>2. NoPanic(req.id)'
      BY <2>4, <3>1 DEF OneCall, NoPanic
    <3> QED
      BY <2>4, <3>1, <3>2 DEF Honest, NoCallCodes
  <2> QED
    BY <1>2, <2>1, <2>2, <2>3, <2>4, ReplyStarts DEF Lifecycle, NoCallCodes
<1> QED
  BY <1>1, <1>2 DEF HonestInv, HonestAnswers

(* Whatever handlers do and whatever write fails, the code of a response    *)
(* tells the host truthfully whether a handler was called, and how that     *)
(* went.                                                                    *)
THEOREM CodesAreHonestHolds == Spec => []CodesAreHonest
<1>1. Init => TakenInv /\ CallInv /\ FreshInv /\ DownInv /\ NoCallAfterShutdown /\ HonestInv
  <2>1. Init => Responses = {}
    BY DEF Init, Out!LineStreamInit, Responses, Decodable
  <2> QED
    BY <2>1 DEF Init, TakenInv, CallInv, FreshInv, DownInv, NoCallAfterShutdown,
                HonestInv, HonestAnswers
<1>2. /\ TypeOK /\ OrderInv /\ TakenInv /\ CallInv /\ FreshInv /\ DownInv
      /\ NoCallAfterShutdown /\ HonestInv /\ [Next]_vars
      => (TakenInv /\ CallInv /\ FreshInv /\ DownInv /\ NoCallAfterShutdown /\ HonestInv)'
  BY TakenStep, CallStep, FreshStep, DownStep, HonestStep DEF OrderInv
<1>3. HonestInv => CodesAreHonest
  BY HonestMeans DEF HonestInv
<1> QED
  BY <1>1, <1>2, <1>3, OrderInit, OrderStep, TypeCorrect, PTL DEF Spec
------------------------------------------------------------------------------
(* Methods nobody serves.                                                   *)

NotFoundInv ==
  /\ NotFoundMeansUnserved
  /\ pc = "reply" /\ req.form = "request" /\ reply.code = "MethodNotFound"
       => \A k \in Registered : req.method \notin DOMAIN Dispatch[k]

LEMMA NotFoundStep ==
  ASSUME TypeOK, OrderInv, TakenInv, FreshInv, DownInv, NotFoundInv, [Next]_vars
  PROVE  NotFoundInv'
<1>1. ASSUME NEW i \in Responses', NEW r \in taken',
             Msg(i)'.id = r.id, Msg(i)'.code = "MethodNotFound", NEW k \in Registered
      PROVE  r.method \notin DOMAIN Dispatch[k]
  <2>1. CASE i \in Responses /\ Msg(i)' = Msg(i) /\ r \in taken
    BY <1>1, <2>1 DEF NotFoundInv, NotFoundMeansUnserved
  <2>2. CASE /\ pc = "reply" /\ Msg(i)' = reply
             /\ r \in taken /\ (r.id = reply.id => r = req /\ req.form = "request")
    BY <1>1, <2>2 DEF NotFoundInv
  <2> QED
    BY <1>1, <2>1, <2>2, OldOrNew
<1>2. ASSUME pc' = "reply", req'.form = "request", reply'.code = "MethodNotFound"
      PROVE  \A k \in Registered : req'.method \notin DOMAIN Dispatch[k]
  BY <1>2, ReplyStarts DEF NotFoundInv
<1> QED
  BY <1>1, <1>2 DEF NotFoundInv, NotFoundMeansUnserved

(* "Method not found" is said of no method that a registered handler's      *)
(* dispatch function knows: the switch of compositeDispatch hides none.     *)
THEOREM NotFoundMeansUnservedHolds == Spec => []NotFoundMeansUnserved
<1>1. Init => TakenInv /\ CallInv /\ FreshInv /\ DownInv /\ NoCallAfterShutdown /\ NotFoundInv
  <2>1. Init => Responses = {}
    BY DEF Init, Out!LineStreamInit, Responses, Decodable
  <2> QED
    BY <2>1 DEF Init, TakenInv, CallInv, FreshInv, DownInv, NoCallAfterShutdown,
                NotFoundInv, NotFoundMeansUnserved
<1>2. /\ TypeOK /\ OrderInv /\ TakenInv /\ CallInv /\ FreshInv /\ DownInv
      /\ NoCallAfterShutdown /\ NotFoundInv /\ [Next]_vars
      => (TakenInv /\ CallInv /\ FreshInv /\ DownInv /\ NoCallAfterShutdown /\ NotFoundInv)'
  BY TakenStep, CallStep, FreshStep, DownStep, NotFoundStep DEF OrderInv
<1>3. NotFoundInv => NotFoundMeansUnserved
  BY DEF NotFoundInv
<1> QED
  BY <1>1, <1>2, <1>3, OrderInit, OrderStep, TypeCorrect, PTL DEF Spec
------------------------------------------------------------------------------
(* Parameters.                                                              *)

(* The dispatch tables and the payload types agree, kind by kind.           *)
LEMMA PayloadsAgree ==
  ASSUME NEW k \in Kinds, NEW m \in DOMAIN Dispatch[k], NEW p \in Params
  PROVE  Decodes(Dispatch[k][m].params, p) <=> Suits(m, p)
<1> USE DEF Dispatch, Entry, Decodes, Suits, NeedsParams, NoPayload, Params,
            ChannelMethods, ProviderMethods, ServiceMethods
<1>1. CASE k = "channel"
  BY <1>1 DEF DispatchChannel
<1>2. CASE k = "provider"
  BY <1>2 DEF DispatchProvider
<1>3. CASE k = "tool"
  BY <1>3 DEF DispatchTool
<1>4. CASE k = "tts"
  BY <1>4 DEF DispatchTTS, TTSMethods
<1>5. CASE k = "stt"
  BY <1>5 DEF DispatchSTT, STTMethods
<1>6. CASE k = "hook"
  BY <1>6 DEF DispatchHook
<1>7. CASE k = "http"
  BY <1>7 DEF DispatchHTTP
<1>8. CASE k = "service"
  BY <1>8 DEF DispatchService
<1> QED
  BY <1>1, <1>2, <1>3, <1>4, <1>5, <1>6, <1>7, <1>8 DEF Kinds

(* What the loop hands over, and what it refuses.                           *)
Decided ==
  /\ pc = "method" => Suits(req.method, req.params)
  /\ pc = "reply" /\ req.form = "request" /\ req.method \notin Lifecycle
       /\ reply.code = "InvalidParams" => ~Suits(req.method, req.params)

ParamsInv == ParamsAsDeclared /\ Decided

LEMMA EnterDecides ==
  ASSUME TypeOK, Enter
  PROVE  /\ req' = req
         /\ pc' = "method" => Suits(req.method, req.params)
         /\ pc' = "reply" /\ req.method \notin Lifecycle /\ reply'.code = "InvalidParams"
              => ~Suits(req.method, req.params)
<1> USE DEF Answer, Send, Goto, Response
<1>p. req.params \in Params
  BY DEF TypeOK, Line
<1>1. CASE Cancelled \/ EnterInitialize \/ EnterShutdown
  BY <1>1 DEF Enter, Cancelled, EnterInitialize, EnterShutdown, Live, Lifecycle
<1>2. CASE EnterMethod
  <2>1. CASE Answer("MethodNotFound", TRUE)
    BY <1>2, <2>1 DEF Enter
  <2>2. ASSUME NEW k \in Handler(req.method), req.method \in DOMAIN Dispatch[k],
               IF Decodes(Dispatch[k][req.method].params, req.params)
                 THEN Goto("method") ELSE Answer("InvalidParams", TRUE)
        PROVE  /\ pc' = "method" => Suits(req.method, req.params)
               /\ pc' = "reply" => ~Suits(req.method, req.params)
    <3>1. k \in Kinds
      BY RunnerAssumption DEF Handler
    <3>2. Decodes(Dispatch[k][req.method].params, req.params) <=> Suits(req.method, req.params)
      BY <1>p, <2>2, <3>1, PayloadsAgree
    <3> QED
      BY <2>2, <3>2
  <2> QED
    BY <1>2, <2>1, <2>2 DEF Enter, EnterMethod
<1> QED
  BY <1>1, <1>2 DEF Enter

LEMMA DecidedStep ==
  ASSUME TypeOK, OrderInv, FreshInv, DownInv, Decided, [Next]_vars
  PROVE  Decided'
<1>1. pc' = "method" => Suits(req'.method, req'.params)
  <2>1. CASE Enter
    BY <2>1, EnterDecides
  <2>2. CASE ~Enter
    <3>1. pc' = "method" => pc = "method" /\ req' = req
      BY <2>2, ReadShape, HandleShape, ReplyShape, EnvironmentShape
         DEF Next, LoopStep, Emit, GoroutinePanics, Idle, vars, loopVars, Send, Answer
    <3> QED
      BY <3>1 DEF Decided
  <2> QED
    BY <2>1, <2>2
<1>2. ASSUME pc' = "reply", req'.form = "request", req'.method \notin Lifecycle,
             reply'.code = "InvalidParams"
      PROVE  ~Suits(req'.method, req'.params)
  <2>1. CASE Enter
    BY <1>2, <2>1, EnterDecides
  <2>2. ~Read
    BY <1>2, ReadShape DEF Send
  <2>3. ~Reply
    <3> SUFFICES ASSUME Reply PROVE FALSE
      OBVIOUS
    <3>1. Answer("Internal", FALSE)
      BY <1>2, ReplyShape
    <3>2. Response(req.id, "Internal", << >>).code = "Internal"
      BY DEF Response
    <3> QED
      BY <1>2, <3>1, <3>2 DEF Answer, Send
  <2>4. ~Handle
    <3> SUFFICES ASSUME Handle PROVE FALSE
      OBVIOUS
    <3>1. req' = req /\ pc = "method"
      BY <1>2, HandleShape DEF FreshInv, DownInv, Lifecycle
    <3>2. calls' # calls
      BY <3>1, HandleCases
    <3> QED
      BY <1>2, <3>1, <3>2, ReplyStarts
  <2>5. CASE ~(Read \/ Enter \/ Handle \/ Reply)
    <3>1. UNCHANGED <<pc, req, reply>>
      BY <1>2, <2>5, EnvironmentShape
         DEF Next, LoopStep, Emit, GoroutinePanics, Idle, vars, loopVars
    <3> QED
      BY <1>2, <3>1 DEF Decided
  <2> QED
    BY <2>1, <2>2, <2>3, <2>4, <2>5
<1> QED
  BY <1>1, <1>2 DEF Decided

(* A handler is called for the request whose parameters were looked at.     *)
LEMMA CalledSuitably ==
  ASSUME TypeOK, TakenInv, CallInv, FreshInv, DownInv, NumberInv, ParamsInv, [Next]_vars,
         NEW r \in taken', r.method \notin Lifecycle, CallsFor(r.id)' # {}
  PROVE  Suits(r.method, r.params)
<1>t. req.id \in Nat /\ \A q \in taken : q.id \in Nat
  BY RunnerAssumption DEF TypeOK, Line
<1>c. \A i \in 1 .. Len(calls) : calls[i].id \in Nat
  <2>1. \A i \in 1 .. Len(calls) : calls[i] \in Call
    BY DEF TypeOK
  <2> QED
    BY <2>1, RunnerAssumption DEF Call
<1>1. CASE calls' = calls
  <2>1. CallsFor(r.id)' = CallsFor(r.id)
    BY <1>1, SameCalls
  <2>2. r \in taken
    <3>1. CASE r \notin taken
      <4>1. r = req' /\ req'.id > req.id /\ req'.id \in Nat
        BY <3>1, ReqStep
      <4> QED
        BY <1>t, <1>c, <2>1, <4>1 DEF CallInv, CallsFor
    <3> QED
      BY <3>1
  <2> QED
    BY <2>1, <2>2 DEF ParamsInv, ParamsAsDeclared, Lifecycle
<1>2. CASE calls' # calls
  <2>1. PICK k, out : Called(pc, k, out) /\ Handle /\ AtHandler
    BY <1>2, CallsStep
  <2>2. req' = req /\ taken' = taken
    BY <2>1, HandleShape
  <2>3. CASE r.id = req.id
    <3>1. r = req
      BY <2>2, <2>3 DEF TakenInv
    <3> QED
      BY <2>1, <3>1 DEF AtHandler, FreshInv, DownInv, Lifecycle, ParamsInv, Decided
  <2>4. CASE r.id # req.id
    <3>1. CallsFor(r.id)' = CallsFor(r.id)
      BY <2>1, <2>2, <2>4, CalledMine
    <3> QED
      BY <2>2, <3>1 DEF ParamsInv, ParamsAsDeclared, Lifecycle
  <2> QED
    BY <2>3, <2>4
<1> QED
  BY <1>1, <1>2

LEMMA ParamsStep ==
  ASSUME TypeOK, OrderInv, TakenInv, CallInv, FreshInv, DownInv, ParamsInv, [Next]_vars
  PROVE  ParamsInv'
<1>1. ASSUME NEW r \in taken', r.method \notin Lifecycle
      PROVE  /\ CallsFor(r.id)' # {} => Suits(r.method, r.params)
             /\ \A i \in Responses' : (Msg(i)'.id = r.id /\ Msg(i)'.code = "InvalidParams")
                  => ~Suits(r.method, r.params)
  <2>1. CallsFor(r.id)' # {} => Suits(r.method, r.params)
    BY <1>1, CalledSuitably DEF OrderInv
  <2>2. ASSUME NEW i \in Responses', Msg(i)'.id = r.id, Msg(i)'.code = "InvalidParams"
        PROVE  ~Suits(r.method, r.params)
    <3>1. CASE i \in Responses /\ Msg(i)' = Msg(i) /\ r \in taken
      BY <1>1, <2>2, <3>1 DEF ParamsInv, ParamsAsDeclared, Lifecycle
    <3>2. CASE /\ pc = "reply" /\ Msg(i)' = reply
               /\ r \in taken /\ (r.id = reply.id => r = req /\ req.form = "request")
      BY <1>1, <2>2, <3>2 DEF ParamsInv, Decided
    <3> QED
      BY <2>2, <3>1, <3>2, OldOrNew
  <2> QED
    BY <2>1, <2>2
<1>2. Decided'
  BY DecidedStep DEF ParamsInv
<1> QED
  BY <1>1, <1>2 DEF ParamsInv, ParamsAsDeclared, Lifecycle

(* Whatever the dispatch functions are asked: no handler is called with     *)
(* parameters that do not suit its method, and no request whose parameters  *)
(* do is refused on their account.                                          *)
THEOREM ParamsAsDeclaredHolds == Spec => []ParamsAsDeclared
<1>1. Init => TakenInv /\ CallInv /\ FreshInv /\ DownInv /\ NoCallAfterShutdown /\ ParamsInv
  BY DEF Init, TakenInv, CallInv, FreshInv, DownInv, NoCallAfterShutdown,
         ParamsInv, ParamsAsDeclared, Decided
<1>2. /\ TypeOK /\ OrderInv /\ TakenInv /\ CallInv /\ FreshInv /\ DownInv
      /\ NoCallAfterShutdown /\ ParamsInv /\ [Next]_vars
      => (TakenInv /\ CallInv /\ FreshInv /\ DownInv /\ NoCallAfterShutdown /\ ParamsInv)'
  BY TakenStep, CallStep, FreshStep, DownStep, ParamsStep DEF OrderInv
<1>3. ParamsInv => ParamsAsDeclared
  BY DEF ParamsInv
<1> QED
  BY <1>1, <1>2, <1>3, OrderInit, OrderStep, TypeCorrect, PTL DEF Spec
------------------------------------------------------------------------------
(* Initializing.                                                            *)

LEMMA RankOrder == \A j, k \in Kinds : Rank[j] \in Nat /\ (Rank[j] = Rank[k] => j = k)
  BY DEF Kinds, Rank

(* The walk of an initialize has called those it is past, once and without  *)
(* an error, and merged what they returned in the order of run.go.          *)
WalkInv ==
  /\ \A k \in Registered : IF k \in todo THEN MineOf(k) = {} ELSE Once(k)
  /\ \A j \in Registered \ todo, k \in todo : Rank[j] < Rank[k]
  /\ \A c \in Mine : /\ calls[c].kind \in Registered \ todo
                     /\ calls[c].out # "err"
                     /\ encodable => calls[c].out # "unencodable"
  /\ \A k \in Kinds : (\E n \in 1 .. Len(merged) : merged[n] = k)
                        <=> (\E c \in MineOf(k) : calls[c].out \in {"ok", "unencodable"})
  /\ \A m, n \in 1 .. Len(merged) : m < n => Rank[merged[m]] < Rank[merged[n]]

LEMMA WalkStarts ==
  ASSUME Enter, FreshInv, pc' = "initialize"
  PROVE  WalkInv'
<1>1. Mine' = {} /\ \A k : MineOf(k)' = {}
  BY EnterShape, SameCalls DEF FreshInv, MineOf, Mine
<1>2. todo' = Registered /\ merged' = << >>
  BY DEF Enter, Cancelled, EnterInitialize, EnterShutdown, EnterMethod, Goto, Answer, Send,
         NoRegistrations
<1> QED
  BY <1>1, <1>2 DEF WalkInv

(* One more handler has been called.                                        *)
LEMMA WalkCalls ==
  ASSUME TypeOK, WalkInv, NEW k \in Kinds, NEW out,
         First(k), Called("initialize", k, out), req' = req
  PROVE  LET n == Len(calls) + 1
         IN  /\ Mine' = Mine \cup {n} /\ n \notin Mine
             /\ \A c \in Mine : calls'[c] = calls[c]
             /\ calls'[n].kind = k /\ calls'[n].out = out
             /\ MineOf(k) = {} /\ MineOf(k)' = {n}
             /\ \A j \in Kinds : j # k => MineOf(j)' = MineOf(j)
<1> DEFINE n == Len(calls) + 1
<1>1. /\ Mine' = Mine \cup {n} /\ Mine \subseteq 1 .. Len(calls)
      /\ \A i \in 1 .. Len(calls) : calls'[i] = calls[i]
      /\ calls'[n].kind = k /\ calls'[n].out = out /\ Len(calls) \in Nat
  BY CalledMine
<1>2. n \notin Mine /\ \A c \in Mine : calls'[c] = calls[c]
  BY <1>1
<1>3. \A j : MineOf(j)' = IF j = k THEN MineOf(j) \cup {n} ELSE MineOf(j)
  BY <1>1, <1>2 DEF MineOf
<1>4. MineOf(k) = {}
  BY DEF First, WalkInv, TypeOK
<1> QED
  BY <1>1, <1>2, <1>3, <1>4

LEMMA WalkGoesOn ==
  ASSUME TypeOK, WalkInv, InitializeHandler, req' = req, pc' = "initialize"
  PROVE  WalkInv'
<1>1. PICK k \in Kinds, out \in {"nil", "ok", "unencodable"} :
        /\ First(k) /\ todo' = todo \ {k} /\ Called("initialize", k, out)
        /\ out = "nil" => UNCHANGED <<merged, encodable>>
        /\ out # "nil" => /\ merged' = Append(merged, k)
                          /\ encodable' = (encodable /\ out = "ok")
  BY DEF InitializeHandler, Answer, Send
<1> DEFINE n == Len(calls) + 1
<1>2. /\ Mine' = Mine \cup {n} /\ n \notin Mine
      /\ \A c \in Mine : calls'[c] = calls[c]
      /\ calls'[n].kind = k /\ calls'[n].out = out
      /\ MineOf(k) = {} /\ MineOf(k)' = {n}
      /\ \A j \in Kinds : j # k => MineOf(j)' = MineOf(j)
  BY <1>1, WalkCalls
<1>t. k \in Registered /\ k \in todo /\ todo \subseteq Registered /\ Registered \subseteq Kinds
  BY <1>1, RunnerAssumption DEF First, TypeOK
<1>3. \A j \in Registered : IF j \in todo' THEN MineOf(j)' = {} ELSE Once(j)'
  <2> TAKE j \in Registered
  <2>1. CASE j = k
    BY <1>1, <1>2, <2>1 DEF Once
  <2>2. CASE j # k
    <3>1. MineOf(j)' = MineOf(j) /\ (j \in todo' <=> j \in todo)
      BY <1>1, <1>2, <1>t, <2>2
    <3>2. IF j \in todo THEN MineOf(j) = {} ELSE Once(j)
      BY DEF WalkInv
    <3>3. Once(j) => Once(j)'
      BY <3>1 DEF Once
    <3> QED
      BY <3>1, <3>2, <3>3
  <2> QED
    BY <2>1, <2>2
<1>4. \A i \in Registered \ todo', j \in todo' : Rank[i] < Rank[j]
  <2>1. \A j \in todo' : Rank[k] < Rank[j]
    BY <1>1, <1>t, RankOrder DEF First
  <2> QED
    BY <1>1, <2>1 DEF WalkInv
<1>5. \A c \in Mine' : /\ calls'[c].kind \in Registered \ todo'
                       /\ calls'[c].out # "err"
                       /\ encodable' => calls'[c].out # "unencodable"
  <2>1. CASE out = "nil"
    BY <1>1, <1>2, <1>t, <2>1 DEF WalkInv
  <2>2. CASE out # "nil"
    BY <1>1, <1>2, <1>t, <2>2 DEF WalkInv
  <2> QED
    BY <2>1, <2>2
<1>m. merged \in Seq(Kinds)
  BY DEF TypeOK
<1>6. \A j \in Kinds : (\E i \in 1 .. Len(merged') : merged'[i] = j)
                         <=> (\E c \in MineOf(j)' : calls'[c].out \in {"ok", "unencodable"})
  <2> TAKE j \in Kinds
  <2>1. (\E i \in 1 .. Len(merged') : merged'[i] = j)
          <=> (\E i \in 1 .. Len(merged) : merged[i] = j) \/ (j = k /\ out # "nil")
    BY <1>1, <1>m
  <2>2. (\E c \in MineOf(j)' : calls'[c].out \in {"ok", "unencodable"})
          <=> (\E c \in MineOf(j) : calls[c].out \in {"ok", "unencodable"})
              \/ (j = k /\ out # "nil")
    BY <1>1, <1>2 DEF MineOf
  <2> QED
    BY <2>1, <2>2 DEF WalkInv
<1>7. \A i, j \in 1 .. Len(merged') : i < j => Rank[merged'[i]] < Rank[merged'[j]]
  <2>1. CASE out = "nil"
    BY <1>1, <2>1 DEF WalkInv
  <2>2. CASE out # "nil"
    <3>1. ASSUME NEW i \in 1 .. Len(merged) PROVE Rank[merged[i]] < Rank[k]
      <4>1. PICK c \in MineOf(merged[i]) : TRUE
        BY <1>m DEF WalkInv
      <4>2. merged[i] \in Registered \ todo
        BY <4>1 DEF MineOf, WalkInv
      <4> QED
        BY <1>t, <4>2 DEF WalkInv
    <3> QED
      BY <1>1, <1>m, <2>2, <3>1 DEF WalkInv
  <2> QED
    BY <2>1, <2>2
<1> QED
  BY <1>3, <1>4, <1>5, <1>6, <1>7 DEF WalkInv
(* The walk has ended without an error, and what it merged can be sent.     *)
For(id, k) == {c \in CallsFor(id) : calls[c].kind = k}
Complete(id, regs) ==
  /\ \A k \in Registered : \E c \in For(id, k) : For(id, k) = {c} /\ calls[c].out # "err"
  /\ \A k \in Kinds :
       (\E n \in 1 .. Len(regs) : regs[n] = k) <=> (\E c \in For(id, k) : calls[c].out = "ok")
  /\ \A m, n \in 1 .. Len(regs) : m < n => Rank[regs[m]] < Rank[regs[n]]

(* The walk has ended at the first handler that failed.                     *)
Failed(id) ==
  \E c \in CallsFor(id) :
    /\ calls[c].out = "err"
    /\ \A k \in Registered :
         (\E d \in CallsFor(id) : calls[d].kind = k) <=> Rank[k] <= Rank[calls[c].kind]

LEMMA WalkCompletes ==
  ASSUME WalkInv, todo = {}, encodable
  PROVE  Complete(req.id, merged)
<1>1. \A k : For(req.id, k) = MineOf(k)
  BY DEF MineOf, Mine, For
<1>2. ASSUME NEW k \in Registered PROVE \E c \in MineOf(k) : MineOf(k) = {c} /\ calls[c].out # "err"
  <2>1. PICK c : MineOf(k) = {c}
    BY DEF WalkInv, Once
  <2>2. c \in Mine
    BY <2>1 DEF MineOf
  <2> QED
    BY <2>1, <2>2 DEF WalkInv
<1>3. ASSUME NEW k \in Kinds
      PROVE  (\E n \in 1 .. Len(merged) : merged[n] = k)
               <=> (\E c \in MineOf(k) : calls[c].out = "ok")
  <2>1. \A c \in MineOf(k) : calls[c].out # "unencodable"
    BY DEF WalkInv, MineOf
  <2> QED
    BY <2>1 DEF WalkInv
<1> QED
  BY <1>1, <1>2, <1>3 DEF Complete, WalkInv

LEMMA WalkFails ==
  ASSUME TypeOK, WalkInv, FreshInv, InitializeHandler, req' = req, pc' = "reply"
  PROVE  Failed(req.id)' /\ reply'.id = req.id
<1>1. PICK k \in Kinds : First(k) /\ Called("initialize", k, "err") /\ Answer("NotReady", FALSE)
  BY DEF InitializeHandler
<1> DEFINE n == Len(calls) + 1
<1>2. /\ Mine' = Mine \cup {n} /\ n \notin Mine
      /\ \A c \in Mine : calls'[c] = calls[c]
      /\ calls'[n].kind = k /\ calls'[n].out = "err"
  BY <1>1, WalkCalls
<1>t. k \in todo /\ todo \subseteq Registered /\ Registered \subseteq Kinds
  BY <1>1, RunnerAssumption DEF First, TypeOK
<1>3. ASSUME NEW j \in Registered
      PROVE  (\E d \in Mine' : calls'[d].kind = j) <=> Rank[j] <= Rank[k]
  <2>1. CASE j = k
    BY <1>2, <1>t, <2>1, RankOrder
  <2>2. CASE j \in todo /\ j # k
    <3>1. ~(Rank[j] <= Rank[k])
      BY <1>1, <1>t, <2>2, RankOrder DEF First
    <3>2. \A d \in Mine : calls[d].kind # j
      BY <2>2 DEF WalkInv
    <3> QED
      BY <1>2, <2>2, <3>1, <3>2
  <2>3. CASE j \notin todo
    <3>1. Rank[j] <= Rank[k]
      BY <1>t, <2>3, RankOrder DEF WalkInv
    <3>2. PICK d : MineOf(j) = {d}
      BY <2>3 DEF WalkInv, Once
    <3>3. d \in Mine /\ calls[d].kind = j
      BY <3>2 DEF MineOf
    <3> QED
      BY <1>2, <3>1, <3>3
  <2> QED
    BY <2>1, <2>2, <2>3
<1>4. Mine' = CallsFor(req.id)'
  BY DEF Mine
<1>5. Failed(req.id)'
  BY <1>2, <1>3, <1>4 DEF Failed
<1>6. reply'.id = req.id
  BY <1>1 DEF Answer, Send, Response
<1> QED
  BY <1>5, <1>6

LEMMA InitStays ==
  ASSUME NEW id, NEW regs, CallsFor(id)' = CallsFor(id),
         \A c \in CallsFor(id) : calls'[c] = calls[c]
  PROVE  (Complete(id, regs) => Complete(id, regs)') /\ (Failed(id) => Failed(id)')
BY DEF Complete, Failed, For

InitInv ==
  /\ pc = "initialize" => WalkInv
  /\ InitializeComplete /\ NotReadyStopsInitialize
  /\ pc = "reply" => /\ (req.form = "request" /\ req.method = "initialize" /\ reply.code = "ok")
                          => Complete(req.id, reply.regs)
                     /\ reply.code = "NotReady" => Failed(reply.id)

LEMMA WalkStep ==
  ASSUME TypeOK, FreshInv, InitInv, [Next]_vars, pc' = "initialize"
  PROVE  WalkInv'
<1>1. CASE Enter
  BY <1>1, WalkStarts
<1>2. CASE InitializeHandler /\ req' = req
  BY <1>2, WalkGoesOn DEF InitInv, InitializeHandler
<1>3. CASE UNCHANGED <<pc, req, todo, merged, encodable, calls>>
  <2>1. WalkInv
    BY <1>3 DEF InitInv
  <2>2. Mine' = Mine /\ (\A k : MineOf(k)' = MineOf(k)) /\ (\A k : Once(k)' <=> Once(k))
    BY <1>3, SameCalls DEF Once
  <2> QED
    BY <1>3, <2>1, <2>2 DEF WalkInv
<1>4. Handle => req' = req
  BY HandleShape
<1> QED
  BY <1>1, <1>2, <1>3, <1>4, ReadShape, ReplyShape, EnvironmentShape
     DEF Next, LoopStep, Handle, InitializeDone, MethodReturns, ShutdownHandler, ShutdownDone,
         HandlerPanics, AfterPanic, Emit, GoroutinePanics, Idle, vars, loopVars, walkVars,
         Send, Goto, Answer
LEMMA InitMeans ==
  /\ InitializeComplete <=>
       \A i \in Responses, r \in taken :
         (Msg(i).id = r.id /\ Msg(i).code = "ok" /\ r.method = "initialize")
           => Complete(r.id, Msg(i).regs)
  /\ NotReadyStopsInitialize <=>
       \A i \in Responses : Msg(i).code = "NotReady" => Failed(Msg(i).id)
<1>1. InitializeComplete <=>
        \A i \in Responses, r \in taken :
          (Msg(i).id = r.id /\ Msg(i).code = "ok" /\ r.method = "initialize")
            => Complete(r.id, Msg(i).regs)
  BY DEF InitializeComplete, Complete, For
<1>2. NotReadyStopsInitialize <=>
        \A i \in Responses : Msg(i).code = "NotReady" => Failed(Msg(i).id)
  BY DEF NotReadyStopsInitialize, Failed
<1> QED
  BY <1>1, <1>2

LEMMA InitStep ==
  ASSUME TypeOK, OrderInv, TakenInv, FreshInv, DownInv, InitInv, [Next]_vars
  PROVE  InitInv'
<1>1. ASSUME NEW i \in Responses', NEW r \in taken', Msg(i)'.id = r.id,
             Msg(i)'.code = "ok", r.method = "initialize"
      PROVE  Complete(r.id, Msg(i).regs)'
  <2>1. CASE /\ i \in Responses /\ Msg(i)' = Msg(i)
             /\ CallsFor(Msg(i).id)' = CallsFor(Msg(i).id)
             /\ \A c \in CallsFor(Msg(i).id) : calls'[c] = calls[c]
             /\ r \in taken
    <3>1. PICK id, regs : id = Msg(i).id /\ regs = Msg(i).regs
      OBVIOUS
    <3>2. Complete(id, regs) /\ id = r.id
      BY <1>1, <2>1, <3>1, InitMeans DEF InitInv
    <3>3. CallsFor(id)' = CallsFor(id) /\ \A c \in CallsFor(id) : calls'[c] = calls[c]
      <4>1. CallsFor(id)' = CallsFor(Msg(i).id)'
        BY <2>1, <3>1
      <4> QED
        BY <2>1, <3>1, <4>1
    <3>4. Complete(id, regs)'
      BY <3>2, <3>3, InitStays
    <3> QED
      BY <2>1, <3>1, <3>2, <3>4
  <2>2. CASE /\ pc = "reply" /\ Msg(i)' = reply /\ calls' = calls
             /\ r \in taken /\ (r.id = reply.id => r = req /\ req.form = "request")
    <3>1. PICK id, regs : id = reply.id /\ regs = reply.regs
      OBVIOUS
    <3>2. r = req /\ id = req.id /\ Complete(id, regs)
      BY <1>1, <2>2, <3>1 DEF InitInv
    <3>3. Complete(id, regs)'
      BY <2>2, <3>2, SameCalls, InitStays
    <3> QED
      BY <2>2, <3>1, <3>2, <3>3
  <2> QED
    BY <1>1, <2>1, <2>2, OldOrNew
<1>2. ASSUME NEW i \in Responses', Msg(i)'.code = "NotReady"
      PROVE  Failed(Msg(i).id)'
  <2>1. CASE /\ i \in Responses /\ Msg(i)' = Msg(i)
             /\ CallsFor(Msg(i).id)' = CallsFor(Msg(i).id)
             /\ \A c \in CallsFor(Msg(i).id) : calls'[c] = calls[c]
    <3>1. PICK id : id = Msg(i).id
      OBVIOUS
    <3>2. Failed(id)
      BY <1>2, <2>1, <3>1, InitMeans DEF InitInv
    <3>3. CallsFor(id)' = CallsFor(id) /\ \A c \in CallsFor(id) : calls'[c] = calls[c]
      <4>1. CallsFor(id)' = CallsFor(Msg(i).id)'
        BY <2>1, <3>1
      <4> QED
        BY <2>1, <3>1, <4>1
    <3>4. Failed(id)'
      BY <3>2, <3>3, InitStays
    <3> QED
      BY <2>1, <3>1, <3>4
  <2>2. CASE pc = "reply" /\ Msg(i)' = reply /\ calls' = calls
    <3>1. PICK id : id = reply.id
      OBVIOUS
    <3>2. Failed(id)
      BY <1>2, <2>2, <3>1 DEF InitInv
    <3>3. Failed(id)'
      BY <2>2, <3>2, SameCalls, InitStays
    <3> QED
      BY <2>2, <3>1, <3>3
  <2> QED
    BY <1>2, <2>1, <2>2, OldOrNew
<1>3. ASSUME pc' = "reply", req'.form = "request", req'.method = "initialize",
             reply'.code = "ok"
      PROVE  Complete(req.id, reply.regs)'
  <2>1. CASE UNCHANGED <<pc, req, reply, calls>>
    <3>1. PICK id, regs : id = req.id /\ regs = reply.regs
      OBVIOUS
    <3>2. Complete(id, regs)
      BY <1>3, <2>1, <3>1 DEF InitInv
    <3>3. Complete(id, regs)'
      BY <2>1, <3>2, SameCalls, InitStays
    <3> QED
      BY <2>1, <3>1, <3>3
  <2>2. CASE /\ req' = req /\ pc = "initialize" /\ todo = {} /\ encodable
             /\ calls' = calls /\ reply'.regs = merged
    <3>1. PICK id, regs : id = req.id /\ regs = merged
      OBVIOUS
    <3>2. Complete(id, regs)
      BY <2>2, <3>1, WalkCompletes DEF InitInv
    <3>3. Complete(id, regs)'
      BY <2>2, <3>2, SameCalls, InitStays
    <3> QED
      BY <2>2, <3>1, <3>3
  <2> QED
    BY <1>3, <2>1, <2>2, ReplyStarts DEF Lifecycle
<1>4. ASSUME pc' = "reply", reply'.code = "NotReady"
      PROVE  Failed(reply.id)'
  <2>1. CASE UNCHANGED <<pc, req, reply, calls>>
    <3>1. PICK id : id = reply.id
      OBVIOUS
    <3>2. Failed(id)
      BY <1>4, <2>1, <3>1 DEF InitInv
    <3>3. Failed(id)'
      BY <2>1, <3>2, SameCalls, InitStays
    <3> QED
      BY <2>1, <3>1, <3>3
  <2>2. CASE req' = req /\ pc = "initialize" /\ InitializeHandler
    <3>1. Failed(req.id)' /\ reply'.id = req.id
      BY <1>4, <2>2, WalkFails DEF InitInv
    <3> QED
      BY <2>2, <3>1
  <2> QED
    BY <1>4, <2>1, <2>2, ReplyStarts
<1>5. pc' = "initialize" => WalkInv'
  BY WalkStep
<1>6. InitializeComplete'
  BY <1>1 DEF InitializeComplete, Complete, For
<1>7. NotReadyStopsInitialize'
  BY <1>2 DEF NotReadyStopsInitialize, Failed
<1> QED
  BY <1>3, <1>4, <1>5, <1>6, <1>7 DEF InitInv

LEMMA InitInvInvariant == Spec => []InitInv
<1>1. Init => TakenInv /\ CallInv /\ FreshInv /\ DownInv /\ NoCallAfterShutdown /\ InitInv
  <2>1. Init => Responses = {}
    BY DEF Init, Out!LineStreamInit, Responses, Decodable
  <2> QED
    BY <2>1 DEF Init, TakenInv, CallInv, FreshInv, DownInv, NoCallAfterShutdown,
                InitInv, InitializeComplete, NotReadyStopsInitialize
<1>2. /\ TypeOK /\ OrderInv /\ TakenInv /\ CallInv /\ FreshInv /\ DownInv
      /\ NoCallAfterShutdown /\ InitInv /\ [Next]_vars
      => (TakenInv /\ CallInv /\ FreshInv /\ DownInv /\ NoCallAfterShutdown /\ InitInv)'
  BY TakenStep, CallStep, FreshStep, DownStep, InitStep DEF OrderInv
<1> QED
  BY <1>1, <1>2, OrderInit, OrderStep, TypeCorrect, PTL DEF Spec

(* A host that is told "initialized" may rely on every handler having been  *)
(* initialized, once, for this request, and on the registrations listed.    *)
THEOREM InitializeCompleteHolds == Spec => []InitializeComplete
<1>1. InitInv => InitializeComplete
  BY DEF InitInv
<1> QED
  BY <1>1, InitInvInvariant, PTL

(* A host that is told "not ready" may rely on one handler having failed,   *)
(* the ones before it being initialized, and no later one having been asked. *)
THEOREM NotReadyStopsInitializeHolds == Spec => []NotReadyStopsInitialize
<1>1. InitInv => NotReadyStopsInitialize
  BY DEF InitInv
<1> QED
  BY <1>1, InitInvInvariant, PTL
==============================================================================
