---------------------------- MODULE RunnerProofs ----------------------------
(***************************************************************************)
(* What module Runner promises for every set of handlers, every repertoire *)
(* of the host and every number of requests and notifications.             *)
(***************************************************************************)
EXTENDS Runner, TLAPS
------------------------------------------------------------------------------
(* The two tables of module Routing.                                        *)

(* The switch of compositeDispatch and the dispatch functions agree: a case *)
(* sends a method to a kind exactly when the dispatch function of that kind *)
(* knows the method, and the code it sends for a handler's error is one of  *)
(* the protocol's that says neither success nor that no method was called.  *)
LEMMA TablesAgree ==
  ASSUME NEW k \in Kinds, NEW m
  PROVE  /\ Case(k, m) <=> m \in DOMAIN Dispatch[k]
         /\ m \in DOMAIN Dispatch[k] =>
              Dispatch[k][m].fail \in
                Codes \ {"ok", "MethodNotFound", "InvalidParams", "NotReady"}
<1> USE DEF Case, Dispatch, Entry, Codes
<1>1. CASE k = "channel"
  BY <1>1 DEF DispatchChannel, ChannelMethods
<1>2. CASE k = "provider"
  BY <1>2 DEF DispatchProvider, ProviderMethods
<1>3. CASE k = "tool"
  BY <1>3 DEF DispatchTool
<1>4. CASE k = "tts"
  BY <1>4 DEF DispatchTTS, TTSMethods
<1>5. CASE k = "stt"
  BY <1>5 DEF DispatchSTT, STTMethods
<1>6. CASE k = "hook"
  BY <1>6 DEF DispatchHook
<1>7. CASE k = "http"
  BY <1>7 DEF DispatchHTTP
<1>8. CASE k = "service"
  BY <1>8 DEF DispatchService, ServiceMethods
<1> QED
  BY <1>1, <1>2, <1>3, <1>4, <1>5, <1>6, <1>7, <1>8 DEF Kinds

(* No method is claimed by two kinds, so that it does not matter which case *)
(* of compositeDispatch is tried first, and every method constant of the    *)
(* protocol but those of voice is served by the dispatch function of a kind.*)
THEOREM OneHandlerPerMethod ==
  /\ \A m, j, k : Case(j, m) /\ Case(k, m) => j = k
  /\ \A m \in Methods \ {"initialize", "shutdown"} :
       (\E k \in Kinds : Case(k, m) /\ m \in DOMAIN Dispatch[k]) <=> m \notin VoiceMethods
<1>1. ASSUME NEW m, NEW j, NEW k, Case(j, m), Case(k, m)
      PROVE  j = k
  BY <1>1 DEF Case
<1>2. ASSUME NEW m \in Methods \ {"initialize", "shutdown"}
      PROVE  (\E k \in Kinds : Case(k, m)) <=> m \notin VoiceMethods
  <2>1. ASSUME NEW k \in Kinds, Case(k, m)
        PROVE  m \notin VoiceMethods
    BY <2>1 DEF Case, VoiceMethods
  <2>2. ASSUME m \notin VoiceMethods
        PROVE  \E k \in Kinds : Case(k, m)
    BY <2>2 DEF Case, Kinds, Methods, VoiceMethods, ChannelMethods, ProviderMethods,
       TTSMethods, STTMethods, ServiceMethods
  <2> QED
    BY <2>1, <2>2
<1>3. \A m : \A k \in Kinds : Case(k, m) => m \in DOMAIN Dispatch[k]
  BY TablesAgree
<1> QED
  BY <1>1, <1>2, <1>3
------------------------------------------------------------------------------
(* Types.                                                                   *)

LEMMA ResponseIsMessage ==
  ASSUME NEW id \in 0 .. MaxLines, NEW code \in Codes, NEW regs \in Seq(Kinds)
  PROVE  Response(id, code, regs) \in Message
  BY DEF Response, Message

LEMMA NotificationIsMessage == Notification \in Message
<1>1. 0 \in 0 .. MaxLines
  BY RunnerAssumption
<1> QED
  BY <1>1 DEF Notification, Message, Codes

LEMMA WriteTypes ==
  ASSUME Out!LineStreamTypeOK, NEW m \in Message, Out!WriteOk(m) \/ Out!WriteFails(m)
  PROVE  Out!LineStreamTypeOK'
<1>1. Out!Whole(m) \in Out!Fragment /\ Out!Part(m) \in Out!Fragment
  BY DEF Out!Whole, Out!Part, Out!Fragment
<1>2. CASE Out!WriteOk(m)
  <2>1. Append(tail, Out!Whole(m)) \in Seq(Out!Fragment)
    BY <1>1 DEF Out!LineStreamTypeOK
  <2>2. done' \in Seq(Seq(Out!Fragment))
    BY <1>2, <2>1 DEF Out!WriteOk, Out!LineStreamTypeOK
  <2> QED
    BY <1>2, <2>2 DEF Out!WriteOk, Out!LineStreamTypeOK
<1>3. CASE Out!WriteFails(m)
  <2>1. /\ Append(tail, Out!Whole(m)) \in Seq(Out!Fragment)
        /\ Append(tail, Out!Part(m)) \in Seq(Out!Fragment)
    BY <1>1 DEF Out!LineStreamTypeOK
  <2>2. tail' \in Seq(Out!Fragment)
    BY <1>3, <2>1 DEF Out!WriteFails, Out!LineStreamTypeOK
  <2> QED
    BY <1>3, <2>2 DEF Out!WriteFails, Out!LineStreamTypeOK
<1> QED
  BY <1>2, <1>3

LEMMA CodesAreCodes ==
  /\ "ok" \in Codes /\ "ParseError" \in Codes /\ "MethodNotFound" \in Codes
  /\ "InvalidParams" \in Codes /\ "Internal" \in Codes /\ "NotReady" \in Codes
  BY DEF Codes

LEMMA TypeInit == Init => TypeOK
<1> SUFFICES ASSUME Init PROVE TypeOK
  OBVIOUS
<1>1. 0 \in 0 .. MaxLines /\ 0 \in 0 .. MaxEmits /\ << >> \in Seq(Kinds)
  BY RunnerAssumption
<1>2. NoLine \in Line
  BY <1>1 DEF NoLine, Line, Forms, Params, Methods
<1>3. Response(0, "ok", << >>) \in Message
  BY <1>1, CodesAreCodes, ResponseIsMessage
<1>4. Out!LineStreamTypeOK
  <2>1. << >> \in Seq(Seq(Out!Fragment)) /\ << >> \in Seq(Out!Fragment)
    OBVIOUS
  <2> QED
    BY <2>1 DEF Init, Out!LineStreamInit, Out!LineStreamTypeOK
<1>5. stdin \in Seq(Line) /\ calls \in Seq(Call) /\ merged \in Seq(Kinds)
  BY DEF Init
<1>6. pc = "read" /\ todo = {} /\ taken = {}
  BY DEF Init
<1> QED
  BY <1>1, <1>2, <1>3, <1>4, <1>5, <1>6 DEF Init, TypeOK

LEMMA TypeStep == TypeOK /\ [Next]_vars => TypeOK'
<1> SUFFICES ASSUME TypeOK, [Next]_vars PROVE TypeOK'
  OBVIOUS
<1>k. Registered \subseteq Kinds /\ MaxLines \in Nat /\ MaxEmits \in Nat
      /\ HostLines \subseteq [form : Forms, method : Methods, params : Params]
  BY RunnerAssumption
<1>i. req.id \in 0 .. MaxLines /\ 0 \in 0 .. MaxLines /\ << >> \in Seq(Kinds)
  BY <1>k DEF TypeOK, Line
<1>s. ASSUME NEW c \in {"ok", "ParseError", "MethodNotFound", "InvalidParams",
                        "Internal", "NotReady"}
      PROVE  /\ Response(req.id, c, << >>) \in Message
             /\ Response(0, c, << >>) \in Message
  BY <1>i, CodesAreCodes, ResponseIsMessage
<1>c. ASSUME NEW op \in {"initialize", "method", "shutdown"}, NEW k \in Kinds,
             NEW out \in Outcomes, Called(op, k, out)
      PROVE  calls' \in Seq(Call)
  BY <1>c, <1>i DEF Called, Call, TypeOK
<1>h. stdin # << >> => Head(stdin) \in Line /\ Tail(stdin) \in Seq(Line)
  BY DEF TypeOK
<1> USE DEF vars, hostVars, sigVars, loopVars, walkVars, outVars, Send, Goto, Answer,
           Out!LineStreamTypeOK
<1>1. CASE Read
  <2>1. CASE ReadBlank
    BY <1>1, <2>1, <1>h DEF Read, ReadBlank, Unread, TypeOK
  <2>2. CASE ReadGarbage
    BY <1>1, <2>2, <1>h, <1>s DEF Read, ReadGarbage, Unread, TypeOK
  <2>3. CASE ReadRequest
    BY <1>1, <2>3, <1>h DEF Read, ReadRequest, Unread, TypeOK
  <2>4. CASE ReadEOF
    BY <1>1, <2>4 DEF Read, ReadEOF, AfterEOF, TypeOK
  <2> QED
    BY <1>1, <2>1, <2>2, <2>3, <2>4 DEF Read
<1>2. CASE Enter
  <2>1. CASE Cancelled
    BY <1>2, <2>1 DEF Enter, Cancelled, TypeOK
  <2>2. CASE EnterInitialize
    BY <1>2, <2>2, <1>s, <1>i DEF Enter, EnterInitialize, NoRegistrations, TypeOK
  <2>3. CASE EnterShutdown
    BY <1>2, <2>3 DEF Enter, EnterShutdown, ToShutDown, TypeOK
  <2>4. CASE EnterMethod
    <3>1. pc' \in {"reply", "method"} /\ reply' \in Message /\ fallback' \in BOOLEAN
      BY <2>4, <1>s DEF EnterMethod, TypeOK
    <3> QED
      BY <1>2, <2>4, <3>1 DEF Enter, EnterMethod, TypeOK
  <2> QED
    BY <1>2, <2>1, <2>2, <2>3, <2>4 DEF Enter
<1>3. CASE Handle
  <2>1. CASE InitializeHandler
    <3>1. PICK k \in Kinds, out \in Outcomes :
            /\ Called("initialize", k, out)
            /\ todo' = todo \ {k}
            /\ \/ merged' = merged \/ merged' = Append(merged, k)
            /\ encodable' \in {encodable, FALSE}
            /\ \/ UNCHANGED <<pc, reply, fallback>>
               \/ Answer("NotReady", FALSE)
      BY <2>1 DEF InitializeHandler, Outcomes, TypeOK
    <3>2. calls' \in Seq(Call)
      BY <1>c, <3>1
    <3>3. merged' \in Seq(Kinds)
      <4>1. merged \in Seq(Kinds) /\ Append(merged, k) \in Seq(Kinds)
        BY DEF TypeOK
      <4> QED
        BY <3>1, <4>1
    <3>4. pc' \in {"initialize", "reply"} /\ reply' \in Message /\ fallback' \in BOOLEAN
      BY <1>s, <2>1, <3>1 DEF InitializeHandler, TypeOK
    <3> QED
      BY <1>3, <2>1, <3>1, <3>2, <3>3, <3>4 DEF Handle, InitializeHandler, TypeOK
  <2>2. CASE InitializeDone
    <3>1. Response(req.id, "ok", merged) \in Message
      BY <1>i, CodesAreCodes, ResponseIsMessage DEF TypeOK
    <3> QED
      BY <1>3, <2>2, <3>1 DEF Handle, InitializeDone, TypeOK
  <2>3. CASE MethodReturns
    <3>1. PICK k \in Handler(req.method) :
            \/ Called("method", k, "ok") /\ Answer("ok", TRUE)
            \/ Called("method", k, "err") /\ Answer(FailCode(k), TRUE)
            \/ Called("method", k, "unencodable") /\ Answer("Internal", FALSE)
      BY <2>3 DEF MethodReturns
    <3>2. k \in Kinds /\ Case(k, req.method)
      BY <1>k DEF Handler
    <3>3. Response(req.id, FailCode(k), << >>) \in Message
      BY <1>i, <3>2, TablesAgree, ResponseIsMessage DEF FailCode
    <3>4. calls' \in Seq(Call)
      BY <1>c, <3>1, <3>2 DEF Outcomes
    <3>5. pc' = "reply" /\ reply' \in Message /\ fallback' \in BOOLEAN
      BY <1>s, <3>1, <3>3
    <3> QED
      BY <1>3, <2>3, <3>4, <3>5 DEF Handle, MethodReturns, TypeOK
  <2>4. CASE ShutdownHandler
    <3>1. PICK k \in Kinds, out \in {"ok", "err"} :
            /\ Called("shutdown", k, out)
            /\ todo' = LeftAfter(k, out)
            /\ downErr' = (downErr \/ out = "err")
      BY <2>4 DEF ShutdownHandler
    <3>2. calls' \in Seq(Call)
      BY <1>c, <3>1 DEF Outcomes
    <3> QED
      BY <1>3, <2>4, <3>1, <3>2 DEF Handle, ShutdownHandler, LeftAfter, TypeOK
  <2>5. CASE ShutdownDone
    BY <1>3, <2>5, <1>s DEF Handle, ShutdownDone, TypeOK
  <2>6. CASE HandlerPanics
    <3>1. PICK k \in Kinds : Called(pc, k, "panic") /\ pc \in {"initialize", "method", "shutdown"}
      BY <2>6 DEF HandlerPanics
    <3>2. calls' \in Seq(Call)
      BY <1>c, <3>1 DEF Outcomes
    <3> QED
      BY <1>3, <2>6, <3>2 DEF Handle, HandlerPanics, AfterPanic, TypeOK
  <2> QED
    BY <1>3, <2>1, <2>2, <2>3, <2>4, <2>5, <2>6 DEF Handle
<1>4. CASE Reply
  <2>1. Out!LineStreamTypeOK'
    BY <1>4, WriteTypes DEF Reply, ReplyWritten, ReplyFails, TypeOK
  <2>2. pc' \in {"reply", "read", "returned"} /\ reply' \in Message
        /\ fallback' \in BOOLEAN
    BY <1>4, <1>s DEF Reply, ReplyWritten, ReplyFails, OnceWritten, AfterReply, TypeOK
  <2> QED
    BY <1>4, <2>1, <2>2 DEF Reply, TypeOK
<1>5. CASE Environment
  <2>1. CASE HostSend
    <3>1. PICK l \in HostLines :
            stdin' = Append(stdin, [id |-> sent + 1, form |-> l.form,
                                    method |-> l.method, params |-> l.params])
      BY <2>1 DEF HostSend
    <3>2. sent + 1 \in 0 .. MaxLines
          /\ l \in [form : Forms, method : Methods, params : Params]
      BY <2>1, <1>k DEF HostSend, TypeOK
    <3>3. stdin' \in Seq(Line)
      BY <3>1, <3>2 DEF Line, TypeOK
    <3> QED
      BY <1>5, <2>1, <3>2, <3>3 DEF Environment, HostSend, TypeOK
  <2>2. CASE HostClose
    BY <1>5, <2>2 DEF Environment, HostClose, TypeOK
  <2>3. CASE Signal
    BY <1>5, <2>3, <1>i DEF Environment, Signal, TypeOK
  <2> QED
    BY <1>5, <2>1, <2>2, <2>3 DEF Environment
<1>6. CASE Emit
  <2>1. Out!WriteOk(Notification) \/ Out!WriteFails(Notification)
    BY <1>6 DEF Emit
  <2>2. Out!LineStreamTypeOK'
    BY <2>1, NotificationIsMessage, WriteTypes DEF TypeOK
  <2>3. emitted' \in 0 .. MaxEmits
    BY <1>6, <1>k DEF Emit, TypeOK
  <2> QED
    BY <1>6, <2>2, <2>3 DEF Emit, TypeOK
<1>7. CASE GoroutinePanics
  BY <1>7 DEF GoroutinePanics, TypeOK
<1>8. CASE UNCHANGED vars
  BY <1>8 DEF TypeOK
<1> QED
  BY <1>1, <1>2, <1>3, <1>4, <1>5, <1>6, <1>7, <1>8 DEF Next, LoopStep, Idle

(* Every reachable state of the request loop is well-typed; in particular   *)
(* the walks of initialize and shutdown only ever visit registered handlers *)
(* and every code sent is one of the protocol's.                            *)
THEOREM TypeCorrect == Spec => []TypeOK
  BY TypeInit, TypeStep, PTL DEF Spec
------------------------------------------------------------------------------
(* The places of the loop.                                                  *)

Busy == pc # "read" /\ ~Stopped

(* What the composite steps of the loop have in common.                     *)
LEMMA EnterShape ==
  ASSUME Enter
  PROVE  /\ pc = "check" /\ pc' \in {"returned", "initialize", "shutdown", "method", "reply"}
         /\ UNCHANGED <<hostVars, sigVars, req, outVars, emitted, calls, taken>>
         /\ pc' = "reply" => \E code, fb : Answer(code, fb)
  BY DEF Enter, Cancelled, EnterInitialize, EnterShutdown, EnterMethod, Live, Answer, Send, Goto

LEMMA HandleShape ==
  ASSUME Handle
  PROVE  /\ pc \in {"initialize", "method", "shutdown"}
         /\ pc' \in {pc, "read", "reply", "crashed"}
         /\ UNCHANGED <<hostVars, sigVars, req, outVars, emitted, taken>>
         /\ pc' = "reply" => \E code, regs, fb : Send(Response(req.id, code, regs), fb)
<1> USE DEF Handle, Answer, Send, Goto
<1>1. CASE InitializeHandler
  BY <1>1 DEF InitializeHandler
<1>2. CASE InitializeDone
  BY <1>2 DEF InitializeDone
<1>3. CASE MethodReturns
  BY <1>3 DEF MethodReturns
<1>4. CASE ShutdownHandler
  BY <1>4 DEF ShutdownHandler
<1>5. CASE ShutdownDone
  BY <1>5 DEF ShutdownDone
<1>6. CASE HandlerPanics
  BY <1>6 DEF HandlerPanics, AfterPanic
<1> QED
  BY <1>1, <1>2, <1>3, <1>4, <1>5, <1>6

LEMMA ReplyShape ==
  ASSUME Reply
  PROVE  /\ pc = "reply"
         /\ \/ Out!WriteOk(reply) /\ pc' = AfterReply
            \/ Out!WriteFails(reply) /\ ~fallback /\ pc' = AfterReply
            \/ Out!WriteFails(reply) /\ fallback /\ Answer("Internal", FALSE)
         /\ AfterReply \in {"read", "returned"}
         /\ UNCHANGED <<hostVars, sigVars, req, walkVars, emitted, calls, taken>>
  BY DEF Reply, ReplyWritten, ReplyFails, OnceWritten, AfterReply, Goto

LEMMA ReadShape ==
  ASSUME Read
  PROVE  /\ pc = "read"
         /\ \/ /\ stdin # << >> /\ stdin' = Tail(stdin)
               /\ \/ pc' = "read" /\ req' = req /\ taken' = taken
                  \/ /\ Head(stdin).form = "garbage" /\ req' = Head(stdin)
                     /\ taken' = taken
                     /\ Send(Response(0, "ParseError", << >>), FALSE)
                  \/ /\ Head(stdin).form = "request" /\ req' = Head(stdin)
                     /\ pc' = "check" /\ taken' = taken \cup {Head(stdin)}
            \/ pc' = "returned" /\ UNCHANGED <<stdin, req, taken>>
         /\ UNCHANGED <<hostOpen, sent, sigVars, walkVars, outVars, emitted, calls>>
  BY DEF Read, ReadBlank, ReadGarbage, ReadRequest, ReadEOF, Unread, AfterEOF, Goto

LEMMA EnvironmentShape ==
  ASSUME Environment
  PROVE  /\ UNCHANGED <<pc, req, walkVars, reply, fallback, calls, taken, outVars, emitted>>
         /\ \/ stdin' = stdin /\ sent' = sent
            \/ HostSend
         /\ \/ UNCHANGED sigVars
            \/ signalled' = TRUE /\ sigTaken' = req.id
  BY DEF Environment, HostSend, HostClose, Signal, loopVars, hostVars, sigVars
------------------------------------------------------------------------------
(* The order of the responses.                                              *)

(* stdin is numbered without gaps, behind the line being handled.           *)
NumberInv ==
  /\ \A i \in 1 .. Len(stdin) : stdin[i].id = (sent - Len(stdin)) + i
  /\ req.id <= sent - Len(stdin)
  /\ Busy => req.id >= 1

(* The response being sent is for the line being handled.                   *)
ReplyInv ==
  /\ pc \in {"check", "initialize", "method", "shutdown"} => req.form = "request"
  /\ pc = "reply" => /\ reply.type = "response"
                     /\ reply.id = IF req.form = "garbage" THEN 0 ELSE req.id
                     /\ fallback => req.form = "request"

(* While a line is being handled the host has no response to it yet: the    *)
(* second attempt after a failed write is never a second response.          *)
SentBefore ==
  /\ Busy => \A i \in Responses : Msg(i).id # 0 /\ Msg(i).id < req.id
  /\ pc = "read" => \A i \in Responses : Msg(i).id # 0 /\ Msg(i).id <= req.id

OrderInv == NumberInv /\ ReplyInv /\ SentBefore /\ ResponsesInOrder

LEMMA ResponseFields ==
  ASSUME NEW id, NEW code, NEW regs
  PROVE  /\ Response(id, code, regs).type = "response"
         /\ Response(id, code, regs).id = id
         /\ Response(id, code, regs).code = code
  BY DEF Response

LEMMA OrderInit == Init => OrderInv
<1> SUFFICES ASSUME Init PROVE OrderInv
  OBVIOUS
<1>1. Responses = {}
  BY DEF Init, Responses, Decodable, Out!LineStreamInit
<1>2. NumberInv
  BY DEF Init, NumberInv, NoLine, Busy
<1>3. ReplyInv /\ pc = "read"
  BY DEF Init, ReplyInv
<1> QED
  BY <1>1, <1>2, <1>3 DEF OrderInv, SentBefore, ResponsesInOrder

(* What the host can decode after a write: nothing is lost, and the only    *)
(* line that can be new is the message just written.                        *)
LEMMA WriteDecodable ==
  ASSUME TypeOK, NEW m \in Message, Out!WriteOk(m)
  PROVE  /\ Decodable' \subseteq Decodable \cup {Len(done) + 1}
         /\ Decodable \subseteq Decodable'
         /\ \A i \in Decodable : Msg(i)' = Msg(i) /\ i \in 1 .. Len(done)
         /\ \A n \in Decodable' : n = Len(done) + 1 => Msg(n)' = m
<1> DEFINE line == Append(tail, Out!Whole(m))
<1>1. done \in Seq(Seq(Out!Fragment)) /\ tail \in Seq(Out!Fragment)
      /\ Out!Whole(m) \in Out!Fragment
  BY DEF TypeOK, Out!LineStreamTypeOK, Out!Whole, Out!Fragment
<1>2. line \in Seq(Out!Fragment) /\ done' = Append(done, line)
  BY <1>1 DEF Out!WriteOk
<1>3. /\ Len(done') = Len(done) + 1
      /\ \A i \in 1 .. Len(done) : done'[i] = done[i]
      /\ done'[Len(done) + 1] = line
  BY <1>1, <1>2
<1>4. Out!WellFormed(line) => line[1] = Out!Whole(m)
  <2>1. Out!WellFormed(line) => Len(tail) = 0
    BY <1>1 DEF Out!WellFormed
  <2> QED
    BY <1>1, <2>1
<1>5. ASSUME NEW i \in Decodable' PROVE i \in Decodable \cup {Len(done) + 1}
  <2>1. i = Len(done) + 1 \/ (i \in 1 .. Len(done) /\ done'[i] = done[i])
    BY <1>1, <1>3, <1>5 DEF Decodable
  <2> QED
    BY <1>5, <2>1 DEF Decodable
<1>6. \A i \in Decodable : Msg(i)' = Msg(i) /\ i \in 1 .. Len(done)
  BY <1>3 DEF Decodable, Msg
<1>7. ASSUME NEW n \in Decodable', n = Len(done) + 1 PROVE Msg(n)' = m
  <2>1. Out!WellFormed(line)
    BY <1>3, <1>7 DEF Decodable
  <2> QED
    BY <1>3, <1>4, <1>7, <2>1 DEF Msg, Out!Whole
<1>8. ASSUME NEW i \in Decodable PROVE i \in Decodable'
  <2>1. i \in 1 .. Len(done) /\ i \in 1 .. Len(done') /\ done'[i] = done[i]
    BY <1>1, <1>3, <1>6
  <2> QED
    BY <2>1 DEF Decodable
<1> QED
  BY <1>5, <1>6, <1>7, <1>8

LEMMA WriteResponses ==
  ASSUME TypeOK, NEW m \in Message, Out!WriteOk(m)
  PROVE  /\ Responses \subseteq 1 .. Len(done)
         /\ Responses' \subseteq Responses \cup {Len(done) + 1}
         /\ Responses \subseteq Responses'
         /\ \A i \in Responses : Msg(i)' = Msg(i)
         /\ \A n \in Responses' :
              n = Len(done) + 1 => Msg(n)' = m /\ m.type = "response"
  BY WriteDecodable DEF Responses

LEMMA SameResponses ==
  ASSUME done' = done
  PROVE  Responses' = Responses /\ \A i : Msg(i)' = Msg(i)
  BY DEF Responses, Decodable, Msg

(* A new line has a greater number than the one handled before.             *)
LEMMA NewLine ==
  ASSUME TypeOK, NumberInv, stdin # << >>
  PROVE  /\ Head(stdin) \in Line /\ Head(stdin).id \in Nat /\ req.id \in Nat
         /\ Head(stdin).id > req.id
<1>1. stdin \in Seq(Line) /\ sent \in Nat /\ req \in Line /\ \A l \in Line : l.id \in Nat
  BY RunnerAssumption DEF TypeOK, Line
<1>2. Len(stdin) \in Nat /\ Len(stdin) >= 1 /\ Head(stdin) = stdin[1] /\ stdin[1] \in Line
  BY <1>1
<1>3. Head(stdin).id = (sent - Len(stdin)) + 1
  BY <1>2 DEF NumberInv
<1> QED
  BY <1>1, <1>2, <1>3 DEF NumberInv

LEMMA NumberStep ==
  ASSUME TypeOK, OrderInv, [Next]_vars
  PROVE  NumberInv'
<1>t. /\ stdin \in Seq(Line) /\ sent \in Nat /\ req \in Line
      /\ \A l \in Line : l.id \in Nat
  BY RunnerAssumption DEF TypeOK, Line
<1>n. NumberInv
  BY DEF OrderInv
<1>1. ASSUME stdin # << >>, stdin' = Tail(stdin), sent' = sent
      PROVE  /\ \A i \in 1 .. Len(stdin') : stdin'[i].id = (sent' - Len(stdin')) + i
             /\ req.id <= sent' - Len(stdin')
             /\ Head(stdin).id <= sent' - Len(stdin')
             /\ Head(stdin).id >= 1
  <2>1. /\ Head(stdin) = stdin[1] /\ Len(Tail(stdin)) = Len(stdin) - 1
        /\ Len(stdin) \in Nat /\ Len(stdin) >= 1
        /\ \A i \in 1 .. Len(Tail(stdin)) : Tail(stdin)[i] = stdin[i + 1]
    BY <1>1, <1>t
  <2>2. Head(stdin).id = (sent - Len(stdin)) + 1 /\ req.id <= sent - Len(stdin)
    BY <2>1, <1>n DEF NumberInv
  <2>3. ASSUME NEW i \in 1 .. Len(stdin') PROVE stdin'[i].id = (sent' - Len(stdin')) + i
    <3>1. i + 1 \in 1 .. Len(stdin) /\ stdin'[i] = stdin[i + 1]
      BY <1>1, <2>1
    <3> QED
      BY <1>1, <1>n, <1>t, <2>1, <3>1 DEF NumberInv
  <2> QED
    BY <1>1, <1>t, <2>1, <2>2, <2>3
<1>2. ASSUME UNCHANGED <<stdin, sent, req>>, Busy' => Busy
      PROVE  NumberInv'
  BY <1>2, <1>n DEF NumberInv
<1>3. CASE Read
  <2>1. CASE pc' = "returned" /\ UNCHANGED <<stdin, req, taken>>
    BY <1>2, <1>3, <2>1, ReadShape DEF Busy, Stopped
  <2>2. CASE stdin # << >> /\ stdin' = Tail(stdin) /\ pc' = "read" /\ req' = req
    BY <1>1, <1>3, <2>2, ReadShape DEF NumberInv, Busy
  <2>3. CASE stdin # << >> /\ stdin' = Tail(stdin) /\ req' = Head(stdin)
    BY <1>1, <1>3, <2>3, ReadShape DEF NumberInv
  <2> QED
    BY <1>3, <2>1, <2>2, <2>3, ReadShape
<1>4. CASE Enter \/ Handle \/ Reply
  BY <1>2, <1>4, EnterShape, HandleShape, ReplyShape DEF Busy, Stopped, hostVars
<1>5. CASE Environment
  <2>1. CASE HostSend
    BY <1>5, <2>1, <1>t, <1>n, EnvironmentShape DEF HostSend, NumberInv, Busy, Stopped
  <2> QED
    BY <1>2, <1>5, <2>1, EnvironmentShape DEF Busy, Stopped
<1>6. CASE Emit \/ GoroutinePanics \/ UNCHANGED vars
  BY <1>2, <1>6
     DEF Emit, GoroutinePanics, Busy, Stopped, vars, hostVars, loopVars
<1> QED
  BY <1>3, <1>4, <1>5, <1>6 DEF Next, LoopStep, Idle

LEMMA ReplyStep ==
  ASSUME TypeOK, OrderInv, [Next]_vars
  PROVE  ReplyInv'
<1>r. ReplyInv
  BY DEF OrderInv
<1> USE DEF ReplyInv
<1>1. CASE Read
  <2>1. CASE pc' \in {"read", "returned"}
    BY <2>1
  <2>2. CASE pc' = "check"
    BY <1>1, <2>2, ReadShape DEF Send
  <2>3. CASE pc' = "reply"
    <3>1. req'.form = "garbage" /\ reply' = Response(0, "ParseError", << >>)
          /\ fallback' = FALSE
      BY <1>1, <2>3, ReadShape DEF Send
    <3> QED
      BY <2>3, <3>1, ResponseFields
  <2> QED
    BY <1>1, <2>1, <2>2, <2>3, ReadShape DEF Send
<1>2. CASE Enter
  BY <1>2, <1>r, EnterShape, ResponseFields DEF Answer, Send
<1>3. CASE Handle /\ pc' = "reply"
  BY <1>3, <1>r, HandleShape, ResponseFields DEF Send
<1>4. CASE Handle /\ pc' # "reply"
  BY <1>4, <1>r, HandleShape
<1>5. CASE Reply
  <2>1. CASE pc' \in {"read", "returned"}
    BY <2>1
  <2>2. CASE Out!WriteFails(reply) /\ fallback /\ Answer("Internal", FALSE)
    BY <1>5, <1>r, <2>2, ReplyShape, ResponseFields DEF Answer, Send
  <2> QED
    BY <1>5, <2>1, <2>2, ReplyShape
<1>6. CASE Environment
  BY <1>6, <1>r, EnvironmentShape
<1>7. CASE Emit \/ GoroutinePanics \/ UNCHANGED vars
  BY <1>7, <1>r DEF Emit, GoroutinePanics, vars, loopVars
<1> QED
  BY <1>1, <1>2, <1>3, <1>4, <1>5, <1>6, <1>7 DEF Next, LoopStep, Idle

(* The messages the host can decode are messages.                           *)
LEMMA DecodedTypes ==
  ASSUME TypeOK
  PROVE  /\ \A i \in Responses : Msg(i) \in Message /\ Msg(i).id \in Nat
         /\ Responses \subseteq 1 .. Len(done) /\ Len(done) \in Nat
<1>1. ASSUME NEW i \in Responses PROVE Msg(i) \in Message
  <2>1. done[i] \in Seq(Out!Fragment) /\ Len(done[i]) = 1
    BY DEF Responses, Decodable, Out!WellFormed, TypeOK, Out!LineStreamTypeOK
  <2>2. done[i][1] \in Out!Fragment
    BY <2>1
  <2> QED
    BY <2>2 DEF Msg, Out!Fragment
<1>2. Responses \subseteq 1 .. Len(done) /\ Len(done) \in Nat
  BY DEF Responses, Decodable, TypeOK, Out!LineStreamTypeOK
<1> QED
  BY <1>1, <1>2, RunnerAssumption DEF Message

(* A notification, written or not, leaves the responses as they are.        *)
LEMMA EmitShape ==
  ASSUME TypeOK, Emit
  PROVE  /\ UNCHANGED <<stdin, sent, signalled, sigTaken, pc, req, todo, reply, fallback, calls, taken>>
         /\ Responses' = Responses /\ \A i \in Responses : Msg(i)' = Msg(i)
<1>1. UNCHANGED <<stdin, sent, signalled, sigTaken, pc, req, todo, reply, fallback, calls, taken>>
  BY DEF Emit, hostVars, sigVars, loopVars, walkVars
<1>2. Out!WriteOk(Notification) \/ Out!WriteFails(Notification)
  BY DEF Emit
<1>3. CASE Out!WriteFails(Notification)
  BY <1>1, <1>3, SameResponses DEF Out!WriteFails
<1>4. CASE Out!WriteOk(Notification)
  <2>1. Notification.type # "response"
    BY DEF Notification
  <2> QED
    BY <1>1, <1>4, <2>1, NotificationIsMessage, WriteResponses
<1> QED
  BY <1>2, <1>3, <1>4

LEMMA SentBeforeStep ==
  ASSUME TypeOK, OrderInv, [Next]_vars
  PROVE  (SentBefore /\ ResponsesInOrder)'
<1>n. NumberInv /\ ReplyInv /\ SentBefore /\ ResponsesInOrder
  BY DEF OrderInv
<1>t. req.id \in Nat /\ reply \in Message
  BY RunnerAssumption DEF TypeOK, Line
<1>m. /\ \A i \in Responses : Msg(i).id \in Nat
      /\ Responses \subseteq 1 .. Len(done) /\ Len(done) \in Nat
  BY DecodedTypes

(* No response is written.                                                  *)
<1>s. done' = done => /\ Responses' = Responses
                      /\ \A i \in Responses : Msg(i)' = Msg(i)
  BY SameResponses
<1>q. ASSUME Responses' = Responses, \A i \in Responses : Msg(i)' = Msg(i)
      PROVE  ResponsesInOrder'
  BY <1>q, <1>n DEF ResponsesInOrder
(* The loop stays with its line, or is done with it.                        *)
<1>1. ASSUME done' = done, req' = req, Busy
      PROVE  (SentBefore /\ ResponsesInOrder)'
  <2>1. \A i \in Responses : Msg(i).id # 0 /\ Msg(i).id < req.id /\ Msg(i).id <= req.id
    BY <1>1, <1>n, <1>m, <1>t DEF SentBefore
  <2> QED
    BY <1>1, <1>s, <1>q, <2>1 DEF SentBefore
<1>2. ASSUME Responses' = Responses, \A i \in Responses : Msg(i)' = Msg(i),
             req' = req, pc' = pc \/ Stopped'
      PROVE  (SentBefore /\ ResponsesInOrder)'
  BY <1>2, <1>q, <1>n DEF SentBefore, Busy, Stopped
<1>3. CASE Read
  <2>1. done' = done /\ pc = "read"
    BY <1>3, ReadShape DEF outVars
  <2>2. CASE req' = req /\ pc' \in {"read", "returned"}
    BY <1>2, <1>s, <2>1, <2>2 DEF Stopped
  <2>3. CASE stdin # << >> /\ req' = Head(stdin) /\ pc' # "read"
    <3>1. req'.id > req.id /\ req'.id \in Nat
      BY <1>n, <2>3, NewLine
    <3>2. \A i \in Responses : Msg(i).id # 0 /\ Msg(i).id < req'.id
      BY <2>1, <3>1, <1>n, <1>m, <1>t DEF SentBefore
    <3> QED
      BY <2>1, <2>3, <3>2, <1>s, <1>q DEF SentBefore
  <2> QED
    BY <1>3, <2>2, <2>3, ReadShape DEF Send
<1>4. CASE Enter \/ Handle
  BY <1>4, <1>1, EnterShape, HandleShape DEF Busy, Stopped, outVars
<1>5. CASE Reply /\ Out!WriteFails(reply)
  BY <1>5, <1>1, ReplyShape DEF Out!WriteFails, Busy, Stopped
<1>6. CASE Reply /\ Out!WriteOk(reply) /\ pc' = AfterReply
  <2>1. pc = "reply" /\ req' = req /\ Busy /\ ~Busy' /\ pc' \in {"read", "returned"}
        /\ (pc' = "read" => req.form # "garbage")
    BY <1>6, ReplyShape DEF AfterReply, Busy, Stopped
  <2>2. /\ Responses' \subseteq Responses \cup {Len(done) + 1}
        /\ \A i \in Responses : Msg(i)' = Msg(i)
        /\ \A n \in Responses' : n = Len(done) + 1 => Msg(n)' = reply
    BY <1>6, <1>t, WriteResponses
  <2>3. \A i \in Responses : Msg(i).id # 0 /\ Msg(i).id < req.id
    BY <1>n, <2>1 DEF SentBefore
  <2>4. /\ reply.id = IF req.form = "garbage" THEN 0 ELSE req.id
        /\ req.id >= 1
    BY <1>n, <2>1 DEF ReplyInv, NumberInv
  <2>5. ResponsesInOrder'
    <3> SUFFICES ASSUME NEW i \in Responses', NEW j \in Responses', i < j
                 PROVE  Msg(i)'.id # 0 /\ (Msg(j)'.id = 0 \/ Msg(i)'.id < Msg(j)'.id)
      BY DEF ResponsesInOrder
    <3>1. i \in Responses
      BY <1>m, <2>2
    <3>2. CASE j \in Responses
      BY <1>n, <2>2, <3>1, <3>2 DEF ResponsesInOrder
    <3>3. CASE j = Len(done) + 1
      BY <2>2, <2>3, <2>4, <3>1, <3>3
    <3> QED
      BY <2>2, <3>2, <3>3
  <2>6. SentBefore'
    BY <1>m, <1>t, <2>1, <2>2, <2>3, <2>4 DEF SentBefore
  <2> QED
    BY <2>5, <2>6
<1>7. CASE Emit
  BY <1>2, <1>7, EmitShape
<1>8. CASE Environment
  BY <1>2, <1>8, EnvironmentShape, SameResponses DEF outVars
<1>9. CASE GoroutinePanics \/ UNCHANGED vars
  BY <1>2, <1>9, SameResponses DEF GoroutinePanics, Stopped, outVars, vars, loopVars
<1> QED
  BY <1>3, <1>4, <1>5, <1>6, <1>7, <1>8, <1>9, ReplyShape DEF Next, LoopStep, Idle

LEMMA OrderStep == TypeOK /\ OrderInv /\ [Next]_vars => OrderInv'
  BY NumberStep, ReplyStep, SentBeforeStep DEF OrderInv

(* For every handler set, host, interleaving of notifications, panic and    *)
(* failing write: at most one response per request reaches the host, in the *)
(* order of the requests, and none follows the response to unreadable       *)
(* input.                                                                   *)
THEOREM ResponsesInOrderHolds == Spec => []ResponsesInOrder
<1>1. OrderInv => ResponsesInOrder
  BY DEF OrderInv
<1> QED
  BY <1>1, OrderInit, OrderStep, TypeCorrect, PTL DEF Spec
------------------------------------------------------------------------------
(* The loop as a serial server.                                             *)

AnsweredIds == {Msg(i).id : i \in Responses} \ {0}

LEMMA SameAnswered ==
  ASSUME Responses' = Responses, \A i \in Responses : Msg(i)' = Msg(i)
  PROVE  AnsweredIds' = AnsweredIds
  BY DEF AnsweredIds

LEMMA ServerInitHolds == Init => Server!ServerInit
<1> SUFFICES ASSUME Init PROVE Server!ServerInit
  OBVIOUS
<1>1. Responses = {}
  BY DEF Init, Responses, Decodable, Out!LineStreamInit
<1> QED
  BY <1>1 DEF Init, NoLine, Stopped, Server!ServerInit

LEMMA ServerStep ==
  ASSUME TypeOK, OrderInv, [Next]_vars
  PROVE  [Server!ServerNext]_(Server!serverVars)
<1>n. NumberInv /\ ReplyInv /\ SentBefore
  BY DEF OrderInv
<1>t. req.id \in Nat /\ reply \in Message
  BY RunnerAssumption DEF TypeOK, Line
<1>s. done' = done => AnsweredIds' = AnsweredIds
  BY SameResponses, SameAnswered
<1> USE DEF Server!ServerNext, Server!serverVars

(* The four kinds of steps that leave the answers as they are.              *)
<1>1. ASSUME AnsweredIds' = AnsweredIds, req' = req, Busy' <=> Busy, Stopped' <=> Stopped
      PROVE  [Server!ServerNext]_(Server!serverVars)
  BY <1>1 DEF AnsweredIds, Busy
<1>2. ASSUME AnsweredIds' = AnsweredIds, req' = req, Busy, ~Busy'
      PROVE  Server!GiveUp
  BY <1>2 DEF AnsweredIds, Busy, Server!GiveUp
<1>3. ASSUME AnsweredIds' = AnsweredIds, req' = req, ~Busy, ~Busy', ~Stopped, Stopped'
      PROVE  Server!Stop
  BY <1>3 DEF AnsweredIds, Busy, Server!Stop
<1>4. CASE Read
  <2>1. done' = done /\ pc = "read"
    BY <1>4, ReadShape DEF outVars
  <2>2. CASE req' = req /\ pc' = "read"
    BY <1>1, <1>s, <2>1, <2>2 DEF Busy, Stopped
  <2>3. CASE req' = req /\ pc' = "returned"
    BY <1>3, <1>s, <2>1, <2>3 DEF Busy, Stopped
  <2>4. CASE stdin # << >> /\ req' = Head(stdin) /\ pc' \in {"check", "reply"}
    <3>1. req'.id > req.id /\ req'.id \in 1 .. MaxLines
      BY <1>n, <1>t, <2>4, NewLine, RunnerAssumption DEF Line
    <3> QED
      BY <1>s, <2>1, <2>4, <3>1 DEF AnsweredIds, Stopped, Server!Take
  <2> QED
    BY <1>4, <2>2, <2>3, <2>4, ReadShape DEF Send
<1>5. CASE Enter \/ Handle
  <2>1. done' = done /\ req' = req /\ Busy /\ ~Stopped
    BY <1>5, EnterShape, HandleShape DEF outVars, Busy, Stopped
  <2>2. CASE Busy'
    BY <1>1, <1>s, <2>1, <2>2 DEF Busy
  <2>3. CASE ~Busy'
    BY <1>2, <1>s, <2>1, <2>3
  <2> QED
    BY <2>2, <2>3
<1>6. CASE Reply
  <2>1. req' = req /\ Busy /\ ~Stopped
    BY <1>6, ReplyShape DEF Busy, Stopped
  <2>2. CASE Out!WriteFails(reply)
    <3>1. AnsweredIds' = AnsweredIds
      BY <1>s, <2>2 DEF Out!WriteFails
    <3>2. CASE Busy'
      BY <1>1, <2>1, <3>1, <3>2 DEF Busy
    <3>3. CASE ~Busy'
      BY <1>2, <2>1, <3>1, <3>3
    <3> QED
      BY <3>2, <3>3
  <2>3. CASE Out!WriteOk(reply) /\ pc' = AfterReply
    <3>1. ~Busy'
      BY <1>6, <2>3, ReplyShape DEF Busy, Stopped
    <3>2. /\ Responses' \subseteq Responses \cup {Len(done) + 1}
          /\ Responses \subseteq Responses'
          /\ \A i \in Responses : Msg(i)' = Msg(i)
          /\ \A n \in Responses' : n = Len(done) + 1 => Msg(n)' = reply
      BY <1>t, <2>3, WriteResponses
    <3>3. reply.id \in {0, req.id}
      BY <1>6, <1>n, ReplyShape DEF ReplyInv
    <3>4. AnsweredIds' \in {AnsweredIds, AnsweredIds \cup {req.id}}
      BY <3>2, <3>3 DEF AnsweredIds
    <3>5. req.id \notin AnsweredIds
      <4>1. \A i \in Responses : Msg(i).id \in Nat /\ Msg(i).id < req.id
        BY <1>n, <2>1, DecodedTypes DEF SentBefore
      <4> QED
        BY <1>t, <4>1 DEF AnsweredIds
    <3>6. CASE AnsweredIds' = AnsweredIds
      BY <1>2, <2>1, <3>1, <3>6
    <3>7. CASE AnsweredIds' = AnsweredIds \cup {req.id}
      BY <2>1, <3>1, <3>5, <3>7 DEF AnsweredIds, Busy, Server!Answer
    <3> QED
      BY <3>4, <3>6, <3>7
  <2> QED
    BY <1>6, <2>2, <2>3, ReplyShape
<1>7. CASE Emit
  BY <1>1, <1>7, EmitShape, SameAnswered DEF Busy, Stopped
<1>8. CASE Environment \/ UNCHANGED vars
  BY <1>1, <1>8, <1>s, EnvironmentShape DEF Busy, Stopped, outVars, vars, loopVars
<1>9. CASE GoroutinePanics
  <2>1. done' = done /\ req' = req /\ ~Busy' /\ ~Stopped /\ Stopped'
    BY <1>9 DEF GoroutinePanics, Busy, Stopped, outVars
  <2> QED
    BY <1>2, <1>3, <1>s, <2>1
<1> QED
  BY <1>4, <1>5, <1>6, <1>7, <1>8, <1>9 DEF Next, LoopStep, Idle

(* Whatever the handlers, the writes, the signal and panics do, the host    *)
(* sees a server that takes its requests one at a time and answers each at  *)
(* most once, while it is being served.                                     *)
THEOREM ImplementsSerialServer == Spec => ServesInTurn
<1>1. Init => Server!ServerInit
  BY ServerInitHolds
<1>2. TypeOK /\ OrderInv /\ [Next]_vars => [Server!ServerNext]_(Server!serverVars)
  BY ServerStep
<1> QED
  BY <1>1, <1>2, OrderInit, OrderStep, TypeCorrect, PTL
     DEF Spec, ServesInTurn, Server!ServerSpec
==============================================================================
