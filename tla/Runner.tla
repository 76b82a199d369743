------------------------------- MODULE Runner -------------------------------
(***************************************************************************)
(* extension.Run: the request loop of an extension (dispatcher.run) with   *)
(* the composite initialize, dispatch and shutdown that route its requests *)
(* to the registered handlers, and the handlers' Emitters, which write     *)
(* notifications to the same output from goroutines of their own.          *)
(*                                                                         *)
(* The host appends lines to stdin whenever it likes (it need not wait for *)
(* responses), may close stdin, and the operating system may deliver       *)
(* SIGTERM or SIGINT at any time.  A handler may panic, which nothing      *)
(* recovers.  The output is LineStream's, whose atomic writes module       *)
(* Transport implements.                                                   *)
(*                                                                         *)
(* Definitions marked "slip" are used by no behaviour: each is a mistake   *)
(* in the definition that follows it, which some property must notice.     *)
(***************************************************************************)
EXTENDS Naturals, Sequences, Routing

CONSTANTS
  Registered,    \* kinds that have a handler (WithChannel, WithTool, ...)
  HostLines,     \* lines the host may send: [form, method, params]
  MaxLines,      \* bound: lines the host sends
  MaxEmits,      \* bound: notifications the handlers emit
  Unencodable,   \* methods whose result may have no JSON form
  Panics,        \* may a handler or a goroutine it started panic?
  WriterFaults   \* may a write to stdout fail?

Forms  == {"request", "blank", "garbage"}
Params == {"absent", "valid", "malformed"}

ASSUME RunnerAssumption ==
  /\ Registered \subseteq Kinds
  /\ HostLines \subseteq [form : Forms, method : Methods, params : Params]
  /\ MaxLines \in Nat /\ MaxEmits \in Nat
  /\ Unencodable \subseteq Methods
  /\ Panics \in BOOLEAN /\ WriterFaults \in BOOLEAN

VARIABLES
  stdin,         \* lines sent by the host and not yet read
  hostOpen,      \* the host has not closed stdin
  sent,          \* lines the host has sent
  signalled,     \* the context of startRun is cancelled
  pc,            \* where dispatcher.run is
  req,           \* the line being handled
  todo,          \* handlers the initialize or shutdown walk has yet to visit
  merged,        \* registrations merged so far, by kind
  encodable,     \* they have a JSON form
  downErr,       \* a Shutdown of this walk returned an error
  reply,         \* the response being sent
  fallback,      \* its failure makes the loop send an internal error
  done, tail,    \* the output (LineStream)
  emitted,       \* notifications written
  calls,         \* history: the calls of the handlers, oldest first
  taken,         \* history: the requests read from stdin
  sigTaken       \* history: id of the line being handled when signalled

hostVars == <<stdin, hostOpen, sent>>
sigVars  == <<signalled, sigTaken>>
walkVars == <<todo, merged, encodable, downErr>>
loopVars == <<pc, req, walkVars, reply, fallback, calls, taken>>
outVars  == <<done, tail>>
vars == <<hostVars, sigVars, loopVars, outVars, emitted>>

(* A line is numbered by its place in stdin; the number is the id of the   *)
(* request on it, so that ids are unique and increase (the host counts).   *)
Line == [id : 0 .. MaxLines, form : Forms, method : Methods, params : Params]
NoLine == [id |-> 0, form |-> "blank", method |-> "shutdown", params |-> "absent"]

Message == [type : {"response", "notification"}, id : 0 .. MaxLines,
            code : Codes, regs : Seq(Kinds)]
Response(id, code, regs) ==
  [type |-> "response", id |-> id, code |-> code, regs |-> regs]
Notification ==
  [type |-> "notification", id |-> 0, code |-> "ok", regs |-> << >>]

Outcomes == {"ok", "nil", "unencodable", "err", "panic"}
Call == [op : {"initialize", "method", "shutdown"}, kind : Kinds,
         id : 0 .. MaxLines, out : Outcomes]
Called(op, k, out) ==
  calls' = Append(calls, [op |-> op, kind |-> k, id |-> req.id, out |-> out])

Out == INSTANCE LineStream WITH Messages <- Message

Init ==
  /\ stdin = << >> /\ hostOpen = TRUE /\ sent = 0
  /\ signalled = FALSE /\ sigTaken = 0
  /\ pc = "read" /\ req = NoLine
  /\ todo = {} /\ merged = << >> /\ encodable = TRUE /\ downErr = FALSE
  /\ reply = Response(0, "ok", << >>) /\ fallback = FALSE
  /\ Out!LineStreamInit
  /\ emitted = 0 /\ calls = << >> /\ taken = {}

(* Run has returned, or a panic has ended the process.                     *)
Stopped == pc \in {"returned", "crashed"}
------------------------------------------------------------------------------
(* The environment.                                                         *)

HostSend ==
  /\ hostOpen /\ sent < MaxLines
  /\ \E l \in HostLines :
       stdin' = Append(stdin, [id |-> sent + 1, form |-> l.form,
                               method |-> l.method, params |-> l.params])
  /\ sent' = sent + 1
  /\ UNCHANGED <<hostOpen, sigVars>>

HostClose ==
  /\ hostOpen
  /\ hostOpen' = FALSE
  /\ UNCHANGED <<stdin, sent, sigVars>>

Signal ==
  /\ ~signalled
  /\ signalled' = TRUE
  /\ sigTaken' = req.id
  /\ UNCHANGED hostVars

Environment ==
  /\ ~Stopped
  /\ HostSend \/ HostClose \/ Signal
  /\ UNCHANGED <<loopVars, outVars, emitted>>
------------------------------------------------------------------------------
(* Places and replies of dispatcher.run.                                    *)

(* Send r, then an internal error if that fails and fb is set; or go on      *)
(* without a response.                                                      *)
Send(r, fb) == pc' = "reply" /\ reply' = r /\ fallback' = fb
Goto(place) == pc' = place /\ UNCHANGED <<reply, fallback>>
Answer(code, fb) == Send(Response(req.id, code, << >>), fb)

(* A line once looked at is gone.                                           *)
UnreadAndBlank ==  \* slip
  IF Head(stdin).form = "blank" THEN stdin ELSE Tail(stdin)
Unread == Tail(stdin)

(* The end of input is the end of the loop.                                 *)
AfterEOFAgain == "read"  \* slip
AfterEOF == "returned"

(* ctx.Err() is looked at once per request, after it has been read.         *)
LiveUnchecked == pc = "check"  \* slip
Live == pc = "check" /\ ~signalled

(* The handler that compositeDispatch finds for a method, if any, and the   *)
(* code its dispatch function sends for its error.                          *)
Handler(m) == {k \in Registered : Case(k, m)}
FailCodeLost(k) == "ok"  \* slip
FailCode(k) == Dispatch[k][req.method].fail

(* run.go visits the handlers in a fixed order, the first one left next; a  *)
(* handler that is nil is skipped.                                          *)
FirstOfMap(k) == k \in todo  \* slip
First(k) == k \in todo /\ \A j \in todo : Rank[k] <= Rank[j]
ToShutDownNil == Kinds  \* slip
ToShutDown == Registered

(* Every initialize request starts with no registrations.                   *)
NoRegistrationsYet == merged  \* slip
NoRegistrations == << >>

(* An error of Shutdown does not end the walk.                              *)
LeftAfterError(k, out) == IF out = "err" THEN {} ELSE todo \ {k}  \* slip
LeftAfter(k, out) == todo \ {k}

(* No part of the SDK recovers from a panic.                                *)
AfterPanicRecovered == "read"  \* slip
AfterPanic == "crashed"

(* A shutdown and unreadable input end the loop once they are answered.     *)
AfterReplyGoesOn == IF req.form = "garbage" THEN "returned" ELSE "read"  \* slip
AfterReply ==
  IF req.form = "garbage" \/ req.method = "shutdown" THEN "returned" ELSE "read"

(* A response that was written is not sent again.                           *)
OnceWrittenAgain ==  \* slip
  IF fallback THEN Answer("Internal", FALSE) ELSE Goto(AfterReply)
OnceWritten == Goto(AfterReply)
------------------------------------------------------------------------------
(* ReadRequest: blank lines are skipped inside it.  Text that is no request *)
(* (or a line longer than the buffer) ends the loop after a parse error.    *)

ReadBlank ==
  /\ stdin # << >> /\ Head(stdin).form = "blank"
  /\ stdin' = Unread
  /\ Goto("read")
  /\ UNCHANGED <<req, taken>>

ReadGarbage ==
  /\ stdin # << >> /\ Head(stdin).form = "garbage"
  /\ stdin' = Unread /\ req' = Head(stdin)
  /\ Send(Response(0, "ParseError", << >>), FALSE)
  /\ UNCHANGED taken

ReadRequest ==
  /\ stdin # << >> /\ Head(stdin).form = "request"
  /\ stdin' = Unread /\ req' = Head(stdin)
  /\ taken' = taken \cup {Head(stdin)}
  /\ Goto("check")

ReadEOF ==
  /\ stdin = << >> /\ ~hostOpen
  /\ Goto(AfterEOF)
  /\ UNCHANGED <<stdin, req, taken>>

Read ==
  /\ pc = "read"
  /\ ReadBlank \/ ReadGarbage \/ ReadRequest \/ ReadEOF
  /\ UNCHANGED <<hostOpen, sent, sigVars, walkVars, outVars, emitted, calls>>
------------------------------------------------------------------------------
(* Between a request and its handler: the switch of dispatcher.run, the      *)
(* first half of handleInitialize, and compositeDispatch with the first half *)
(* of the dispatch functions.  The error results of the latter, sends        *)
(* included, come back to the loop, which answers them with an internal      *)
(* error.                                                                    *)

Cancelled ==
  /\ pc = "check" /\ signalled
  /\ Goto("returned")
  /\ UNCHANGED walkVars

EnterInitialize ==
  /\ Live /\ req.method = "initialize"
  /\ IF Decodes("optional", req.params)
       THEN /\ Goto("initialize")
            /\ todo' = Registered /\ merged' = NoRegistrations
            /\ encodable' = TRUE /\ UNCHANGED downErr
       ELSE Answer("InvalidParams", FALSE) /\ UNCHANGED walkVars

EnterShutdown ==
  /\ Live /\ req.method = "shutdown"
  /\ Goto("shutdown")
  /\ todo' = ToShutDown /\ downErr' = FALSE
  /\ UNCHANGED <<merged, encodable>>

EnterMethod ==
  /\ Live /\ req.method \notin {"initialize", "shutdown"}
  /\ \/ /\ \A k \in Handler(req.method) : req.method \notin DOMAIN Dispatch[k]
        /\ Answer("MethodNotFound", TRUE)
     \/ \E k \in Handler(req.method) :
          /\ req.method \in DOMAIN Dispatch[k]
          /\ IF Decodes(Dispatch[k][req.method].params, req.params)
               THEN Goto("method")
               ELSE Answer("InvalidParams", TRUE)
  /\ UNCHANGED walkVars

Enter ==
  /\ Cancelled \/ EnterInitialize \/ EnterShutdown \/ EnterMethod
  /\ UNCHANGED <<hostVars, sigVars, req, outVars, emitted, calls, taken>>
------------------------------------------------------------------------------
(* The handlers, called by the loop.                                        *)

(* compositeInitialize merges what a handler returns; the first error ends  *)
(* the walk.                                                                *)
InitializeHandler ==
  /\ pc = "initialize"
  /\ \E k \in Kinds : First(k) /\ todo' = todo \ {k} /\
       \/ /\ Called("initialize", k, "err")
          /\ Answer("NotReady", FALSE)
          /\ UNCHANGED <<merged, encodable>>
       \/ /\ Called("initialize", k, "nil")
          /\ UNCHANGED <<merged, encodable, pc, reply, fallback>>
       \/ \E out \in {"ok", "unencodable"} :
            /\ out = "unencodable" => "initialize" \in Unencodable
            /\ Called("initialize", k, out)
            /\ merged' = Append(merged, k)
            /\ encodable' = (encodable /\ out = "ok")
            /\ UNCHANGED <<pc, reply, fallback>>
  /\ UNCHANGED downErr

(* handleInitialize ignores the error of SendResponse: registrations that   *)
(* json.Marshal rejects are answered with nothing.                          *)
InitializeDone ==
  /\ pc = "initialize" /\ todo = {}
  /\ IF encodable THEN Send(Response(req.id, "ok", merged), FALSE)
                  ELSE Goto("read")
  /\ UNCHANGED <<walkVars, calls>>

(* The second half of the dispatch functions.                               *)
MethodReturns ==
  /\ pc = "method"
  /\ \E k \in Handler(req.method) :
       \/ Called("method", k, "ok") /\ Answer("ok", TRUE)
       \/ Called("method", k, "err") /\ Answer(FailCode(k), TRUE)
       \/ /\ req.method \in Unencodable
          /\ Called("method", k, "unencodable") /\ Answer("Internal", FALSE)
  /\ UNCHANGED walkVars

(* compositeShutdown: errors are collected and the walk goes on.            *)
ShutdownHandler ==
  /\ pc = "shutdown"
  /\ \E k \in Kinds, out \in {"ok", "err"} :
       /\ First(k)
       /\ Called("shutdown", k, out)
       /\ todo' = LeftAfter(k, out)
       /\ downErr' = (downErr \/ out = "err")
  /\ UNCHANGED <<merged, encodable, pc, reply, fallback>>

ShutdownDone ==
  /\ pc = "shutdown" /\ todo = {}
  /\ Answer(IF downErr THEN "Internal" ELSE "ok", FALSE)
  /\ UNCHANGED <<walkVars, calls>>

(* The handler the loop waits for panics.                                   *)
HandlerPanics ==
  /\ Panics
  /\ \E k \in Kinds :
       /\ \/ pc \in {"initialize", "shutdown"} /\ First(k)
          \/ pc = "method" /\ k \in Handler(req.method)
       /\ Called(pc, k, "panic")
  /\ Goto(AfterPanic)
  /\ UNCHANGED walkVars

Handle ==
  /\ \/ InitializeHandler \/ InitializeDone \/ MethodReturns
     \/ ShutdownHandler \/ ShutdownDone \/ HandlerPanics
  /\ UNCHANGED <<hostVars, sigVars, req, outVars, emitted, taken>>
------------------------------------------------------------------------------
(* Responses and notifications.                                             *)

ReplyWritten == Out!WriteOk(reply) /\ OnceWritten

ReplyFails ==
  /\ Out!WriteFails(reply)
  /\ IF fallback THEN Answer("Internal", FALSE) ELSE Goto(AfterReply)

Reply ==
  /\ pc = "reply"
  /\ ReplyWritten \/ ReplyFails
  /\ UNCHANGED <<hostVars, sigVars, req, walkVars, emitted, calls, taken>>

(* A handler that was given the Emitter, the one the loop waits for or any  *)
(* goroutine one has started.                                               *)
HasEmitter ==
  \/ pc = "initialize" /\ todo # {}
  \/ \E i \in 1 .. Len(calls) : calls[i].op = "initialize"

Emit ==
  /\ pc # "crashed" /\ HasEmitter /\ emitted < MaxEmits
  /\ Out!WriteOk(Notification) \/ Out!WriteFails(Notification)
  /\ emitted' = emitted + 1
  /\ UNCHANGED <<hostVars, sigVars, loopVars>>

GoroutinePanics ==
  /\ Panics /\ ~Stopped /\ HasEmitter
  /\ pc' = "crashed"
  /\ UNCHANGED <<hostVars, sigVars, req, walkVars, reply, fallback, calls, taken,
                 outVars, emitted>>
------------------------------------------------------------------------------
LoopStep == Read \/ Enter \/ Handle \/ Reply

(* Once the loop has stopped, nothing of it goes on; goroutines of the      *)
(* handlers may.                                                            *)
Idle == Stopped /\ UNCHANGED vars

Next == LoopStep \/ Environment \/ Emit \/ GoroutinePanics \/ Idle

Spec == Init /\ [][Next]_vars

(* The goroutine of Run is scheduled and every handler call returns.        *)
FairSpec == Spec /\ WF_vars(LoopStep)
------------------------------------------------------------------------------
(* Type invariant of the request loop; the handlers a walk has yet to visit *)
(* are registered ones (the nil checks of run.go).                          *)
TypeOK ==
  /\ stdin \in Seq(Line) /\ hostOpen \in BOOLEAN /\ sent \in 0 .. MaxLines
  /\ signalled \in BOOLEAN /\ sigTaken \in 0 .. MaxLines
  /\ pc \in {"read", "check", "initialize", "method", "shutdown", "reply",
             "returned", "crashed"}
  /\ req \in Line
  /\ todo \subseteq Registered
  /\ merged \in Seq(Kinds) /\ encodable \in BOOLEAN /\ downErr \in BOOLEAN
  /\ reply \in Message /\ fallback \in BOOLEAN
  /\ Out!LineStreamTypeOK
  /\ emitted \in 0 .. MaxEmits
  /\ calls \in Seq(Call)
  /\ taken \subseteq Line

(* What the host can decode on stdout.                                      *)
Decodable == {i \in 1 .. Len(done) : Out!WellFormed(done[i])}
Msg(i) == done[i][1].msg
Responses == {i \in Decodable : Msg(i).type = "response"}
Answered(id) == \E i \in Responses : Msg(i).id = id

(* The calls of handlers made for a request.                                *)
CallsFor(id) == {i \in 1 .. Len(calls) : calls[i].id = id}

(* The host receives at most one response per request, in the order of the  *)
(* requests, and nothing after the response to unreadable input: however    *)
(* notifications interleave and writes fail, the second response that the   *)
(* loop attempts when a dispatch function returns an error never doubles    *)
(* one the host has received.                                               *)
ResponsesInOrder ==
  \A i, j \in Responses :
    i < j => /\ Msg(i).id # 0
             /\ Msg(j).id = 0 \/ Msg(i).id < Msg(j).id

(* While stdout takes every line, no request that was read is forgotten:    *)
(* once the loop is done with it the host has a response, except for the    *)
(* one read when the context was cancelled.  A panic, wherever it strikes,  *)
(* costs the response of the request being handled and of no other.         *)
AnsweredInTurn ==
  \A r \in taken : (r.id < req.id \/ pc \in {"read", "returned"}) =>
    \/ Answered(r.id)
    \/ r = req /\ pc = "returned" /\ signalled

(* A successful initialize response means that every registered handler has *)
(* been initialized exactly once for this request and none failed; it lists *)
(* the registrations of this round only, in the order of run.go.            *)
InitializeComplete ==
  \A i \in Responses, r \in taken :
    (Msg(i).id = r.id /\ Msg(i).code = "ok" /\ r.method = "initialize") =>
      LET regs == Msg(i).regs
          For(k) == {c \in CallsFor(r.id) : calls[c].kind = k}
      IN  /\ \A k \in Registered :
               \E c \in For(k) : For(k) = {c} /\ calls[c].out # "err"
          /\ \A k \in Kinds :
               (\E n \in 1 .. Len(regs) : regs[n] = k) <=>
               (\E c \in For(k) : calls[c].out = "ok")
          /\ \A m, n \in 1 .. Len(regs) : m < n => Rank[regs[m]] < Rank[regs[n]]

(* A NotReady response names a failed handler: the handlers before it in    *)
(* the order of run.go were initialized, and none after it was.             *)
NotReadyStopsInitialize ==
  \A i \in Responses : Msg(i).code = "NotReady" =>
    \E c \in CallsFor(Msg(i).id) :
      /\ calls[c].out = "err"
      /\ \A k \in Registered :
           (\E d \in CallsFor(Msg(i).id) : calls[d].kind = k) <=>
           Rank[k] <= Rank[calls[c].kind]

(* A Shutdown that fails does not keep the others from being called: when   *)
(* Run returns after a shutdown request, the handlers have been shut down   *)
(* once each, or, when the context was cancelled first, none of them.       *)
ShutdownAllOrNone ==
  (pc = "returned" /\ \E r \in taken : r = req /\ r.method = "shutdown") =>
    LET For(k) == {c \in CallsFor(req.id) : calls[c].kind = k}
    IN  \/ \A k \in Registered : \E c \in For(k) : For(k) = {c}
        \/ signalled /\ CallsFor(req.id) = {}

(* Nothing is asked of a handler once one has been told to shut down, and   *)
(* no handler is told twice.                                                *)
NoCallAfterShutdown ==
  \A i, j \in 1 .. Len(calls) : (i < j /\ calls[i].op = "shutdown") =>
    calls[j].op = "shutdown" /\ calls[j].kind # calls[i].kind

(* Once the signal has arrived, no request read after it reaches a handler: *)
(* at most the request being handled at that moment is finished.            *)
SignalStopsDispatch ==
  signalled => \A i \in 1 .. Len(calls) : calls[i].id <= sigTaken

(* A response tells the host truthfully whether a handler ran: an error     *)
(* about the method or its parameters means no handler was called, a result *)
(* that exactly one was and succeeded, a handler's own error code that      *)
(* exactly one was and failed.  A handler that panicked is answered with    *)
(* nothing.                                                                 *)
CodesAreHonest ==
  \A i \in Responses, r \in taken :
    (Msg(i).id = r.id /\ r.method \notin {"initialize", "shutdown"}) =>
      LET mine == CallsFor(r.id)
          Once(out) == \E c \in mine : mine = {c} /\ calls[c].out = out
      IN  CASE Msg(i).code \in {"MethodNotFound", "InvalidParams"} -> mine = {}
            [] Msg(i).code = "ok" -> Once("ok")
            [] Msg(i).code = "Internal" ->
                 \A c, d \in mine : c = d /\ calls[c].out # "panic"
            [] OTHER -> Once("err")

(* "Method not found" is sent only for methods that no registered handler's *)
(* dispatch function knows: the switch of compositeDispatch hides none of   *)
(* the methods of the dispatch functions.                                   *)
NotFoundMeansUnserved ==
  \A i \in Responses, r \in taken :
    (Msg(i).id = r.id /\ Msg(i).code = "MethodNotFound") =>
      \A k \in Registered : r.method \notin DOMAIN Dispatch[k]

(* The dispatch functions treat parameters as the payload types of the      *)
(* protocol declare them: no handler is called with parameters that do not  *)
(* suit its method, such as none where its type has a mandatory field, and  *)
(* no request whose parameters do is refused on their account.              *)
ParamsAsDeclared ==
  \A r \in taken : r.method \notin {"initialize", "shutdown"} =>
    /\ CallsFor(r.id) # {} => Suits(r.method, r.params)
    /\ \A i \in Responses : (Msg(i).id = r.id /\ Msg(i).code = "InvalidParams")
         => ~Suits(r.method, r.params)

(* Seen by the host, the loop is a SerialServer.                            *)
Server == INSTANCE SerialServer WITH
            Ids <- 1 .. MaxLines,
            last <- req.id,
            busy <- pc # "read" /\ ~Stopped,
            answered <- {Msg(i).id : i \in Responses} \ {0},
            running <- ~Stopped

ServesInTurn == Server!ServerSpec

(* A request the host has sent is answered, unless the loop stops.          *)
RequestAnswered ==
  \A id \in 1 .. MaxLines :
    (\E i \in 1 .. Len(stdin) : stdin[i].id = id /\ stdin[i].form = "request")
      ~> (Answered(id) \/ Stopped)

(* Run returns after the host has closed stdin, unless a panic is faster.   *)
EofReturns == ~hostOpen ~> Stopped

(* "blocks until the host closes stdin, sends shutdown, or an OS signal is  *)
(* received": a signal makes Run return.                                    *)
SignalReturns == signalled ~> pc = "returned"
==============================================================================
