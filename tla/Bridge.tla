------------------------------- MODULE Bridge -------------------------------
(***************************************************************************)
(* The test host harness.FakeKova and the extension under test.  The host  *)
(* is one goroutine that makes calls; the extension is the request loop    *)
(* and the goroutines of its handlers, which write through one Transport.  *)
(* The two pipes between them (io.Pipe) have no buffer: a Write returns    *)
(* when the other side has read all of it, so a write of Transport happens *)
(* in a step of its reader, and the host reads only during a call.         *)
(***************************************************************************)
EXTENDS Naturals, Sequences

CONSTANTS
  Loop,          \* the goroutine of Run
  Emitters,      \* goroutines of the handlers
  NoWriter,      \* Transport.mu is free
  MaxCalls,      \* bound: calls before Shutdown
  MaxEmits,      \* bound: notifications of each emitter
  NoteMethods,   \* methods of the notifications that Emitters send
  Unencodable,   \* may the registrations of Initialize have no JSON form?
  Signals,       \* may SIGTERM or SIGINT arrive?
  Provider,      \* a provider is registered
  BufferSize,    \* the argument of WithBufferSize in MB, 0 without the option
  RequestSizes,  \* sizes of request lines, in MB
  ResultSizes    \* sizes of response lines, in MB

ASSUME BridgeAssumption ==
  /\ Loop \notin Emitters /\ NoWriter \notin Emitters \cup {Loop}
  /\ MaxCalls \in Nat /\ MaxEmits \in Nat
  /\ "response" \notin NoteMethods
  /\ Unencodable \in BOOLEAN /\ Signals \in BOOLEAN
  /\ Provider \in BOOLEAN /\ BufferSize \in Nat
  /\ RequestSizes \subseteq Nat /\ ResultSizes \subseteq Nat

VARIABLES
  mu, pc, sent, failed, accepted, done, tail,   \* those of Transport
  host,          \* where the test goroutine is
  call,          \* its call: nextID, the method, the size, success expected
  line,          \* the line it has just read
  stored,        \* FakeKova.notifications: for each method a list
  received,      \* history: for each method, what ReceivedNotifications has
                 \* handed out
  loop,          \* where dispatcher.run is
  req,           \* the request it is handling
  reply,         \* the response it is sending
  encodes,       \* what its Initialize is about to return has a JSON form
  names,         \* for each goroutine the messages it has sent: the method of
                 \* a notification or "response"
  started,       \* a handler has been given the Emitter
  signalled      \* the context of startRun is cancelled

wireVars == <<mu, pc, sent, failed, accepted, done, tail>>
hostVars == <<host, call, line>>
storeVars == <<stored, received>>
loopVars == <<loop, req, reply, encodes, started>>
vars == <<wireVars, hostVars, storeVars, loopVars, names, signalled>>

Goroutines == Emitters \cup {Loop}
Wire == INSTANCE Transport WITH
          Writers <- Goroutines, MaxSends <- MaxEmits + 2 * MaxCalls + 2,
          WriterFaults <- FALSE

Methods == {"initialize", "method", "shutdown"}
Request == [id : Nat, method : Methods, size : Nat, succeeds : BOOLEAN]
Reply   == [id : Nat, ok : BOOLEAN, size : Nat]

(* The longest line each side can read, in MB, its newline included.       *)
HostLimit == 1
LoopLimit == IF BufferSize # 0 THEN BufferSize ELSE IF Provider THEN 16 ELSE 1

Init ==
  /\ Wire!Init
  /\ host = "idle"
  /\ call = [id |-> 0, method |-> "method", size |-> 1, succeeds |-> TRUE]
  /\ line = [method |-> "response", msg |-> <<Loop, 0>>, id |-> 0, ok |-> TRUE]
  /\ stored = [m \in NoteMethods |-> << >>] /\ received = stored
  /\ loop = "read" /\ req = call /\ encodes = TRUE /\ started = FALSE
  /\ names = [w \in Goroutines |-> << >>] /\ signalled = FALSE
  /\ reply = [id |-> 0, ok |-> TRUE, size |-> 1]
------------------------------------------------------------------------------
(* Slips: faulty variants that no behaviour of the program uses.           *)

AfterReplyStays == loop
AfterCheckMute == "read"
AfterNotificationReturns == "idle"
AfterWriteOfShutdown == IF call.method = "shutdown" THEN "down" ELSE "read"
IsNotificationNever(l) == FALSE
StoreLatest(s, m) == <<m>>
LeftOfNone(m) == [l \in NoteMethods |-> << >>]

(* Where the loop goes when a line has been written: back to the handler   *)
(* that emitted it, to the next request, or out of Run.                    *)
AfterReply == IF loop = "notify" THEN "notified"
              ELSE IF req.method = "shutdown" \/ reply.id = 0 THEN "returned"
              ELSE "read"

(* A request that is not dropped is handled.                               *)
AfterCheck == "handle"

(* A notification does not end a call; sendRequest is followed by a read;  *)
(* a line with a method is a notification; notifications are appended to   *)
(* the list of their method, and only the list asked for is emptied.       *)
AfterNotification == "read"
AfterWrite == "read"
IsNotification(l) == l.method # "response"
Store(s, m) == Append(s, m)
LeftOf(m) == [stored EXCEPT ![m] = << >>]
------------------------------------------------------------------------------
(* The host.                                                               *)

(* Initialize, Call, CallExpectError: the id is taken, the Write begins.   *)
HostCalls ==
  /\ host = "idle" /\ call.id < MaxCalls
  /\ \E m \in {"initialize", "method"}, s \in RequestSizes, b \in BOOLEAN :
       call' = [id |-> call.id + 1, method |-> m, size |-> s, succeeds |-> b]
  /\ host' = "write"
  /\ UNCHANGED <<wireVars, line, storeVars, loopVars, names, signalled>>

(* Shutdown: a Call, after which the pipe to the extension is closed.  The *)
(* loop has returned from its last read by then.                           *)
HostShutdown ==
  /\ host = "idle"
  /\ call' = [id |-> call.id + 1, method |-> "shutdown", size |-> 1, succeeds |-> TRUE]
  /\ host' = "write"
  /\ UNCHANGED <<wireVars, line, storeVars, loopVars, names, signalled>>

(* What writer w is writing: the loop's response, or a notification.       *)
Size(w) == IF w = Loop /\ loop = "reply" THEN reply.size ELSE 1
LineOf(w) == IF w = Loop /\ loop = "reply"
  THEN [method |-> "response", msg |-> Wire!Current(w), id |-> reply.id, ok |-> reply.ok]
  ELSE [method |-> names[w][sent[w]], msg |-> Wire!Current(w), id |-> 0, ok |-> TRUE]

(* scanner.Scan takes the data of a line, then the newline that ends it.   *)
HostReadsData(w) ==
  /\ host = "read" /\ Size(w) <= HostLimit
  /\ Wire!WriteData(w)
  /\ UNCHANGED <<hostVars, storeVars, loopVars, names, signalled>>

HostReadsNewline(w) ==
  /\ host = "read"
  /\ Wire!WriteNewline(w)
  /\ line' = LineOf(w) /\ host' = "got"
  /\ UNCHANGED <<call, storeVars, loopVars, names, signalled>>

(* The line is too long for the host's scanner: t.Fatalf, with the rest of *)
(* the line unread.                                                        *)
HostTooLong(w) ==
  /\ host = "read" /\ pc[w] = "data" /\ Size(w) > HostLimit
  /\ host' = "unreadable"
  /\ UNCHANGED <<wireVars, call, line, storeVars, loopVars, names, signalled>>

HostStores ==
  /\ host = "got" /\ IsNotification(line)
  /\ stored' = [stored EXCEPT ![line.method] = Store(@, line.msg)]
  /\ host' = AfterNotification
  /\ UNCHANGED <<wireVars, call, line, received, loopVars, names, signalled>>

HostAnswered ==
  /\ host = "got" /\ ~IsNotification(line)
  /\ host' = IF line.id # call.id THEN "mismatch"
             ELSE IF line.ok # call.succeeds THEN "unexpected"
             ELSE IF call.method = "shutdown" THEN "down" ELSE "idle"
  /\ UNCHANGED <<wireVars, call, line, storeVars, loopVars, names, signalled>>

(* ReceivedNotifications, from the test goroutine or any other: the list   *)
(* of one method.                                                          *)
Receive(m) ==
  /\ stored[m] # << >>
  /\ received' = [received EXCEPT ![m] = @ \o stored[m]]
  /\ stored' = LeftOf(m)
  /\ UNCHANGED <<wireVars, hostVars, loopVars, names, signalled>>
------------------------------------------------------------------------------
(* The request loop.                                                       *)

Signal ==
  /\ Signals /\ ~signalled
  /\ signalled' = TRUE
  /\ UNCHANGED <<wireVars, hostVars, storeVars, loopVars, names>>

LoopReads ==
  /\ host = "write" /\ loop = "read" /\ call.size <= LoopLimit
  /\ host' = AfterWrite
  /\ req' = call /\ loop' = "check"
  /\ UNCHANGED <<wireVars, call, line, storeVars, reply, encodes, started, names, signalled>>

(* A request read after the signal is dropped: Run returns.  The extension *)
(* decides what its Initialize will return.                                *)
LoopChecks ==
  /\ loop = "check"
  /\ \/ signalled /\ loop' = "returned" /\ UNCHANGED <<encodes, started>>
     \/ /\ ~signalled /\ loop' = AfterCheck
        /\ started' = (started \/ req.method = "initialize")
        /\ encodes' \in BOOLEAN
        /\ ~encodes' => Unencodable /\ req.method = "initialize"
  /\ UNCHANGED <<wireVars, hostVars, storeVars, req, reply, names, signalled>>

(* A goroutine sends a message.                                            *)
Send(w, name) ==
  /\ Wire!Marshal(w)
  /\ names' = [names EXCEPT ![w] = Append(@, name)]
  /\ UNCHANGED <<hostVars, storeVars, signalled>>

(* bufio.ErrTooLong: the rest of the line stays in the pipe, and with it   *)
(* the Write of the host.  The loop sends a parse error and returns.       *)
LoopTooLong ==
  /\ host = "write" /\ loop = "read" /\ call.size > LoopLimit
  /\ Send(Loop, "response")
  /\ reply' = [id |-> 0, ok |-> FALSE, size |-> 1]
  /\ loop' = "reply"
  /\ UNCHANGED <<req, encodes, started>>

(* A handler emits a notification on the goroutine of the loop.            *)
HandlerEmits ==
  /\ loop = "handle" /\ started
  /\ \E m \in NoteMethods : Send(Loop, m)
  /\ loop' = "notify"
  /\ UNCHANGED <<req, reply, encodes, started>>

(* Some response to the request, of any outcome; registrations that        *)
(* json.Marshal rejects leave only the error responses.                    *)
LoopReplies ==
  /\ loop \in {"handle", "notified"}
  /\ Send(Loop, "response")
  /\ \E ok \in BOOLEAN, s \in ResultSizes :
       /\ ok => encodes
       /\ reply' = [id |-> req.id, ok |-> ok, size |-> s]
  /\ loop' = "reply"
  /\ UNCHANGED <<req, encodes, started>>

(* handleInitialize ignores the error of SendResponse for such             *)
(* registrations: the loop reads on.                                       *)
LoopMute ==
  /\ loop \in {"handle", "notified"} /\ ~encodes
  /\ loop' = "read"
  /\ UNCHANGED <<wireVars, hostVars, storeVars, req, reply, encodes, started, names, signalled>>
------------------------------------------------------------------------------
(* The Transport.                                                          *)

EmitterStarts(e) ==
  /\ started /\ sent[e] < MaxEmits
  /\ \E m \in NoteMethods : Send(e, m)
  /\ UNCHANGED loopVars

Lock(w) == Wire!Lock(w) /\ UNCHANGED <<hostVars, storeVars, loopVars, names, signalled>>

Unlock(w) ==
  /\ Wire!Unlock(w)
  /\ loop' = IF w = Loop THEN AfterReply ELSE loop
  /\ UNCHANGED <<hostVars, storeVars, req, reply, encodes, started, names, signalled>>
------------------------------------------------------------------------------
HostReads(w) == HostReadsData(w) \/ HostReadsNewline(w) \/ HostTooLong(w)
HostStep == HostStores \/ HostAnswered
LoopStep == LoopReads \/ LoopChecks \/ LoopTooLong \/ HandlerEmits \/ LoopReplies \/ LoopMute

(* Shutdown has returned or the test has failed.                           *)
Ended == {"down", "mismatch", "unexpected", "unreadable"}

Next ==
  \/ HostCalls \/ HostShutdown \/ HostStep \/ Signal \/ LoopStep
  \/ \E m \in NoteMethods : Receive(m)
  \/ \E e \in Emitters : EmitterStarts(e)
  \/ \E w \in Goroutines : HostReads(w) \/ Lock(w) \/ Unlock(w)

Spec == Init /\ [][Next]_vars

(* A goroutine that can run does, handlers return, and the mutex is fair   *)
(* to a starved waiter.  Nothing makes the test call, an emitter emit or   *)
(* the signal arrive.                                                      *)
FairSpec ==
  /\ Spec
  /\ WF_vars(HostStep) /\ WF_vars(LoopStep)
  /\ \A w \in Goroutines :
       WF_vars(HostReads(w)) /\ WF_vars(Unlock(w)) /\ SF_vars(Lock(w))
------------------------------------------------------------------------------
(* Type invariant of the exchange.                                         *)
TypeOK ==
  /\ Wire!TypeOK
  /\ host \in {"idle", "write", "read", "got"} \cup Ended
  /\ loop \in {"read", "check", "handle", "notify", "notified", "reply", "returned"}
  /\ call \in Request /\ req \in Request /\ reply \in Reply
  /\ encodes \in BOOLEAN /\ started \in BOOLEAN /\ signalled \in BOOLEAN
  /\ names \in [Goroutines -> Seq(NoteMethods \cup {"response"})]
  /\ \A w \in Goroutines : Len(names[w]) = sent[w]
  /\ pc[Loop] # "idle" <=> loop \in {"notify", "reply"}

(* The loop has a request and the host has not read all of its response.   *)
Owes ==
  \/ loop \in {"check", "handle", "notify", "notified"}
  \/ loop = "reply" /\ pc[Loop] # "unlock"

(* The loop is done with the host's request and will send no response:     *)
(* the registrations had no JSON form, or the signal came first.           *)
Unanswered ==
  /\ req = call
  /\ (loop = "read" /\ ~encodes) \/ (loop = "returned" /\ signalled)

(* Host and loop do not wait for each other: the host waits for a line     *)
(* only while the loop owes it a response, and for its own line to be      *)
(* taken only while the loop is on its way to the next read, unless the    *)
(* line is longer than the loop can read.  A request that the code leaves  *)
(* without a response is the exception.                                    *)
NoCircularWait ==
  /\ host = "read" => Owes \/ Unanswered
  /\ host = "write" /\ call.size <= LoopLimit => ~Owes /\ loop # "returned"

(* The next response is the response to the host's own call, whatever      *)
(* notifications arrive before it and whenever they were emitted.          *)
OwnResponse ==
  /\ host # "mismatch"
  /\ host \in {"idle", "down"} /\ call.id > 0 => line.id = call.id

(* All the test has got or can get from ReceivedNotifications(m).          *)
Kept(m) == received[m] \o stored[m]
Name(id) == names[id.from][id.n]

(* A notification is never lost or handed out twice: once Emit has         *)
(* returned, the test gets it from ReceivedNotifications of its method     *)
(* exactly once, from that of no other method, and those of one goroutine  *)
(* and method in the order it emitted them.  Only the line the host has in *)
(* hand is not there yet, so that when a call returns all are.             *)
NotificationsKept ==
  /\ \A id \in accepted : Name(id) \in NoteMethods =>
       LET at == {k \in 1 .. Len(Kept(Name(id))) : Kept(Name(id))[k] = id}
       IN  (\E k \in at : at = {k}) \/ (host = "got" /\ line.msg = id)
  /\ \A m \in NoteMethods :
       /\ \A k \in 1 .. Len(Kept(m)) : Name(Kept(m)[k]) = m
       /\ \A j, k \in 1 .. Len(Kept(m)) :
            (j < k /\ Kept(m)[j].from = Kept(m)[k].from) => Kept(m)[j].n < Kept(m)[k].n

(* A provider "responds with stream_chunk notifications followed by a      *)
(* stream_end notification, then the final JSON-RPC result": when a call   *)
(* returns, the test can get all that the handler emitted before it        *)
(* returned its result.                                                    *)
StreamBeforeResult ==
  host \in {"idle", "down"} =>
    \A n \in 1 .. Len(names[Loop]) : names[Loop][n] \in NoteMethods =>
      \E k \in 1 .. Len(Kept(names[Loop][n])) :
        Kept(names[Loop][n])[k] = [from |-> Loop, n |-> n]

(* A call whose line the extension can read returns or fails the test,     *)
(* however the emitters interfere, unless the code leaves its request      *)
(* without a response.                                                     *)
Calling == host \in {"write", "read", "got"}
CallReturns ==
  (Calling /\ call.size <= LoopLimit) ~> (~Calling \/ (host = "read" /\ Unanswered))

(* "Call sends a JSON-RPC request and returns the result", or fails the    *)
(* test: no call of the test host is left hanging.                         *)
EveryCallReturns == Calling ~> ~Calling

(* Run returns once Shutdown has: an emitter that is left in a Write which *)
(* nobody reads any more, with the mutex, does not keep the loop.          *)
RunReturns == (host = "down") ~> (loop = "returned")
=============================================================================
