# A TLA+ model of the kova extension SDK

The SDK lets a program be an *extension* of the kova host: the host starts it as a
process and speaks JSON-RPC 2.0 to it over its standard input and output, one JSON
text per line. These modules model the parts of the SDK that have state, failure or
concurrency; TLC checks them on small instances and TLAPS proves theorems about them for
every value of their constants.

## Inventory

| component | source | state | operations | interacts with |
|---|---|---|---|---|
| Transport | `jsonrpc/transport.go` | scanner, writer, mutex | `ReadRequest`, `SendResponse`, `SendError`, `SendNotification`, `writeLine` | called by the dispatcher and by every Emitter |
| Dispatcher and `Run` | `extension/extension.go`, `extension/run.go` | the place in the loop, the context, the registrations being merged | `run`, `handleInitialize`, `handleShutdown`, `compositeInitialize`, `compositeDispatch`, `compositeShutdown` | reads the Transport, calls the handlers, writes responses |
| Extension kinds | `extension/{channel,provider,tool,tts,stt,hook,http,service}.go` | none | one dispatch function each | called by `compositeDispatch` |
| Emitter | `extension/extension.go` | none of its own | `Log`, `EmitChannelMessage`, `EmitStreamChunk`, `EmitStreamEnd`, `EmitStreamError` | called by handlers and their goroutines, writes the Transport |
| Breaker | `retry/breaker.go` | state, failures, openedAt, mutex | `State`, `Do`, `Reset` | called by any goroutine |
| Retry | `retry/retry.go` | one call: counter, delay, timer | `Do`, `DoWithResult` | context, timer, the caller's `fn` |
| IsTransient | `retry/retry.go` | none | `IsTransient`, `HTTPError` | asked by callers about the errors of `Do` |
| Test host | `harness/harness.go` | next id, scanner, pipes, stored notifications | `Initialize`, `Call`, `CallExpectError`, `Shutdown`, `ReceivedNotifications` | the other end of the Transport |
| Protocol | `protocol/*.go` | none | method names, error codes, payload types | used by all |
| Schemas | `cmd/generate-schemas`, `schemas/` | none | writes JSON files from the payload types | none at run time |

What is hard in each, and the properties that answer it:

- **Transport.** Data and newline are two writes under one mutex; either may fail, the
  first half-way. No two messages may interleave, no error path may keep the mutex, and
  a caller must be told the truth about what the host can decode.
- **Dispatcher.** The host need not wait for responses, may repeat `initialize`, close its
  end or send text that is no request; a signal may arrive at any step; a handler or a
  goroutine it started may panic; a response may fail to be encoded or written after the
  handler ran, and the loop then sends a second one. At most one response per request,
  in order, truthful, and none forgotten; initialize and shutdown complete.
- **Kinds.** The switch of `compositeDispatch` and the eight dispatch functions are two
  tables kept by hand in different files, and the dispatch functions differ in what they
  do with a request that has no parameters.
- **Breaker.** `fn` runs without the mutex, so outcomes are recorded in any order and in
  states they were not admitted in.
- **Retry.** Cancellation races the timer; zero attempts; the last attempt; the cap; and
  how an error of the network is told from one that the end of the context caused.
- **Test host.** Its pipes have no buffer, so a write lasts until the other side has read
  it: the test, the loop and the emitters can wait for one another, and do when the code
  gives a request no response. Both sides have a longest line they can read.
  Notifications come at any moment and are handed out later, method by method.

`PROJECT.json` lists each hazard at its line with the properties that cover it.

## Modules

| module | models | uses |
|---|---|---|
| `LineStream` | abstract: stdout as completed lines and unterminated text; one-step writes | |
| `Transport` | the write side of `jsonrpc.Transport`, goroutine by goroutine | `LineStream` |
| `Routing` | methods, error codes, the switch and the dispatch tables | |
| `SerialServer` | abstract: a server that takes requests one at a time and answers each at most once | |
| `Runner` | `Run`: request loop, composites, handlers, Emitter, host, signal, panics | `Routing`, `LineStream`, `SerialServer` |
| `Bridge` | the test host, the loop and the emitters over two unbuffered pipes | `Transport` |
| `Breaker` | `retry.Breaker` shared by several goroutines | |
| `Transient` | `IsTransient` over chains of errors | |
| `Retry` | one call of `retry.Do` or `DoWithResult`, and its caller's question | `Transient` |
| `MCTransport`, `MCRunner`, `MCBreaker`, `MCRetry` | instances for TLC | |
| `TransportProofs`, `RunnerProofs`, `RunnerCallProofs`, `RunnerReplyProofs`, `RunnerLoopProofs`, `BridgeProofs`, `BreakerProofs`, `RetryProofs` | theorems | |

Some definitions are marked *slip*. Each is a mistake in the small definition that
follows it, such as a lock that is always free or an error that is dropped, and no
behaviour uses it. With a slip in the place of its definition TLC finds a property
violated: every property can be broken by an error of the code.

### Transport

`mu` is the mutex, `pc[w]` the place of goroutine `w` in its call, and the output is what
`LineStream` holds: `done`, the lines ended by a newline, each a sequence of *fragments*,
and `tail`, the fragments after the last newline. A fragment is the whole text of a
message or a truncated part of it. `Marshal` and `MarshalFails` stand for the three `Send`
methods up to the lock; `Lock`, `WriteData`, `WriteNewline` and `Unlock` for `writeLine`;
the `...Fails` actions for its error returns. An io.Writer that returns an error has by
its contract written less than it was given, so a failed data write leaves none or a
part of the text and a failed newline write leaves no newline.

A line is what a newline ends. The host's `bufio.Scanner` also hands out text that no newline
ends when the output is closed behind it; `DecodableMeansAccepted` does not speak of that
text, which may be the message of a call whose newline failed.

`LineStream` says what callers may rely on: a write ends the current line with its
message, or fails and leaves some text behind. `AtomicLines` states that `Transport`
implements it, with the text of a call that still owes its newline hidden from the
abstract `tail`. `Runner` relies on that result when it writes a line in one step.

### Runner and Routing

One action per step of the loop that another actor can observe: reading a line (`Read`),
looking at the context and choosing the handler (`Enter`), the handler's return
(`Handle`), the response (`Reply`). Each is a disjunction of the cases in the code, and
what all of them leave alone is stated once. `pc` says where `dispatcher.run` is. The
walks of `compositeInitialize` and `compositeShutdown` visit `todo`, lowest `Rank` first.
A line has a `form` ("request", "blank", or "garbage", for malformed JSON and for lines
above the scanner's limit), a method, and parameters that are absent, valid or
malformed. Lines are numbered in the order they are sent and the number is the
request's id: ids are unique and increase, as those of a host that counts
(`harness/harness.go:137-160`). Requests with repeated ids are not modelled.

A handler returns a result, an error, or a result without a JSON form; `Unencodable`
lists the methods where the last can happen, and *initialize* may also return no
registrations. When a dispatch function returns an error, because the result could not
be encoded or the write failed, `fallback` makes the loop send an internal error, as
`extension.go:130-131` does; the responses of initialize and shutdown have no such
second try. `merged` keeps the kinds whose registrations were merged, in order.

Nothing in the SDK recovers a panic. `HandlerPanics` is that of the handler the loop
waits for, and `GoroutinePanics` that of a goroutine some handler started; both take the
process to "crashed", with the lines written so far on the output and everything else
gone. A process that dies in the middle of a write leaves a piece of text behind that
the host cannot decode; that text is left out.

`Emit` is a notification written through the Emitter, by the handler the loop waits for or
by a goroutine that a handler left running since its `Initialize`. Nothing in the Emitter
ties a chunk to the request it belongs to: that a handler emits its stream before it
returns is its own contract (`extension/provider.go:25-29`), and a goroutine of it may emit
after the response. What the SDK makes of that contract is a property of `Bridge`
(`StreamBeforeResult`). The host that sends the lines is the kova host and not part of the
repository. `calls`, `taken` and
`sigTaken` are history variables and no guard reads them, apart from `Emit` and
`GoroutinePanics`, which ask whether a handler has been given the Emitter.

`Routing` keeps the two tables apart on purpose: `Case` is the switch of
`compositeDispatch`, `Dispatch` the tables of the dispatch functions, with what each does
to absent parameters and the code it sends for a handler's error. `NeedsParams` and `NoPayload`
are a third table, taken from the payload types of `protocol/*.go` and not from the dispatch
functions: which methods have a payload with a field that is not `omitempty`, and which have no
payload at all. `ParamsAsDeclared` compares what happens to a request with that table.

### Bridge

The composition a test of an extension runs: the test goroutine in `FakeKova`, the loop,
and goroutines that emit. `io.Pipe` has no buffer, so a write is a step of its reader:
`LoopReads` takes the line the host is in the middle of writing (`host = "write"`), and
`HostReadsData` and `HostReadsNewline` are the two writes of `Transport`, which happen only
while the host reads, that is, during a call. The writing side is module `Transport`
itself (`Wire`), with the mutex, so that an emitter whose line nobody reads keeps the
loop from sending.

A line has a size in MB. `HostLimit` is the buffer of the host's scanner and `LoopLimit`
that of the extension's, which depends on `WithBufferSize` and on whether a provider is
registered (`Provider`). A scanner that meets a longer line stops in the middle of it: `HostTooLong`
fails the test, `LoopTooLong` answers with id 0 and leaves the rest of the line, and
the write of it, where they are.

The host ends in "down" (Shutdown has returned) or in one of the places where `t.Fatalf`
ends the test: an id that is not its own ("mismatch"), an error where it wanted a result or
the reverse ("unexpected"), an unreadable line. `stored` is `FakeKova.notifications`, a list for
each method, and `Receive` is `ReceivedNotifications`, from any goroutine: it hands out and
empties the list of the method it is asked for. Across methods the code keeps no order, and
the properties claim none. `names[w]` is, for each message of a goroutine, the method of
the notification or "response", as `Transport` itself does not look at the content. The second
half of Shutdown closes the pipe to the extension; the loop has returned from its last read
by then.

Two paths of the loop give a request no response. `LoopChecks` returns when the signal has
come before the request is handled (`extension.go:119-121`), and `LoopMute` goes back to the
next read when the registrations of an initialize have no JSON form, because the error of
`SendResponse` is dropped (`extension.go:152-153`). In both the test stays in its read for good.
`Unanswered` names exactly these states, and `NoCircularWait`, `CallReturns` and `NoDeadlock`
except them and nothing else; the first is the subject of `runner_mute_initialize`. A request
that fails in another way is answered with an error. As a bound, a handler
emits at most one notification of its own for a request: `StreamBeforeResult` is about a stream
of one, and the chunks of a longer one are kept in their order by `NotificationsKept`.

### Breaker

Each section under the mutex is one action: `Reject`, `Admit`, then `Failure` or `Success`,
or `Panic`, which passes through `Do` and records nothing. `age` counts the ticks since
`openedAt` and stops at `Cooldown`; `failures` stops at `Threshold`, above which the code only
compares it. A threshold below 1 behaves as 1 and is not modelled separately.

### Retry and Transient

The steps of the loop: the context is looked at (`CtxErr`, `Attempt`), `fn` is called
(`CallFn`) and returns, the timer is started, the select takes the timer (`TimerFires`) or the
context (`CtxDone`), either if both are ready. The number of attempts and the initial delay
are chosen at the start; time is in ticks, the multiplier is a fraction, jitter any value
from half of the delay to all of it. `DoWithResult` has the same control flow; its zero
value goes with every non-nil error and is not a variable.

An error is the sequence of its layers in the order in which `errors.Is` and `errors.As`
visit them. A layer has a *kind*, the types the checks of `IsTransient` tell apart, and
the status of an `HTTPError`. The kinds include the timeouts of `net` and `net/http`, whose
method `Is` claims to be `context.DeadlineExceeded`. `fn` fails with one of `Errors`, the
context ends with one of its two errors, and the caller asks `IsTransient` about what it gets.

## Runs

| run | instance | shows |
|---|---|---|
| `transport_faults` | 2 goroutines, 2 calls each, write faults | exclusion, atomic lines, truthful results, order, no call stuck |
| `runner_lifecycle` | handlers for channel and tool that may panic, 3 host lines out of 5, a signal | answers, complete initialize and shutdown, signals, liveness |
| `runner_faults` | a provider that may panic, 2 host lines, 1 notification, write faults | one response per request, honest codes, `SerialServer` |
| `runner_routing` | 6 of 8 kinds, every method with every form of parameters, 1 line, write faults | both routing tables agree, parameters taken or refused as declared |
| `bridge_calls` | a call and the shutdown, an emitter with 2 notifications and a handler that emits, 2 methods, registrations without a JSON form, a signal, lines within and beyond both limits, buffer option | nobody waits in a circle but for a request without a response, every call gets its own response, notifications are kept in the order of their method, a stream is there before its result, calls and `Run` return |
| `breaker_safety` | 3 callers, threshold 2, cooldown 2 | count and state agree, cooldown respected, it comes back |
| `retry_do` | 0, 1 or 4 attempts, initial delay 0, 2 or 4, cap 3, growth 3/2, jitter, every kind of error | truthful result, waits, one late call at most, cancellation is final and a transient error that of the last attempt, it returns |

Five more runs check a statement of the repository that the program does not keep:

| run | statement | what happens |
|---|---|---|
| `runner_mute_initialize` | messages "are requests expecting a response" (`protocol/types.go:6-7`) | registrations without a JSON form: no response at all |
| `runner_signal_blocked` | blocks until "... an OS signal is received" (`extension/channel.go:58-59`) | a Run blocked in a read does not see the signal |
| `bridge_oversized` | "Call sends a JSON-RPC request and returns the result" (`harness/harness.go:85-87`) | a line above the extension's limit: the call hangs in its write |
| `breaker_one_probe` | "allows one probe request" (`retry/breaker.go:24`) | every caller that finds it half-open is admitted |
| `transient_timeout` | "This includes network timeouts" (`retry/retry.go:134`) | the timeouts of `net.Dialer` and `http.Client` are taken for the end of the context |

Noted while modelling and not given runs of their own:

- After a failed write the next accepted message shares its line, where
  `jsonrpc/transport.go:105` says "writes it as a single NDJSON line";
  `SharedTextIsFailed` says how far this goes.
- A shutdown request read after a signal is dropped and no handler is shut down, where
  `extension/extension.go:102` says "onShutdown is called when the host sends shutdown";
  `ShutdownAllOrNone` allows that case by name.
- A success of a call admitted earlier closes the breaker during the cooldown
  ("stays open for `cooldown`", `retry/breaker.go:35-36`).
- `Backoff.Max` ("Maximum delay between retries", `retry/retry.go:16`) does not bound the
  first delay, which is why `WaitsBetweenCalls` bounds the waits from the second on; a
  Multiplier or a Max left at zero makes every wait after the first one zero; with no
  attempts `DoWithResult` returns a nil error without calling `fn`, which
  `ReturnIsTruthful` allows explicitly.
- `FakeKova.Shutdown` "closes the host-side pipes" (`harness/harness.go:117`) but closes only the
  one to the extension: an emitter that is late stays in its write for ever. `Run` returns all
  the same (`RunReturns`).
- The *Multi-Type Limitation* of the SDK's README describes the single-kind `Run*`
  functions and not `Run`, which composes kinds.

**Bounds.** Two goroutines and two calls are enough for a failed call, its successor on the
same line and a competitor. Two registered kinds with an unregistered one between them
show the nil checks, a walk that fails first, last or not at all, and its order; three lines
allow initialize twice and a request behind a shutdown. Two lines and one notification
put a failed response, its second try and a notification around the next response.
The routing run needs one line, since routing keeps no state. In `bridge_calls` one call and
the shutdown, with an emitter and the handler emitting, put notifications before,
between and after responses, leave the emitter in a write with the mutex while the loop waits
for it, and the emitter alone when the host stops reading; two notifications of two methods
from one goroutine are handed out in every order. More emitters are covered by the proofs. Three callers give a probe, a late success and a late
failure at once. `MaxLines`, `MaxEmits`, `MaxSends` and `MaxCalls` are the only bounds in
guards; `age` and `failures` saturate where the code no longer tells values apart. The
passing runs have between a few hundred and 303,000 states.

**Fairness.** `Transport`: weak fairness of the steps inside `writeLine` (the goroutine runs
and the io.Writer returns), strong fairness of `Lock` (`sync.Mutex` hands over to a waiter
starved for 1 ms). `Runner`: weak fairness of the loop, that is, the goroutine runs and
handlers return or panic; none of the host, the signal or the emitters. `Bridge`: weak
fairness of the host inside a call, of the loop, and of each write while the host reads it;
strong fairness of `Lock` as above; nothing makes the test call, an emitter emit or the
signal arrive. `Breaker`:
time passes and `fn` returns; nothing of the callers, hence `AdmitsAgain` speaks of what
the breaker would do with a call. `Retry`: the goroutine runs, `fn` returns, time passes.

Deadlock checking is on in every run but the two of `Bridge`: `Finished`, `Idle` and `Returned`
are explicit stuttering steps for the states where a program has come to its end. A test
may end with everything at rest, or, with a line that is too long, hang for good: whether it
may is what `CallReturns`, `RunReturns` and `EveryCallReturns` are about.

## Proofs

All from the named assumptions on the constants, for any number of goroutines, requests,
handlers, emitters, callers or attempts. They cover every safety property of the passing
runs. A theorem that needs more says so in an ASSUME of its own:
`AnsweredInTurnHolds` and `OnlyMuteIsForgotten` a stdout that takes every line, `NoDeadlockHolds`
a handler that has some result (`ResultSizes # {}`), `OutageIsFinite` finitely many callers,
`OneCallerAsDocumented` one caller.

Liveness under fairness is out of reach here, and ENABLED with it. Its *safety half* is not,
and is proved: the steps that matter lower a measure in a well-founded order, so that only
finitely many of them follow one another (`NoEndlessCall`, `LoopComesToRest`, `OutageIsFinite`,
`LockIsReleased`), and until the end is reached some guard holds (`NeverStuck`, `LoopNeverStuck`,
`NoDeadlockHolds`). What is left to TLC is that fairness makes a step with a true guard happen.
The guards are written out in the theorems (`SomeGuard`, `LoopGuard`, `WriterGuard`) in place of
ENABLED.

`TransportProofs`
- `TypeCorrect`: strengthened by `CallBegun` (who is inside a call has begun one), so that
  the message being written is a message.
- `MutualExclusionHolds`: mutual exclusion alone is not inductive; `LockHeldInside`, being
  inside is the same as holding `mu`, is.
- `WritesAreAtomic`: the refinement of `LineStream`. The invariant `TailEndsWithCurrent` says
  that a goroutine which owes a newline has its message last in `tail`; every step is then
  a `WriteOk`, a `WriteFails` or a stutter.
- `SharedTextIsFailedHolds`: text that waits for a newline nobody owes is `Lost`, its call has
  failed and cannot be accepted any more; lost text stays lost.
- `AcceptedEndsOneLineHolds`, `DecodableMeansAcceptedHolds`, `CallOrderHolds`: from `EndsInv`, about
  the last fragment of a line. It is the whole text of a `Settled` message, one whose call
  has returned nil or will; a settled message ends a line; and the lines of one goroutine are in
  the order of its calls.
- `LinesWhole`: without write faults every line is one message.
- `LockIsReleased`: the mutex is held only by a goroutine inside `writeLine`, each of its steps, with
  errors and without, brings it nearer to `Unlock`, and no other goroutine moves it.

`RunnerProofs`
- `TablesAgree`: the switch and the dispatch tables name the same methods for each kind.
- `OneHandlerPerMethod`: no two cases of the switch claim a method, and the methods that no kind
  serves are those of voice.
- `TypeCorrect`.
- `ResponsesInOrderHolds`: `NumberInv` numbers the lines (those waiting on stdin are above the one
  being handled), `ReplyInv` ties the response being sent to that line, and `SentBefore` says
  that every response the host can decode is of an earlier line, or of this one when the
  loop is past it. A write that fails completes no line, which is why the second try of the
  loop cannot double a response.
- `ImplementsSerialServer`: the same invariant makes every step of the loop, panics included,
  a step of the serial server or a stutter.

`RunnerCallProofs`, about the calls of the handlers
- `SignalStopsDispatchHolds`, `NoCallAfterShutdownHolds`: calls are for lines no later than the one
  being handled (`CallInv`); what was read before the signal (`SigInv`); after a call of
  Shutdown the loop does nothing but finish the walk and return (`DownInv`).
- `OnlyMuteIsForgotten`: where stdout takes every line, a request the loop is done with has been
  answered, or was read when the context was cancelled, or is an initialize for which a handler
  returned registrations without a JSON form. `MuteInv` ties the last case to the call that
  caused it. `runner_mute_initialize` shows that it happens.
- `AnsweredInTurnHolds` is the corollary for registrations that have a JSON form.
- `ShutdownAllOrNoneHolds`: along a walk, who is in `todo` has not been called and who is not has
  been called once (`ShutInv`).

`RunnerReplyProofs`, about what a response says
- `CodesAreHonestHolds`, `NotFoundMeansUnservedHolds`: a response the host can decode is an old one,
  whose calls do not change any more, or the one being sent (`OldOrNew`), and there are seven
  ways in which one comes to be sent (`ReplyStarts`). The code is shown to be truthful at that
  point, and so is the internal error that may replace it.
- `ParamsAsDeclaredHolds`: the decision to call a handler or to refuse the parameters is
  taken once (`EnterDecides`), and the tables of the dispatch functions agree with the
  declarations (`PayloadsAgree`).
- `InitializeCompleteHolds`, `NotReadyStopsInitializeHolds`: `WalkInv` describes a walk of initialize
  that has met no error, with what it merged; where it ends it yields `Complete`, and where a
  handler fails `Failed`.

`RunnerLoopProofs`, about what drives the loop
- `WritesToLineStream`: every response and notification the loop and the emitters write is a
  message of `LineStream`, the specification that `Transport` implements (`WritesAreAtomic`).
- `ResponsesAscendUntilStop`: an invariant of `SerialServer` (`ServerInv`) gives its action property
  `AnswersAscend`, which `ImplementsSerialServer` carries over to the loop: each response is for a
  later request than all before it, and none comes once the loop has stopped, although
  goroutines of the handlers go on writing.
- `LoopComesToRest`: the lines to read, the place in the loop and the handlers left to visit, compared
  in this order, fall with every step of the loop and every panic; only another line of the
  host raises them.
- `LoopNeverStuck`: a method in the hands of a handler has one (`MethodHasHandler`), and a walk with
  handlers left has a next one in the order of run.go (`NextOfWalk`).

`BridgeProofs`
- `ImplementsTransport`: the writes that happen in steps of the reader are steps of `Transport`, so
  its theorems hold of the composition; `TypeCorrect` takes over the types of the Transport
  that way.
- `NoCircularWaitHolds`, `OwnResponseHolds`: `Exchange` says for every place of the host what the
  loop owes it: to serve the host's own call, unless it has left it `Unanswered`. The emitters
  have no part in it: they can delay the loop and change nothing. `NamesInv` ties what is
  being written to what it is, a response exactly when the loop is answering.
- `NotificationsKeptHolds`: `InOrder` says that what the host has of one goroutine and one method is
  in the list of that method and in the order of its calls, with the line in hand last;
  `AllArrive` that a message whose newline is written is a response or has arrived.
- `StreamBeforeResultHolds`: when a call returns the loop is past its last write (`Exchange`,
  `LoopLeaves`), so all it has sent has been read and is in a list.
- `LinesAreWholeHere`: what `TransportProofs` says of exclusion, whole lines, accepted messages and
  their order, taken over to the composition; `HostReadsWholeLines` that the line the host acts on is
  the last of them, whole and alone on its line.
- `NoDeadlockHolds`: during a call whose line the extension can read, and whose request the code
  has not left without a response, the host, the loop or the goroutine that holds the mutex has
  a step to take; after Shutdown the loop only has its Unlock
  left. `SendsBounded` keeps `MaxSends` of `Transport` from being what stops the loop, and `LoopLeaves`
  says where it is after the last response.

`BreakerProofs`
- `TypeCorrect`, `ThresholdDecidesHolds` and `NoCallDuringCooldownHolds`, from the type, of which a
  half-open breaker is past its cooldown is a part, and the equivalence of *closed* with a count
  below the threshold. `FailedProbeReopensHolds` follows as an action property.
- `OutageIsFinite`: during a cooldown every step ends it or lowers the pair of the calls still running
  and the ticks left: rejected calls do not prolong an outage, and each late failure does so once.
- `OneCallerAsDocumented`: with a single caller the breaker admits one probe and moves between its
  states as its doc comment says; `breaker_one_probe` refutes the first with more callers.

`RetryProofs`
- `TypeCorrect`, `ReturnIsTruthfulHolds`, `OneLateCallHolds`, `WaitsBetweenCallsHolds` from one invariant:
  `Progress` counts calls and waits by the place of the call, `Running` says that nothing has
  succeeded before the return, `Lateness` that a late call is the last, and `Capped` that the delay
  is within Max once it has grown.
- `CancellationIsFinalHolds`: the check of the context comes first in `IsTransient`, so that nothing else
  in the chain can make a cancelled operation transient (`ContextIsFinal`); and the only transient
  errors `Do` returns are those of the last attempt, since what it returns in the other cases is
  nil or the context's error.
- `WrappingKeepsTransience`: layers of kinds that `IsTransient` does not look for, any number of them in
  front of an error, change nothing of its answer. For this `FirstOf`, what `errors.As` finds, is a
  CHOOSE of the first layer and not recursive.
- `NoEndlessCall`, `NeverStuck`: every step lowers the attempts left, the place in the attempt, the ticks
  left of a wait and the cancellation still to come, compared in this order; and until the return a
  guard holds.

Only model-checked: everything under fairness (`SendReturns`, `RequestAnswered`, `EofReturns`,
`CallReturns`, `RunReturns`, `AdmitsAgain`, `DoReturns`). For the calls of the test host
`NoDeadlockHolds` has no measure beside it: emitters may put any number of lines before a
response, and only the strong fairness of `Lock` ends that.

## Not modelled

- Payload types and their encodings: only the size of a line, whether a value can be encoded
  or decoded, and whether a payload has a mandatory field. `MustUnmarshal` and `FormatError` of the test host are such conversions.
- The schema generator and its output: a sequential command for developers that reflects
  over the payload types and shares no state with the rest of the SDK.
- Hosts that repeat ids, and handlers that never return: the first makes "the response to a
  request" ambiguous, the second makes every liveness property false.
- Text cut off by a crash in the middle of a write, and tests that use one `FakeKova` from
  several goroutines other than for `ReceivedNotifications`.
- What the wall clock does to `Breaker` and `Retry` beyond the passing of ticks.

## Plan

Done: all modules above, the proofs of every safety property and the safety halves of the
liveness properties. What could follow: a host that repeats ids, as a specification of what
such a host may rely on at all; the loop of `Bridge` shown to be one of the loops of `Runner`; and
a stream of emitters that is bounded by the mutex rather than by `MaxEmits`.
