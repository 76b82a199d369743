-------------------------- MODULE RunnerLoopProofs --------------------------
(* What drives the request loop: its steps cannot go on for ever without   *)
(* new input, it is never stuck, and what it writes is a LineStream that   *)
(* falls silent when it stops.                                             *)
EXTENDS RunnerProofs, FiniteSetTheorems, WellFoundedInduction
------------------------------------------------------------------------------
(* The output.                                                              *)

(* The response being sent and every notification can be encoded: all the  *)
(* loop and the Emitters write are lines of LineStream, which is what      *)
(* module Transport implements.                                            *)
THEOREM WritesToLineStream == Spec => Out!LineStreamSpec
<1>1. Init => Out!LineStreamInit
  BY DEF Init
<1>2. ASSUME TypeOK, [Next]_vars PROVE [Out!LineStreamNext]_(Out!lineVars)
  <2>1. CASE UNCHANGED outVars
    BY <2>1 DEF outVars, Out!lineVars
  <2>2. CASE Reply
    <3>1. reply \in Message
      BY <1>2 DEF TypeOK
    <3> QED
      BY <2>2, <3>1, ReplyShape DEF Out!LineStreamNext
  <2>3. CASE Emit
    <3>1. Out!WriteOk(Notification) \/ Out!WriteFails(Notification)
      BY <2>3 DEF Emit
    <3> QED
      BY <3>1, NotificationIsMessage DEF Out!LineStreamNext
  <2> QED
    BY <1>2, <2>1, <2>2, <2>3, ReadShape, EnterShape, HandleShape, EnvironmentShape
       DEF Next, LoopStep, GoroutinePanics, Idle, vars, outVars
<1> QED
  BY <1>1, <1>2, TypeCorrect, PTL DEF Spec, Out!LineStreamSpec
------------------------------------------------------------------------------
(* The responses.                                                           *)

LEMMA ServerInvInit == Server!ServerInit => Server!ServerInv
  BY DEF Server!ServerInit, Server!ServerInv

LEMMA ServerInvStep ==
  Server!ServerInv /\ [Server!ServerNext]_(Server!serverVars) => Server!ServerInv'
<1> SUFFICES ASSUME Server!ServerInv, [Server!ServerNext]_(Server!serverVars)
             PROVE  Server!ServerInv'
  OBVIOUS
<1> USE RunnerAssumption DEF Server!ServerInv
<1>1. ASSUME NEW id \in 1 .. MaxLines, Server!Take(id) PROVE Server!ServerInv'
  <2>1. /\ AnsweredIds \subseteq 1 .. req.id /\ AnsweredIds' = AnsweredIds
        /\ req.id \in Nat /\ id > req.id /\ req'.id = id /\ ~Stopped
        /\ Stopped' <=> Stopped
    BY <1>1 DEF Server!Take, AnsweredIds
  <2>2. id \in Nat /\ AnsweredIds' \subseteq 1 .. id /\ id \notin AnsweredIds'
    BY <2>1
  <2> QED
    BY <2>1, <2>2 DEF AnsweredIds
<1>2. CASE Server!Answer
  BY <1>2 DEF Server!Answer
<1>3. CASE Server!GiveUp
  BY <1>3 DEF Server!GiveUp
<1>4. CASE Server!Stop
  BY <1>4 DEF Server!Stop
<1>5. CASE UNCHANGED Server!serverVars
  BY <1>5 DEF Server!serverVars
<1> QED
  BY <1>1, <1>2, <1>3, <1>4, <1>5 DEF Server!ServerNext

LEMMA AscendStep ==
  Server!ServerInv /\ [Server!ServerNext]_(Server!serverVars)
    => [Server!AscendingAnswer]_(Server!serverVars)
<1> SUFFICES ASSUME Server!ServerInv, Server!ServerNext PROVE Server!AscendingAnswer
  BY DEF Server!serverVars, Server!AscendingAnswer
<1>1. ASSUME NEW id \in 1 .. MaxLines, Server!Take(id) PROVE Server!AscendingAnswer
  BY <1>1 DEF Server!Take, Server!AscendingAnswer
<1>2. CASE Server!Answer
  <2>1. /\ AnsweredIds' = AnsweredIds \cup {req.id} /\ req.id \notin AnsweredIds
        /\ AnsweredIds \subseteq 1 .. req.id /\ req.id \in Nat /\ ~Stopped
    BY <1>2 DEF Server!Answer, Server!ServerInv, AnsweredIds
  <2>2. \A a \in AnsweredIds : a < req.id
    BY <2>1
  <2> QED
    BY <2>1, <2>2 DEF Server!AscendingAnswer, AnsweredIds
<1>3. CASE Server!GiveUp
  BY <1>3 DEF Server!GiveUp, Server!AscendingAnswer
<1>4. CASE Server!Stop
  BY <1>4 DEF Server!Stop, Server!AscendingAnswer
<1> QED
  BY <1>1, <1>2, <1>3, <1>4 DEF Server!ServerNext

(* The host never receives a response for a request older than one already *)
(* answered, nor two in one step, nor any once Run has returned or a panic *)
(* has ended the process, although goroutines of the handlers still write. *)
THEOREM ResponsesAscendUntilStop == Spec => Server!AnswersAscend
<1>1. Server!ServerInv /\ [Server!ServerNext]_(Server!serverVars)
        => [Server!AscendingAnswer]_(Server!serverVars)
  BY AscendStep
<1>2. Server!ServerSpec => Server!AnswersAscend
  BY <1>1, ServerInvInit, ServerInvStep, PTL DEF Server!ServerSpec, Server!AnswersAscend
<1> QED
  BY <1>2, ImplementsSerialServer DEF ServesInTurn
------------------------------------------------------------------------------
(* The loop comes to rest.                                                  *)

Place ==
  CASE pc = "check" -> 5
    [] pc \in {"initialize", "method", "shutdown"} -> 4
    [] pc = "reply" -> IF fallback THEN 3 ELSE 2
    [] pc = "read" -> 1
    [] Stopped -> 0

(* The lines to read, how far the line being handled has come, and the     *)
(* handlers its walk has yet to visit.                                     *)
Load == <<Len(stdin), Place, Cardinality(todo)>>
Loads == [1 .. 3 -> Nat]
Lower == LexProductOrdering(OpToRel(<, Nat), Nat, 3)

LEMMA LowerIsWellFounded == IsWellFoundedOn(Lower, Loads)
<1>1. 3 \in Nat
  OBVIOUS
<1> QED
  BY <1>1, WFLexProductOrdering, NatLessThanWellFounded DEF Lower, Loads

LEMMA LowerMeans ==
  ASSUME NEW v \in Loads, NEW w \in Loads
  PROVE  /\ v[1] < w[1] => <<v, w>> \in Lower
         /\ v[1] = w[1] /\ v[2] < w[2] => <<v, w>> \in Lower
         /\ v[1] = w[1] /\ v[2] = w[2] /\ v[3] < w[3] => <<v, w>> \in Lower
<1>1. ASSUME NEW j \in 1 .. 3, v[j] < w[j], \A k \in 1 .. j - 1 : v[k] = w[k]
      PROVE  <<v, w>> \in Lower
  BY <1>1 DEF Lower, LexProductOrdering, OpToRel, Loads
<1>2. v[1] < w[1] => <<v, w>> \in Lower
  BY <1>1
<1>3. v[1] = w[1] /\ v[2] < w[2] => <<v, w>> \in Lower
  BY <1>1
<1>4. v[1] = w[1] /\ v[2] = w[2] /\ v[3] < w[3] => <<v, w>> \in Lower
  BY <1>1
<1> QED
  BY <1>2, <1>3, <1>4

LEMMA FewKinds == ASSUME NEW S, S \subseteq Kinds PROVE IsFiniteSet(S)
<1>1. IsFiniteSet({}) /\ \A T, x : IsFiniteSet(T) => IsFiniteSet(T \cup {x})
  BY FS_EmptySet, FS_AddElement
<1>2. Kinds = ((((((({} \cup {"channel"}) \cup {"provider"}) \cup {"tool"})
                 \cup {"tts"}) \cup {"stt"}) \cup {"hook"}) \cup {"http"}) \cup {"service"}
  BY DEF Kinds
<1>3. IsFiniteSet(((((((({} \cup {"channel"}) \cup {"provider"}) \cup {"tool"})
                 \cup {"tts"}) \cup {"stt"}) \cup {"hook"}) \cup {"http"}) \cup {"service"})
  BY <1>1, Zenon
<1> QED
  BY <1>2, <1>3, FS_Subset

(* A walk that visits a handler has one less to visit.                      *)
LEMMA WalkShortens ==
  ASSUME TypeOK, NEW k \in todo, todo' = todo \ {k}
  PROVE  /\ Cardinality(todo) \in Nat /\ Cardinality(todo') \in Nat
         /\ Cardinality(todo') < Cardinality(todo)
<1>1. IsFiniteSet(todo)
  BY RunnerAssumption, FewKinds DEF TypeOK
<1>2. Cardinality(todo) \in Nat /\ Cardinality(todo') = Cardinality(todo) - 1
  BY <1>1, FS_CardinalityType, FS_RemoveElement
<1>3. IsFiniteSet(todo') /\ Cardinality(todo') \in Nat
  BY <1>1, FS_RemoveElement, FS_CardinalityType
<1> QED
  BY <1>2, <1>3

LEMMA LoadTyped == TypeOK => Load \in Loads
<1> SUFFICES ASSUME TypeOK PROVE Load \in Loads
  OBVIOUS
<1>1. Len(stdin) \in Nat
  BY DEF TypeOK
<1>2. Place \in Nat
  BY DEF TypeOK, Place, Stopped
<1>3. Cardinality(todo) \in Nat
  BY RunnerAssumption, FewKinds, FS_CardinalityType DEF TypeOK
<1> QED
  BY <1>1, <1>2, <1>3 DEF Load, Loads

(* Every step of the loop, and a panic, brings it closer to rest.           *)
LEMMA LoopLowers ==
  ASSUME TypeOK, Load \in Loads, Load' \in Loads, LoopStep \/ GoroutinePanics
  PROVE  <<Load', Load>> \in Lower
<1>1. /\ Load'[1] < Load[1] => <<Load', Load>> \in Lower
      /\ Load'[1] = Load[1] /\ Load'[2] < Load[2] => <<Load', Load>> \in Lower
      /\ Load'[1] = Load[1] /\ Load'[2] = Load[2] /\ Load'[3] < Load[3]
           => <<Load', Load>> \in Lower
  BY LowerMeans
<1>2. /\ Load[1] = Len(stdin) /\ Load[2] = Place /\ Load[3] = Cardinality(todo)
      /\ Load'[1] = Len(stdin') /\ Load'[2] = Place' /\ Load'[3] = Cardinality(todo')
  BY DEF Load
<1>3. ASSUME stdin' = stdin, Place' < Place PROVE <<Load', Load>> \in Lower
  BY <1>1, <1>2, <1>3
<1>4. ASSUME stdin' = stdin, Place' = Place, NEW k \in todo, todo' = todo \ {k}
      PROVE  <<Load', Load>> \in Lower
  BY <1>1, <1>2, <1>4, WalkShortens
<1>5. CASE Read
  <2>1. CASE stdin # << >> /\ stdin' = Tail(stdin)
    <3>1. Len(stdin') < Len(stdin)
      BY <2>1 DEF TypeOK
    <3> QED
      BY <1>1, <1>2, <3>1
  <2>2. CASE stdin' = stdin /\ pc' = "returned"
    BY <1>3, <1>5, <2>2, ReadShape DEF Place, Stopped
  <2> QED
    BY <1>5, <2>1, <2>2, ReadShape
<1>6. CASE Enter
  <2>1. stdin' = stdin /\ Place = 5
    BY <1>6, EnterShape DEF Place, Stopped, hostVars
  <2>2. Place' < 5
    BY <1>6, EnterShape DEF Place, Stopped
  <2> QED
    BY <1>3, <2>1, <2>2
<1>7. CASE Handle
  <2>1. stdin' = stdin /\ Place = 4
    BY <1>7, HandleShape DEF Place, Stopped, hostVars
  <2>2. CASE pc' # pc
    <3>1. Place' < 4
      BY <1>7, <2>2, HandleShape DEF Place, Stopped
    <3> QED
      BY <1>3, <2>1, <3>1
  <2>3. CASE pc' = pc
    <3>1. \E k \in todo : todo' = todo \ {k}
      BY <1>7, <2>3 DEF Handle, InitializeHandler, InitializeDone, MethodReturns,
         ShutdownHandler, ShutdownDone, HandlerPanics, First, LeftAfter, AfterPanic,
         Answer, Send, Goto
    <3>2. Place' = 4
      BY <1>7, <2>3, HandleShape DEF Place, Stopped
    <3> QED
      BY <1>4, <2>1, <3>1, <3>2
  <2> QED
    BY <2>2, <2>3
<1>8. CASE Reply
  <2>1. stdin' = stdin
    BY <1>8, ReplyShape DEF hostVars
  <2>2. CASE pc' = AfterReply
    <3>1. Place \in {2, 3} /\ Place' \in {0, 1}
      BY <1>8, <2>2, ReplyShape DEF Place, Stopped
    <3> QED
      BY <1>3, <2>1, <3>1
  <2>3. CASE fallback /\ Answer("Internal", FALSE)
    <3>1. Place = 3 /\ Place' = 2
      BY <1>8, <2>3, ReplyShape DEF Place, Stopped, Answer, Send
    <3> QED
      BY <1>3, <2>1, <3>1
  <2> QED
    BY <1>8, <2>2, <2>3, ReplyShape
<1>9. CASE GoroutinePanics
  <2>1. stdin' = stdin /\ ~Stopped /\ pc' = "crashed"
    BY <1>9 DEF GoroutinePanics, hostVars
  <2>2. Place' = 0 /\ Place > 0
    BY <2>1 DEF Place, Stopped, TypeOK
  <2> QED
    BY <1>3, <2>1, <2>2
<1> QED
  BY <1>5, <1>6, <1>7, <1>8, <1>9 DEF LoopStep

(* The host that closes stdin, the signal and the goroutines' notifications *)
(* do not keep it from rest.                                                *)
LEMMA OthersLeaveLoad ==
  ASSUME Next, ~HostSend, ~(LoopStep \/ GoroutinePanics)
  PROVE  Load' = Load
<1>1. stdin' = stdin /\ pc' = pc /\ fallback' = fallback /\ todo' = todo
  BY EnvironmentShape DEF Next, Environment, HostClose, Signal, Emit, Idle, vars,
     hostVars, loopVars, walkVars
<1> QED
  BY <1>1 DEF Load, Place, Stopped

(* Between two lines of the host the loop takes finitely many steps: each   *)
(* lowers a measure in a well-founded order, nothing but another line ever  *)
(* raises it, for any handlers, parameters, errors and failing writes.      *)
THEOREM LoopComesToRest ==
  /\ IsWellFoundedOn(Lower, Loads)
  /\ Spec => [][/\ LoopStep \/ GoroutinePanics => <<Load', Load>> \in Lower
               /\ ~HostSend => Load' = Load \/ <<Load', Load>> \in Lower]_vars
<1> DEFINE Falls == /\ LoopStep \/ GoroutinePanics => <<Load', Load>> \in Lower
                   /\ ~HostSend => Load' = Load \/ <<Load', Load>> \in Lower
<1>1. TypeOK => Load \in Loads
  BY LoadTyped
<1>2. TypeOK /\ Load \in Loads /\ (Load \in Loads)' /\ [Next]_vars => [Falls]_vars
  BY LoopLowers, OthersLeaveLoad
<1> HIDE DEF Falls
<1>3. Spec => [][Falls]_vars
  BY <1>1, <1>2, TypeCorrect, PTL DEF Spec
<1> QED
  BY <1>3, LowerIsWellFounded DEF Falls
------------------------------------------------------------------------------
(* The loop is never stuck.                                                 *)

(* A method is called for the handler that the switch has found.            *)
MethodHasHandler == pc = "method" => Handler(req.method) # {}

LEMMA HandlerStep ==
  ASSUME MethodHasHandler, [Next]_vars
  PROVE  MethodHasHandler'
<1>1. CASE Enter
  BY <1>1 DEF Enter, Cancelled, EnterInitialize, EnterShutdown, EnterMethod, Answer, Send,
     Goto, MethodHasHandler, Handler
<1>2. ASSUME pc' = "method" => pc = "method" /\ req' = req PROVE MethodHasHandler'
  BY <1>2 DEF MethodHasHandler, Handler
<1>3. CASE Handle
  <2>1. pc' # "method" \/ pc' = pc
    BY <1>3, HandleShape
  <2> QED
    BY <1>2, <1>3, <2>1, HandleShape
<1>4. CASE Read \/ Reply
  <2>1. pc' # "method"
    BY <1>4, ReadShape, ReplyShape DEF Send, Answer
  <2> QED
    BY <1>2, <2>1
<1> QED
  BY <1>1, <1>2, <1>3, <1>4, EnvironmentShape
     DEF Next, LoopStep, Emit, GoroutinePanics, Idle, vars, loopVars

LEMMA LeastOf ==
  ASSUME NEW S, S \subseteq Nat, S # {}
  PROVE  \E n \in S : \A m \in S : n <= m
<1>1. PICK n \in S : \A m \in S : <<m, n>> \notin OpToRel(<, Nat)
  BY NatLessThanWellFounded, WFMin
<1>2. \A x, y \in Nat : x < y => <<x, y>> \in OpToRel(<, Nat)
  BY DEF OpToRel
<1>3. \A m \in S : ~(m < n)
  BY <1>1, <1>2
<1> QED
  BY <1>3

(* A walk that has handlers left has a next one.                            *)
LEMMA NextOfWalk == ASSUME TypeOK, todo # {} PROVE \E k \in Kinds : First(k)
<1> DEFINE Ranks == {Rank[k] : k \in todo}
<1>1. todo \subseteq Kinds
  BY RunnerAssumption DEF TypeOK
<1>2. \A k \in Kinds : Rank[k] \in Nat
  BY DEF Kinds, Rank
<1>3. Ranks \subseteq Nat /\ Ranks # {}
  BY <1>1, <1>2
<1>4. PICK n \in Ranks : \A m \in Ranks : n <= m
  BY <1>3, LeastOf
<1>5. PICK k \in todo : Rank[k] = n
  BY <1>4
<1> QED
  BY <1>1, <1>4, <1>5 DEF First

(* The guards of LoopStep.                                                  *)
LoopGuard ==
  \/ pc = "read" /\ (stdin # << >> \/ ~hostOpen)
  \/ pc = "check" /\ (signalled \/ Live)
  \/ pc \in {"initialize", "shutdown"} /\ (todo = {} \/ \E k \in Kinds : First(k))
  \/ pc = "method" /\ Handler(req.method) # {}
  \/ pc = "reply"

WaitsForHost == pc = "read" /\ stdin = << >> /\ hostOpen

(* Until it has stopped, the loop has a step to take or waits for the host  *)
(* to send a line or to close stdin; it never waits for a handler that is   *)
(* not there.                                                               *)
THEOREM LoopNeverStuck ==
  Spec => [](~Stopped => LoopGuard \/ WaitsForHost)
<1> DEFINE Goes == ~Stopped => LoopGuard \/ WaitsForHost
<1>1. Init => MethodHasHandler
  BY DEF Init, MethodHasHandler
<1>2. MethodHasHandler /\ [Next]_vars => MethodHasHandler'
  BY HandlerStep
<1>3. TypeOK /\ MethodHasHandler => Goes
  BY NextOfWalk DEF TypeOK, MethodHasHandler, Stopped, LoopGuard, WaitsForHost, Live
<1> QED
  BY <1>1, <1>2, <1>3, TypeCorrect, PTL DEF Spec
=============================================================================
