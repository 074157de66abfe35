-------------------------- MODULE AppProcessProofs --------------------------
(***************************************************************************)
(* What a process leaves behind and what its screen shows, for any number  *)
(* of connections and requests.                                            *)
(***************************************************************************)
EXTENDS AppProcess, FiniteSetTheorems, TLAPS

(* The handlers whose row is still to be added.  Each is one request, so no  *)
(* more rows are numbered than requests began, and one for the first screen. *)
Busy == {c \in Conns : handler[c] = "handling"}

RowsInv ==
  /\ ProxyTypeOK /\ LogTypeOK
  /\ logged + Cardinality(Busy) <= requests + 1

(* Once closeConnections has run nothing is tracked again: what is accepted  *)
(* later is closed at once.                                                  *)
ClosedInv ==
  /\ closing => \A c \in Conns : conn[c] \notin Tracked
  /\ drain = "done" => closing

(* The wrapper goes through its stages in order and never meets a signal.    *)
WrapperInv ==
  command = "run" =>
    /\ ~force
    /\ onStop = "none"
    /\ main \in {"select", "waitChild", "draining", "summing", "returned"}
    /\ main \in {"draining", "summing", "returned"} => runner = "done"
    /\ runner = "done" => child = "exited"
    /\ main \in {"summing", "returned"} => closing
    /\ main = "summing" => Handling = {} \/ graceOver
    /\ main = "returned" => summary = requests \/ graceOver

(* The server returns without closing only when its listener failed.         *)
ServerInv ==
  /\ command \in {"serve", "run"}
  /\ command = "serve" /\ main = "returned" => closing \/ onStop = "return"

EndInv == ClosedInv /\ WrapperInv /\ ServerInv

-----------------------------------------------------------------------------
(* Types and rows                                                          *)

(* Busy is finite whatever the handlers do.                                  *)
LEMMA BusyFinite == IsFiniteSet(Busy) /\ Cardinality(Busy) \in Nat
<1>1. Busy \subseteq Conns
  BY DEF Busy
<1> QED
  BY <1>1, ProxyConstants, FS_Subset, FS_CardinalityType

(* In the initial state there is at most the row of the first screen.        *)
LEMMA RowsInit == Init => RowsInv
<1> SUFFICES ASSUME Init PROVE RowsInv
  OBVIOUS
<1>1. ProxyTypeOK
  <2>1. listening \in BOOLEAN /\ closing \in BOOLEAN
    BY DEF Init, ProxyInit
  <2>2. /\ conn \in [Conns -> {"away", "accepted", "closed"} \union Tracked]
        /\ handler \in [Conns -> Handlers]
        /\ serving \in {"serving", "failed", "ended"}
    BY DEF Init, ProxyInit, Handlers
  <2>3. requests \in 0..MaxRequests
    BY ProxyConstants DEF Init, ProxyInit
  <2> QED
    BY <2>1, <2>2, <2>3 DEF ProxyTypeOK
<1>2. logged \in {0, 1} /\ queue = logged /\ sending = 0 /\ screen = 0
  BY DEF Init, LogInit
<1>3. /\ message = [c \in Conns |-> 0] /\ updates \in BOOLEAN
      /\ tui \in {"none", "running", "asked", "stopped"}
  BY DEF Init, LogInit
<1>4. LogTypeOK
  BY <1>2, <1>3, ProxyConstants DEF LogTypeOK
<1>5. Busy = {}
  BY DEF Init, ProxyInit, Busy
<1>6. Cardinality(Busy) = 0 /\ requests = 0
  BY <1>5, FS_EmptySet DEF Init, ProxyInit
<1> QED
  BY <1>1, <1>2, <1>4, <1>6 DEF RowsInv

(* A step that moves one handler without beginning or ending its work keeps  *)
(* the count.                                                                *)
LEMMA SameBusy ==
  ASSUME RowsInv, ProxyTypeOK', LogTypeOK', UNCHANGED <<logged, requests>>,
         \A c \in Conns : handler'[c] = "handling" <=> handler[c] = "handling"
  PROVE  RowsInv'
<1>1. Busy' = Busy
  BY DEF Busy
<1> QED
  BY <1>1 DEF RowsInv

(* A request that arrives is one more to be logged.                          *)
LEMMA RequestStep ==
  ASSUME RowsInv, NEW c \in Conns, Request(c), UNCHANGED logVars
  PROVE  RowsInv'
<1>1. ProxyTypeOK' /\ LogTypeOK'
  BY ProxyConstants DEF RowsInv, Request, ProxyTypeOK, LogTypeOK, Handlers, logVars
<1>2. Busy' = Busy \union {c} /\ c \notin Busy
  BY DEF RowsInv, Request, Busy, ProxyTypeOK
<1>3. Cardinality(Busy') = Cardinality(Busy) + 1
  BY <1>2, BusyFinite, FS_AddElement
<1>4. requests' = requests + 1 /\ logged' = logged
  BY DEF Request, logVars
<1> QED
  BY <1>1, <1>3, <1>4, BusyFinite DEF RowsInv, ProxyTypeOK, LogTypeOK

(* A row that is numbered is one fewer to be logged.                         *)
LEMMA AddRowStep ==
  ASSUME RowsInv, NEW c \in Conns, AddRow(c)
  PROVE  RowsInv'
<1>1. Busy' = Busy \ {c} /\ c \in Busy
  BY DEF RowsInv, AddRow, Moves, Busy, ProxyTypeOK
<1>2. Cardinality(Busy') = Cardinality(Busy) - 1
  BY <1>1, BusyFinite, FS_RemoveElement
<1>3. logged' \in {logged, logged + 1} /\ requests' = requests
  BY DEF AddRow, Moves
<1>4. /\ Cardinality(Busy) \in Nat /\ Cardinality(Busy) # 0
      /\ logged \in Nat /\ requests \in 0..MaxRequests
  BY <1>1, BusyFinite, FS_EmptySet DEF RowsInv, ProxyTypeOK, LogTypeOK
<1>5. logged' + Cardinality(Busy') <= requests' + 1
  BY <1>2, <1>3, <1>4 DEF RowsInv
<1>6. logged' \in 0..MaxRequests + 1
  BY <1>2, <1>3, <1>4, <1>5, ProxyConstants
<1>7. ProxyTypeOK'
  BY DEF RowsInv, AddRow, Moves, ProxyTypeOK, Handlers
<1>8. message' \in [Conns -> 0..MaxRequests + 1]
  BY <1>6, ProxyConstants DEF AddRow, RowsInv, LogTypeOK
<1>9. LogTypeOK'
  BY <1>6, <1>8 DEF AddRow, RowsInv, LogTypeOK
<1> QED
  BY <1>5, <1>7, <1>9 DEF RowsInv

(* The other steps of the log and of the proxy keep types and count.         *)
LEMMA LogSteps ==
  ASSUME RowsInv, Rows \/ TakeMessage \/ Update \/ ProgramEnds
  PROVE  RowsInv'
<1> USE DEF RowsInv, ProxyTypeOK, LogTypeOK, Handlers
<1>1. ASSUME NEW c \in Conns, Offer(c) PROVE RowsInv'
  <2>1. ProxyTypeOK' /\ LogTypeOK'
    BY <1>1 DEF Offer, Moves
  <2>2. /\ UNCHANGED <<logged, requests>>
        /\ \A d \in Conns : handler'[d] = "handling" <=> handler[d] = "handling"
    BY <1>1 DEF Offer, Moves
  <2> QED
    BY <2>1, <2>2, SameBusy
<1>2. ASSUME NEW c \in Conns, Resend(c) PROVE RowsInv'
  <2>3. queue' \in 0..MaxRequests + 1
    BY <1>2 DEF Resend, Newer
  <2>1. ProxyTypeOK' /\ LogTypeOK'
    BY <1>2, <2>3, ProxyConstants DEF Resend, Moves
  <2>2. /\ UNCHANGED <<logged, requests>>
        /\ \A d \in Conns : handler'[d] = "handling" <=> handler[d] = "handling"
    BY <1>2 DEF Resend, Moves
  <2> QED
    BY <2>1, <2>2, SameBusy
<1>3. CASE TakeMessage \/ Update \/ ProgramEnds
  <2>1. UNCHANGED proxyVars /\ logged' = logged
    BY <1>3 DEF TakeMessage, Update, ProgramEnds
  <2>2. LogTypeOK'
    BY <1>3, ProxyConstants DEF TakeMessage, Update, ProgramEnds
  <2> QED
    BY <2>1, <2>2, SameBusy DEF proxyVars
<1> QED
  BY <1>1, <1>2, <1>3 DEF Rows

LEMMA ProxySteps ==
  ASSUME RowsInv, Traffic \/ Plumbing \/ ListenerFails, UNCHANGED logVars
  PROVE  RowsInv'
<1>1. ASSUME NEW c \in Conns, Request(c) PROVE RowsInv'
  BY <1>1, RequestStep
<1>2. ASSUME NEW c \in Conns,
             Accept(c) \/ Hijack(c) \/ PeerCloses(c) \/ Track(c) \/ Register(c)
      PROVE  RowsInv'
  <2>1. /\ \E place \in {"accepted", "tunnel", "closed", "tracked", "open"} :
             conn' = [conn EXCEPT ![c] = place]
        /\ UNCHANGED <<handler, requests, listening, serving, closing>>
    BY <1>2 DEF Accept, Hijack, PeerCloses, Track, Register
  <2>2. ProxyTypeOK' /\ LogTypeOK'
    BY <2>1 DEF RowsInv, ProxyTypeOK, LogTypeOK, logVars, Tracked
  <2> QED
    BY <2>1, <2>2, SameBusy DEF logVars
<1>3. CASE ListenerFails
  BY <1>3, SameBusy DEF ListenerFails, RowsInv, ProxyTypeOK, LogTypeOK, logVars
<1> QED
  BY <1>1, <1>2, <1>3 DEF Traffic, Plumbing

(* Closing the server or its connections.                                    *)
LEMMA ClosingSteps ==
  ASSUME RowsInv, LogTypeOK', logged' = logged,
         ServerShutdown \/ ServerClose \/ CloseConnections
  PROVE  RowsInv'
<1>1. UNCHANGED <<handler, requests>>
  BY DEF ServerShutdown, ServerClose, CloseConnections
<1>2. conn' \in [Conns -> {"away", "accepted", "closed"} \union Tracked]
  BY DEF ServerShutdown, ServerClose, CloseConnections, Shut, RowsInv, ProxyTypeOK
<1>3. /\ listening' \in BOOLEAN /\ closing' \in BOOLEAN
      /\ serving' \in {"serving", "failed", "ended"}
  BY DEF ServerShutdown, ServerClose, CloseConnections, Shut, RowsInv, ProxyTypeOK
<1> QED
  BY <1>1, <1>2, <1>3, SameBusy DEF RowsInv, ProxyTypeOK

(* Interrupt without its conditional.                                        *)
LEMMA InterruptStep ==
  Interrupt =>
    /\ main = "draining" /\ (onStop = "screenGone" \/ force)
    /\ main' = "forcing" /\ ServerClose
    /\ UNCHANGED <<logVars, command, onStop, drain, graceOver, cancelled, force, childVars>>
BY Zenon DEF Interrupt, GoMain

(* The steps of the commands touch the log only where the screen is taken    *)
(* down, and the proxy only to close it.                                     *)
LEMMA CommandSteps ==
  ASSUME RowsInv, Drain \/ MainStep \/ Signal \/ GraceRunsOut \/ ChildExits \/ RunnerReturns
  PROVE  RowsInv'
<1>1. CASE UNCHANGED <<proxyVars, logVars>>
  BY <1>1, SameBusy DEF RowsInv, ProxyTypeOK, LogTypeOK, proxyVars, logVars
<1>2. CASE /\ ServerShutdown \/ ServerClose \/ CloseConnections
           /\ UNCHANGED logVars
  BY <1>2, ClosingSteps DEF RowsInv, LogTypeOK, logVars
<1>3. ASSUME NEW next \in {"return", "shutdown"}, BeginStop(next) PROVE RowsInv'
  <2>1. /\ UNCHANGED <<proxyVars, logged, message, queue, sending, screen>>
        /\ updates' = FALSE /\ tui' \in {tui, "asked"}
    BY <1>3 DEF BeginStop
  <2>2. ProxyTypeOK' /\ LogTypeOK'
    BY <2>1 DEF RowsInv, ProxyTypeOK, LogTypeOK, proxyVars
  <2> QED
    BY <2>1, <2>2, SameBusy DEF proxyVars
<1>4. CASE Drain
  BY <1>4, <1>2 DEF Drain, GoDrain
<1>5. CASE SelectServe
  BY <1>5, <1>1, <1>3 DEF SelectServe
<1>6. CASE ScreenDown \/ DrainDone \/ Signal \/ GraceRunsOut \/ ChildExits \/ RunnerReturns
  BY <1>6, <1>1 DEF ScreenDown, DrainDone, Signal, GraceRunsOut, ChildExits, RunnerReturns
<1>7. CASE Interrupt \/ ForceClose
  BY <1>7, <1>2, InterruptStep DEF ForceClose
<1>8. CASE SelectRun \/ WaitChild \/ StopTransform \/ WriteSummary
  BY <1>8, <1>1 DEF SelectRun, WaitChild, StopTransform, WriteSummary, Wrapper
<1> QED
  BY <1>4, <1>5, <1>6, <1>7, <1>8 DEF MainStep

LEMMA RowsNext == RowsInv /\ [Next]_vars => RowsInv'
<1> SUFFICES ASSUME RowsInv, [Next]_vars PROVE RowsInv'
  OBVIOUS
<1>1. CASE UNCHANGED vars
  <2>1. UNCHANGED <<proxyVars, logVars>>
    BY <1>1 DEF vars
  <2>2. ProxyTypeOK' /\ LogTypeOK'
    BY <2>1 DEF RowsInv, ProxyTypeOK, LogTypeOK, proxyVars, logVars
  <2> QED
    BY <2>1, <2>2, SameBusy DEF proxyVars, logVars
<1>2. CASE LogStep
  BY <1>2, LogSteps, AddRowStep DEF LogStep
<1>3. CASE ProxyStep
  BY <1>3, ProxySteps DEF ProxyStep
<1>4. CASE Drain \/ MainStep \/ Signal \/ GraceRunsOut \/ ChildExits \/ RunnerReturns
  BY <1>4, CommandSteps
<1> QED
  BY <1>1, <1>2, <1>3, <1>4 DEF Next

-----------------------------------------------------------------------------
(* What is closed, waited for and counted                                  *)

(* At the start nothing is closed and the wrapped command runs.              *)
LEMMA EndInit == Init => EndInv
BY DEF Init, ProxyInit, EndInv, ClosedInv, WrapperInv, ServerInv

(* The log moves handlers on, and leaves connections and commands alone.     *)
LEMMA EndLogStep == EndInv /\ LogStep => EndInv'
<1> SUFFICES ASSUME EndInv, LogStep PROVE EndInv'
  OBVIOUS
<1>1. UNCHANGED appVars
  BY DEF LogStep
<1>2. UNCHANGED <<conn, requests, closing>> /\ (Handling = {} => Handling' = {})
  BY DEF LogStep, Rows, AddRow, Offer, Resend, Moves, TakeMessage, Update, ProgramEnds,
         proxyVars, Handling
<1> QED
  BY <1>1, <1>2 DEF EndInv, ClosedInv, WrapperInv, ServerInv, appVars

(* After closeConnections connections are accepted only to be closed, and no *)
(* request arrives.                                                          *)
LEMMA EndProxyStep == RowsInv /\ EndInv /\ ProxyStep => EndInv'
<1> SUFFICES ASSUME RowsInv, EndInv, ProxyStep PROVE EndInv'
  OBVIOUS
<1>1. UNCHANGED <<appVars, closing>>
  BY DEF ProxyStep, Traffic, Plumbing, Accept, Hijack, Request, PeerCloses, Track,
         Register, ListenerFails
<1>2. closing => \A c \in Conns : conn'[c] \notin Tracked
  <2> USE DEF RowsInv, EndInv, ClosedInv, ProxyTypeOK, Tracked
  <2>1. ASSUME NEW c \in Conns, Accept(c) \/ Hijack(c) \/ Request(c) \/ PeerCloses(c)
        PROVE  closing => \A d \in Conns : conn'[d] \notin Tracked
    BY <2>1 DEF Accept, Hijack, Request, PeerCloses, Idle
  <2>2. ASSUME NEW c \in Conns, Track(c) \/ Register(c)
        PROVE  closing => \A d \in Conns : conn'[d] \notin Tracked
    BY <2>2 DEF Track, Register
  <2>3. CASE ListenerFails
    BY <2>3 DEF ListenerFails
  <2> QED
    BY <2>1, <2>2, <2>3 DEF ProxyStep, Traffic, Plumbing
<1>3. closing => UNCHANGED <<handler, requests>>
  BY DEF EndInv, ClosedInv, Tracked, ProxyStep, Traffic, Plumbing, Accept, Hijack,
         Request, PeerCloses, Track, Register, ListenerFails
<1> QED
  BY <1>1, <1>2, <1>3 DEF EndInv, ClosedInv, WrapperInv, ServerInv, appVars, Handling

(* The shutdown of the proxy ends with closeConnections.                     *)
LEMMA EndDrain == EndInv /\ Drain => EndInv'
<1> SUFFICES ASSUME EndInv, Drain PROVE EndInv'
  OBVIOUS
<1>1. UNCHANGED <<logVars, command, main, onStop, graceOver, cancelled, force, childVars>>
  BY DEF Drain, GoDrain
<1>2. UNCHANGED <<handler, requests>> /\ (closing => closing')
  BY DEF Drain, ServerShutdown, CloseConnections
<1>3. ClosedInv'
  BY DEF EndInv, ClosedInv, Drain, GoDrain, ServerShutdown, Shut, CloseConnections, Tracked
<1> QED
  BY <1>1, <1>2, <1>3 DEF EndInv, WrapperInv, ServerInv, Handling, childVars

(* The serve command returns from a failed listener, or has closed.          *)
LEMMA EndServe ==
  ASSUME EndInv, SelectServe \/ ScreenDown \/ DrainDone \/ Interrupt \/ ForceClose
  PROVE  EndInv'
<1>1. ASSUME command = "serve", command' = "serve", ClosedInv',
             main' = "returned" => closing' \/ onStop' = "return"
      PROVE  EndInv'
  BY <1>1 DEF EndInv, WrapperInv, ServerInv
<1>2. CASE SelectServe
  <2>1. command = "serve" /\ command' = "serve" /\ main' # "returned"
    BY <1>2 DEF SelectServe, BeginStop, GoMain
  <2>2. UNCHANGED proxyVars /\ drain' \in {drain, "begin"}
    BY <1>2 DEF SelectServe, BeginStop
  <2> QED
    BY <1>1, <2>1, <2>2 DEF EndInv, ClosedInv, proxyVars
<1>3. CASE ScreenDown
  <2>1. command = "serve" /\ command' = "serve"
    BY <1>3 DEF ScreenDown, EndInv, WrapperInv, ServerInv
  <2>2. UNCHANGED proxyVars /\ onStop' = onStop /\ drain' \in {drain, "begin"}
    BY <1>3 DEF ScreenDown
  <2>3. main' = "returned" => onStop = "return"
    BY <1>3 DEF ScreenDown, GoMain
  <2> QED
    BY <1>1, <2>1, <2>2, <2>3 DEF EndInv, ClosedInv, proxyVars
<1>4. CASE DrainDone
  BY <1>1, <1>4 DEF DrainDone, EndInv, ClosedInv, proxyVars
<1>5. CASE Interrupt
  <2>1. command = "serve" /\ command' = "serve" /\ main' # "returned"
    BY <1>5, InterruptStep DEF EndInv, WrapperInv, ServerInv
  <2>2. ClosedInv'
    BY <1>5, InterruptStep DEF EndInv, ClosedInv, ServerClose, Shut, Tracked
  <2> QED
    BY <1>1, <2>1, <2>2
<1>6. CASE ForceClose
  <2>1. command = "serve" /\ command' = "serve"
    BY <1>6 DEF ForceClose, EndInv, WrapperInv, ServerInv
  <2>2. ClosedInv' /\ closing'
    BY <1>6 DEF ForceClose, EndInv, ClosedInv, CloseConnections, Tracked
  <2> QED
    BY <1>1, <2>1, <2>2
<1> QED
  BY <1>2, <1>3, <1>4, <1>5, <1>6

(* The wrapper returns after its child, its shutdown and its handlers.       *)
LEMMA EndRun ==
  ASSUME RowsInv, EndInv, SelectRun \/ WaitChild \/ StopTransform \/ WriteSummary
  PROVE  EndInv'
<1>1. /\ command = "run" /\ command' = "run"
      /\ UNCHANGED <<proxyVars, onStop, graceOver, force, child, runner>>
  BY DEF SelectRun, WaitChild, StopTransform, WriteSummary, Wrapper
<1>2. ClosedInv'
  BY <1>1 DEF EndInv, ClosedInv, SelectRun, WaitChild, StopTransform, WriteSummary, proxyVars
<1>3. CASE SelectRun \/ WaitChild \/ StopTransform
  BY <1>1, <1>2, <1>3
     DEF EndInv, ClosedInv, WrapperInv, ServerInv, SelectRun, WaitChild, StopTransform,
         Wrapper, GoMain, Handling, proxyVars
<1>4. CASE WriteSummary
  <2>1. Handling = {} => summary' = requests
    BY <1>4, FS_EmptySet DEF WriteSummary, RowsInv, ProxyTypeOK
  <2> QED
    BY <1>1, <1>2, <1>4, <2>1
       DEF EndInv, WrapperInv, ServerInv, WriteSummary, Wrapper, GoMain, proxyVars
<1> QED
  BY <1>3, <1>4

LEMMA EndNext == RowsInv /\ EndInv /\ [Next]_vars => EndInv'
<1> SUFFICES ASSUME RowsInv, EndInv, [Next]_vars PROVE EndInv'
  OBVIOUS
<1>1. CASE UNCHANGED vars
  BY <1>1 DEF vars, proxyVars, appVars, EndInv, ClosedInv, WrapperInv, ServerInv, Handling
<1>2. CASE LogStep
  BY <1>2, EndLogStep
<1>3. CASE ProxyStep
  BY <1>3, EndProxyStep
<1>4. CASE Drain
  BY <1>4, EndDrain
<1>5. CASE MainStep
  BY <1>5, EndServe, EndRun DEF MainStep
<1>6. CASE main # "returned" /\ (Signal \/ GraceRunsOut \/ ChildExits \/ RunnerReturns)
  <2>1. UNCHANGED <<proxyVars, command, main, onStop, drain, summary>>
    BY <1>6 DEF Signal, GraceRunsOut, ChildExits, RunnerReturns, childVars
  <2>2. /\ graceOver => graceOver'
        /\ command = "run" => force' = force
        /\ child = "exited" => child' = "exited"
        /\ runner' = runner \/ (runner' = "done" /\ child' = "exited")
    BY <1>6 DEF Signal, GraceRunsOut, ChildExits, RunnerReturns, childVars
  <2> QED
    BY <2>1, <2>2 DEF EndInv, ClosedInv, WrapperInv, ServerInv, Handling, proxyVars
<1> QED
  BY <1>1, <1>2, <1>3, <1>4, <1>5, <1>6 DEF Next

-----------------------------------------------------------------------------
(* NothingLeftBehind: a process that returns leaves no connection open, late *)
(* ones and tunnels included, unless its listener had failed; a wrapper      *)
(* leaves no child and has counted every request that ended in time.         *)
THEOREM NothingLeft == Spec => []NothingLeftBehind
<1>1. RowsInv /\ EndInv => NothingLeftBehind
  BY DEF RowsInv, EndInv, ClosedInv, WrapperInv, ServerInv, NothingLeftBehind
<1> QED
  BY <1>1, RowsInit, RowsNext, EndInit, EndNext, PTL DEF Spec

(* ScreenNeverGoesBack: whatever the order in which the rows reach it, the   *)
(* screen only ever shows later ones.                                        *)
THEOREM ScreenForward == Spec => ScreenNeverGoesBack
<1>1. RowsInv /\ [Next]_vars => [screen' >= screen]_vars
  <2> SUFFICES ASSUME RowsInv, Next PROVE screen' >= screen
    BY DEF vars
  <2>1. screen \in Nat /\ sending \in Nat
    BY DEF RowsInv, LogTypeOK
  <2>2. CASE LogStep
    BY <2>1, <2>2 DEF LogStep, Rows, Offer, Resend, TakeMessage, Update, ProgramEnds, AddRow
  <2>3. CASE ProxyStep
    BY <2>1, <2>3 DEF ProxyStep, logVars
  <2>4. CASE Drain \/ Signal \/ GraceRunsOut \/ ChildExits \/ RunnerReturns
    <3>1. UNCHANGED logVars
      BY <2>4 DEF Drain, GoDrain, Signal, GraceRunsOut, ChildExits, RunnerReturns
    <3> QED
      BY <2>1, <3>1 DEF logVars
  <2>5. CASE MainStep
    <3>1. screen' = screen
      BY <2>5, InterruptStep
         DEF MainStep, SelectServe, BeginStop, ScreenDown, DrainDone, ForceClose, SelectRun,
             WaitChild, StopTransform, WriteSummary, Wrapper, logVars
    <3> QED
      BY <2>1, <3>1
  <2> QED
    BY <2>2, <2>3, <2>4, <2>5 DEF Next
<1> QED
  BY <1>1, RowsInit, RowsNext, PTL DEF Spec, ScreenNeverGoesBack
=============================================================================
