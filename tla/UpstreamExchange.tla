-------------------------- MODULE UpstreamExchange --------------------------
(***************************************************************************)
(* What reliabilityTransport does with one request once the duplicate hold *)
(* let it through: RoundTrip and roundTripHeaders, the goroutine that runs *)
(* the base transport, the response body it watches (reliabilityBody with  *)
(* its idle timer) and the reverse proxy that reads and closes that body.  *)
(*                                                                         *)
(* An element of Exchanges is one such request.  Everything under b.mu is  *)
(* one step; what a goroutine does after the unlock (completeResponse,     *)
(* cancel, release, body.Close) is a step each.  Time is a countdown: left *)
(* is the time to the deadline that is running.                            *)
(***************************************************************************)
EXTENDS Integers, FiniteSets

CONSTANTS
  Exchanges,      \* the requests
  Upgraded,       \* those answered 101: their body is closed while it is read
  HeadersBudget,  \* config.headersTimeout, 0 when the guard is off
  IdleBudget,     \* config.idleTimeout, 0 when the guard is off
  MaxCallbacks    \* bound on the calls of onTimer that wait at once, for model
                  \* checking: each is late by a whole IdleBudget

ASSUME ExchangeAssumption ==
  /\ Upgraded \subseteq Exchanges
  /\ HeadersBudget \in Nat
  /\ IdleBudget \in Nat
  /\ MaxCallbacks \in Nat \ {0}

VARIABLES
  main,       \* the goroutine in RoundTrip
  base,       \* the call of t.base.RoundTrip
  abandoned,  \* the channel abandoned is closed
  cancelled,  \* the derived context is done
  body,       \* the body of the upstream response
  stream,     \* what the upstream sent that nobody has read yet
  inTime,     \* history: those bytes arrived before the deadline
  caller,     \* the reverse proxy, from ModifyResponse to the closed body
  reader,     \* a call of reliabilityBody.Read
  observer,   \* b.observer
  completed,  \* the observer's completeResponse has run
  missed,     \* history: a chunk was read that the observer did not see
  cleanEnd,   \* history: a Read ended the body, with io.EOF
  done,       \* b.done
  timeoutErr, \* b.timeoutErr is set
  armed,      \* a timer runs: the headers timer, then b.timer
  left,       \* time to its deadline
  callbacks,  \* calls of onTimer that have started and wait for b.mu
  tail,       \* what the goroutine that set b.done has still to do
  released    \* release() has run

requestVars == <<main, base, abandoned, cancelled>>
responseVars == <<body, stream, inTime, caller, reader, observer, completed, missed, cleanEnd>>
watchVars == <<done, timeoutErr, armed, left, callbacks, tail, released>>
exchangeVars == <<requestVars, responseVars, watchVars>>

BodyTimeout == IF HeadersBudget > 0 THEN HeadersBudget ELSE IdleBudget

ExchangeInit ==
  /\ main = [r \in Exchanges |-> "new"]
  /\ base = [r \in Exchanges |-> "new"]
  /\ abandoned = [r \in Exchanges |-> FALSE]
  /\ cancelled = [r \in Exchanges |-> FALSE]
  /\ body = [r \in Exchanges |-> "none"]
  /\ stream = [r \in Exchanges |-> "silent"]
  /\ inTime = [r \in Exchanges |-> FALSE]
  /\ caller = [r \in Exchanges |-> "waiting"]
  /\ reader = [r \in Exchanges |-> "idle"]
  /\ observer = [r \in Exchanges |-> "none"]
  /\ completed = [r \in Exchanges |-> FALSE]
  /\ missed = [r \in Exchanges |-> FALSE]
  /\ cleanEnd = [r \in Exchanges |-> FALSE]
  /\ done = [r \in Exchanges |-> FALSE]
  /\ timeoutErr = [r \in Exchanges |-> FALSE]
  /\ armed = [r \in Exchanges |-> FALSE]
  /\ left = [r \in Exchanges |-> 0]
  /\ callbacks = [r \in Exchanges |-> 0]
  /\ tail = [r \in Exchanges |-> "none"]
  /\ released = [r \in Exchanges |-> FALSE]

Countdown == [r \in Exchanges |-> IF left[r] > 0 THEN left[r] - 1 ELSE 0]

(* Time passes. *)
ExchangeTick ==
  /\ left' = Countdown
  /\ UNCHANGED <<requestVars, responseVars, done, timeoutErr, armed, callbacks, tail,
                 released>>

-----------------------------------------------------------------------------
(* RoundTrip up to the response headers. *)

(* The context is derived, the base transport called on its own goroutine    *)
(* and the headers timer started.                                            *)
Begin(r) ==
  /\ main[r] = "new"
  /\ main' = [main EXCEPT ![r] = "waiting"]
  /\ base' = [base EXCEPT ![r] = "running"]
  /\ armed' = [armed EXCEPT ![r] = HeadersBudget > 0]
  /\ left' = [left EXCEPT ![r] = HeadersBudget]
  /\ UNCHANGED <<abandoned, cancelled, responseVars, done, timeoutErr, callbacks, tail,
                 released>>

(* The base transport returns: a response with or without a body, or an error. *)
BaseReturns(r) ==
  /\ base[r] = "running"
  /\ \E outcome \in {"response", "bodiless", "error"} :
       /\ base' = [base EXCEPT ![r] = outcome]
       /\ body' = [body EXCEPT ![r] = IF outcome = "response" THEN "open" ELSE "none"]
  /\ UNCHANGED <<main, abandoned, cancelled, stream, inTime, caller, reader, observer,
                 completed, missed, cleanEnd, watchVars>>

(* The client goes away: the request's context, and the one derived from it, *)
(* are done.                                                                 *)
ClientGone(r) ==
  /\ main[r] # "new" /\ ~cancelled[r]
  /\ cancelled' = [cancelled EXCEPT ![r] = TRUE]
  /\ UNCHANGED <<main, base, abandoned, responseVars, watchVars>>

(* The send on result meets its receive.  An error, or a response without a  *)
(* body, leads to cancel and release; a body is wrapped and its timer armed. *)
TakeResult(r) ==
  /\ main[r] = "waiting" /\ base[r] \in {"response", "bodiless", "error"}
  /\ base' = [base EXCEPT ![r] = "sent"]
  /\ IF base[r] = "response"
     THEN /\ main' = [main EXCEPT ![r] = "returned"]
          /\ caller' = [caller EXCEPT ![r] = "modify"]
          /\ armed' = [armed EXCEPT ![r] = IdleBudget > 0]
          /\ left' = [left EXCEPT ![r] = IF IdleBudget > 0 THEN BodyTimeout ELSE 0]
     ELSE /\ main' = [main EXCEPT ![r] = "cancel"]
          /\ armed' = [armed EXCEPT ![r] = FALSE]
          /\ left' = [left EXCEPT ![r] = 0]
          /\ UNCHANGED caller
  /\ UNCHANGED <<abandoned, cancelled, body, stream, inTime, reader, observer, completed,
                 missed, cleanEnd, done, timeoutErr, callbacks, tail, released>>

(* The headers timer wins the select: cancel(timeout), close(abandoned). *)
HeadersTimeout(r) ==
  /\ main[r] = "waiting" /\ armed[r] /\ left[r] = 0
  /\ cancelled' = [cancelled EXCEPT ![r] = TRUE]
  /\ abandoned' = [abandoned EXCEPT ![r] = TRUE]
  /\ armed' = [armed EXCEPT ![r] = FALSE]
  /\ main' = [main EXCEPT ![r] = "cancel"]
  /\ UNCHANGED <<base, responseVars, done, timeoutErr, left, callbacks, tail, released>>

(* The context wins the select; without a headers timeout there is no select. *)
ContextDone(r) ==
  /\ main[r] = "waiting" /\ HeadersBudget > 0 /\ cancelled[r]
  /\ abandoned' = [abandoned EXCEPT ![r] = TRUE]
  /\ armed' = [armed EXCEPT ![r] = FALSE]
  /\ left' = [left EXCEPT ![r] = 0]
  /\ main' = [main EXCEPT ![r] = "cancel"]
  /\ UNCHANGED <<base, cancelled, responseVars, done, timeoutErr, callbacks, tail,
                 released>>

(* Mutant: the late response is dropped without closing its body. *)
DropLeaking(r) ==
  /\ abandoned[r] /\ base[r] \in {"response", "bodiless", "error"}
  /\ base' = [base EXCEPT ![r] = "dropped"]
  /\ UNCHANGED <<main, abandoned, cancelled, responseVars, watchVars>>

(* The base goroutine finds itself abandoned and closes the late response. *)
DropResult(r) ==
  /\ abandoned[r] /\ base[r] \in {"response", "bodiless", "error"}
  /\ base' = [base EXCEPT ![r] = "dropped"]
  /\ body' = [body EXCEPT ![r] = IF base[r] = "response" THEN "closed" ELSE @]
  /\ UNCHANGED <<main, abandoned, cancelled, stream, inTime, caller, reader, observer,
                 completed, missed, cleanEnd, watchVars>>

(* cancel(err), or cancel(nil) for a response without a body. *)
MainCancels(r) ==
  /\ main[r] = "cancel"
  /\ main' = [main EXCEPT ![r] = "release"]
  /\ cancelled' = [cancelled EXCEPT ![r] = TRUE]
  /\ UNCHANGED <<base, abandoned, responseVars, watchVars>>

MainReleases(r) ==
  /\ main[r] = "release"
  /\ main' = [main EXCEPT ![r] = "ended"]
  /\ released' = [released EXCEPT ![r] = TRUE]
  /\ UNCHANGED <<base, abandoned, cancelled, responseVars, done, timeoutErr, armed, left,
                 callbacks, tail>>

-----------------------------------------------------------------------------
(* The upstream stream. *)

UpstreamSends(r) ==
  /\ body[r] = "open" /\ stream[r] = "silent"
  /\ \E s \in {"bytes", "eof", "broken"} :
       /\ stream' = [stream EXCEPT ![r] = s]
       /\ inTime' = [inTime EXCEPT ![r] = s = "bytes" /\ left[r] > 0]
  /\ UNCHANGED <<requestVars, body, caller, reader, observer, completed, missed, cleanEnd,
                 watchVars>>

(* ModifyResponse attaches the accounting observer, or has none to attach.   *)
(* attachResponseObserver refuses once b.done is set.                        *)
ModifyResponse(r) ==
  /\ caller[r] = "modify"
  /\ caller' = [caller EXCEPT ![r] = "copying"]
  /\ \/ observer' = [observer EXCEPT ![r] = IF done[r] THEN "none" ELSE "attached"]
     \/ UNCHANGED observer
  /\ UNCHANGED <<requestVars, body, stream, inTime, reader, completed, missed, cleanEnd,
                 watchVars>>

ReadStart(r) ==
  /\ caller[r] = "copying" /\ reader[r] = "idle"
  /\ reader' = [reader EXCEPT ![r] = "reading"]
  /\ UNCHANGED <<requestVars, body, stream, inTime, caller, observer, completed, missed,
                 cleanEnd, watchVars>>

(* b.body.Read returns, outside b.mu: what the upstream sent, or an error    *)
(* because the context is done or the body was closed under it.              *)
BodyReadReturns(r) ==
  /\ reader[r] = "reading"
  /\ \/ /\ body[r] = "open" /\ stream[r] = "bytes"
        /\ reader' = [reader EXCEPT ![r] = "data"]
        /\ stream' = [stream EXCEPT ![r] = "silent"]
     \/ /\ body[r] = "open" /\ stream[r] = "eof"
        /\ reader' = [reader EXCEPT ![r] = "eof"]
        /\ UNCHANGED stream
     \/ /\ body[r] = "closed" \/ cancelled[r] \/ stream[r] = "broken"
        /\ reader' = [reader EXCEPT ![r] = "error"]
        /\ UNCHANGED stream
  /\ UNCHANGED <<requestVars, body, inTime, caller, observer, completed, missed, cleanEnd,
                 watchVars>>

(* The body has timed out or is done already: Read returns at once, and only *)
(* a nil error keeps the copy loop going.                                    *)
ReadLocksDone(r) ==
  /\ reader[r] \in {"data", "eof", "error"} /\ done[r]
  /\ reader' = [reader EXCEPT ![r] = "idle"]
  /\ missed' = [missed EXCEPT ![r] = @ \/ (observer[r] = "attached" /\ reader[r] # "error")]
  /\ caller' = [caller EXCEPT ![r] =
                  IF @ = "copying" /\ (timeoutErr[r] \/ reader[r] # "data") THEN "close" ELSE @]
  /\ UNCHANGED <<requestVars, body, stream, inTime, observer, completed, cleanEnd,
                 watchVars>>

(* A chunk: the observer sees it and the idle timer starts over. *)
ReadLocksData(r) ==
  /\ reader[r] = "data" /\ ~done[r]
  /\ reader' = [reader EXCEPT ![r] = "idle"]
  /\ armed' = [armed EXCEPT ![r] = @ \/ IdleBudget > 0]
  /\ left' = [left EXCEPT ![r] = IF IdleBudget > 0 THEN IdleBudget ELSE @]
  /\ UNCHANGED <<requestVars, body, stream, inTime, caller, observer, completed, missed,
                 cleanEnd, done, timeoutErr, callbacks, tail, released>>

(* Mutant: the completion is left to whoever runs after the release. *)
TailOfReadEarlyRelease(r) == "readCancel"

(* Mutant: a broken stream is taken for a complete one. *)
TailOfReadAnyError(r) ==
  IF observer[r] = "attached" THEN "complete" ELSE "readCancel"

(* What Read has to do after the unlock: completeResponse comes first, and   *)
(* only on a clean EOF.                                                      *)
TailOfRead(r) ==
  IF reader[r] = "eof" /\ observer[r] = "attached" THEN "complete" ELSE "readCancel"

(* EOF or an error ends the body: b.done is set and the timer stopped. *)
ReadLocksEnd(r) ==
  /\ reader[r] \in {"eof", "error"} /\ ~done[r]
  /\ done' = [done EXCEPT ![r] = TRUE]
  /\ armed' = [armed EXCEPT ![r] = FALSE]
  /\ tail' = [tail EXCEPT ![r] = TailOfRead(r)]
  /\ reader' = [reader EXCEPT ![r] = "ending"]
  /\ cleanEnd' = [cleanEnd EXCEPT ![r] = reader[r] = "eof"]
  /\ UNCHANGED <<requestVars, body, stream, inTime, caller, observer, completed, missed,
                 timeoutErr, left, callbacks, released>>

-----------------------------------------------------------------------------
(* The idle timer. *)

TimerFires(r) ==
  /\ main[r] = "returned" /\ armed[r] /\ left[r] = 0
  /\ callbacks[r] < MaxCallbacks
  /\ armed' = [armed EXCEPT ![r] = FALSE]
  /\ callbacks' = [callbacks EXCEPT ![r] = @ + 1]
  /\ UNCHANGED <<requestVars, responseVars, done, timeoutErr, left, tail, released>>

(* Mutant: onTimer trusts that it fires only at the deadline. *)
ExpiredAlways(r) == TRUE

Expired(r) == left[r] = 0

(* Mutant: onTimer does not look whether the body is done already. *)
OnTimerUnaware(r) ==
  /\ callbacks[r] > 0
  /\ callbacks' = [callbacks EXCEPT ![r] = @ - 1]
  /\ IF Expired(r)
     THEN /\ timeoutErr' = [timeoutErr EXCEPT ![r] = TRUE]
          /\ done' = [done EXCEPT ![r] = TRUE]
          /\ tail' = [tail EXCEPT ![r] = "timerCancel"]
          /\ UNCHANGED armed
     ELSE /\ armed' = [armed EXCEPT ![r] = TRUE]
          /\ UNCHANGED <<done, timeoutErr, tail>>
  /\ UNCHANGED <<requestVars, responseVars, left, released>>

(* onTimer under b.mu: nothing when the body is done, another timer when a   *)
(* chunk moved the deadline in the meantime, and otherwise the timeout.      *)
OnTimer(r) ==
  /\ callbacks[r] > 0
  /\ callbacks' = [callbacks EXCEPT ![r] = @ - 1]
  /\ \/ /\ done[r]
        /\ UNCHANGED <<done, timeoutErr, armed, tail>>
     \/ /\ ~done[r] /\ ~Expired(r)
        /\ armed' = [armed EXCEPT ![r] = TRUE]
        /\ UNCHANGED <<done, timeoutErr, tail>>
     \/ /\ ~done[r] /\ Expired(r)
        /\ timeoutErr' = [timeoutErr EXCEPT ![r] = TRUE]
        /\ done' = [done EXCEPT ![r] = TRUE]
        /\ tail' = [tail EXCEPT ![r] = "timerCancel"]
        /\ UNCHANGED armed
  /\ UNCHANGED <<requestVars, responseVars, left, released>>

-----------------------------------------------------------------------------
(* After the unlock: the goroutine that set b.done finishes the exchange. *)

TailCompletes(r) ==
  /\ tail[r] = "complete"
  /\ completed' = [completed EXCEPT ![r] = TRUE]
  /\ tail' = [tail EXCEPT ![r] = "readCancel"]
  /\ UNCHANGED <<requestVars, body, stream, inTime, caller, reader, observer, missed,
                 cleanEnd, done, timeoutErr, armed, left, callbacks, released>>

AfterCancel == [readCancel |-> "readRelease", timerCancel |-> "timerRelease",
                closeCancel |-> "closeRelease"]

TailCancels(r) ==
  /\ tail[r] \in DOMAIN AfterCancel
  /\ cancelled' = [cancelled EXCEPT ![r] = TRUE]
  /\ tail' = [tail EXCEPT ![r] = AfterCancel[tail[r]]]
  /\ UNCHANGED <<main, base, abandoned, responseVars, done, timeoutErr, armed, left,
                 callbacks, released>>

(* Mutant: the timeout does not give the lease back. *)
ReleasingTailsButTimer == {"readRelease", "closeRelease"}

ReleasingTails == {"readRelease", "timerRelease", "closeRelease"}

(* Then Read returns its error to the copy loop, onTimer goes on to close    *)
(* the body, and Close to b.body.Close().                                    *)
TailReleases(r) ==
  /\ tail[r] \in ReleasingTails
  /\ released' = [released EXCEPT ![r] = TRUE]
  /\ tail' = [tail EXCEPT ![r] = IF @ = "timerRelease" THEN "timerClose" ELSE "over"]
  /\ reader' = [reader EXCEPT ![r] = IF tail[r] = "readRelease" THEN "idle" ELSE @]
  /\ caller' = [caller EXCEPT ![r] =
                  IF tail[r] = "closeRelease" THEN "closeBody"
                  ELSE IF tail[r] = "readRelease" /\ @ = "copying" THEN "close" ELSE @]
  /\ UNCHANGED <<requestVars, body, stream, inTime, observer, completed, missed, cleanEnd,
                 done, timeoutErr, armed, left, callbacks>>

TimerClosesBody(r) ==
  /\ tail[r] = "timerClose"
  /\ body' = [body EXCEPT ![r] = "closed"]
  /\ tail' = [tail EXCEPT ![r] = "over"]
  /\ UNCHANGED <<requestVars, stream, inTime, caller, reader, observer, completed, missed,
                 cleanEnd, done, timeoutErr, armed, left, callbacks, released>>

(* The proxy stops copying by itself: writing to the client failed, or the   *)
(* upgraded connection ended while a Read was under way.                     *)
CallerAborts(r) ==
  /\ caller[r] = "copying" /\ (reader[r] = "idle" \/ r \in Upgraded)
  /\ caller' = [caller EXCEPT ![r] = "close"]
  /\ UNCHANGED <<requestVars, body, stream, inTime, reader, observer, completed, missed,
                 cleanEnd, watchVars>>

(* Close calls finish(nil): a body that is done already is left to whoever   *)
(* finished it.                                                              *)
CloseFinishes(r) ==
  /\ caller[r] = "close"
  /\ IF done[r]
     THEN /\ caller' = [caller EXCEPT ![r] = "closeBody"]
          /\ UNCHANGED <<done, armed, tail>>
     ELSE /\ caller' = [caller EXCEPT ![r] = "finishing"]
          /\ done' = [done EXCEPT ![r] = TRUE]
          /\ armed' = [armed EXCEPT ![r] = FALSE]
          /\ tail' = [tail EXCEPT ![r] = "closeCancel"]
  /\ UNCHANGED <<requestVars, body, stream, inTime, reader, observer, completed, missed,
                 cleanEnd, timeoutErr, left, callbacks, released>>

CloseClosesBody(r) ==
  /\ caller[r] = "closeBody"
  /\ body' = [body EXCEPT ![r] = "closed"]
  /\ caller' = [caller EXCEPT ![r] = "closed"]
  /\ UNCHANGED <<requestVars, stream, inTime, reader, observer, completed, missed,
                 cleanEnd, watchVars>>

-----------------------------------------------------------------------------

(* What the goroutines of pxpipe and net/http do by themselves. *)
Internal(r) ==
  \/ TakeResult(r) \/ HeadersTimeout(r) \/ ContextDone(r) \/ DropResult(r)
  \/ MainCancels(r) \/ ModifyResponse(r)
  \/ ReadStart(r) \/ BodyReadReturns(r)
  \/ ReadLocksDone(r) \/ ReadLocksData(r) \/ ReadLocksEnd(r)
  \/ TimerFires(r) \/ OnTimer(r)
  \/ TailCompletes(r) \/ TailCancels(r) \/ TimerClosesBody(r)
  \/ CloseFinishes(r) \/ CloseClosesBody(r)

(* The two places that run the release closure. *)
Releases(r) == MainReleases(r) \/ TailReleases(r)

(* What the client and the upstream may do. *)
Outside(r) == BaseReturns(r) \/ ClientGone(r) \/ UpstreamSends(r) \/ CallerAborts(r)

ExchangeNext ==
  \/ ExchangeTick
  \/ \E r \in Exchanges : Begin(r) \/ Internal(r) \/ Releases(r) \/ Outside(r)

(* Goroutines that can run do run, and time goes on.  Nothing is assumed of  *)
(* the client or the upstream: either may stay silent for ever.              *)
ExchangeFairness ==
  /\ WF_exchangeVars(ExchangeTick)
  /\ \A r \in Exchanges :
       /\ WF_exchangeVars(TakeResult(r) \/ HeadersTimeout(r) \/ ContextDone(r))
       /\ WF_exchangeVars(DropResult(r))
       /\ WF_exchangeVars(MainCancels(r) \/ MainReleases(r))
       /\ WF_exchangeVars(ModifyResponse(r) \/ ReadStart(r))
       /\ WF_exchangeVars(BodyReadReturns(r))
       /\ WF_exchangeVars(ReadLocksDone(r) \/ ReadLocksData(r) \/ ReadLocksEnd(r))
       /\ WF_exchangeVars(TimerFires(r))
       /\ WF_exchangeVars(OnTimer(r))
       /\ WF_exchangeVars(TailCompletes(r) \/ TailCancels(r) \/ TailReleases(r)
                          \/ TimerClosesBody(r))
       /\ WF_exchangeVars(CloseFinishes(r) \/ CloseClosesBody(r))

ExchangeSpec == ExchangeInit /\ [][ExchangeNext]_exchangeVars
FairExchangeSpec == ExchangeSpec /\ ExchangeFairness

-----------------------------------------------------------------------------
(* Properties. *)

MainStates == {"new", "waiting", "cancel", "release", "ended", "returned"}
TailStates == {"none", "complete", "readCancel", "timerCancel", "closeCancel",
               "readRelease", "timerRelease", "closeRelease", "timerClose", "over"}

(* The states each goroutine and field can be in. *)
ExchangeTypeOK ==
  /\ main \in [Exchanges -> MainStates]
  /\ base \in [Exchanges ->
       {"new", "running", "response", "bodiless", "error", "sent", "dropped"}]
  /\ body \in [Exchanges -> {"none", "open", "closed"}]
  /\ stream \in [Exchanges -> {"silent", "bytes", "eof", "broken"}]
  /\ caller \in [Exchanges ->
       {"waiting", "modify", "copying", "close", "finishing", "closeBody", "closed"}]
  /\ reader \in [Exchanges -> {"idle", "reading", "data", "eof", "error", "ending"}]
  /\ observer \in [Exchanges -> {"none", "attached"}]
  /\ tail \in [Exchanges -> TailStates]
  /\ left \in [Exchanges -> 0 .. (HeadersBudget + IdleBudget)]
  /\ callbacks \in [Exchanges -> 0 .. MaxCallbacks]
  /\ \A f \in {abandoned, cancelled, inTime, completed, missed, cleanEnd, done, timeoutErr,
              armed, released} :
       f \in [Exchanges -> BOOLEAN]

(* A response is accounted as complete only after a clean EOF that no idle   *)
(* timeout and no Close got ahead of, and only when the observer saw every   *)
(* chunk the client was given ("runs after a response body reaches a clean   *)
(* EOF").                                                                    *)
CompletionExact ==
  \A r \in Exchanges :
    completed[r] => cleanEnd[r] /\ ~timeoutErr[r] /\ ~missed[r]

(* How far an exchange is, seen from outside its goroutines. *)
Life(r) ==
  IF main[r] = "new" THEN "new"
  ELSE IF released[r] THEN "released"
  ELSE IF cancelled[r] THEN "cancelled" ELSE "upstream"

EndSeen(r) ==
  IF ~done[r] THEN "open"
  ELSE IF cleanEnd[r] /\ observer[r] = "attached" THEN "clean" ELSE "cut"

Promise == INSTANCE ExchangeLife WITH
  life <- [r \in Exchanges |-> Life(r)],
  ended <- [r \in Exchanges |-> EndSeen(r)],
  accounted <- completed

(* Every behaviour keeps the promise of ExchangeLife: the response ends      *)
(* once, a clean end is accounted exactly once and before the lease goes,    *)
(* and the lease goes once, with the upstream cancelled, on every path.      *)
KeepsPromise == Promise!LifeSpec

(* The idle timeout is raised only at a deadline that has passed: a chunk    *)
(* that moves the deadline while onTimer waits for the mutex saves the       *)
(* response.                                                                 *)
TimeoutNeedsDeadline ==
  [][\A r \in Exchanges : ~timeoutErr[r] /\ timeoutErr'[r] => left[r] = 0]_exchangeVars

(* While the proxy copies a response, nothing but the idle timeout closes it *)
(* under the reader: a late base goroutine closes only what nobody took.     *)
NoForeignClose ==
  \A r \in Exchanges : caller[r] \in {"modify", "copying"} /\ body[r] = "closed" => timeoutErr[r]

(* In every state of an exchange: its types, what is accounted was all read, *)
(* and nobody closes a body that somebody else is still given.               *)
ExchangeOK == ExchangeTypeOK /\ CompletionExact /\ NoForeignClose

Settled(r) == released[r] /\ cancelled[r] /\ body[r] # "open"

(* With both guards on, every request that starts ends: its lease is given   *)
(* back, its context is cancelled and no response body stays open, late ones *)
(* included; unless the upstream goes on sending for ever.                   *)
EventuallySettled ==
  \A r \in Exchanges :
    <>[](reader[r] # "data") => (main[r] = "waiting" ~> Settled(r))

(* What the handler's options say of UpstreamIdleTimeout: it "aborts a       *)
(* response stream after no bytes arrive".  So it would not abort one whose  *)
(* bytes arrived in time, while the proxy is not even asking for them        *)
(* because it still writes the chunk before to the client.                   *)
AbortOnlyWhenNoBytesArrived ==
  [][\A r \in Exchanges :
       ~timeoutErr[r] /\ timeoutErr'[r] =>
         ~(stream[r] = "bytes" /\ inTime[r] /\ reader[r] = "idle")]_exchangeVars
=============================================================================
