------------------------ MODULE ReliabilityTransport ------------------------
(***************************************************************************)
(* reliabilityTransport as a whole: the duplicate hold (DuplicateHold) and *)
(* the exchange each admitted request goes through (UpstreamExchange),     *)
(* joined where RoundTrip joins them.  acquire comes first; only when it   *)
(* succeeds is the upstream contacted; and the release closure it returned *)
(* runs where the exchange gives the lease back.                           *)
(***************************************************************************)
EXTENDS DuplicateHold, UpstreamExchange

(* What the exchange is about is the requests the hold is about. *)
ASSUME TransportAssumption == Exchanges = Requests

transportVars == <<holdVars, exchangeVars>>

-----------------------------------------------------------------------------

TransportInit == HoldInit /\ ExchangeInit

Tick == HoldTick /\ ExchangeTick

(* The part of acquire before it lets a request through or refuses it. *)
AcquireSteps(r) == (ReadClock(r) \/ Refuse(r)) /\ UNCHANGED exchangeVars

(* acquire succeeds and RoundTrip goes on to the upstream. *)
Start(r) == (Admit(r) \/ AcquireUnkeyed(r)) /\ Begin(r)

Step(r) == (Internal(r) \/ Outside(r)) /\ UNCHANGED holdVars

(* Mutant: the lease is given back as soon as the headers are there. *)
ReleaseWithHeaders(r) ==
  \/ Releases(r) /\ UNCHANGED holdVars
  \/ main[r] = "returned" /\ Release(r) /\ UNCHANGED exchangeVars

GiveBack(r) == Releases(r) /\ Release(r)

TransportNext ==
  Tick \/ \E r \in Requests : AcquireSteps(r) \/ Start(r) \/ Step(r) \/ GiveBack(r)

TransportSpec == TransportInit /\ [][TransportNext]_transportVars

-----------------------------------------------------------------------------
(* Properties. *)

UpstreamBusy(r) == main[r] # "new" /\ ~cancelled[r]

(* The upstream never works on two identical requests at once, unless the    *)
(* first one had run for Hold when the second was admitted: a lease that is  *)
(* given back early goes with a cancelled upstream request.                  *)
UpstreamExclusion ==
  \A q, r \in Requests :
    (/\ Keyed(q) /\ KeyOf[q] = KeyOf[r] /\ lease[q] < lease[r]
     /\ UpstreamBusy(q) /\ UpstreamBusy(r))
      => admittedAt[r] - stamp[q] >= Hold

(* When an identical request is admitted within Hold of an earlier one that  *)
(* ended cleanly under an observer, that response has been accounted: the    *)
(* retry acts on what the earlier response said of the cache.                *)
RetryFindsAccounting ==
  \A q, r \in Requests :
    (/\ Keyed(q) /\ KeyOf[q] = KeyOf[r] /\ lease[q] < lease[r]
     /\ admittedAt[r] - stamp[q] < Hold
     /\ cleanEnd[q] /\ observer[q] = "attached")
      => completed[q]
=============================================================================
