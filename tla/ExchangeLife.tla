----------------------------- MODULE ExchangeLife -----------------------------
(***************************************************************************)
(* What an exchange promises the duplicate hold and the response           *)
(* accounting, whatever its goroutines, timers and connections do: it goes *)
(* upstream once, its response ends once, a response that ended cleanly    *)
(* under the observer is accounted, and only then, with the upstream       *)
(* request cancelled, the lease is given back, once and for good.          *)
(***************************************************************************)
CONSTANT Exchanges

VARIABLES
  life,      \* how far each exchange is
  ended,     \* how its response ended: with a clean end the observer saw, or cut
  accounted  \* the response has been accounted as complete

lifeVars == <<life, ended, accounted>>

LifeInit ==
  /\ life = [r \in Exchanges |-> "new"]
  /\ ended = [r \in Exchanges |-> "open"]
  /\ accounted = [r \in Exchanges |-> FALSE]

GoUpstream(r) ==
  /\ life[r] = "new"
  /\ life' = [life EXCEPT ![r] = "upstream"]
  /\ UNCHANGED <<ended, accounted>>

(* The response ends while the lease is held, and never again. *)
End(r) ==
  /\ life[r] \in {"upstream", "cancelled"} /\ ended[r] = "open"
  /\ \E how \in {"clean", "cut"} : ended' = [ended EXCEPT ![r] = how]
  /\ UNCHANGED <<life, accounted>>

(* Accounting comes after a clean end, and before the lease is given back. *)
Account(r) ==
  /\ life[r] \in {"upstream", "cancelled"} /\ ended[r] = "clean" /\ ~accounted[r]
  /\ accounted' = [accounted EXCEPT ![r] = TRUE]
  /\ UNCHANGED <<life, ended>>

Cancel(r) ==
  /\ life[r] = "upstream"
  /\ life' = [life EXCEPT ![r] = "cancelled"]
  /\ UNCHANGED <<ended, accounted>>

GiveUpLease(r) ==
  /\ life[r] = "cancelled"
  /\ ended[r] = "clean" => accounted[r]
  /\ life' = [life EXCEPT ![r] = "released"]
  /\ UNCHANGED <<ended, accounted>>

LifeNext ==
  \E r \in Exchanges : GoUpstream(r) \/ End(r) \/ Account(r) \/ Cancel(r) \/ GiveUpLease(r)

LifeSpec == LifeInit /\ [][LifeNext]_lifeVars
=============================================================================
