------------------------------ MODULE MitmProxy ------------------------------
(***************************************************************************)
(* The connections of the intercepting proxy (internal/mitm/proxy.go): its *)
(* tracking listener, the http.Server behind it, which is external, and    *)
(* Shutdown and Close, which also end the tunnels the server let go of.    *)
(*                                                                         *)
(* closeConnections is one step: what it closes after the unlock it has    *)
(* seen under connectionsMu, and such a connection has nowhere else to go. *)
(***************************************************************************)
EXTENDS Naturals, FiniteSets

CONSTANTS
    Conns,          \* the connections, numbered in the order they are accepted
    MaxRequests     \* bound on the requests

ASSUME ProxyConstants ==
    /\ Conns \subseteq Nat /\ IsFiniteSet(Conns)
    /\ MaxRequests \in Nat

VARIABLES
    conn,       \* where each connection is
    handler,    \* the request being handled for it, until its row is added
    requests,   \* requests begun
    listening,  \* the listener accepts
    serving,    \* the goroutine in Serve: "serving", "failed" or "ended"
    closing     \* p.closing

proxyVars == <<conn, handler, requests, listening, serving, closing>>

Tracked == {"tracked", "open", "tunnel"}
Handlers == {"none", "handling", "offering", "drained"}

ProxyTypeOK ==
    /\ conn \in [Conns -> {"away", "accepted", "closed"} \union Tracked]
    /\ handler \in [Conns -> Handlers]
    /\ requests \in 0..MaxRequests
    /\ listening \in BOOLEAN /\ closing \in BOOLEAN
    /\ serving \in {"serving", "failed", "ended"}

ProxyInit ==
    /\ conn = [c \in Conns |-> "away"]
    /\ handler = [c \in Conns |-> "none"]
    /\ requests = 0
    /\ listening = TRUE /\ serving = "serving" /\ closing = FALSE

Idle(c) == conn[c] = "open" /\ handler[c] = "none"
Handling == {c \in Conns : handler[c] # "none"}

\* The listener returns a connection to trackingListener.Accept.
Accept(c) ==
    /\ conn[c] = "away" /\ listening
    /\ \A d \in Conns : d < c => conn[d] # "away"
    /\ conn' = [conn EXCEPT ![c] = "accepted"]
    /\ UNCHANGED <<handler, requests, listening, serving, closing>>

\* Mutant of Track: p.closing is not looked at.
TrackAlways(c) ==
    /\ conn[c] = "accepted"
    /\ conn' = [conn EXCEPT ![c] = "tracked"]
    /\ UNCHANGED <<handler, requests, listening, serving, closing>>

\* trackConnection: once the proxy closes, a late connection is closed here.
Track(c) ==
    /\ conn[c] = "accepted"
    /\ conn' = [conn EXCEPT ![c] = IF closing THEN "closed" ELSE "tracked"]
    /\ UNCHANGED <<handler, requests, listening, serving, closing>>

\* http.Server registers the connection Accept returned, shut down or not.
Register(c) ==
    /\ conn[c] = "tracked"
    /\ conn' = [conn EXCEPT ![c] = "open"]
    /\ UNCHANGED <<handler, requests, listening, serving, closing>>

\* CONNECT: the connection is hijacked and the server forgets it.
Hijack(c) ==
    /\ Idle(c)
    /\ conn' = [conn EXCEPT ![c] = "tunnel"]
    /\ UNCHANGED <<handler, requests, listening, serving, closing>>

\* A request arrives on a connection, or inside a tunnel that is decrypted.
Request(c) ==
    /\ conn[c] \in {"open", "tunnel"} /\ handler[c] = "none"
    /\ requests < MaxRequests
    /\ requests' = requests + 1
    /\ handler' = [handler EXCEPT ![c] = "handling"]
    /\ UNCHANGED <<conn, listening, serving, closing>>

\* The peer goes away: trackedConnection.Close forgets the connection.
PeerCloses(c) ==
    /\ conn[c] \in Tracked
    /\ conn' = [conn EXCEPT ![c] = "closed"]
    /\ UNCHANGED <<handler, requests, listening, serving, closing>>

\* Accept fails for good: Serve returns an error.
ListenerFails ==
    /\ serving = "serving"
    /\ serving' = "failed" /\ listening' = FALSE
    /\ UNCHANGED <<conn, handler, requests, closing>>

Shut(gone) ==
    /\ listening' = FALSE
    /\ serving' = IF serving = "serving" THEN "ended" ELSE serving
    /\ conn' = [c \in Conns |-> IF c \in gone THEN "closed" ELSE conn[c]]

\* server.Shutdown closes the listener and the idle connections it knows.
ServerShutdown ==
    /\ Shut({c \in Conns : Idle(c)})
    /\ UNCHANGED <<handler, requests, closing>>

\* server.Close closes those that are handling a request as well.
ServerClose ==
    /\ Shut({c \in Conns : conn[c] = "open"})
    /\ UNCHANGED <<handler, requests, closing>>

CloseConnections ==
    /\ closing' = TRUE
    /\ conn' = [c \in Conns |-> IF conn[c] \in Tracked THEN "closed" ELSE conn[c]]
    /\ UNCHANGED <<handler, requests, listening, serving>>

Traffic ==
    \E c \in Conns : Accept(c) \/ Hijack(c) \/ Request(c) \/ PeerCloses(c)

Plumbing == \E c \in Conns : Track(c) \/ Register(c)
=============================================================================
