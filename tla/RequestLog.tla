----------------------------- MODULE RequestLog -----------------------------
(***************************************************************************)
(* How the rows of the request log reach the terminal (requestLog in       *)
(* internal/app/server.go).  Each handler that ends numbers a copy of the  *)
(* rows under mu and offers it, under updatesMu, to a channel that holds   *)
(* one; a goroutine takes it from there and sends it to the program, whose *)
(* Update shows it.  A message is its sequence number: the rows it copies  *)
(* are the last ones added up to it.                                       *)
(***************************************************************************)
EXTENDS MitmProxy

VARIABLES
    logged,     \* l.sequence
    message,    \* the message each handler has to offer, 0 when none
    updates,    \* l.updates is not nil
    queue,      \* what the channel holds, 0 when empty
    sending,    \* what the goroutine has to send, 0 when none
    screen,     \* the sequence Update showed last
    tui         \* the program: "none", "running", "asked" to quit or "stopped"

logVars == <<logged, message, updates, queue, sending, screen, tui>>

LogTypeOK ==
    /\ logged \in 0..MaxRequests + 1
    /\ message \in [Conns -> 0..MaxRequests + 1]
    /\ updates \in BOOLEAN
    /\ {queue, sending, screen} \subseteq 0..MaxRequests + 1
    /\ tui \in {"none", "running", "asked", "stopped"}

\* startTUI numbers and offers the rows there are before anything is served.
LogInit(terminal) ==
    /\ tui = (IF terminal THEN "running" ELSE "none") /\ updates = terminal
    /\ logged = (IF terminal THEN 1 ELSE 0) /\ queue = logged
    /\ message = [c \in Conns |-> 0] /\ sending = 0 /\ screen = 0

Moves(c, step) ==
    /\ handler' = [handler EXCEPT ![c] = step]
    /\ UNCHANGED <<conn, requests, listening, serving, closing>>

\* add, under mu: a copy is numbered and the channel of that moment kept.
AddRow(c) ==
    /\ handler[c] = "handling"
    /\ logged' = IF tui = "none" THEN logged ELSE logged + 1
    /\ message' = [message EXCEPT ![c] = IF updates THEN logged' ELSE 0]
    /\ Moves(c, IF updates THEN "offering" ELSE "none")
    /\ UNCHANGED <<updates, queue, sending, screen, tui>>

\* offerRequestLogRows: the channel is free, or its message is taken back and
\* the newer of the two is kept.
Offer(c) ==
    /\ handler[c] = "offering" /\ \A d \in Conns : handler[d] # "drained"
    /\ IF queue = 0
       THEN queue' = message[c] /\ message' = [message EXCEPT ![c] = 0] /\ Moves(c, "none")
       ELSE UNCHANGED <<queue, message>> /\ Moves(c, "drained")
    /\ UNCHANGED <<logged, updates, sending, screen, tui>>

\* Mutant of Newer: the message at hand replaces the one taken back.
AtHand(queued, mine) == mine

Newer(queued, mine) == IF queued > mine THEN queued ELSE mine

\* The second and third select, with updatesMu still held: the goroutine may
\* have emptied the channel in between, but nobody can have filled it.
Resend(c) ==
    /\ handler[c] = "drained"
    /\ queue' = Newer(queue, message[c])
    /\ message' = [message EXCEPT ![c] = 0] /\ Moves(c, "none")
    /\ UNCHANGED <<logged, updates, sending, screen, tui>>

TakeMessage ==
    /\ queue # 0 /\ sending = 0 /\ tui \in {"running", "asked"}
    /\ sending' = queue /\ queue' = 0
    /\ UNCHANGED <<proxyVars, logged, message, updates, screen, tui>>

\* Mutant of Update: the last message to arrive is shown.
ShowLatest ==
    /\ sending # 0
    /\ screen' = IF tui \in {"running", "asked"} THEN sending ELSE screen
    /\ sending' = 0
    /\ UNCHANGED <<proxyVars, logged, message, updates, queue, tui>>

\* program.Send and Update; a program that has ended ignores the message.
Update ==
    /\ sending # 0
    /\ screen' = IF tui \in {"running", "asked"} /\ sending > screen THEN sending ELSE screen
    /\ sending' = 0
    /\ UNCHANGED <<proxyVars, logged, message, updates, queue, tui>>

\* The program ends: the user pressed ctrl+c, it failed, or it was asked to.
ProgramEnds ==
    /\ tui \in {"running", "asked"}
    /\ tui' = "stopped"
    /\ UNCHANGED <<proxyVars, logged, message, updates, queue, sending, screen>>

Rows == \E c \in Conns : Offer(c) \/ Resend(c)
=============================================================================
