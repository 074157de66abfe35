----------------------------- MODULE AppProcess -----------------------------
(***************************************************************************)
(* The life of a pxpipe process around its proxy: the serve command        *)
(* (runServer, with the terminal screen and the signals it answers) and    *)
(* the command wrapper (runProfile with runner.Run, which starts a child,  *)
(* serves it and ends with it).  The wrapper's second server, which        *)
(* handles the requests its proxy routes, is the set of handlers.          *)
(*                                                                         *)
(* Three clocks are left to chance: the grace of a shutdown may run out at *)
(* any time or never, a request may last for ever, and so may the child.   *)
(***************************************************************************)
EXTENDS RequestLog

VARIABLES
    command,    \* "serve" or "run"
    main,       \* the goroutine in runServer or runProfile
    onStop,     \* what it does once the screen is down
    drain,      \* the call of proxy.Shutdown
    graceOver,  \* its context has expired
    cancelled,  \* ctx, or the child's context, is done
    force,      \* a second signal waits in the force channel
    child,      \* the wrapped command
    runner,     \* runner.Run
    exitCode,   \* the result of the wrapper: the child's or its own
    summary     \* the requests the written summary counts

appVars == <<command, main, onStop, drain, graceOver, cancelled, force,
             child, runner, exitCode, summary>>
vars == <<proxyVars, logVars, appVars>>
childVars == <<child, runner, exitCode, summary>>

NotWritten == MaxRequests + 1

Init ==
    /\ ProxyInit
    /\ command \in {"serve", "run"}
    /\ \E terminal \in BOOLEAN : LogInit(terminal) /\ (terminal => command = "serve")
    /\ main = "select" /\ onStop = "none" /\ drain = "none" /\ graceOver = FALSE
    /\ cancelled = FALSE /\ force = FALSE
    /\ child = (IF command = "run" THEN "running" ELSE "none")
    /\ runner = child
    /\ exitCode = "none" /\ summary = NotWritten

-----------------------------------------------------------------------------
(* notifyServeSignals: the first signal cancels, the second forces         *)

Signal ==
    /\ command = "serve" /\ ~force
    /\ cancelled' = TRUE /\ force' = cancelled
    /\ UNCHANGED <<proxyVars, logVars, command, main, onStop, drain, graceOver, childVars>>

-----------------------------------------------------------------------------
(* runServer                                                               *)

GoMain(label) == main' = label

\* Serve returned, or the context is done: the screen is taken down first.
BeginStop(next) ==
    /\ onStop' = next
    /\ updates' = FALSE
    /\ tui' = IF tui = "running" THEN "asked" ELSE tui
    /\ GoMain("stopTUI")
    /\ UNCHANGED <<proxyVars, logged, message, queue, sending, screen, command, drain,
                   graceOver, cancelled, force, childVars>>

SelectServe ==
    /\ command = "serve" /\ main = "select"
    /\ \/ serving = "failed" /\ BeginStop("return")
       \/ cancelled /\ BeginStop("shutdown")
       \/ /\ tui = "stopped"
          /\ GoMain("draining") /\ drain' = "begin" /\ onStop' = "screenGone"
          /\ UNCHANGED <<proxyVars, logVars, command, graceOver, cancelled,
                         force, childVars>>

\* stopTUI: the program has ended, or the two timers ran out and it is killed.
ScreenDown ==
    /\ main = "stopTUI"
    /\ IF onStop = "return" THEN GoMain("returned") /\ drain' = drain
                            ELSE GoMain("draining") /\ drain' = "begin"
    /\ UNCHANGED <<proxyVars, logVars, command, onStop, graceOver, cancelled,
                   force, childVars>>

\* Shutdown returned.
DrainDone ==
    /\ command = "serve" /\ main = "draining" /\ drain = "done"
    /\ GoMain("returned")
    /\ UNCHANGED <<proxyVars, logVars, command, onStop, drain, graceOver,
                   cancelled, force, childVars>>

\* Mutant of Interrupt: after the first signal only the grace ends the wait.
InterruptOfScreen ==
    /\ main = "draining" /\ onStop = "screenGone" /\ cancelled
    /\ GoMain("forcing") /\ ServerClose
    /\ UNCHANGED <<logVars, command, onStop, drain, graceOver, cancelled,
                   force, childVars>>

\* The wait for Shutdown is cut short: by the force channel after a signal, by
\* the first signal when the screen ended on its own.  Close starts.
Interrupt ==
    /\ main = "draining"
    /\ IF onStop = "screenGone" THEN cancelled ELSE force
    /\ GoMain("forcing") /\ ServerClose
    /\ UNCHANGED <<logVars, command, onStop, drain, graceOver, cancelled,
                   force, childVars>>

\* closeConnections inside Close.
ForceClose ==
    /\ main = "forcing" /\ CloseConnections /\ GoMain("returned")
    /\ UNCHANGED <<logVars, command, onStop, drain, graceOver, cancelled,
                   force, childVars>>

-----------------------------------------------------------------------------
(* Proxy.Shutdown                                                          *)

\* The requests server.Shutdown waits for.  In serve mode a request inside a
\* tunnel comes back to the same server on a connection of its own.
Waited == IF command = "serve" THEN Handling
          ELSE {c \in Handling : conn[c] = "open"}

GoDrain(label) ==
    /\ drain' = label
    /\ UNCHANGED <<logVars, command, main, onStop, graceOver, cancelled,
                   force, childVars>>

\* The listener closes, idle connections go until no request is left or the
\* grace is over, and closeConnections ends the rest.
Drain ==
    \/ drain = "begin" /\ ServerShutdown /\ GoDrain("waiting")
    \/ drain = "waiting" /\ (Waited = {} \/ graceOver) /\ ServerShutdown /\ GoDrain("closing")
    \/ drain = "closing" /\ CloseConnections /\ GoDrain("done")

GraceRunsOut ==
    /\ drain # "none" /\ ~graceOver /\ main # "returned"
    /\ graceOver' = TRUE
    /\ UNCHANGED <<proxyVars, logVars, command, main, onStop, drain, cancelled,
                   force, childVars>>

-----------------------------------------------------------------------------
(* runProfile and runner.Run                                               *)

Wrapper(label) ==
    /\ command = "run" /\ GoMain(label)
    /\ UNCHANGED <<logVars, command, onStop, graceOver, force, child, runner>>

ChildExits ==
    /\ child = "running" /\ child' = "exited"
    /\ UNCHANGED <<proxyVars, logVars, command, main, onStop, drain, graceOver,
                   cancelled, force, runner, exitCode, summary>>

\* runner.Run: it returns with the child, or kills it and waits for it.
RunnerReturns ==
    /\ runner = "running"
    /\ child = "exited" \/ cancelled
    /\ child' = "exited" /\ runner' = "done"
    /\ UNCHANGED <<proxyVars, logVars, command, main, onStop, drain, graceOver,
                   cancelled, force, exitCode, summary>>

\* The child has ended by itself, or a server has stopped under it.
SelectRun ==
    /\ main = "select"
    /\ \/ /\ runner = "done" /\ Wrapper("draining")
          /\ drain' = "begin" /\ exitCode' = "childs" /\ cancelled' = cancelled
       \/ /\ serving = "failed" /\ Wrapper("waitChild")
          /\ drain' = drain /\ exitCode' = "own" /\ cancelled' = TRUE
    /\ UNCHANGED <<proxyVars, summary>>

WaitChild ==
    /\ main = "waitChild" /\ runner = "done" /\ Wrapper("draining")
    /\ drain' = "begin"
    /\ UNCHANGED <<proxyVars, cancelled, exitCode, summary>>

\* The proxy is down; transformServer.Shutdown waits for the handlers within
\* what is left of the same grace.
StopTransform ==
    /\ main = "draining" /\ drain = "done"
    /\ Handling = {} \/ graceOver
    /\ Wrapper("summing")
    /\ UNCHANGED <<proxyVars, drain, cancelled, exitCode, summary>>

\* The deferred summary counts the rows added by then.
WriteSummary ==
    /\ main = "summing" /\ Wrapper("returned")
    /\ summary' = requests - Cardinality(Handling)
    /\ UNCHANGED <<proxyVars, drain, cancelled, exitCode>>

-----------------------------------------------------------------------------
LogStep ==
    /\ \/ Rows \/ TakeMessage \/ Update \/ ProgramEnds \/ \E c \in Conns : AddRow(c)
    /\ UNCHANGED appVars

ProxyStep ==
    /\ Traffic \/ Plumbing \/ ListenerFails
    /\ UNCHANGED <<logVars, appVars>>

MainStep ==
    \/ SelectServe \/ ScreenDown \/ DrainDone \/ Interrupt \/ ForceClose
    \/ SelectRun \/ WaitChild \/ StopTransform \/ WriteSummary

\* The process is gone once main has returned: nothing else runs.
Next ==
    \/ main # "returned" /\ (LogStep \/ ProxyStep \/ Drain \/ MainStep \/ Signal
                              \/ GraceRunsOut \/ ChildExits \/ RunnerReturns)

Spec == Init /\ [][Next]_vars

\* Every goroutine of the process runs on; clients, requests, the child and
\* the grace are under no obligation.
FairSpec ==
    /\ Spec
    /\ WF_vars(main # "returned" /\ MainStep)
    /\ WF_vars(main # "returned" /\ Drain)
    /\ WF_vars(main # "returned" /\ RunnerReturns)
    /\ WF_vars(main # "returned" /\ Rows /\ UNCHANGED appVars)
    /\ WF_vars(main # "returned" /\ TakeMessage /\ UNCHANGED appVars)
    /\ WF_vars(main # "returned" /\ Update /\ UNCHANGED appVars)

-----------------------------------------------------------------------------
\* When the process returns from a shutdown no connection it accepted is left
\* open, tunnels and late arrivals included, and a wrapper leaves no child
\* behind and has counted every request whose handler ended in time.
NothingLeftBehind ==
    /\ ProxyTypeOK /\ LogTypeOK
    /\ main = "returned" =>
        /\ (command = "run" \/ onStop # "return") =>
               \A c \in Conns : conn[c] \notin Tracked
        /\ command = "run" =>
               /\ child = "exited"
               /\ summary = requests \/ graceOver

\* The screen never goes back to an older state of the log, although rows are
\* numbered under one mutex and offered under another.
ScreenNeverGoesBack == [][screen' >= screen]_vars

\* The last row added is shown in the end, as long as the screen stays up:
\* whenever rows stop coming for long enough, the screen is up to date.
LastRowShown ==
    []<>(screen = logged \/ ~updates \/ tui = "stopped" \/ main = "returned")

\* A second signal ends the process whatever is still running: neither the
\* requests nor the grace of the shutdown are waited for.
SecondSignalForces == force ~> main = "returned"
=============================================================================
