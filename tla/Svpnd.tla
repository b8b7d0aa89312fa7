------------------------------- MODULE Svpnd --------------------------------
(***************************************************************************)
(* The life of the svpnd process: internal/service/cli/serve.go runs the   *)
(* server of internal/ipc/server.go until a TERM, then Daemon.Shutdown,    *)
(* then exits.  Every action of Daemon is an action here, taken by the     *)
(* goroutine that serves a client, by main, or by a watcher, as long as    *)
(* the process runs.                                                       *)
(***************************************************************************)
EXTENDS Daemon

CONSTANT Main   \* the goroutine of serve, which calls Shutdown

ASSUME MainIsACaller == Main \in Callers

VARIABLES
    main,        \* where serve is
    term,        \* the context NotifyContext cancels is done
    listening,   \* the listener is open
    served       \* the clients with a goroutine in serveConn

process == <<main, term, listening, served>>
allVars == <<vars, process>>

Clients == Callers \ {Main}
Running == main # "exited"

ProcessTypeOK ==
    /\ main \in {"accepting", "waiting", "stopping", "exited"}
    /\ term \in BOOLEAN /\ listening \in BOOLEAN
    /\ served \subseteq Clients

ProcessInit ==
    /\ Init
    /\ main = "accepting" /\ term = FALSE /\ listening = TRUE /\ served = {}

-----------------------------------------------------------------------------
(* Serve *)

TermArrives ==
    /\ ~term
    /\ term' = TRUE
    /\ UNCHANGED <<vars, main, listening, served>>

\* Mutant of ListenerCloses: leaves clients that are served undisturbed.
ListenerCloses_WhenIdle ==
    /\ term /\ listening
    /\ served = {}
    /\ listening' = FALSE
    /\ UNCHANGED <<vars, main, term, served>>

\* The goroutine that waits for the context.
ListenerCloses ==
    /\ term /\ listening
    /\ listening' = FALSE
    /\ UNCHANGED <<vars, main, term, served>>

\* A client may still get in between the TERM and the close.
ClientAccepted(h) ==
    /\ main = "accepting" /\ listening
    /\ h \notin served
    /\ served' = served \union {h}
    /\ UNCHANGED <<vars, main, term, listening>>

\* Accept fails: the listener is closed, or is broken; Serve waits for its
\* goroutines either way.
AcceptFails ==
    /\ main = "accepting"
    /\ main' = "waiting"
    /\ UNCHANGED <<vars, term, listening, served>>

-----------------------------------------------------------------------------
(* serveConn: one request after the other, with no deadline on the read *)

ClientAsks(h) ==
    /\ h \in served
    /\ \/ \E cookie, host \in BOOLEAN : Connect(h, cookie, host)
       \/ Disconnect(h)
       \/ AskStatus(h)
    /\ UNCHANGED process

\* The client hung up, its answer could not be written, or it was never
\* authorized.
ClientLeaves(h) ==
    /\ h \in served
    /\ pc[h] = "idle"
    /\ served' = served \ {h}
    /\ UNCHANGED <<vars, main, term, listening>>

-----------------------------------------------------------------------------
(* serve after Serve *)

\* Mutant of ServeReturns: does not wait.
ServeReturns_AtOnce ==
    /\ main = "waiting"
    /\ Shutdown(Main)
    /\ main' = "stopping"
    /\ UNCHANGED <<term, listening, served>>

\* wg.Wait is over, and Shutdown is called.
ServeReturns ==
    /\ main = "waiting"
    /\ served = {}
    /\ Shutdown(Main)
    /\ main' = "stopping"
    /\ UNCHANGED <<term, listening, served>>

\* Mutant of Exits: does not wait for Shutdown.
Exits_MidShutdown ==
    /\ main = "stopping"
    /\ main' = "exited"
    /\ UNCHANGED <<vars, term, listening, served>>

\* Shutdown has returned, whatever it returned.  The process ends, and every
\* goroutine with it.
Exits ==
    /\ main = "stopping"
    /\ pc[Main] = "idle"
    /\ main' = "exited"
    /\ UNCHANGED <<vars, term, listening, served>>

-----------------------------------------------------------------------------

\* What goroutines do by themselves ...
Continue(h) == Running /\ (AttemptReturns(h) \/ Proceed(h)) /\ UNCHANGED process
Watching(c) == Running /\ Watch(c) /\ UNCHANGED process
Serving     == ListenerCloses \/ (~listening /\ AcceptFails) \/ ServeReturns \/ Exits

\* ... and what comes from outside.
LinkDrops(c, how) == Running /\ LinkStops(c, how) /\ UNCHANGED process
Outside == \/ TermArrives \/ AcceptFails
           \/ \E h \in Clients : ClientAccepted(h) \/ ClientAsks(h) \/ ClientLeaves(h)

ProcessNext ==
    \/ Running /\ (Serving \/ Outside)
    \/ \E h \in Callers : Continue(h)
    \/ \E c \in Conns : Watching(c) \/ \E how \in {"lost", "ended"} : LinkDrops(c, how)

\* Goroutines are scheduled and the calls they make return.
ProcessFairness ==
    /\ WF_allVars(Running /\ Serving)
    /\ \A h \in Callers : WF_allVars(Running /\ AttemptReturns(h) /\ UNCHANGED process)
                          /\ WF_allVars(Running /\ Proceed(h) /\ UNCHANGED process)
    /\ \A c \in Conns : WF_allVars(Watching(c))

\* Clients that hang up after some answer, as svpn and the GUI do after every one
\* (internal/client/client.go:45-48).
ClientsHangUp == \A h \in Clients : SF_allVars(Running /\ ClientLeaves(h))

ProcessSpec     == ProcessInit /\ [][ProcessNext]_allVars
ProcessFairSpec == ProcessSpec /\ ProcessFairness

-----------------------------------------------------------------------------
(* What has to hold *)

\* No request is being handled, and none will be, when Shutdown looks for
\* something to close: "It returns once every in-flight connection has
\* finished" (server.go:68-69).
HandlersAreOver ==
    main \in {"stopping", "exited"} => \A h \in Clients : pc[h] = "idle" /\ h \notin served

\* When the process exits no connection is published or in anyone's hands:
\* whatever it had was closed, or is what a watcher is closing (serve.go:94-98).
ExitOwnsNothing ==
    main = "exited" =>
        /\ connection = None
        /\ \A h \in Callers : held[h] = None
        /\ \A c \in Conns : conn[c] # "closed" => watcher[c] = "closing"

\* SIGTERM "has to reach the teardown" (svpnd.go:94-95).
TermReachesTeardown == term ~> main \in {"stopping", "exited"}

\* After a TERM the process exits.
TermEndsProcess == term ~> main = "exited"
=============================================================================
