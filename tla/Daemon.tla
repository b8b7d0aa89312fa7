------------------------------- MODULE Daemon -------------------------------
(***************************************************************************)
(* internal/service/daemon/daemon.go: the privileged service.              *)
(*                                                                         *)
(* A caller is the goroutine that runs one request (ipc/server.go calls    *)
(* Handle from one goroutine per client) or main calling Shutdown.  Every  *)
(* critical section of Daemon.mu is one action; the calls the code makes   *)
(* with the mutex released -- options.Connect, Connection.Close and a      *)
(* watcher's select -- are control states between two actions, so          *)
(* everything else interleaves with them.                                  *)
(*                                                                         *)
(* Conns are the connection objects options.Connect can return.  One is    *)
(* handed out again only when nothing refers to it, as the garbage         *)
(* collector guarantees, so their number bounds how many are alive at      *)
(* once and not how many a run opens.                                      *)
(***************************************************************************)
CONSTANTS Callers,         \* the goroutines that call into the daemon
          Conns,           \* the connection objects
          None,            \* Go's nil: no caller, no connection
          DefaultGateway   \* options.DefaultGateway.Host is set

ASSUME NoneIsNothing == None \notin Callers /\ None \notin Conns
ASSUME DefaultGatewayIsBoolean == DefaultGateway \in BOOLEAN

VARIABLES
    \* the fields mu guards
    state, lastError, connection, watching, cancelConnect,
    \* the goroutines inside Handle or Shutdown: where they are, the connection
    \* they have in hand, the error they are about to return
    pc, held, err,
    \* the callers whose connectCtx is cancelled
    cancelled,
    \* the connections and the goroutines that watch them
    conn, watcher

fields  == <<state, lastError, connection, watching, cancelConnect>>
callers == <<pc, held, err, cancelled>>
vars    == <<fields, callers, conn, watcher>>

States == {"disconnected", "connecting", "connected", "disconnecting", "error"}

\* The errors that can reach a caller or lastError; "nil" is Go's nil and the
\* empty lastError.
Errors == {"nil", "refused", "not connected", "aborted",
           "connect failed", "link lost", "close failed"}

\* "connecting" is inside options.Connect, "undoing" and "closing" inside
\* Connection.Close; "returned", "undone" and "closed" have returned from the
\* call and wait for mu; "answering" is about to take the status snapshot.
PCs == {"idle", "connecting", "returned", "undoing", "undone",
        "closing", "closed", "answering"}

\* "lost" and "ended" have closed Done, with and without an Err.  "closing" is
\* a connection whose Close has been decided on and has not returned.
ConnStates    == {"closed", "up", "lost", "ended", "closing"}
WatcherStates == {"none", "waiting", "cancelled", "woken", "closing"}

TypeOK ==
    /\ state \in States
    /\ lastError \in Errors
    /\ connection \in Conns \union {None}
    /\ watching \in Conns \union {None}
    /\ cancelConnect \in Callers \union {None}
    /\ pc \in [Callers -> PCs]
    /\ held \in [Callers -> Conns \union {None}]
    /\ err \in [Callers -> Errors]
    /\ cancelled \subseteq Callers
    /\ conn \in [Conns -> ConnStates]
    /\ watcher \in [Conns -> WatcherStates]

Init ==
    /\ state = "disconnected"
    /\ lastError = "nil"
    /\ connection = None
    /\ watching = None
    /\ cancelConnect = None
    /\ pc = [h \in Callers |-> "idle"]
    /\ held = [h \in Callers |-> None]
    /\ err = [h \in Callers |-> "nil"]
    /\ cancelled = {}
    /\ conn = [c \in Conns |-> "closed"]
    /\ watcher = [c \in Conns |-> "none"]

\* Nothing refers to the connection object any more.
Unreferenced(c) ==
    /\ conn[c] = "closed"
    /\ watcher[c] = "none"
    /\ \A h \in Callers : held[h] # c

\* The connection's Done channel is closed.  Close closes it at some point
\* before it returns.
DoneClosed(c) == conn[c] \in {"lost", "ended", "closing", "closed"}

\* The caller goes on to Handle's second call of the lock, for the snapshot,
\* with the error it is going to return.
AnswerWith(h, e) == /\ pc' = [pc EXCEPT ![h] = "answering"]
                    /\ err' = [err EXCEPT ![h] = e]

-----------------------------------------------------------------------------
(* connect *)

\* Mutant of Refused: "disconnecting" is taken for a state to connect from.
Refused_NotDisconnecting(cookie, host) ==
    \/ ~cookie
    \/ state \in {"connecting", "connected"}
    \/ ~host /\ ~DefaultGateway

\* What a connect request may be refused for: no cookie; an attempt, a
\* connection or a teardown in progress; no gateway to connect to.
Refused(cookie, host) ==
    \/ ~cookie
    \/ state \in {"connecting", "connected", "disconnecting"}
    \/ ~host /\ ~DefaultGateway

\* connect up to the call of options.Connect.
Connect(h, cookie, host) ==
    /\ pc[h] = "idle"
    /\ IF Refused(cookie, host)
       THEN AnswerWith(h, "refused") /\ UNCHANGED <<fields, cancelled>>
       ELSE /\ state' = "connecting"
            /\ lastError' = "nil"
            /\ cancelConnect' = h
            /\ cancelled' = cancelled \ {h}
            /\ pc' = [pc EXCEPT ![h] = "connecting"]
            /\ UNCHANGED <<connection, watching, err>>
    /\ UNCHANGED <<held, conn, watcher>>

\* Mutant of ConnectSucceeds: gives cancelConnect up in a critical section of its
\* own, before the one that publishes the result.
ConnectSucceeds_TwoSections(h, c) ==
    /\ pc[h] = "connecting"
    /\ Unreferenced(c)
    /\ conn' = [conn EXCEPT ![c] = "up"]
    /\ held' = [held EXCEPT ![h] = c]
    /\ pc' = [pc EXCEPT ![h] = "returned"]
    /\ cancelConnect' = None
    /\ UNCHANGED <<state, lastError, connection, watching, err, cancelled, watcher>>

\* options.Connect returns: with a live connection, cancelled or not, or with
\* an error.  Nothing is published yet and mu is not held.
ConnectSucceeds(h, c) ==
    /\ pc[h] = "connecting"
    /\ Unreferenced(c)
    /\ conn' = [conn EXCEPT ![c] = "up"]
    /\ held' = [held EXCEPT ![h] = c]
    /\ pc' = [pc EXCEPT ![h] = "returned"]
    /\ UNCHANGED <<fields, err, cancelled, watcher>>

ConnectFails(h) ==
    /\ pc[h] = "connecting"
    /\ pc' = [pc EXCEPT ![h] = "returned"]
    /\ err' = [err EXCEPT ![h] = "connect failed"]
    /\ UNCHANGED <<fields, held, cancelled, conn, watcher>>

\* The critical section after options.Connect, in its three outcomes.
Returned(h) ==
    /\ pc[h] = "returned"
    /\ cancelConnect' = None

\* Mutant of Aborted: the state is already "disconnected" while the attempt
\* is still being undone.
Aborted_Early(h) ==
    /\ Returned(h)
    /\ state = "disconnecting"
    /\ state' = "disconnected"
    /\ lastError' = "nil"
    /\ IF held[h] = None
       THEN pc' = [pc EXCEPT ![h] = "undone"] /\ UNCHANGED conn
       ELSE /\ pc' = [pc EXCEPT ![h] = "undoing"]
            /\ conn' = [conn EXCEPT ![held[h]] = "closing"]
    /\ err' = [err EXCEPT ![h] = "nil"]
    /\ UNCHANGED <<connection, watching, held, cancelled, watcher>>

\* Mutant of Aborted: believes the cancellation stopped the attempt in time.
Aborted_WithoutClose(h) ==
    /\ Returned(h)
    /\ state = "disconnecting"
    /\ lastError' = "nil"
    /\ pc' = [pc EXCEPT ![h] = "undone"]
    /\ held' = [held EXCEPT ![h] = None]
    /\ err' = [err EXCEPT ![h] = "nil"]
    /\ UNCHANGED <<state, connection, watching, cancelled, conn, watcher>>

\* A disconnect came first: whatever was built is undone before the state
\* leaves "disconnecting".
Aborted(h) ==
    /\ Returned(h)
    /\ state = "disconnecting"
    /\ lastError' = "nil"
    /\ IF held[h] = None
       THEN pc' = [pc EXCEPT ![h] = "undone"] /\ UNCHANGED conn
       ELSE /\ pc' = [pc EXCEPT ![h] = "undoing"]
            /\ conn' = [conn EXCEPT ![held[h]] = "closing"]
    /\ err' = [err EXCEPT ![h] = "nil"]
    /\ UNCHANGED <<state, connection, watching, held, cancelled, watcher>>

Failed(h) ==
    /\ Returned(h)
    /\ state # "disconnecting"
    /\ held[h] = None
    /\ state' = "error"
    /\ lastError' = err[h]
    /\ AnswerWith(h, err[h])
    /\ UNCHANGED <<connection, watching, held, cancelled, conn, watcher>>

\* Mutant of Publish: does not look at what happened during options.Connect.
Publish_Unchecked(h) ==
    /\ Returned(h)
    /\ held[h] # None
    /\ connection' = held[h]
    /\ state' = "connected"
    /\ watching' = held[h]
    /\ watcher' = [watcher EXCEPT ![held[h]] = "waiting"]
    /\ held' = [held EXCEPT ![h] = None]
    /\ AnswerWith(h, "nil")
    /\ UNCHANGED <<lastError, cancelled, conn>>

\* Publishes the connection and starts its watcher.
Publish(h) ==
    /\ Returned(h)
    /\ state # "disconnecting"
    /\ held[h] # None
    /\ connection' = held[h]
    /\ state' = "connected"
    /\ watching' = held[h]
    /\ watcher' = [watcher EXCEPT ![held[h]] = "waiting"]
    /\ held' = [held EXCEPT ![h] = None]
    /\ AnswerWith(h, "nil")
    /\ UNCHANGED <<lastError, cancelled, conn>>

\* Mutant of Settle: records the error and forgets the state.
Settle_KeepsState(h) ==
    /\ pc[h] = "undone"
    /\ lastError' = err[h]
    /\ AnswerWith(h, "aborted")
    /\ UNCHANGED <<state, connection, watching, cancelConnect, held, cancelled,
                   conn, watcher>>

\* settle, which ends an aborted attempt.
Settle(h) ==
    /\ pc[h] = "undone"
    /\ state' = "disconnected"
    /\ lastError' = err[h]
    /\ AnswerWith(h, "aborted")
    /\ UNCHANGED <<connection, watching, cancelConnect, held, cancelled,
                   conn, watcher>>

-----------------------------------------------------------------------------
(* disconnect and Shutdown *)

\* The three ways disconnect can go; idleErr is what is returned when there is
\* nothing to disconnect.
CancelAttempt(h) ==
    /\ cancelConnect # None
    /\ cancelled' = cancelled \union {cancelConnect}
    /\ state' = "disconnecting"
    /\ AnswerWith(h, "nil")
    /\ UNCHANGED <<lastError, connection, watching, cancelConnect, held,
                   conn, watcher>>

NothingToClose(h, idleErr) ==
    /\ cancelConnect = None
    /\ connection = None
    /\ AnswerWith(h, IF state = "disconnected" THEN idleErr ELSE "nil")
    /\ UNCHANGED <<fields, held, cancelled, conn, watcher>>

StopWatching ==
    /\ watching' = None
    /\ watcher' = IF watching # None /\ watcher[watching] = "waiting"
                  THEN [watcher EXCEPT ![watching] = "cancelled"]
                  ELSE watcher

CloseConnection(h) ==
    /\ cancelConnect = None
    /\ connection # None
    /\ StopWatching
    /\ connection' = None
    /\ state' = "disconnecting"
    /\ held' = [held EXCEPT ![h] = connection]
    /\ conn' = [conn EXCEPT ![connection] = "closing"]
    /\ pc' = [pc EXCEPT ![h] = "closing"]
    /\ err' = [err EXCEPT ![h] = "nil"]
    /\ UNCHANGED <<lastError, cancelConnect, cancelled>>

DisconnectBy(h, idleErr) ==
    /\ pc[h] = "idle"
    /\ \/ CancelAttempt(h)
       \/ NothingToClose(h, idleErr)
       \/ CloseConnection(h)

Disconnect(h) == DisconnectBy(h, "not connected")

\* Shutdown takes ErrNotConnected for success.
Shutdown(h) == DisconnectBy(h, "nil")

\* Connection.Close returns in the caller, an aborted connect's or a
\* disconnect's, cleanly or with what could not be undone.
CloseReturns(h, e) ==
    /\ pc[h] \in {"undoing", "closing"}
    /\ conn' = [conn EXCEPT ![held[h]] = "closed"]
    /\ held' = [held EXCEPT ![h] = None]
    /\ err' = [err EXCEPT ![h] = e]
    /\ pc' = [pc EXCEPT ![h] = IF @ = "undoing" THEN "undone" ELSE "closed"]
    /\ UNCHANGED <<fields, cancelled, watcher>>

\* The last critical section of disconnect.
Disconnected(h) ==
    /\ pc[h] = "closed"
    /\ state' = "disconnected"
    /\ lastError' = IF err[h] = "nil" THEN lastError ELSE err[h]
    /\ AnswerWith(h, err[h])
    /\ UNCHANGED <<connection, watching, cancelConnect, held, cancelled,
                   conn, watcher>>

-----------------------------------------------------------------------------
(* status, and the end of every command *)

\* The snapshot status() copies under the lock.
Status == [state |-> state, details |-> connection, lastError |-> lastError]

\* A status command has nothing to do before its snapshot.
AskStatus(h) ==
    /\ pc[h] = "idle"
    /\ AnswerWith(h, "nil")
    /\ UNCHANGED <<fields, held, cancelled, conn, watcher>>

\* Handle takes the snapshot and returns; connect's deferred cancelConnect has
\* run by then.
Answer(h) ==
    /\ pc[h] = "answering"
    /\ pc' = [pc EXCEPT ![h] = "idle"]
    /\ err' = [err EXCEPT ![h] = "nil"]
    /\ cancelled' = cancelled \ {h}
    /\ UNCHANGED <<fields, held, conn, watcher>>

-----------------------------------------------------------------------------
(* the link and its watcher *)

\* A data-plane failure closes Done with the cause; a Connection may also end
\* without one, which is the case the watcher's else branch is for.
LinkStops(c, how) ==
    /\ conn[c] = "up"
    /\ conn' = [conn EXCEPT ![c] = how]
    /\ UNCHANGED <<fields, callers, watcher>>

\* The watcher's select: the cancelled context ends it, a closed Done wakes it,
\* and with both ready Go picks either.
WatchCancelled(c) ==
    /\ watcher[c] = "cancelled"
    /\ watcher' = [watcher EXCEPT ![c] = "none"]
    /\ UNCHANGED <<fields, callers, conn>>

WatchWakes(c) ==
    /\ watcher[c] \in {"waiting", "cancelled"}
    /\ DoneClosed(c)
    /\ watcher' = [watcher EXCEPT ![c] = "woken"]
    /\ UNCHANGED <<fields, callers, conn>>

\* Mutant of WatchStale: takes every connection that ended for the current one,
\* and forgets to close it.
WatchStale_Any(c) ==
    /\ watcher[c] = "woken"
    /\ watcher' = [watcher EXCEPT ![c] = "none"]
    /\ UNCHANGED <<fields, callers, conn>>

\* The watcher's critical section: a connection that is not the current one is
\* none of its business ...
WatchStale(c) ==
    /\ watcher[c] = "woken"
    /\ connection # c
    /\ watcher' = [watcher EXCEPT ![c] = "none"]
    /\ UNCHANGED <<fields, callers, conn>>

\* Mutant of WatchReports: leaves the connection published while it closes.
WatchReports_KeepsConnection(c) ==
    /\ watcher[c] = "woken"
    /\ connection = c
    /\ IF conn[c] = "lost"
       THEN state' = "error" /\ lastError' = "link lost"
       ELSE state' = "disconnected" /\ UNCHANGED lastError
    /\ conn' = [conn EXCEPT ![c] = "closing"]
    /\ watcher' = [watcher EXCEPT ![c] = "closing"]
    /\ UNCHANGED <<connection, watching, cancelConnect, callers>>

\* ... and the current one is reported as gone, then closed with mu released.
WatchReports(c) ==
    /\ watcher[c] = "woken"
    /\ connection = c
    /\ IF conn[c] = "lost"
       THEN state' = "error" /\ lastError' = "link lost"
       ELSE state' = "disconnected" /\ UNCHANGED lastError
    /\ connection' = None
    /\ conn' = [conn EXCEPT ![c] = "closing"]
    /\ watcher' = [watcher EXCEPT ![c] = "closing"]
    /\ UNCHANGED <<watching, cancelConnect, callers>>

WatchCloseReturns(c) ==
    /\ watcher[c] = "closing"
    /\ conn' = [conn EXCEPT ![c] = "closed"]
    /\ watcher' = [watcher EXCEPT ![c] = "none"]
    /\ UNCHANGED <<fields, callers>>

-----------------------------------------------------------------------------

\* What a client, or main, can ask for.
Request(h) == \/ \E cookie, host \in BOOLEAN : Connect(h, cookie, host)
              \/ Disconnect(h)
              \/ Shutdown(h)
              \/ AskStatus(h)

\* options.Connect returns: dialling is bounded by the request's deadline and
\* every read of the negotiation by its own.
AttemptReturns(h) == ConnectFails(h) \/ \E c \in Conns : ConnectSucceeds(h, c)

\* What the caller's goroutine does on its own once its request is accepted.
Proceed(h) == \/ Aborted(h) \/ Failed(h) \/ Publish(h)
              \/ \E e \in {"nil", "close failed"} : CloseReturns(h, e)
              \/ Settle(h) \/ Disconnected(h) \/ Answer(h)

Watch(c) == \/ WatchCancelled(c) \/ WatchWakes(c)
            \/ WatchStale(c) \/ WatchReports(c) \/ WatchCloseReturns(c)

Next == \/ \E h \in Callers : Request(h) \/ AttemptReturns(h) \/ Proceed(h)
        \/ \E c \in Conns : Watch(c) \/ \E how \in {"lost", "ended"} : LinkStops(c, how)

\* Goroutines are scheduled and the calls they make return.  Clients need not
\* ask for anything, and links need not drop.
Fairness == /\ \A h \in Callers : WF_vars(AttemptReturns(h)) /\ WF_vars(Proceed(h))
            /\ \A c \in Conns : WF_vars(Watch(c))

Spec     == Init /\ [][Next]_vars
FairSpec == Spec /\ Fairness

-----------------------------------------------------------------------------
(* What has to hold *)

\* The goroutines between connect's first critical section and its last.
Attempting(h) == pc[h] \in {"connecting", "returned", "undoing", "undone"}

\* The callers between the critical section that starts an attempt or a
\* teardown and the one that ends it.
Working(h) == Attempting(h) \/ pc[h] \in {"closing", "closed"}

\* One caller at a time brings the VPN up or takes it down: two connects never
\* run at once, not even while the first is being undone after a disconnect,
\* and none runs while a disconnect closes the previous connection, which
\* "would race the teardown for the same interface and routes" (the guard at
\* daemon.go:126-135, settle at 220, disconnect's last section at 311-317).
OneCallerWorks ==
    \A g, h \in Callers : Working(g) /\ Working(h) => g = h

\* A disconnect always finds what there is to stop: as long as an attempt is
\* inside options.Connect, or has returned from it and waits for the lock,
\* cancelConnect is its own, and afterwards the connection is published or
\* already on its way down (the comment at daemon.go:171-174).
NothingSlipsThrough ==
    /\ \A h \in Callers : pc[h] \in {"connecting", "returned"} <=> cancelConnect = h
    /\ cancelConnect # None => /\ state \in {"connecting", "disconnecting"}
                               /\ connection = None
    /\ cancelConnect \in cancelled <=> cancelConnect # None /\ state = "disconnecting"

\* Who is responsible for closing connection c: the daemon's field, a caller
\* that has it in hand, its watcher.
Owners(c) == {o \in {"daemon"} : connection = c}
             \union {h \in Callers : held[h] = c}
             \union {o \in {"watcher"} : watcher[c] = "closing"}

\* A connection that is not closed yet has exactly one goroutine, or the
\* daemon itself, that will close it: none leaks with its routes in place,
\* none is closed twice (daemon.go:215-219, 249-252, 290-309).
OneOwner ==
    \A c \in Conns : /\ conn[c] # "closed" => Owners(c) # {}
                     /\ \A o, p \in Owners(c) : o = p
                     /\ Owners(c) # {} => conn[c] # "closed"

\* What the daemon reports as its connection is one it is not tearing down,
\* and a watcher that can still be stopped looks after it, so a drop is never
\* missed (daemon.go:70-72 and 198-205).
PublishedIsWatched ==
    connection # None =>
        /\ conn[connection] \in {"up", "lost", "ended"}
        /\ watcher[connection] \in {"waiting", "woken"}
        /\ watching = connection

\* A snapshot is coherent at every instant the lock is free: details exactly
\* when connected, an error exactly when there is one to report, and none left
\* over from an earlier connection while connecting or connected.
StatusCoherent ==
    /\ Status.details # None <=> Status.state = "connected"
    /\ Status.state = "error" => Status.lastError # "nil"
    /\ Status.state \in {"connecting", "connected"} => Status.lastError = "nil"

\* An attempt that a disconnect cancelled is never published, even when it ran
\* to completion before it noticed (daemon.go:210-213 and 277-280).
AbortedNeverPublished ==
    [][connection' \notin {connection, None}
          => \E h \in Callers \ cancelled : pc[h] = "returned" /\ held[h] = connection']_vars

\* A connection whose link dropped is torn down without anyone asking
\* (daemon.go:266-271).
LostIsTornDown == \A c \in Conns : conn[c] \in {"lost", "ended"} ~> conn[c] = "closed"

\* What daemon.go:131-132 says a connect must not do, for every teardown of a
\* previous connection and not only for one that a caller runs.
NoConnectDuringTeardown ==
    \A h \in Callers, c \in Conns :
        pc[h] = "connecting" => conn[c] # "closing"

-----------------------------------------------------------------------------
(* The daemon implements the abstract service. *)

absPhase == CASE connection # None -> "up"
              [] state = "connecting" -> "starting"
              [] state = "disconnecting" -> "stopping"
              [] OTHER -> "down"

absAttempt == IF \E h \in Callers : Attempting(h)
              THEN CHOOSE h \in Callers : Attempting(h)
              ELSE None

Service == INSTANCE VpnService
               WITH phase <- absPhase, attempt <- absAttempt,
                    busy <- {h \in Callers : pc[h] # "idle"}

\* Every step of the daemon is a step of the abstract service or invisible to
\* its clients.
ImplementsService == Service!SafeSpec

\* Starting and stopping end, and every caller is answered.
ServiceIsLive == Service!StartEnds /\ Service!StopEnds /\ Service!Answered
=============================================================================
