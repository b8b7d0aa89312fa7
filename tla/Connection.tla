----------------------------- MODULE Connection -----------------------------
(***************************************************************************)
(* internal/service/vpn/connection.go: one VPN connection, from Connect to *)
(* Close.                                                                  *)
(*                                                                         *)
(* Connect builds a link, a device and a network configuration, and undoes *)
(* what it built when a step fails.  The two pumps then run until Close,   *)
(* or until one of them fails.  Both block: rx in a read of the link, tx   *)
(* in a read of the device or a write to the link; what releases a blocked *)
(* call is an environment action (a packet, a failure) or the teardown,    *)
(* never the cancelled context by itself.                                  *)
(***************************************************************************)
EXTENDS Naturals

CONSTANT Closers   \* the goroutines that call Close

VARIABLES
    stage,              \* where Connect is
    net,                \* what Apply and Revert have done
    device, link,       \* the resources
    deadline,           \* the link's read deadline
    cancelled,          \* runCtx is cancelled
    rx, rxCause,        \* pumpTunnelToDevice, and the error it has in hand
    tx, txCause,        \* pumpDeviceToTunnel
    wg,                 \* the pumps that Close has still to wait for
    done, failure,      \* the Done channel is closed; what Err reports
    step,               \* where teardown is
    once, closer        \* closeOnce, and the goroutines in Close

res   == <<net, device, link>>
pumps == <<rx, rxCause, tx, txCause, wg>>
ends  == <<done, failure>>
vars  == <<stage, res, deadline, cancelled, pumps, ends, step, once, closer>>

Stages == {"allocating", "dialing", "negotiating", "creating", "naming",
           "applying", "connected", "undoing", "failed"}
RxPCs  == {"off", "check", "arm", "read", "write", "control", "failed", "stopping", "stopped"}
TxPCs  == {"off", "check", "read", "write", "failed", "stopping", "stopped"}

\* "closed" is an error that Close brought about by taking a resource away from
\* a call in progress, "unarmed" the same for SetReadDeadline.
Causes == {"nil", "broken", "closed", "unarmed"}

TypeOK ==
    /\ stage \in Stages
    /\ net \in {"untouched", "partial", "applied", "reverted"}
    /\ device \in {"none", "open", "closed"} /\ link \in {"none", "open", "closed"}
    /\ deadline \in {"future", "now"}
    /\ cancelled \in BOOLEAN /\ done \in BOOLEAN
    /\ rx \in RxPCs /\ tx \in TxPCs
    /\ wg \in 0..2
    /\ rxCause \in Causes /\ txCause \in Causes /\ failure \in Causes
    /\ step \in {"none", "revert", "device", "link", "mark", "over"}
    /\ once \in {"free", "taken", "done"}
    /\ closer \in [Closers -> {"idle", "cancel", "wake", "teardown", "join", "returned"}]

Init ==
    /\ stage = "allocating"
    /\ net = "untouched" /\ device = "none" /\ link = "none"
    /\ deadline = "future"
    /\ cancelled = FALSE
    /\ rx = "off" /\ rxCause = "nil" /\ tx = "off" /\ txCause = "nil" /\ wg = 0
    /\ done = FALSE /\ failure = "nil"
    /\ step = "none"
    /\ once = "free" /\ closer = [k \in Closers |-> "idle"]

-----------------------------------------------------------------------------
(* Connect *)

\* Nothing has been built yet, so a failure has nothing to undo.
AllocationFails ==
    /\ stage \in {"allocating", "dialing"}
    /\ stage' = "failed"
    /\ UNCHANGED <<res, deadline, cancelled, pumps, ends, step, once, closer>>

\* The allocation; the configuration is fetched after it, and a failure to read
\* that is only logged.
Allocated ==
    /\ stage = "allocating"
    /\ stage' = "dialing"
    /\ UNCHANGED <<res, deadline, cancelled, pumps, ends, step, once, closer>>

Dialed ==
    /\ stage = "dialing"
    /\ link' = "open"
    /\ stage' = "negotiating"
    /\ UNCHANGED <<net, device, deadline, cancelled, pumps, ends, step, once, closer>>

Negotiated ==
    /\ stage = "negotiating"
    /\ stage' = "creating"
    /\ UNCHANGED <<res, deadline, cancelled, pumps, ends, step, once, closer>>

DeviceCreated ==
    /\ stage = "creating"
    /\ device' = "open"
    /\ stage' = "naming"
    /\ UNCHANGED <<net, link, deadline, cancelled, pumps, ends, step, once, closer>>

Named ==
    /\ stage = "naming"
    /\ stage' = "applying"
    /\ UNCHANGED <<res, deadline, cancelled, pumps, ends, step, once, closer>>

\* Apply has succeeded: both pumps start, and Connect returns.
Applied ==
    /\ stage = "applying"
    /\ net' = "applied"
    /\ stage' = "connected"
    /\ rx' = "check" /\ tx' = "check" /\ wg' = 2
    /\ UNCHANGED <<device, link, deadline, cancelled, rxCause, txCause, ends, step,
                   once, closer>>

\* Mutant of StageFails: returns the error of the interface's name without
\* undoing, as a return that does not assign the named result would.
StageFails_NotDeferred ==
    /\ stage \in {"negotiating", "creating", "naming", "applying"}
    /\ net' = IF stage = "applying" THEN "partial" ELSE net
    /\ IF stage = "naming"
       THEN stage' = "failed" /\ UNCHANGED step
       ELSE stage' = "undoing" /\ step' = "revert"
    /\ UNCHANGED <<device, link, deadline, cancelled, pumps, ends, once, closer>>

\* A later step fails: the deferred teardown runs before Connect returns.
StageFails ==
    /\ stage \in {"negotiating", "creating", "naming", "applying"}
    /\ net' = IF stage = "applying" THEN "partial" ELSE net
    /\ stage' = "undoing"
    /\ step' = "revert"
    /\ UNCHANGED <<device, link, deadline, cancelled, pumps, ends, once, closer>>

Undone ==
    /\ stage = "undoing" /\ step = "over"
    /\ stage' = "failed"
    /\ UNCHANGED <<res, deadline, cancelled, pumps, ends, step, once, closer>>

-----------------------------------------------------------------------------
(* teardown, run by Connect or by Close: every step runs whatever the ones   *)
(* before it returned.                                                       *)

\* doneOnce: the first to mark the connection decides what Err reports.
MarkDone(cause) ==
    /\ done' = TRUE
    /\ failure' = IF done THEN failure ELSE cause

\* Revert, whatever it returns; what it may leave behind is NetConfig's matter.
RevertNet ==
    /\ step = "revert"
    /\ net' = IF net = "untouched" THEN net ELSE "reverted"
    /\ step' = "device"
    /\ UNCHANGED <<stage, device, link, deadline, cancelled, pumps, ends, once, closer>>

CloseDevice ==
    /\ step = "device"
    /\ device' = IF device = "none" THEN device ELSE "closed"
    /\ step' = "link"
    /\ UNCHANGED <<stage, net, link, deadline, cancelled, pumps, ends, once, closer>>

CloseLink ==
    /\ step = "link"
    /\ link' = "closed"
    /\ step' = "mark"
    /\ UNCHANGED <<stage, net, device, deadline, cancelled, pumps, ends, once, closer>>

TornDown ==
    /\ step = "mark"
    /\ MarkDone("nil")
    /\ step' = "over"
    /\ UNCHANGED <<stage, res, deadline, cancelled, pumps, once, closer>>

Teardown == \/ RevertNet
            \/ CloseDevice \/ CloseLink \/ TornDown

-----------------------------------------------------------------------------
(* Close *)

\* closeOnce lets the first caller in.
CloseCalled(k) ==
    /\ stage = "connected"
    /\ closer[k] = "idle"
    /\ once = "free"
    /\ once' = "taken"
    /\ closer' = [closer EXCEPT ![k] = "cancel"]
    /\ UNCHANGED <<stage, res, deadline, cancelled, pumps, ends, step>>

\* Mutant of CloseAgain: a second Close returns at once.
CloseAgain_AtOnce(k) ==
    /\ stage = "connected"
    /\ closer[k] = "idle"
    /\ once \in {"taken", "done"}
    /\ closer' = [closer EXCEPT ![k] = "returned"]
    /\ UNCHANGED <<stage, res, deadline, cancelled, pumps, ends, step, once>>

\* Any other caller waits in Do until the first has finished, and does nothing.
CloseAgain(k) ==
    /\ stage = "connected"
    /\ closer[k] = "idle"
    /\ once = "done"
    /\ closer' = [closer EXCEPT ![k] = "returned"]
    /\ UNCHANGED <<stage, res, deadline, cancelled, pumps, ends, step, once>>

CloseCancels(k) ==
    /\ closer[k] = "cancel"
    /\ cancelled' = TRUE
    /\ closer' = [closer EXCEPT ![k] = "wake"]
    /\ UNCHANGED <<stage, res, deadline, pumps, ends, step, once>>

\* Mutant of CloseWakes: waits for the pumps before it releases them.
CloseWakes_AfterWait(k) ==
    /\ closer[k] = "wake"
    /\ wg = 0
    /\ deadline' = "now"
    /\ closer' = [closer EXCEPT ![k] = "teardown"]
    /\ step' = "revert"
    /\ UNCHANGED <<stage, res, cancelled, pumps, ends, once>>

\* SetReadDeadline(now), which rx may set back before it reads again.
CloseWakes(k) ==
    /\ closer[k] = "wake"
    /\ deadline' = "now"
    /\ closer' = [closer EXCEPT ![k] = "teardown"]
    /\ step' = "revert"
    /\ UNCHANGED <<stage, res, cancelled, pumps, ends, once>>

CloseJoins(k) ==
    /\ closer[k] = "teardown"
    /\ step = "over"
    /\ closer' = [closer EXCEPT ![k] = "join"]
    /\ UNCHANGED <<stage, res, deadline, cancelled, pumps, ends, step, once>>

\* wg.Wait
CloseReturns(k) ==
    /\ closer[k] = "join"
    /\ wg = 0
    /\ once' = "done"
    /\ closer' = [closer EXCEPT ![k] = "returned"]
    /\ UNCHANGED <<stage, res, deadline, cancelled, pumps, ends, step>>

-----------------------------------------------------------------------------
(* pumpTunnelToDevice *)

Rx(pc, cause) == /\ rx' = pc /\ rxCause' = cause
                 /\ wg' = IF pc = "stopped" THEN wg - 1 ELSE wg   \* defer wg.Done()
                 /\ UNCHANGED <<stage, res, cancelled, tx, txCause, step, once, closer>>

RxChecks ==
    /\ rx = "check"
    /\ Rx(IF cancelled THEN "stopped" ELSE "arm", "nil")
    /\ UNCHANGED <<deadline, ends>>

\* SetReadDeadline fails on a closed link, and the failure is reported without
\* another look at the context.
RxArms ==
    /\ rx = "arm"
    /\ IF link = "closed"
       THEN Rx("stopping", "unarmed") /\ UNCHANGED <<deadline, ends>>
       ELSE Rx("read", "nil") /\ deadline' = "future" /\ UNCHANGED ends

\* A packet arrives: data for the device, a control packet for the session, or
\* something that does not decode.  One that the tunnel's buffer already holds comes
\* out whatever Close has done to the link (forti/tunnel.go:96-100).
RxReceives(pc) ==
    /\ rx = "read"
    /\ Rx(pc, "nil")
    /\ UNCHANGED <<deadline, ends>>

\* A blocked read ends because Close moved the deadline or closed the link.
RxReadReleased ==
    /\ rx = "read"
    /\ link = "closed" \/ deadline = "now"
    /\ Rx("failed", "closed")
    /\ UNCHANGED <<deadline, ends>>

\* The link breaks, the gateway is silent for readTimeout, or it ends the link.
RxBreaks ==
    /\ rx = "control" \/ (rx = "read" /\ deadline = "future")
    /\ link = "open"
    /\ Rx("failed", "broken")
    /\ UNCHANGED <<deadline, ends>>

RxWrites ==
    /\ rx = "write"
    /\ IF device = "closed" THEN Rx("failed", "closed")
                            ELSE Rx("check", "nil") \/ Rx("failed", "broken")
    /\ UNCHANGED <<deadline, ends>>

\* HandleControl may have to write its answer, which blocks while the gateway
\* does not read.
RxControlled ==
    /\ rx = "control" /\ link = "open"
    /\ Rx("check", "nil")
    /\ UNCHANGED <<deadline, ends>>

RxControlReleased ==
    /\ rx = "control" /\ link = "closed"
    /\ Rx("check", "nil") \/ Rx("failed", "closed")
    /\ UNCHANGED <<deadline, ends>>

\* The pump looks at the context before it calls a failure one.
RxFailed ==
    /\ rx = "failed"
    /\ Rx(IF cancelled THEN "stopped" ELSE "stopping", rxCause)
    /\ UNCHANGED <<deadline, ends>>

RxStops ==
    /\ rx = "stopping"
    /\ MarkDone(rxCause)
    /\ Rx("stopped", rxCause)
    /\ UNCHANGED deadline

-----------------------------------------------------------------------------
(* pumpDeviceToTunnel *)

Tx(pc, cause) == /\ tx' = pc /\ txCause' = cause
                 /\ wg' = IF pc = "stopped" THEN wg - 1 ELSE wg
                 /\ UNCHANGED <<stage, res, deadline, cancelled, rx, rxCause, step, once, closer>>

TxChecks ==
    /\ tx = "check"
    /\ Tx(IF cancelled THEN "stopped" ELSE "read", "nil")
    /\ UNCHANGED ends

\* A packet leaves the machine, or a read that has none.  What is left of a batch
\* comes out of a closed device too (tundev/device.go:127-154).
TxReads(pc) ==
    /\ tx = "read" /\ (device = "open" \/ pc = "write")
    /\ Tx(pc, "nil")
    /\ UNCHANGED ends

\* The write to the link goes through, as far as the gateway reads.
TxWrites ==
    /\ tx = "write" /\ link = "open"
    /\ Tx("check", "nil")
    /\ UNCHANGED ends

\* A blocked read or write ends because its resource was closed under it.
TxReleased ==
    /\ \/ tx = "read" /\ device = "closed"
       \/ tx = "write" /\ link = "closed"
    /\ Tx("failed", "closed")
    /\ UNCHANGED ends

TxBreaks ==
    /\ \/ tx = "read" /\ device = "open"
       \/ tx = "write" /\ link = "open"
    /\ Tx("failed", "broken")
    /\ UNCHANGED ends

\* Mutant of TxFailed: reports the error without looking at the context.
TxFailed_Unchecked ==
    /\ tx = "failed"
    /\ Tx("stopping", txCause)
    /\ UNCHANGED ends

\* Mutant of TxFailed: returns without a word to whoever waits on Done.
TxFailed_Silent ==
    /\ tx = "failed"
    /\ Tx("stopped", txCause)
    /\ UNCHANGED ends

TxFailed ==
    /\ tx = "failed"
    /\ Tx(IF cancelled THEN "stopped" ELSE "stopping", txCause)
    /\ UNCHANGED ends

TxStops ==
    /\ tx = "stopping"
    /\ MarkDone(txCause)
    /\ Tx("stopped", txCause)

-----------------------------------------------------------------------------

Connecting == \/ Allocated \/ Dialed \/ Negotiated \/ DeviceCreated \/ Named \/ Applied
              \/ AllocationFails \/ StageFails \/ Undone

Closing(k) == CloseCancels(k) \/ CloseWakes(k) \/ CloseJoins(k) \/ CloseReturns(k)

\* What the pumps do on their own ...
RxRuns == RxChecks \/ RxArms \/ RxReadReleased \/ RxWrites \/ RxControlReleased
          \/ RxFailed \/ RxStops
TxRuns == TxChecks \/ TxReleased \/ TxFailed \/ TxStops

\* ... and what they wait for from the gateway and the machine's traffic.
Environment == \/ \E pc \in {"write", "control", "check"} : RxReceives(pc)
               \/ \E pc \in {"write", "check"} : TxReads(pc)
               \/ RxBreaks \/ RxControlled \/ TxWrites \/ TxBreaks

Next == \/ Connecting \/ Teardown \/ RxRuns \/ TxRuns \/ Environment
        \/ \E k \in Closers : CloseCalled(k) \/ CloseAgain(k) \/ Closing(k)

\* Goroutines are scheduled, and Connect's steps end one way or the other.
\* Packets need not come, and Close need not be called.
Fairness == /\ WF_vars(Connecting) /\ WF_vars(Teardown) /\ WF_vars(RxRuns) /\ WF_vars(TxRuns)
            /\ \A k \in Closers : WF_vars(Closing(k)) /\ WF_vars(CloseAgain(k))

Spec     == Init /\ [][Next]_vars
FairSpec == Spec /\ Fairness

-----------------------------------------------------------------------------
(* What has to hold *)

\* Whatever the point of failure, Connect returns an error only with everything
\* it built closed and Revert called ("torn down before returning").
FailedConnectLeavesNothing ==
    stage = "failed" => /\ link # "open" /\ device # "open"
                        /\ net \notin {"partial", "applied"}

\* When a Close returns, first or not, nothing of the connection runs or is
\* open, and Done is closed (connection.go:285-308).
CloseMeansStopped ==
    \A k \in Closers : closer[k] = "returned" =>
        /\ rx = "stopped" /\ tx = "stopped"
        /\ link = "closed" /\ device = "closed"
        /\ net \notin {"partial", "applied"}
        /\ done

\* "a write that loses that race is the shutdown, not a failure"
\* (connection.go:390-391): an error that Close brought about in a read or a
\* write is never recorded.  SetReadDeadline is the exception: its error is
\* recorded without a look at the context (connection.go:355-358, "unarmed" here).
ShutdownIsNoFailure == failure # "closed"

\* Close ends, on an interface that is quiet, with a gateway that does not read,
\* and when rx sets its deadline back after Close moved it (connection.go:291-302).
CloseEnds == once = "taken" ~> once = "done"

\* A link or an interface that breaks wakes whoever waits on Done.
BreakageIsNoticed ==
    rxCause = "broken" \/ txCause = "broken" ~> done

-----------------------------------------------------------------------------
(* The connection is the object that the daemon relies on. *)

absLife == CASE stage \in {"undoing", "failed"} -> stage
             [] stage \notin {"undoing", "failed", "connected"} -> "connecting"
             [] stage = "connected" /\ once = "free" -> IF done THEN "lost" ELSE "up"
             [] stage = "connected" /\ once = "taken" -> "closing"
             [] stage = "connected" /\ once = "done" -> "closed"

\* The layers are the link, the device on it, and the configuration of the device.
absBuilt == CASE link # "open" -> 0
              [] link = "open" /\ device # "open" -> 1
              [] link = "open" /\ device = "open" /\ net \notin {"partial", "applied"} -> 2
              [] link = "open" /\ device = "open" /\ net \in {"partial", "applied"} -> 3

Object == INSTANCE ConnectionObject
              WITH Layers <- 3, life <- absLife, built <- absBuilt, running <- wg,
                   done <- done /\ stage = "connected", err <- failure,
                   returned <- {k \in Closers : closer[k] = "returned"}

\* A connection is taken down layer by layer in the reverse order of how it was built,
\* wherever Connect fails and whoever closes it; it is lost only to a broken link or
\* interface; the first to end it decides what Err reports, which a read or a write that
\* Close interrupted never does ("a write that loses that race is the shutdown, not a
\* failure", connection.go:390-391); and no Close returns while a pump runs or a layer is
\* up (285-308).
ImplementsObject == Object!Spec
=============================================================================
