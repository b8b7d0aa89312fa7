----------------------------- MODULE VpnService -----------------------------
(***************************************************************************)
(* What the privileged service promises to the clients that talk to it,    *)
(* without the daemon's bookkeeping: one VPN, which is down, starting, up  *)
(* or stopping; at most one caller is starting it; a caller that asked for *)
(* something is eventually answered.                                       *)
(*                                                                         *)
(* The promises are the ones daemon.go states for itself: "Daemon owns at  *)
(* most one VPN connection at a time" (line 57), a disconnect that arrives *)
(* mid-connect stops it (lines 73-75 and 277-280), and a link that drops   *)
(* is reflected without anyone asking (lines 202-204).                     *)
(***************************************************************************)

CONSTANTS Callers,   \* the goroutines that call into the service
          None       \* no caller

VARIABLES phase,     \* what the VPN is doing
          attempt,   \* the caller whose connect is under way, or None
          busy       \* the callers that wait for an answer

vars == <<phase, attempt, busy>>

Phases == {"down", "starting", "up", "stopping"}

TypeOK == /\ phase \in Phases
          /\ attempt \in Callers \union {None}
          /\ busy \subseteq Callers

Init == /\ phase = "down"
        /\ attempt = None
        /\ busy = {}

-----------------------------------------------------------------------------

Accept(h) == /\ h \notin busy
             /\ busy' = busy \union {h}

\* A connect is accepted only while nothing runs, and starts the VPN.
Start(h) == /\ phase = "down"
            /\ Accept(h)
            /\ phase' = "starting"
            /\ attempt' = h

\* A request that changes nothing: a refused connect, a disconnect with
\* nothing to disconnect.
Refuse(h) == /\ Accept(h)
             /\ UNCHANGED <<phase, attempt>>

\* The attempt of the caller that started the VPN succeeds or fails.  One that
\* was stopped meanwhile can do neither: it has to wait for Stopped.
Up == /\ phase = "starting"
      /\ phase' = "up"
      /\ attempt' = None
      /\ UNCHANGED busy

Fail == /\ phase = "starting"
        /\ phase' = "down"
        /\ attempt' = None
        /\ UNCHANGED busy

\* A disconnect stops a VPN that is up, and one that is still starting.
Stop(h) == /\ phase \in {"starting", "up", "stopping"}
           /\ Accept(h)
           /\ phase' = "stopping"
           /\ UNCHANGED attempt

Stopped == /\ phase = "stopping"
           /\ phase' = "down"
           /\ attempt' = None
           /\ UNCHANGED busy

\* The link drops.
Lost == /\ phase = "up"
        /\ phase' = "down"
        /\ UNCHANGED <<attempt, busy>>

\* The caller whose attempt is under way cannot be answered before it ends.
Answer(h) == /\ h \in busy
             /\ h # attempt
             /\ busy' = busy \ {h}
             /\ UNCHANGED <<phase, attempt>>

Next == \/ Up \/ Fail \/ Stopped \/ Lost
        \/ \E h \in Callers : Start(h) \/ Refuse(h) \/ Stop(h) \/ Answer(h)

-----------------------------------------------------------------------------

\* Nothing the service starts or stops hangs, and every caller is answered.
\* Stated as leads-to rather than as fairness of the actions above, so that a
\* refinement is checked against what a client observes.
StartEnds == phase = "starting" ~> phase # "starting"
StopEnds  == phase = "stopping" ~> phase = "down"
Answered  == \A h \in Callers : h \in busy ~> h \notin busy

SafeSpec == Init /\ [][Next]_vars
Spec     == SafeSpec /\ StartEnds /\ StopEnds /\ Answered
=============================================================================
