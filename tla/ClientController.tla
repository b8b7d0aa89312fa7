-------------------------- MODULE ClientController --------------------------
(***************************************************************************)
(* internal/client/state/controller.go: the GUI's controller.              *)
(*                                                                         *)
(* Four kinds of goroutine: Run, which alone changes the state and takes   *)
(* commands from a channel; a worker for every connect or disconnect,      *)
(* named by its generation; the UI, which renders snapshots and reacts to  *)
(* clicks on what it last rendered; and other clients of the daemon.  The  *)
(* daemon itself is the service that Daemon implements, VpnService.        *)
(***************************************************************************)
EXTENDS Integers, Sequences

CONSTANTS MaxClicks,   \* bound on what the user does
          Cap,         \* the capacity of the commands channel
          MaxUpsets,   \* bound on how often svpnd stops or another client asks it
          Others,      \* the other clients of the daemon
          None         \* nobody

ASSUME MaxClicksIsNat == MaxClicks \in Nat
ASSUME CapIsPositive  == Cap \in Nat \ {0}
ASSUME UpsetsIsNat    == MaxUpsets \in Nat
ASSUME NoneIsNobody   == None \notin Nat /\ None \notin Others

VARIABLES
    \* what belongs to the Run goroutine; loop is where it is
    snap, working, cancelWork, generation, loop,
    commands, updates,        \* the channels
    worker, abandoned,        \* the workers; those whose context is cancelled
    shown, clicks,            \* the UI: the snapshot on screen, the clicks made
    vpn, attempt, busy,       \* the service
    up, upsets               \* whether it answers at all, and how often it was upset

run     == <<snap, working, cancelWork, generation, loop>>
workers == <<worker, abandoned>>
ui      == <<shown, clicks>>
service == <<vpn, attempt, busy, up, upsets>>
vars    == <<run, commands, updates, workers, ui, service>>

Generations == 1..MaxClicks

Phases == {"unknown", "no-daemon", "disconnected", "authenticating",
           "connecting", "connected", "disconnecting"}
BusyPhases == {"authenticating", "connecting", "disconnecting"}

\* err is NoErr, Daemonless when no status could be had, or the generation of the
\* action whose failure it is.  The rest of the daemon's Status is left out.
NoErr      == 0
Daemonless == -1
Snapshots  == [phase : Phases, url : BOOLEAN, err : {NoErr, Daemonless} \union Generations]

\* What workers and the UI post to Run.  A worker's is for its generation.
Commands ==
    [name : {"connect", "disconnect", "cancel", "refresh"}]
    \union [name : {"url", "connecting", "done", "failed", "canceled"}, gen : Generations]

WorkerPCs == {"none", "login", "waiting", "session", "handing", "disconnecting",
              "asked", "done", "failed", "canceled", "over"}

TypeOK ==
    /\ snap \in Snapshots /\ shown \in Snapshots
    /\ working \in BOOLEAN
    /\ cancelWork \in Generations \union {None}
    /\ generation \in 0..MaxClicks + 1
    /\ loop \in {"select", "put", "drain", "replace", "over"}
    /\ commands \in Seq(Commands) /\ Len(commands) <= Cap
    /\ updates \in Seq(Snapshots) /\ Len(updates) <= 1
    /\ worker \in [Generations -> WorkerPCs]
    /\ abandoned \subseteq Generations
    /\ clicks \in 0..MaxClicks

Service == INSTANCE VpnService WITH phase <- vpn, Callers <- Generations \union Others

\* phaseOf, of what status reports; an error is disconnected to the user.
PhaseOf == [p \in Service!Phases |->
    CASE p = "down" -> "disconnected" [] p = "starting" -> "connecting"
      [] p = "up" -> "connected"      [] p = "stopping" -> "disconnecting"]

FirstSnap == [phase |-> "unknown", url |-> FALSE, err |-> NoErr]

-----------------------------------------------------------------------------
(* The Run goroutine *)

\* Mutant of Refreshed: derives "in flight" from what the user is looking at.
Refreshed_ByPhase(s, w) ==
    IF up THEN [s EXCEPT !.phase = IF @ \in BusyPhases THEN @ ELSE PhaseOf[vpn]]
          ELSE [s EXCEPT !.phase = IF w THEN @ ELSE "no-daemon",
                         !.err   = IF w THEN @ ELSE Daemonless]

\* refresh, up to its emit: s with the daemon's answer, or with none; the phase
\* is not the daemon's to say while work w is in flight.
Refreshed(s, w) ==
    IF up THEN [s EXCEPT !.phase = IF w THEN @ ELSE PhaseOf[vpn]]
          ELSE [s EXCEPT !.phase = IF w THEN @ ELSE "no-daemon",
                         !.err   = IF w THEN @ ELSE Daemonless]

\* Run has done its first refresh, up to its emit.  The VPN may be up before the
\* GUI starts, and svpnd may not run at all.
Init ==
    /\ up \in BOOLEAN /\ upsets = 0
    /\ vpn \in (IF up THEN {"down", "up"} ELSE {"down"}) /\ attempt = None /\ busy = {}
    /\ snap = Refreshed(FirstSnap, FALSE) /\ loop = "put"
    /\ working = FALSE /\ cancelWork = None /\ generation = 0
    /\ commands = <<>> /\ updates = <<>>
    /\ worker = [g \in Generations |-> "none"] /\ abandoned = {}
    /\ shown = FirstSnap /\ clicks = 0

\* A handler ends in emit with the snapshot s.
Emitting(s) == snap' = s /\ loop' = "put"

NothingDone == UNCHANGED <<run, workers>>

Started(g) ==
    /\ working' = TRUE
    /\ generation' = g

\* startConnect
StartConnect ==
    IF working THEN NothingDone
    ELSE LET g == generation + 1 IN
         /\ Started(g)
         /\ cancelWork' = g
         /\ Emitting([snap EXCEPT !.err = NoErr, !.url = FALSE, !.phase = "authenticating"])
         /\ worker' = [worker EXCEPT ![g] = "login"]
         /\ UNCHANGED abandoned

\* startDisconnect
StartDisconnect ==
    IF working THEN NothingDone
    ELSE LET g == generation + 1 IN
         /\ Started(g)
         /\ Emitting([snap EXCEPT !.err = NoErr, !.phase = "disconnecting"])
         /\ worker' = [worker EXCEPT ![g] = "disconnecting"]
         /\ UNCHANGED <<cancelWork, abandoned>>

\* abandonWork, where there is work to abandon.
Abandon ==
    /\ abandoned' = abandoned \union {cancelWork}
    /\ cancelWork' = None
    /\ working' = FALSE
    /\ generation' = generation + 1
    /\ UNCHANGED worker

\* Mutant of Cancel: abandons without asking for the status again.
Cancel_NoRefresh ==
    IF cancelWork = None THEN NothingDone
    ELSE Abandon /\ Emitting([snap EXCEPT !.url = FALSE])

\* Cancel
Cancel ==
    IF cancelWork = None THEN NothingDone
    ELSE Abandon /\ Emitting(Refreshed([snap EXCEPT !.url = FALSE], FALSE))

Refresh == /\ Emitting(Refreshed(snap, working))
           /\ UNCHANGED <<working, cancelWork, generation, workers>>

\* Mutant of Finish: leaves working to the refresh.
Finish_StillWorking(g, e) ==
    /\ cancelWork' = None
    /\ Emitting(Refreshed([snap EXCEPT !.url = FALSE, !.err = IF e = NoErr THEN @ ELSE e], FALSE))
    /\ UNCHANGED <<working, generation, workers>>

\* finish
Finish(g, e) ==
    /\ working' = FALSE
    /\ cancelWork' = None
    /\ Emitting(Refreshed([snap EXCEPT !.url = FALSE, !.err = IF e = NoErr THEN @ ELSE e], FALSE))
    /\ UNCHANGED <<generation, workers>>

Shows(s) == Emitting(s) /\ UNCHANGED <<working, cancelWork, generation, workers>>

\* What a worker of generation g has posted, when its turn comes.
Carried(g, name) ==
    CASE name = "url"        -> Shows([snap EXCEPT !.url = TRUE])
      [] name = "connecting" -> Shows([snap EXCEPT !.phase = "connecting", !.url = FALSE])
      [] name = "failed"     -> Finish(g, g)
      [] OTHER               -> Finish(g, NoErr)

\* Mutant of FromWorker: carries out whatever a worker has posted.
FromWorker_AnyGeneration(m) == Carried(m.gen, m.name)

\* postFor: not for a worker that has been replaced or abandoned.
FromWorker(m) == IF m.gen = generation THEN Carried(m.gen, m.name) ELSE NothingDone

Handle(m) ==
    CASE m.name = "connect"    -> StartConnect
      [] m.name = "disconnect" -> StartDisconnect
      [] m.name = "cancel"     -> Cancel
      [] m.name = "refresh"    -> Refresh
      [] OTHER                 -> FromWorker(m)

\* One turn of Run's select, for a command ...
RunCommand ==
    /\ loop = "select"
    /\ commands # <<>>
    /\ Handle(Head(commands))
    /\ commands' = Tail(commands)
    /\ UNCHANGED <<updates, ui, service>>

\* ... for the ticker ...
RunTick ==
    /\ loop = "select"
    /\ Refresh
    /\ UNCHANGED <<commands, updates, ui, service>>

\* ... or for the end of its context.
RunEnds ==
    /\ loop = "select"
    /\ loop' = "over"
    /\ IF cancelWork = None
       THEN UNCHANGED <<snap, working, cancelWork, generation, workers>>
       ELSE Abandon /\ snap' = [snap EXCEPT !.url = FALSE]
    /\ UNCHANGED <<commands, updates, ui, service>>

Emit(from, to, content) ==
    /\ loop = from
    /\ loop' = to
    /\ updates' = content
    /\ UNCHANGED <<snap, working, cancelWork, generation, commands, workers, ui, service>>

\* Mutant of EmitPut: a full channel has something to show already.
EmitPut_OrSkip == Emit("put", "select", IF updates = <<>> THEN <<snap>> ELSE updates)

\* emit: put the snapshot, or take the old one out and put it then; the UI can
\* take between any two of these.
EmitPut     == IF updates = <<>> THEN Emit("put", "select", <<snap>>)
                                 ELSE Emit("put", "drain", updates)
EmitDrain   == Emit("drain", "replace", <<>>)
EmitReplace == Emit("replace", "select", IF updates = <<>> THEN <<snap>> ELSE updates)

Emits == EmitPut \/ EmitDrain \/ EmitReplace

-----------------------------------------------------------------------------
(* The workers *)

\* post: blocks while the channel is full, gives up when Run is over.
Post(m) == \/ Len(commands) < Cap /\ commands' = Append(commands, m)
           \/ loop = "over" /\ UNCHANGED commands

Move(g, from, to) == worker[g] = from /\ worker' = [worker EXCEPT ![g] = to]

\* The login reports where to go, ...
LoginReports(g) ==
    /\ Move(g, "login", "waiting")
    /\ Post([name |-> "url", gen |-> g])
    /\ UNCHANGED <<run, updates, abandoned, ui, service>>

\* ... and ends with a session, which it cannot get any more once its context is
\* cancelled, ...
LoginSucceeds(g) ==
    /\ g \notin abandoned
    /\ Move(g, "waiting", "session")
    /\ UNCHANGED <<run, commands, updates, abandoned, ui, service>>

\* ... or without: the port is taken, the gateway refuses, the user takes too
\* long, or walks away.
LoginFails(g) ==
    /\ \/ Move(g, "login", "failed")
       \/ Move(g, "waiting", "failed")
       \/ g \in abandoned /\ Move(g, "waiting", "canceled")
    /\ UNCHANGED <<run, commands, updates, abandoned, ui, service>>

Announces(g) ==
    /\ Move(g, "session", "handing")
    /\ Post([name |-> "connecting", gen |-> g])
    /\ UNCHANGED <<run, updates, abandoned, ui, service>>

\* daemon.Do writes the request, which the daemon takes or refuses.
HandsOver(g) ==
    /\ up
    /\ \/ Move(g, "handing", "asked") /\ (Service!Start(g) \/ Service!Refuse(g))
       \/ Move(g, "disconnecting", "asked") /\ (Service!Stop(g) \/ Service!Refuse(g))
    /\ UNCHANGED <<run, commands, updates, abandoned, ui, up, upsets>>

CannotHandOver(g) ==
    /\ ~up
    /\ Move(g, "handing", "failed") \/ Move(g, "disconnecting", "failed")
    /\ UNCHANGED <<run, commands, updates, abandoned, ui, service>>

\* The answer, which is a success or not, ...
IsAnswered(g) ==
    /\ Move(g, "asked", "done") \/ Move(g, "asked", "failed")
    /\ Service!Answer(g)
    /\ UNCHANGED <<run, commands, updates, abandoned, ui, up, upsets>>

\* ... or none in time: the daemon carries on.
TimesOut(g) ==
    /\ Move(g, "asked", "failed")
    /\ UNCHANGED <<run, commands, updates, abandoned, ui, service>>

Ends(g) ==
    /\ \E how \in {"done", "failed", "canceled"} :
          Move(g, how, "over") /\ Post([name |-> how, gen |-> g])
    /\ UNCHANGED <<run, updates, abandoned, ui, service>>

Works(g) == \/ LoginReports(g) \/ LoginSucceeds(g) \/ LoginFails(g) \/ Announces(g)
            \/ HandsOver(g) \/ CannotHandOver(g) \/ IsAnswered(g) \/ TimesOut(g) \/ Ends(g)

-----------------------------------------------------------------------------
(* The UI *)

Render ==
    /\ updates # <<>>
    /\ shown' = Head(updates)
    /\ updates' = <<>>
    /\ UNCHANGED <<run, commands, workers, clicks, service>>

\* The buttons there are on what is shown.
Buttons == {b \in {"connect", "disconnect", "cancel", "refresh"} :
              \/ b = "connect"    /\ shown.phase = "disconnected"
              \/ b = "disconnect" /\ shown.phase = "connected"
              \/ b = "cancel"     /\ shown.phase = "authenticating"
              \/ b = "refresh"    /\ shown.phase = "no-daemon"}

Click ==
    /\ clicks < MaxClicks
    /\ clicks' = clicks + 1
    /\ \E b \in Buttons : Post([name |-> b])
    /\ UNCHANGED <<run, updates, workers, shown, service>>

-----------------------------------------------------------------------------
(* The service and its other clients *)

ServiceMoves ==
    /\ up
    /\ \/ Service!Up \/ Service!Fail \/ Service!Stopped \/ Service!Lost
       \/ \E h \in busy \ {g \in Generations : worker[g] = "asked"} : Service!Answer(h)
    /\ UNCHANGED <<run, commands, updates, workers, ui, up, upsets>>

\* Another client has it started or stopped.
OtherAsks ==
    /\ up
    /\ upsets < MaxUpsets /\ upsets' = upsets + 1
    /\ \E h \in Others : Service!Start(h) \/ Service!Stop(h)
    /\ UNCHANGED <<run, commands, updates, workers, ui, up>>

\* svpnd stops, with its VPN and its requests, and is started again.
ServiceStops ==
    /\ up /\ up' = FALSE
    /\ upsets < MaxUpsets /\ upsets' = upsets + 1
    /\ vpn' = "down" /\ attempt' = None /\ busy' = {}
    /\ worker' = [g \in Generations |-> IF worker[g] = "asked" THEN "failed" ELSE worker[g]]
    /\ UNCHANGED <<run, commands, updates, abandoned, ui>>

ServiceStarts ==
    /\ ~up /\ up' = TRUE
    /\ UNCHANGED <<run, commands, updates, workers, ui, vpn, attempt, busy, upsets>>

-----------------------------------------------------------------------------

Next == \/ RunCommand \/ RunTick \/ RunEnds \/ Emits
        \/ \E g \in Generations : Works(g)
        \/ Render \/ Click
        \/ ServiceMoves \/ OtherAsks \/ ServiceStops \/ ServiceStarts

\* Goroutines are scheduled, the ticker ticks, the window is drawn; every login
\* and every request to the daemon has a timeout.  A select that finds several
\* channels ready picks one at random, and a goroutine that waits on a channel is
\* woken by it, so none is left out for ever.
Fairness == /\ WF_vars(Emits) /\ SF_vars(RunCommand) /\ SF_vars(RunTick) /\ SF_vars(Render)
            /\ \A g \in Generations : WF_vars(Works(g))

Spec     == Init /\ [][Next]_vars
FairSpec == Spec /\ Fairness

-----------------------------------------------------------------------------
(* What has to hold *)

\* While work is in flight the phase is this side's to own, and nothing says
\* authenticating that is not (controller.go:77-84 and 323-328).
PhaseFollowsWork ==
    /\ working => snap.phase \in BusyPhases
    /\ snap.phase = "authenticating" /\ loop # "over" => working /\ cancelWork = generation

\* A failure on the screen is of the last action and of none that was abandoned
\* (controller.go:86-92, 257-276).
FailureOfLastAction ==
    /\ snap.err \in Generations => snap.err = generation /\ snap.err \notin abandoned
    /\ working => snap.err = NoErr

\* Whenever Run waits, the newest snapshot is on the screen or about to be: a
\* slow UI misses states, never the last one (controller.go:107-109).
NewestIsDelivered ==
    loop = "select" =>
        updates = <<snap>> \/ (updates = <<>> /\ shown = snap)

\* Nothing stays in flight for ever.
WorkEnds == working ~> ~working \/ loop = "over"

\* When the VPN stays as it is and nothing is in flight, the window ends up
\* showing it.
Settled == up /\ ~working /\ loop # "over"
Converges == <>[]Settled /\ <>[][vpn' = vpn]_vars => <>[](shown.phase = PhaseOf[vpn])
=============================================================================
