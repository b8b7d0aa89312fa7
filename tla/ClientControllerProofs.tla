------------------------ MODULE ClientControllerProofs ------------------------
(* What the controller shows its user, for any number of clicks, any capacity of *)
(* the commands channel and any other clients of the daemon.                     *)
EXTENDS ClientController, TLAPS

USE DEF run, workers, ui, service, vars
USE NoneIsNobody

\* A snapshot, without the bound on how many actions there can be.
Snaps == [phase : Phases, url : BOOLEAN, err : {NoErr, Daemonless} \union Nat]

\* What Run keeps.
RunTyped ==
    /\ snap \in Snaps
    /\ working \in BOOLEAN
    /\ generation \in Nat
    /\ cancelWork \in Nat \union {None}
    /\ vpn \in Service!Phases

\* Only the action in flight can be cancelled, and it is the last one; what was
\* abandoned came before it.
CancelsTheLast ==
    /\ cancelWork # None => working /\ cancelWork = generation
    /\ \A g \in abandoned : g \in Nat /\ g < generation

\* Nothing but Run puts into the channel it is emptying.
ReplacesNothing == loop = "replace" => updates = <<>>

\* The inductive invariant.
IInv == /\ RunTyped /\ CancelsTheLast /\ ReplacesNothing
        /\ PhaseFollowsWork /\ FailureOfLastAction /\ NewestIsDelivered

-----------------------------------------------------------------------------

\* What a refresh leaves of a snapshot, with the daemon's answer or without.
LEMMA RefreshKeeps ==
    ASSUME NEW s \in Snaps, NEW w \in BOOLEAN, vpn \in Service!Phases
    PROVE  /\ Refreshed(s, w) \in Snaps
           /\ w => Refreshed(s, w).phase = s.phase /\ Refreshed(s, w).err = s.err
           /\ ~w => Refreshed(s, w).phase # "authenticating"
           /\ Refreshed(s, w).err \in {s.err, Daemonless}
<1>1. PhaseOf[vpn] \in Phases \ {"authenticating"}
  BY DEF PhaseOf, Phases, Service!Phases
<1>2. Refreshed(s, w) = [phase |-> IF w THEN s.phase ELSE IF up THEN PhaseOf[vpn] ELSE "no-daemon",
                         url |-> s.url,
                         err |-> IF up \/ w THEN s.err ELSE Daemonless]
  BY DEF Refreshed, Snaps
<1>3. "no-daemon" \in Phases
  BY DEF Phases
<1>4. QED
  BY <1>1, <1>2, <1>3 DEF Snaps

\* The state that Run, its UI and the daemon start from.
LEMMA InitIInv == Init => IInv
<1> SUFFICES ASSUME Init PROVE IInv
  OBVIOUS
<1>1. FirstSnap \in Snaps /\ FirstSnap.err = NoErr
  BY DEF FirstSnap, Snaps, Phases
<1>2. vpn \in Service!Phases
  BY DEF Init, Service!Phases
<1>3. /\ snap \in Snaps /\ snap.phase # "authenticating" /\ snap.err \in {NoErr, Daemonless}
  BY <1>1, <1>2, RefreshKeeps DEF Init
<1>4. /\ loop = "put" /\ working = FALSE /\ cancelWork = None /\ generation = 0 /\ abandoned = {}
  BY DEF Init
<1>5. RunTyped
  BY <1>2, <1>3, <1>4 DEF RunTyped
<1>6. PhaseFollowsWork /\ FailureOfLastAction
  BY <1>3, <1>4 DEF PhaseFollowsWork, FailureOfLastAction, NoErr, Daemonless, Generations
<1>7. CancelsTheLast /\ ReplacesNothing /\ NewestIsDelivered
  BY <1>4 DEF CancelsTheLast, ReplacesNothing, NewestIsDelivered
<1>8. QED
  BY <1>5, <1>6, <1>7 DEF IInv

\* What the daemon does keeps to the phases of the service.
LEMMA ServiceTyped ==
    ASSUME vpn \in Service!Phases, Next
    PROVE  vpn' \in Service!Phases
<1> USE DEF Service!Phases
<1>1. CASE RunCommand \/ RunTick \/ RunEnds \/ Emits \/ Render \/ Click
  BY <1>1 DEF RunCommand, RunTick, RunEnds, Emits, EmitPut, EmitDrain, EmitReplace, Emit, Render, Click
<1>2. ASSUME NEW g \in Generations, Works(g) PROVE vpn' \in Service!Phases
  BY <1>2 DEF Works, LoginReports, LoginSucceeds, LoginFails, Announces, HandsOver, CannotHandOver,
              IsAnswered, TimesOut, Ends, Service!Start, Service!Stop, Service!Refuse,
              Service!Accept, Service!Answer
<1>3. CASE ServiceMoves
  BY <1>3 DEF ServiceMoves, Service!Up, Service!Fail, Service!Stopped, Service!Lost, Service!Answer
<1>4. CASE OtherAsks \/ ServiceStops \/ ServiceStarts
  BY <1>4 DEF OtherAsks, ServiceStops, ServiceStarts, Service!Start, Service!Stop, Service!Accept
<1>5. QED
  BY <1>1, <1>2, <1>3, <1>4 DEF Next

\* The part of the invariant that is about what Run keeps.
RunInv == RunTyped /\ CancelsTheLast /\ PhaseFollowsWork /\ FailureOfLastAction

\* Abandoning the action in flight leaves it behind, whatever is shown then.
LEMMA AbandonKeeps ==
    ASSUME RunInv, cancelWork # None, Abandon, vpn' \in Service!Phases,
           NEW s \in Snaps, snap' = s, s.err \in {NoErr, Daemonless},
           s.phase # "authenticating" \/ loop' = "over"
    PROVE  RunInv'
<1>a. /\ abandoned' = abandoned \union {generation} /\ generation' = generation + 1
      /\ working' = FALSE /\ cancelWork' = None /\ generation \in Nat
      /\ \A g \in abandoned : g \in Nat /\ g < generation
  BY DEF RunInv, RunTyped, CancelsTheLast, Abandon
<1>0. RunTyped'
  <2>1. working' \in BOOLEAN
    BY <1>a, Zenon
  <2>2. snap' \in Snaps /\ cancelWork' \in Nat \union {None} /\ generation' \in Nat
    BY <1>a
  <2>3. QED
    BY <2>1, <2>2, Zenon DEF RunTyped
<1>1. CancelsTheLast'
  BY <1>a DEF CancelsTheLast
<1>2. PhaseFollowsWork' /\ FailureOfLastAction'
  BY DEF RunInv, PhaseFollowsWork, FailureOfLastAction, Abandon, NoErr, Daemonless, Generations
<1>3. QED
  BY <1>0, <1>1, <1>2 DEF RunInv

\* Every handler, of a click or of what a worker has posted, keeps what Run keeps.
LEMMA HandlersKeep ==
    ASSUME RunInv, loop # "over", vpn' = vpn, NEW m,
           Handle(m)
    PROVE  RunInv'
<1>a. /\ RunTyped /\ CancelsTheLast /\ PhaseFollowsWork /\ FailureOfLastAction
      /\ snap \in Snaps /\ working \in BOOLEAN /\ vpn \in Service!Phases /\ generation \in Nat
  BY DEF RunInv, RunTyped
<1>1. CASE NothingDone
  BY <1>1, <1>a DEF NothingDone, RunInv, RunTyped, CancelsTheLast, PhaseFollowsWork, FailureOfLastAction
<1>2. CASE ~working /\ StartConnect
  <2>1. /\ working' = TRUE /\ generation' = generation + 1 /\ cancelWork' = generation + 1
        /\ snap' = [snap EXCEPT !.err = NoErr, !.url = FALSE, !.phase = "authenticating"]
        /\ UNCHANGED abandoned
    BY <1>2 DEF StartConnect, Started, Emitting
  <2>2. /\ snap' = [phase |-> "authenticating", url |-> FALSE, err |-> NoErr]
    BY <2>1, <1>a DEF Snaps
  <2>3. RunTyped'
    <3>1. working' \in BOOLEAN
      BY <2>1, Zenon
    <3>2. snap' \in Snaps
      BY <2>2 DEF Snaps, Phases, NoErr
    <3>3. cancelWork' \in Nat \union {None} /\ generation' \in Nat
      BY <2>1, <1>a
    <3>4. vpn' \in Service!Phases
      BY <1>a
    <3>5. QED
      BY <3>1, <3>2, <3>3, <3>4, Zenon DEF RunTyped
  <2>4. CancelsTheLast'
    BY <2>1, <1>a DEF CancelsTheLast
  <2>5. PhaseFollowsWork' /\ FailureOfLastAction'
    BY <2>1, <2>2 DEF PhaseFollowsWork, FailureOfLastAction, BusyPhases, NoErr, Generations
  <2>6. QED
    BY <2>3, <2>4, <2>5 DEF RunInv
<1>3. CASE ~working /\ StartDisconnect
  <2>1. /\ working' = TRUE /\ generation' = generation + 1
        /\ snap' = [snap EXCEPT !.err = NoErr, !.phase = "disconnecting"]
        /\ UNCHANGED <<abandoned, cancelWork>>
    BY <1>3 DEF StartDisconnect, Started, Emitting
  <2>2. cancelWork = None
    BY <1>3, <1>a DEF CancelsTheLast
  <2>3. /\ snap' = [phase |-> "disconnecting", url |-> snap.url, err |-> NoErr] /\ snap.url \in BOOLEAN
    BY <2>1, <1>a DEF Snaps
  <2>4. QED
    BY <2>1, <2>2, <2>3, <1>a DEF RunInv, RunTyped, CancelsTheLast, PhaseFollowsWork,
          FailureOfLastAction, Snaps, Phases, BusyPhases, NoErr, Generations
<1>4. CASE cancelWork # None /\ Cancel
  <2> DEFINE s == [snap EXCEPT !.url = FALSE]
  <2>1. Abandon /\ snap' = Refreshed(s, FALSE)
    BY <1>4 DEF Cancel, Emitting
  <2>2. s \in Snaps /\ s.err = NoErr
    BY <1>4, <1>a DEF Snaps, CancelsTheLast, FailureOfLastAction
  <2> HIDE DEF s
  <2>3. /\ Refreshed(s, FALSE) \in Snaps /\ Refreshed(s, FALSE).phase # "authenticating"
        /\ Refreshed(s, FALSE).err \in {NoErr, Daemonless}
    BY <2>2, <1>a, RefreshKeeps
  <2>4. QED
    BY <2>1, <2>3, <1>a, <1>4, AbandonKeeps
<1>5. CASE Refresh
  <2>1. /\ snap' = Refreshed(snap, working)
        /\ UNCHANGED <<working, cancelWork, generation, abandoned>>
    BY <1>5 DEF Refresh, Emitting
  <2>2. /\ Refreshed(snap, working) \in Snaps
        /\ working => Refreshed(snap, working).phase = snap.phase /\ Refreshed(snap, working).err = snap.err
        /\ ~working => Refreshed(snap, working).phase # "authenticating"
        /\ Refreshed(snap, working).err \in {snap.err, Daemonless}
    BY <1>a, RefreshKeeps
  <2>3. QED
    BY <2>1, <2>2, <1>a DEF RunInv, RunTyped, CancelsTheLast, PhaseFollowsWork, FailureOfLastAction,
          Daemonless, Generations
<1>6. ASSUME NEW e \in {NoErr, generation}, Finish(generation, e) PROVE RunInv'
  <2> DEFINE s == [snap EXCEPT !.url = FALSE, !.err = IF e = NoErr THEN @ ELSE e]
  <2>1. /\ snap' = Refreshed(s, FALSE) /\ working' = FALSE /\ cancelWork' = None
        /\ UNCHANGED <<generation, abandoned>>
    BY <1>6 DEF Finish, Emitting
  <2>2. s \in Snaps /\ s.err \in {snap.err, generation}
    BY <1>a DEF Snaps
  <2> HIDE DEF s
  <2>3. /\ Refreshed(s, FALSE) \in Snaps /\ Refreshed(s, FALSE).phase # "authenticating"
        /\ Refreshed(s, FALSE).err \in {snap.err, generation, Daemonless}
    BY <2>2, <1>a, RefreshKeeps
  <2>4. RunTyped' /\ CancelsTheLast'
    BY <2>1, <2>3, <1>a DEF RunTyped, CancelsTheLast
  <2>5. PhaseFollowsWork'
    BY <2>1, <2>3 DEF PhaseFollowsWork
  <2>6. FailureOfLastAction'
    <3>1. ~working' /\ generation' = generation /\ abandoned' = abandoned
      BY <2>1
    <3>2. generation \notin abandoned
      BY <1>a DEF CancelsTheLast
    <3>3. Daemonless \notin Generations
      BY MaxClicksIsNat DEF Daemonless, Generations
    <3>4. snap'.err \in {snap.err, generation, Daemonless}
      BY <2>1, <2>3
    <3>5. QED
      BY <3>1, <3>2, <3>3, <3>4, <1>a DEF FailureOfLastAction
  <2>7. QED
    BY <2>4, <2>5, <2>6 DEF RunInv
<1>7. ASSUME Shows([snap EXCEPT !.url = TRUE])
             \/ Shows([snap EXCEPT !.phase = "connecting", !.url = FALSE])
      PROVE  RunInv'
  <2>1. /\ snap' \in Snaps /\ snap'.err = snap.err /\ snap'.phase \in {snap.phase, "connecting"}
        /\ UNCHANGED <<working, cancelWork, generation, abandoned>>
    BY <1>7, <1>a DEF Shows, Emitting, Snaps, Phases
  <2>2. QED
    BY <2>1, <1>a DEF RunInv, RunTyped, CancelsTheLast, PhaseFollowsWork, FailureOfLastAction,
          BusyPhases
<1>8. ASSUME FromWorker(m) PROVE RunInv'
  <2>1. CASE m.gen = generation
    <3>1. Carried(generation, m.name)
      BY <1>8, <2>1 DEF FromWorker
    <3>2. QED
      BY <3>1, <1>6, <1>7 DEF Carried
  <2>2. QED
    BY <1>1, <1>8, <2>1 DEF FromWorker
<1>9. QED
  BY <1>1, <1>2, <1>3, <1>4, <1>5, <1>8 DEF Handle, StartConnect, StartDisconnect, Cancel

\* Each step preserves the inductive invariant.
LEMMA IInvStep == IInv /\ [Next]_vars => IInv'
<1> SUFFICES ASSUME IInv, [Next]_vars PROVE IInv'
  OBVIOUS
<1>a. RunInv /\ ReplacesNothing /\ NewestIsDelivered
  BY DEF IInv, RunInv
<1>b. IInv' <=> RunInv' /\ ReplacesNothing' /\ NewestIsDelivered'
  BY DEF IInv, RunInv
<1>1. CASE RunCommand
  <2>1. /\ loop = "select" /\ Handle(Head(commands))
        /\ UNCHANGED <<updates, ui, service>>
    BY <1>1 DEF RunCommand
  <2>2. RunInv'
    BY <2>1, <1>a, HandlersKeep
  <2>3. loop' = "put" \/ UNCHANGED <<loop, snap>>
    BY <2>1 DEF Handle, StartConnect, StartDisconnect, Cancel, Refresh, FromWorker, Carried, Finish,
                Shows, Emitting, NothingDone
  <2>4. ReplacesNothing' /\ NewestIsDelivered'
    BY <2>1, <2>3, <1>a DEF ReplacesNothing, NewestIsDelivered
  <2>5. QED
    BY <1>b, <2>2, <2>4
<1>2. CASE RunTick
  <2>1. loop = "select" /\ Refresh /\ UNCHANGED <<updates, ui, service>>
    BY <1>2 DEF RunTick
  <2>2. Handle([name |-> "refresh"])
    BY <2>1 DEF Handle
  <2>3. RunInv'
    BY <2>1, <2>2, <1>a, HandlersKeep
  <2>4. loop' = "put"
    BY <2>1 DEF Refresh, Emitting
  <2>5. ReplacesNothing' /\ NewestIsDelivered'
    BY <2>4 DEF ReplacesNothing, NewestIsDelivered
  <2>6. QED
    BY <1>b, <2>3, <2>5
<1>3. CASE RunEnds
  <2>1. loop' = "over" /\ vpn' = vpn
    BY <1>3 DEF RunEnds
  <2>2. ASSUME cancelWork = None PROVE RunInv'
    BY <1>3, <1>a, <2>1, <2>2 DEF RunEnds, RunInv, RunTyped, CancelsTheLast, PhaseFollowsWork,
          FailureOfLastAction
  <2>3. ASSUME cancelWork # None PROVE RunInv'
    <3> DEFINE s == [snap EXCEPT !.url = FALSE]
    <3>1. Abandon /\ snap' = s
      BY <1>3, <2>3 DEF RunEnds
    <3>2. s \in Snaps /\ s.err \in {NoErr, Daemonless}
      BY <1>a, <2>3 DEF RunInv, RunTyped, CancelsTheLast, FailureOfLastAction, Snaps
    <3>3. vpn' \in Service!Phases
      BY <1>a, <2>1 DEF RunInv, RunTyped
    <3> HIDE DEF s
    <3>4. QED
      BY <1>a, <2>1, <2>3, <3>1, <3>2, <3>3, AbandonKeeps
  <2>4. ReplacesNothing' /\ NewestIsDelivered'
    BY <2>1 DEF ReplacesNothing, NewestIsDelivered
  <2>5. RunInv'
    BY <2>2, <2>3
  <2>6. QED
    BY <1>b, <2>4, <2>5
<1>4. CASE Emits
  <2>1. /\ UNCHANGED <<snap, working, cancelWork, generation, abandoned, vpn, shown>>
        /\ loop # "over" /\ loop' # "over"
    BY <1>4 DEF Emits, EmitPut, EmitDrain, EmitReplace, Emit
  <2>2. RunInv'
    BY <1>a, <2>1 DEF RunInv, RunTyped, CancelsTheLast, PhaseFollowsWork, FailureOfLastAction
  <2>3. ReplacesNothing' /\ NewestIsDelivered'
    BY <1>4, <1>a, <2>1 DEF Emits, EmitPut, EmitDrain, EmitReplace, Emit, ReplacesNothing,
          NewestIsDelivered
  <2>4. QED
    BY <1>b, <2>2, <2>3
<1>5. ASSUME UNCHANGED <<run, abandoned, updates, shown>>, vpn' \in Service!Phases
      PROVE  IInv'
  <2>1. RunInv'
    BY <1>5, <1>a DEF RunInv, RunTyped, CancelsTheLast, PhaseFollowsWork, FailureOfLastAction
  <2>2. ReplacesNothing' /\ NewestIsDelivered'
    BY <1>5, <1>a DEF ReplacesNothing, NewestIsDelivered
  <2>3. QED
    BY <1>b, <2>1, <2>2
<1>6. CASE Render
  <2>1. /\ UNCHANGED <<run, abandoned, vpn>> /\ updates # <<>>
        /\ updates' = <<>> /\ shown' = Head(updates)
    BY <1>6 DEF Render
  <2>2. RunInv'
    BY <2>1, <1>a DEF RunInv, RunTyped, CancelsTheLast, PhaseFollowsWork, FailureOfLastAction
  <2>3. loop = "select" => shown' = snap
    BY <2>1, <1>a DEF NewestIsDelivered
  <2>4. ReplacesNothing' /\ NewestIsDelivered'
    BY <2>1, <2>3 DEF ReplacesNothing, NewestIsDelivered
  <2>5. QED
    BY <1>b, <2>2, <2>4
<1>7. ASSUME NEW g \in Generations, Works(g) PROVE UNCHANGED <<run, abandoned, updates, shown>>
  BY <1>7 DEF Works, LoginReports, LoginSucceeds, LoginFails, Announces, HandsOver, CannotHandOver,
              IsAnswered, TimesOut, Ends
<1>8. CASE Click \/ ServiceMoves \/ OtherAsks \/ ServiceStops \/ ServiceStarts
  <2>1. UNCHANGED <<run, abandoned, updates, shown>>
    BY <1>8 DEF Click, ServiceMoves, OtherAsks, ServiceStops, ServiceStarts
  <2>2. vpn' \in Service!Phases
    BY <1>8, <1>a, ServiceTyped DEF RunInv, RunTyped, Next
  <2>3. QED
    BY <1>5, <2>1, <2>2
<1>9. ASSUME NEW g \in Generations, Works(g) PROVE IInv'
  <2>1. vpn' \in Service!Phases
    BY <1>9, <1>a, ServiceTyped DEF RunInv, RunTyped, Next
  <2>2. QED
    BY <1>5, <1>7, <1>9, <2>1
<1>10. CASE UNCHANGED vars
  BY <1>5, <1>10, <1>a DEF RunInv, RunTyped
<1>11. QED
  BY <1>1, <1>2, <1>3, <1>4, <1>6, <1>8, <1>9, <1>10 DEF Next

\* It holds in every reachable state.
LEMMA Invariant == Spec => []IInv
  BY InitIInv, IInvStep, PTL DEF Spec

\* While an action is in flight the phase is its own, and the window never says
\* authenticating of one that is over: a refresh that the action overtakes, or a
\* worker that was replaced, cannot put it back.
THEOREM PhaseIsOfTheAction == Spec => []PhaseFollowsWork
  BY Invariant, PTL DEF IInv

\* However actions, cancellations and late workers interleave, the failure on the
\* screen is of the last action and of none that was abandoned.
THEOREM FailureIsOfTheLast == Spec => []FailureOfLastAction
  BY Invariant, PTL DEF IInv

\* However slow the window is, it is never left without the last snapshot.
THEOREM LastSnapshotArrives == Spec => []NewestIsDelivered
  BY Invariant, PTL DEF IInv
=============================================================================
