--------------------------- MODULE ConnectionProofs ---------------------------
(* What a connection guarantees for any number of goroutines that close it, and *)
(* what its data path does for any traffic and any size of batch.               *)
EXTENDS DataPath, TLAPS, SequenceTheorems

USE DEF res, pumps, ends, vars

\* The pumps run from the moment Connect has succeeded, and wg counts them.
PumpsCounted ==
    /\ rx = "off" <=> stage # "connected"
    /\ tx = "off" <=> stage # "connected"
    /\ wg = (IF rx \in {"off", "stopped"} THEN 0 ELSE 1)
          + (IF tx \in {"off", "stopped"} THEN 0 ELSE 1)

\* What Connect has built, stage by stage.
Built ==
    /\ stage \in {"allocating", "dialing"} => link = "none"
    /\ stage \in {"negotiating", "creating", "naming", "applying"} => link = "open"
    /\ stage \in {"allocating", "dialing", "negotiating", "creating"} => device = "none"
    /\ stage \in {"naming", "applying"} => device = "open"
    /\ stage \in {"allocating", "dialing", "negotiating", "creating", "naming", "applying"} =>
          net = "untouched" /\ step = "none" /\ ~done
    /\ stage = "undoing" => step # "none"
    /\ stage = "failed" => \/ step = "over"
                           \/ step = "none" /\ link = "none" /\ device = "none" /\ net = "untouched"

\* What teardown has undone, step by step.
UndoneSoFar ==
    /\ step \in {"device", "link", "mark", "over"} => net \in {"untouched", "reverted"}
    /\ step \in {"link", "mark", "over"} => device # "open"
    /\ step \in {"mark", "over"} => link = "closed"
    /\ step = "over" => done
    /\ stage = "connected" => /\ device # "none"
                              /\ device = "closed" => step \in {"link", "mark", "over"}
                              /\ link = "closed" => step \in {"mark", "over"}

\* closeOnce lets one caller through, and only its cancelling and its teardown
\* take anything away from the pumps.
OneCloser ==
    /\ \A k \in Closers : closer[k] # "idle" => stage = "connected" /\ once # "free"
    /\ \A j, k \in Closers :
          closer[j] \notin {"idle", "returned"} /\ closer[k] \notin {"idle", "returned"} => j = k
    /\ \A k \in Closers : closer[k] = "returned" <=> closer[k] # "idle" /\ once = "done"
    /\ \A k \in Closers :
          /\ closer[k] = "cancel" => ~cancelled
          /\ closer[k] \in {"cancel", "wake"} => step = "none"
          /\ closer[k] \in {"wake", "teardown", "join", "returned"} => cancelled
          /\ closer[k] \in {"join", "returned"} => step = "over"
    /\ once = "free" => ~cancelled
    /\ stage # "connected" => once = "free"
    /\ once = "done" => wg = 0 /\ cancelled /\ step = "over"
    /\ stage = "connected" /\ step # "none" => cancelled
    /\ deadline = "now" => cancelled

\* An error that Close brought about in a read or a write is never on its way to Err.
CausesOfClose ==
    /\ rxCause = "closed" => cancelled /\ rx # "stopping"
    /\ txCause = "closed" => cancelled /\ tx # "stopping"
    /\ failure # "closed"

\* The inductive invariant.
IInv == TypeOK /\ PumpsCounted /\ Built /\ UndoneSoFar /\ OneCloser /\ CausesOfClose

\* It holds when Connect is called.
LEMMA InitIInv == Init => IInv
<1> SUFFICES ASSUME Init PROVE IInv
  OBVIOUS
<1> USE DEF Init
<1>1. TypeOK
  <2>1. cancelled \in BOOLEAN /\ done \in BOOLEAN
    BY Zenon
  <2>2. wg \in 0..2
    OBVIOUS
  <2>3. closer \in [Closers -> {"idle", "cancel", "wake", "teardown", "join", "returned"}]
    OBVIOUS
  <2>4. QED
    BY <2>1, <2>2, <2>3, Zenon DEF TypeOK, Stages, RxPCs, TxPCs, Causes
<1>2. PumpsCounted
  BY DEF PumpsCounted
<1>3. Built /\ UndoneSoFar
  BY DEF Built, UndoneSoFar
<1>4. OneCloser
  BY DEF OneCloser
<1>5. CausesOfClose
  BY DEF CausesOfClose
<1>6. QED
  BY <1>1, <1>2, <1>3, <1>4, <1>5 DEF IInv

\* What a step of rx may do.
RxSteps == RxRuns \/ (\E pc \in {"write", "control", "check"} : RxReceives(pc))
           \/ RxBreaks \/ RxControlled

\* What a step of tx may do.
TxSteps == TxRuns \/ (\E pc \in {"write", "check"} : TxReads(pc)) \/ TxWrites \/ TxBreaks

\* Every step of rx moves it from a running state, leaves the deadline or takes it
\* back, and calls a failure that Close brought about by its name only after Close
\* has cancelled the context.
LEMMA RxStep ==
    ASSUME IInv, RxSteps
    PROVE  /\ rx \notin {"off", "stopped"}
           /\ \E pc \in RxPCs \ {"off"}, cause \in Causes :
                 Rx(pc, cause) /\ (cause = "closed" => cancelled /\ pc # "stopping")
           /\ UNCHANGED ends \/ (rx = "stopping" /\ MarkDone(rxCause))
           /\ deadline' \in {deadline, "future"}
<1> USE DEF IInv, TypeOK, RxPCs, Causes
<1>a. (link = "closed" \/ device = "closed" \/ deadline = "now") /\ rx # "off" => cancelled
  BY DEF PumpsCounted, UndoneSoFar, OneCloser
<1>b. rxCause = "closed" => cancelled /\ rx # "stopping"
  BY DEF CausesOfClose
<1>1. CASE RxChecks
  BY <1>1 DEF RxChecks
<1>2. CASE RxArms
  BY <1>2 DEF RxArms
<1>3. CASE RxReadReleased
  BY <1>3, <1>a DEF RxReadReleased
<1>4. CASE RxWrites
  BY <1>4, <1>a DEF RxWrites
<1>5. CASE RxControlReleased
  BY <1>5, <1>a DEF RxControlReleased
<1>6. CASE RxFailed
  BY <1>6, <1>b DEF RxFailed
<1>7. CASE RxStops
  BY <1>7, <1>b DEF RxStops
<1>8. ASSUME NEW pc \in {"write", "control", "check"}, RxReceives(pc)
      PROVE  \E p \in RxPCs \ {"off"}, cause \in Causes :
                 Rx(p, cause) /\ (cause = "closed" => cancelled /\ p # "stopping")
  BY <1>8 DEF RxReceives
<1>9. ASSUME NEW pc \in {"write", "control", "check"}, RxReceives(pc)
      PROVE  rx = "read" /\ UNCHANGED <<deadline, ends>>
  BY <1>9 DEF RxReceives
<1>10. CASE RxBreaks
  BY <1>10 DEF RxBreaks
<1>11. CASE RxControlled
  BY <1>11 DEF RxControlled
<1>12. QED
  BY <1>1, <1>2, <1>3, <1>4, <1>5, <1>6, <1>7, <1>8, <1>9, <1>10, <1>11 DEF RxSteps, RxRuns

\* The same of tx, which leaves the deadline alone.
LEMMA TxStep ==
    ASSUME IInv, TxSteps
    PROVE  /\ tx \notin {"off", "stopped"}
           /\ \E pc \in TxPCs \ {"off"}, cause \in Causes :
                 Tx(pc, cause) /\ (cause = "closed" => cancelled /\ pc # "stopping")
           /\ UNCHANGED ends \/ (tx = "stopping" /\ MarkDone(txCause))
<1> USE DEF IInv, TypeOK, TxPCs, Causes
<1>a. (link = "closed" \/ device = "closed") /\ tx # "off" => cancelled
  BY DEF PumpsCounted, UndoneSoFar, OneCloser
<1>b. txCause = "closed" => cancelled /\ tx # "stopping"
  BY DEF CausesOfClose
<1>1. CASE TxChecks
  BY <1>1 DEF TxChecks
<1>2. CASE TxReleased
  BY <1>2, <1>a DEF TxReleased
<1>3. CASE TxFailed
  BY <1>3, <1>b DEF TxFailed
<1>4. CASE TxStops
  BY <1>4, <1>b DEF TxStops
<1>5. ASSUME NEW pc \in {"write", "check"}, TxReads(pc)
      PROVE  tx = "read" /\ UNCHANGED ends /\ Tx(pc, "nil")
  BY <1>5 DEF TxReads
<1>6. CASE TxWrites
  BY <1>6 DEF TxWrites
<1>7. CASE TxBreaks
  BY <1>7 DEF TxBreaks
<1>8. QED
  BY <1>1, <1>2, <1>3, <1>4, <1>5, <1>6, <1>7 DEF TxSteps, TxRuns

\* Each step preserves the inductive invariant.
LEMMA IInvStep == IInv /\ [Next]_vars => IInv'
<1> SUFFICES ASSUME IInv, [Next]_vars PROVE IInv'
  OBVIOUS
<1>a. TypeOK /\ PumpsCounted /\ Built /\ UndoneSoFar /\ OneCloser /\ CausesOfClose
  BY DEF IInv
<1>1. CASE Connecting
  <2> USE DEF Connecting, Allocated, Dialed, Negotiated, DeviceCreated, Named, Applied,
              AllocationFails, StageFails, Undone
  <2>1. TypeOK'
    BY <1>1, <1>a DEF TypeOK, Stages, RxPCs, TxPCs
  <2>2. PumpsCounted'
    BY <1>1, <1>a DEF PumpsCounted
  <2>3. Built' /\ UndoneSoFar'
    BY <1>1, <1>a DEF Built, UndoneSoFar
  <2>4. OneCloser'
    BY <1>1, <1>a DEF OneCloser, Built
  <2>5. CausesOfClose'
    BY <1>1, <1>a DEF CausesOfClose, PumpsCounted
  <2>6. QED
    BY <2>1, <2>2, <2>3, <2>4, <2>5 DEF IInv
<1>2. CASE Teardown
  <2> USE DEF Teardown, RevertNet, CloseDevice, CloseLink, TornDown, MarkDone
  <2>1. TypeOK'
    BY <1>2, <1>a DEF TypeOK, Causes
  <2>2. PumpsCounted'
    BY <1>2, <1>a DEF PumpsCounted
  <2>3. Built' /\ UndoneSoFar'
    BY <1>2, <1>a DEF Built, UndoneSoFar, TypeOK
  <2>4. OneCloser'
    BY <1>2, <1>a DEF OneCloser
  <2>5. CausesOfClose'
    BY <1>2, <1>a DEF CausesOfClose
  <2>6. QED
    BY <2>1, <2>2, <2>3, <2>4, <2>5 DEF IInv
<1>3. CASE RxSteps
  <2>1. PICK pc \in RxPCs \ {"off"}, cause \in Causes :
             Rx(pc, cause) /\ (cause = "closed" => cancelled /\ pc # "stopping")
    BY <1>3, RxStep
  <2>2. rx \notin {"off", "stopped"} /\ stage = "connected"
    BY <1>3, <1>a, RxStep DEF PumpsCounted
  <2>3. /\ done => done'
        /\ failure' \in Causes \ {"closed"}
        /\ done' \in BOOLEAN
        /\ deadline' \in {deadline, "future"}
    BY <1>3, <1>a, RxStep DEF TypeOK, CausesOfClose, MarkDone
  <2>4. PumpsCounted'
    BY <2>1, <2>2, <1>a DEF PumpsCounted, Rx, TypeOK
  <2>5. TypeOK'
    <3>1. wg' \in 0..2
      BY <2>4 DEF PumpsCounted
    <3>2. QED
      BY <2>1, <2>3, <3>1, <1>a DEF TypeOK, Rx
  <2>6. Built' /\ UndoneSoFar'
    BY <2>1, <2>2, <2>3, <1>a DEF Built, UndoneSoFar, Rx
  <2>7. OneCloser'
    BY <2>1, <2>2, <2>3, <1>a DEF OneCloser, Rx, PumpsCounted, TypeOK
  <2>8. CausesOfClose'
    BY <2>1, <2>3, <1>a DEF CausesOfClose, Rx
  <2>9. QED
    BY <2>4, <2>5, <2>6, <2>7, <2>8 DEF IInv
<1>4. CASE TxSteps
  <2>1. PICK pc \in TxPCs \ {"off"}, cause \in Causes :
             Tx(pc, cause) /\ (cause = "closed" => cancelled /\ pc # "stopping")
    BY <1>4, TxStep
  <2>2. tx \notin {"off", "stopped"} /\ stage = "connected"
    BY <1>4, <1>a, TxStep DEF PumpsCounted
  <2>3. /\ done => done'
        /\ failure' \in Causes \ {"closed"}
        /\ done' \in BOOLEAN
    BY <1>4, <1>a, TxStep DEF TypeOK, CausesOfClose, MarkDone
  <2>4. PumpsCounted'
    BY <2>1, <2>2, <1>a DEF PumpsCounted, Tx, TypeOK
  <2>5. TypeOK'
    <3>1. wg' \in 0..2
      BY <2>4 DEF PumpsCounted
    <3>2. QED
      BY <2>1, <2>3, <3>1, <1>a DEF TypeOK, Tx
  <2>6. Built' /\ UndoneSoFar'
    BY <2>1, <2>2, <2>3, <1>a DEF Built, UndoneSoFar, Tx
  <2>7. OneCloser'
    BY <2>1, <2>2, <2>3, <1>a DEF OneCloser, Tx, PumpsCounted, TypeOK
  <2>8. CausesOfClose'
    BY <2>1, <2>3, <1>a DEF CausesOfClose, Tx
  <2>9. QED
    BY <2>4, <2>5, <2>6, <2>7, <2>8 DEF IInv
<1>5. ASSUME NEW k \in Closers, CloseCalled(k) \/ CloseAgain(k) \/ Closing(k)
      PROVE  IInv'
  <2> USE DEF CloseCalled, CloseAgain, Closing, CloseCancels, CloseWakes, CloseJoins, CloseReturns
  <2>1. TypeOK'
    BY <1>5, <1>a DEF TypeOK
  <2>2. PumpsCounted'
    BY <1>5, <1>a DEF PumpsCounted
  <2>3. stage = "connected" /\ cancelled \in BOOLEAN
    BY <1>5, <1>a DEF OneCloser, TypeOK
  <2>4. Built' /\ UndoneSoFar'
    BY <1>5, <2>3, <1>a DEF Built, UndoneSoFar, OneCloser
  <2>5. OneCloser'
    <3>1. CASE CloseCalled(k)
      BY <3>1, <2>3, <1>a DEF OneCloser, TypeOK
    <3>2. CASE CloseAgain(k)
      BY <3>2, <2>3, <1>a DEF OneCloser, TypeOK
    <3>3. CASE CloseCancels(k)
      BY <3>3, <2>3, <1>a DEF OneCloser, TypeOK
    <3>4. CASE CloseWakes(k)
      BY <3>4, <2>3, <1>a DEF OneCloser, TypeOK
    <3>5. CASE CloseJoins(k)
      BY <3>5, <2>3, <1>a DEF OneCloser, TypeOK
    <3>6. CASE CloseReturns(k)
      BY <3>6, <2>3, <1>a DEF OneCloser, TypeOK
    <3>7. QED
      BY <1>5, <3>1, <3>2, <3>3, <3>4, <3>5, <3>6
  <2>6. CausesOfClose'
    BY <1>5, <2>3, <1>a DEF CausesOfClose
  <2>7. QED
    BY <2>1, <2>2, <2>4, <2>5, <2>6 DEF IInv
<1>6. CASE UNCHANGED vars
  BY <1>6, <1>a DEF IInv, TypeOK, PumpsCounted, Built, UndoneSoFar, OneCloser, CausesOfClose
<1>7. QED
  BY <1>1, <1>2, <1>3, <1>4, <1>5, <1>6 DEF Next, Environment, RxSteps, TxSteps

\* The inductive invariant holds in every reachable state.
LEMMA Invariant == Spec => []IInv
  BY InitIInv, IInvStep, PTL DEF Spec

\* Every stage, program counter, resource and cause holds a value of its type, and
\* the wait group never counts below nought or above the two pumps.
THEOREM ConnectionTyped == Spec => []TypeOK
<1>1. IInv => TypeOK
  BY DEF IInv
<1>2. QED
  BY <1>1, Invariant, PTL

\* Wherever Connect fails, it returns with everything it built closed and Revert
\* called.
THEOREM ConnectUndoesItself == Spec => []FailedConnectLeavesNothing
<1>1. IInv => FailedConnectLeavesNothing
  BY DEF IInv, Built, UndoneSoFar, FailedConnectLeavesNothing
<1>2. QED
  BY <1>1, Invariant, PTL

\* However many goroutines call Close, none returns while anything of the
\* connection runs or is open.
THEOREM CloseWaitsForEverything == Spec => []CloseMeansStopped
<1>1. ASSUME IInv, NEW k \in Closers, closer[k] = "returned"
      PROVE  /\ rx = "stopped" /\ tx = "stopped"
             /\ link = "closed" /\ device = "closed"
             /\ net \notin {"partial", "applied"}
             /\ done
  <2>1. stage = "connected" /\ once = "done" /\ step = "over" /\ wg = 0
    BY <1>1 DEF IInv, OneCloser
  <2>2. rx = "stopped" /\ tx = "stopped"
    BY <1>1, <2>1 DEF IInv, PumpsCounted
  <2>3. QED
    BY <1>1, <2>1, <2>2 DEF IInv, TypeOK, UndoneSoFar
<1>2. IInv => CloseMeansStopped
  BY <1>1 DEF CloseMeansStopped
<1>3. QED
  BY <1>2, Invariant, PTL

\* The error of a read or a write that Close ended is never what Err reports, in whatever
\* order the two pumps and Close run.  That of SetReadDeadline on a link that Close has
\* closed may be: rx does not look at the context there (connection.go:355-358).
THEOREM CloseIsNotAFailure == Spec => []ShutdownIsNoFailure
<1>1. IInv => ShutdownIsNoFailure
  BY DEF IInv, CausesOfClose, ShutdownIsNoFailure
<1>2. QED
  BY <1>1, Invariant, PTL

-----------------------------------------------------------------------------
(* The object the daemon relies on *)

\* No layer is up without those below it.
Stacked ==
    /\ stage \in {"connected", "undoing"} /\ step \in {"none", "revert", "device", "link"} =>
          link = "open"
    /\ stage \in {"connected", "undoing"} /\ step \in {"none", "revert"} =>
          /\ device # "closed"
          /\ net \in {"partial", "applied"} => device = "open"
    /\ stage = "connected" /\ step \in {"none", "revert"} => net = "applied" /\ device = "open"

\* A pump that is about to close Done has something to report, and before anybody calls
\* Close that is a link or an interface that broke.
Reported ==
    /\ ~done => failure = "nil"
    /\ rx \in {"failed", "stopping"} => rxCause # "nil"
    /\ tx \in {"failed", "stopping"} => txCause # "nil"
    /\ rx \in {"failed", "stopping"} /\ rxCause = "unarmed" => once # "free"
    /\ txCause # "unarmed"

LEMMA ObjectInit == Init => Stacked /\ Reported
BY DEF Init, Stacked, Reported

LEMMA StackedStep == IInv /\ Stacked /\ [Next]_vars => Stacked'
<1> SUFFICES ASSUME IInv, Stacked, [Next]_vars PROVE Stacked'
  OBVIOUS
<1> USE DEF Stacked
<1>a. TypeOK /\ Built /\ OneCloser
  BY DEF IInv
<1>1. CASE Connecting
  BY <1>1, <1>a DEF Built, Connecting, Allocated, Dialed, Negotiated, DeviceCreated, Named,
     Applied, AllocationFails, StageFails, Undone
<1>2. CASE Teardown
  BY <1>2, <1>a DEF TypeOK, Teardown, RevertNet, CloseDevice, CloseLink, TornDown
<1>3. CASE RxSteps
  <2>1. PICK pc \in RxPCs, cause \in Causes : Rx(pc, cause)
    BY <1>3, RxStep
  <2>2. QED
    BY <2>1 DEF Rx
<1>4. CASE TxSteps
  <2>1. PICK pc \in TxPCs, cause \in Causes : Tx(pc, cause)
    BY <1>4, TxStep
  <2>2. QED
    BY <2>1 DEF Tx
<1>5. ASSUME NEW k \in Closers, CloseCalled(k) \/ CloseAgain(k) \/ Closing(k)
      PROVE  Stacked'
  BY <1>5, <1>a DEF OneCloser, CloseCalled, CloseAgain, Closing, CloseCancels, CloseWakes, CloseJoins,
     CloseReturns
<1>6. CASE UNCHANGED vars
  BY <1>6
<1>7. QED
  BY <1>1, <1>2, <1>3, <1>4, <1>5, <1>6 DEF Next, Environment, RxSteps, TxSteps

LEMMA ReportedStep == IInv /\ Reported /\ [Next]_vars => Reported'
<1> SUFFICES ASSUME IInv, Reported, [Next]_vars PROVE Reported'
  OBVIOUS
<1> USE DEF Reported
<1>a. TypeOK /\ PumpsCounted /\ UndoneSoFar /\ OneCloser
  BY DEF IInv
<1>1. CASE Connecting
  BY <1>1, <1>a DEF PumpsCounted, Connecting, Allocated, Dialed, Negotiated, DeviceCreated, Named,
     Applied, AllocationFails, StageFails, Undone
<1>2. CASE Teardown
  BY <1>2 DEF Teardown, RevertNet, CloseDevice, CloseLink, TornDown, MarkDone
<1>3. CASE RxRuns \/ Environment
  <2>1. CASE RxChecks \/ RxReadReleased \/ RxWrites \/ RxControlReleased \/ RxFailed \/ RxStops
    BY <2>1 DEF RxChecks, RxReadReleased, RxWrites, RxControlReleased, RxFailed, RxStops, Rx, MarkDone
  <2>2. CASE RxArms
    BY <2>2, <1>a DEF RxArms, Rx, PumpsCounted, UndoneSoFar, OneCloser
  <2>3. CASE Environment
    BY <2>3 DEF Environment, RxReceives, RxBreaks, RxControlled, TxReads, TxWrites, TxBreaks, Rx, Tx
  <2>4. QED
    BY <1>3, <2>1, <2>2, <2>3 DEF RxRuns
<1>4. CASE TxRuns
  BY <1>4 DEF TxRuns, TxChecks, TxReleased, TxFailed, TxStops, Tx, MarkDone
<1>5. ASSUME NEW k \in Closers, CloseCalled(k) \/ CloseAgain(k) \/ Closing(k)
      PROVE  Reported'
  BY <1>5 DEF CloseCalled, CloseAgain, Closing, CloseCancels, CloseWakes, CloseJoins, CloseReturns
<1>6. CASE UNCHANGED vars
  BY <1>6
<1>7. QED
  BY <1>1, <1>2, <1>3, <1>4, <1>5, <1>6 DEF Next

\* What the object sees of a pump: nothing, its end because Close has cancelled it, or
\* its end with something to report.
LEMMA PumpMoves ==
    ASSUME IInv, Reported, RxSteps \/ TxSteps
    PROVE  /\ stage = "connected" /\ once # "done" /\ wg \in 1..2
           /\ UNCHANGED <<stage, res, once, closer>>
           /\ \/ UNCHANGED <<wg, ends>>
              \/ cancelled /\ wg' = wg - 1 /\ UNCHANGED ends
              \/ \E cause \in {"broken", "unarmed"} :
                    wg' = wg - 1 /\ MarkDone(cause) /\ (cause = "unarmed" => once # "free")
<1>a. TypeOK /\ PumpsCounted /\ OneCloser /\ CausesOfClose
  BY DEF IInv
<1>1. rx \notin {"off", "stopped"} \/ tx \notin {"off", "stopped"}
  BY RxStep, TxStep
<1>2. stage = "connected" /\ wg \in 1..2
  BY <1>1, <1>a DEF PumpsCounted, TypeOK, RxPCs, TxPCs
<1>3. once # "done"
  BY <1>2, <1>a DEF OneCloser
<1>4. UNCHANGED <<stage, res, once, closer>>
  <2>1. \/ \E pc \in RxPCs, cause \in Causes : Rx(pc, cause)
        \/ \E pc \in TxPCs, cause \in Causes : Tx(pc, cause)
    BY RxStep, TxStep
  <2>2. QED
    BY <2>1 DEF Rx, Tx
<1>5. CASE RxStops
  <2>1. wg' = wg - 1 /\ MarkDone(rxCause)
    BY <1>5 DEF RxStops, Rx
  <2>2. rxCause \in {"broken", "unarmed"} /\ (rxCause = "unarmed" => once # "free")
    BY <1>5, <1>a DEF RxStops, Reported, CausesOfClose, TypeOK, Causes
  <2>3. QED
    BY <2>1, <2>2, <1>2, <1>3, <1>4
<1>6. CASE TxStops
  <2>1. wg' = wg - 1 /\ MarkDone(txCause)
    BY <1>6 DEF TxStops, Tx
  <2>2. txCause \in {"broken", "unarmed"} /\ (txCause = "unarmed" => once # "free")
    BY <1>6, <1>a DEF TxStops, Reported, CausesOfClose, TypeOK, Causes
  <2>3. QED
    BY <2>1, <2>2, <1>2, <1>3, <1>4
<1>7. CASE RxSteps /\ ~RxStops
  <2>1. PICK pc \in RxPCs, cause \in Causes :
            Rx(pc, cause) /\ (pc = "stopped" => cancelled) /\ UNCHANGED ends
    <3>1. CASE RxChecks \/ RxArms \/ RxFailed
      BY <3>1, <1>a DEF RxChecks, RxArms, RxFailed, TypeOK, RxPCs, Causes
    <3>2. CASE RxReadReleased \/ RxWrites \/ RxControlReleased \/ RxBreaks \/ RxControlled
      BY <3>2 DEF RxReadReleased, RxWrites, RxControlReleased, RxBreaks, RxControlled, RxPCs, Causes
    <3>3. ASSUME NEW pc \in {"write", "control", "check"}, RxReceives(pc)
          PROVE  Rx(pc, "nil") /\ UNCHANGED ends
      BY <3>3 DEF RxReceives
    <3>4. QED
      BY <1>7, <3>1, <3>2, <3>3 DEF RxSteps, RxRuns, RxPCs, Causes
  <2>2. QED
    BY <2>1, <1>2, <1>3, <1>4 DEF Rx
<1>8. CASE TxSteps /\ ~TxStops
  <2>1. PICK pc \in TxPCs, cause \in Causes :
            Tx(pc, cause) /\ (pc = "stopped" => cancelled) /\ UNCHANGED ends
    <3>1. CASE TxChecks \/ TxFailed
      BY <3>1, <1>a DEF TxChecks, TxFailed, TypeOK, TxPCs, Causes
    <3>2. CASE TxReleased \/ TxWrites \/ TxBreaks
      BY <3>2 DEF TxReleased, TxWrites, TxBreaks, TxPCs, Causes
    <3>3. ASSUME NEW pc \in {"write", "check"}, TxReads(pc)
          PROVE  Tx(pc, "nil") /\ UNCHANGED ends
      BY <3>3 DEF TxReads
    <3>4. QED
      BY <1>8, <3>1, <3>2, <3>3 DEF TxSteps, TxRuns, TxPCs, Causes
  <2>2. QED
    BY <2>1, <1>2, <1>3, <1>4 DEF Tx
<1>9. QED
  BY <1>5, <1>6, <1>7, <1>8

\* Every step of a connection is one of the object's, or cannot be seen.
LEMMA StepRefines ==
    IInv /\ IInv' /\ Stacked /\ Reported /\ [Next]_vars => [Object!Next]_Object!vars
<1> SUFFICES ASSUME IInv, IInv', Stacked, Reported, [Next]_vars
             PROVE  [Object!Next]_Object!vars
  OBVIOUS
<1> USE DEF Object!vars, absLife, absBuilt
<1>a. TypeOK /\ Built /\ OneCloser /\ PumpsCounted /\ UndoneSoFar
  BY DEF IInv
<1>1. CASE Connecting
  <2>a. once = "free"
    BY <1>1, <1>a DEF OneCloser, Built, Connecting, Allocated, Dialed, Negotiated,
       DeviceCreated, Named, Applied, AllocationFails, StageFails, Undone
  <2>1. CASE Allocated \/ Negotiated \/ Named
    BY <2>1 DEF Allocated, Negotiated, Named
  <2>2. CASE Dialed \/ DeviceCreated
    <3>1. Object!Builds
      BY <2>2, <1>a DEF Object!Builds, Built, Dialed, DeviceCreated
    <3>2. QED
      BY <3>1 DEF Object!Next
  <2>3. CASE Applied
    <3>1. Object!Opens
      BY <2>3, <1>a, <2>a DEF Object!Opens, Built, PumpsCounted, Applied
    <3>2. QED
      BY <3>1 DEF Object!Next
  <2>4. CASE AllocationFails
    <3>1. Object!Fails
      BY <2>4, <1>a DEF Object!Fails, Built, AllocationFails
    <3>2. QED
      BY <3>1 DEF Object!Next
  <2>5. CASE StageFails
    <3>1. Object!GivesUp
      BY <2>5, <1>a DEF Object!GivesUp, Built, StageFails
    <3>2. QED
      BY <3>1 DEF Object!Next
  <2>6. CASE Undone
    <3>1. Object!Fails
      BY <2>6, <1>a DEF Object!Fails, UndoneSoFar, Undone
    <3>2. QED
      BY <3>1 DEF Object!Next
  <2>7. QED
    BY <1>1, <2>1, <2>2, <2>3, <2>4, <2>5, <2>6 DEF Connecting
<1>2. CASE Teardown
  <2>a. stage = "undoing" \/ (stage = "connected" /\ once = "taken")
    BY <1>2, <1>a DEF TypeOK, Stages, Built, OneCloser, Teardown, RevertNet, CloseDevice, CloseLink, TornDown
  <2>1. CASE RevertNet \/ CloseDevice \/ CloseLink
    <3>1. Object!Undoes \/ UNCHANGED Object!vars
      BY <2>1, <2>a, <1>a DEF Object!Undoes, Stacked, TypeOK, UndoneSoFar, RevertNet, CloseDevice, CloseLink
    <3>2. QED
      BY <3>1 DEF Object!Next
  <2>2. CASE TornDown
    <3>1. Object!Ends \/ UNCHANGED Object!vars
      BY <2>2, <2>a, <1>a DEF Object!Ends, TypeOK, UndoneSoFar, Reported, TornDown, MarkDone
    <3>2. QED
      BY <3>1 DEF Object!Next
  <2>3. QED
    BY <1>2, <2>1, <2>2 DEF Teardown
<1>3. CASE RxSteps \/ TxSteps
  <2>1. /\ stage = "connected" /\ once # "done" /\ wg \in 1..2
        /\ UNCHANGED <<stage, res, once, closer>>
    BY <1>3, PumpMoves
  <2>2. CASE UNCHANGED <<wg, ends>>
    BY <2>1, <2>2
  <2>3. CASE cancelled /\ wg' = wg - 1 /\ UNCHANGED ends
    <3>1. Object!Stops
      BY <2>1, <2>3, <1>a DEF Object!Stops, OneCloser, TypeOK
    <3>2. QED
      BY <3>1 DEF Object!Next
  <2>4. ASSUME NEW cause \in {"broken", "unarmed"},
               wg' = wg - 1, MarkDone(cause), cause = "unarmed" => once # "free"
        PROVE  Object!Drops \/ Object!Stops
    BY <2>1, <2>4, <1>a DEF Object!Drops, Object!Stops, MarkDone, TypeOK
  <2>5. QED
    BY <1>3, <2>2, <2>3, <2>4, PumpMoves DEF Object!Next
<1>4. ASSUME NEW k \in Closers, CloseCalled(k) \/ CloseAgain(k) \/ Closing(k)
      PROVE  [Object!Next]_Object!vars
  <2>1. CASE CloseCalled(k)
    <3>1. Object!CloseBegins
      BY <2>1, <1>a DEF Object!CloseBegins, CloseCalled, TypeOK
    <3>2. QED
      BY <3>1 DEF Object!Next
  <2>2. CASE CloseAgain(k)
    <3>1. Object!CloseAgain(k)
      BY <2>2, <1>a DEF Object!CloseAgain, CloseAgain, TypeOK
    <3>2. QED
      BY <3>1 DEF Object!Next
  <2>3. CASE CloseCancels(k) \/ CloseWakes(k) \/ CloseJoins(k)
    BY <2>3, <1>a DEF CloseCancels, CloseWakes, CloseJoins, TypeOK
  <2>4. CASE CloseReturns(k)
    <3>1. stage = "connected" /\ once = "taken" /\ step = "over"
      BY <2>4, <1>a DEF OneCloser, CloseReturns, TypeOK
    <3>2. Object!CloseReturns(k)
      BY <2>4, <3>1, <1>a DEF Object!CloseReturns, CloseReturns, UndoneSoFar, TypeOK
    <3>3. QED
      BY <3>2 DEF Object!Next
  <2>5. QED
    BY <1>4, <2>1, <2>2, <2>3, <2>4 DEF Closing
<1>5. CASE UNCHANGED vars
  BY <1>5
<1>6. QED
  BY <1>1, <1>2, <1>3, <1>4, <1>5 DEF Next, Environment, RxSteps, TxSteps

\* A connection is the object that the daemon relies on, for any number of goroutines
\* that close it.
THEOREM ConnectionImplementsObject == Spec => ImplementsObject
<1>1. Init => Object!Init
  BY DEF Init, Object!Init, absLife, absBuilt
<1>2. IInv /\ Stacked /\ Reported /\ [Next]_vars => (IInv /\ Stacked /\ Reported)'
  BY IInvStep, StackedStep, ReportedStep
<1>3. QED
  BY <1>1, <1>2, InitIInv, ObjectInit, StepRefines, PTL DEF Spec, ImplementsObject, Object!Spec

-----------------------------------------------------------------------------
(* The packets *)

USE DEF stream, inbound, tunVars, dataVars, pathVars

\* What Read has returned and what is left of the batch, in one sequence.
Left == SubSeq(readBufs, readNext + 1, readCount)
Out  == handed \o Left

Ascending(s) == \A i, j \in DOMAIN s : i < j => s[i] < s[j]

\* s has the numbers up to e, but for those in d, once each and in order.
Lists(s, e, d) == Ascending(s) /\ {s[i] : i \in DOMAIN s} = (1..e) \ d

TunInv ==
    /\ TunTypeOK
    /\ readNext <= readCount
    /\ dropped \subseteq 1..emitted
    /\ Lists(Out, emitted, dropped)

USE BatchSizeIsPositive, MaxPacketsIsNat, MaxFramesIsNat

\* t is s, of length l, and then the n numbers after e.
CountsOn(t, s, l, n, e) ==
    /\ DOMAIN s = 1..l /\ DOMAIN t = 1..(l + n)
    /\ \A i \in 1..l : t[i] = s[i]
    /\ \A k \in 1..n : t[l + k] = e + k

\* Counting on from e after a sequence that has all numbers up to e but those in d.
LEMMA CountingOn ==
    ASSUME NEW s, NEW t, NEW l \in Nat, NEW n \in Nat, NEW e \in Nat, NEW d, d \subseteq 1..e,
           CountsOn(t, s, l, n, e),
           Lists(s, e, d)
    PROVE  Lists(t, e + n, d)
<1> USE DEF CountsOn
<1>0. Ascending(s) /\ {s[i] : i \in 1..l} = (1..e) \ d
  BY DEF Lists
<1>1. \A i \in 1..l : s[i] \in (1..e) \ d
  BY <1>0
<1>2. \A i \in 1..(l + n) : i \in 1..l \/ \E k \in 1..n : i = l + k
  <2>1. ASSUME NEW i \in 1..(l + n), i \notin 1..l PROVE i - l \in 1..n /\ i = l + (i - l)
    BY <2>1
  <2>2. QED
    BY <2>1
<1>3. Ascending(t)
  <2> SUFFICES ASSUME NEW i \in 1..(l + n), NEW j \in 1..(l + n), i < j PROVE t[i] < t[j]
    BY DEF Ascending
  <2>1. CASE j \in 1..l
    <3>1. i \in 1..l
      BY <2>1
    <3>2. t[i] = s[i] /\ t[j] = s[j]
      BY <2>1, <3>1
    <3>3. s[i] < s[j]
      BY <1>0, <2>1, <3>1 DEF Ascending
    <3>4. QED
      BY <3>2, <3>3
  <2>2. ASSUME NEW k \in 1..n, j = l + k PROVE t[i] < t[j]
    <3>1. t[j] = e + k
      BY <2>2
    <3>2. CASE i \in 1..l
      <4>1. t[i] \in 1..e
        BY <1>1, <3>2
      <4>2. QED
        BY <3>1, <4>1
    <3>3. ASSUME NEW m \in 1..n, i = l + m PROVE t[i] < t[j]
      <4>1. t[i] = e + m
        BY <3>3
      <4>2. m < k
        BY <2>2, <3>3
      <4>3. QED
        BY <3>1, <4>1, <4>2
    <3>4. QED
      BY <1>2, <3>2, <3>3
  <2>3. QED
    BY <1>2, <2>1, <2>2
<1>4. ASSUME NEW i \in 1..(l + n) PROVE t[i] \in (1..(e + n)) \ d
  <2>1. CASE i \in 1..l
    <3>1. t[i] \in (1..e) \ d
      BY <1>1, <2>1
    <3>2. QED
      BY <3>1
  <2>2. ASSUME NEW k \in 1..n, i = l + k PROVE t[i] \in (1..(e + n)) \ d
    <3>1. t[i] = e + k
      BY <2>2
    <3>2. e + k \in 1..(e + n) /\ e + k \notin 1..e
      OBVIOUS
    <3>3. QED
      BY <3>1, <3>2
  <2>3. QED
    BY <1>2, <2>1, <2>2
<1>5. ASSUME NEW p \in (1..(e + n)) \ d PROVE \E i \in 1..(l + n) : t[i] = p
  <2>1. CASE p \in 1..e
    <3>1. PICK i \in 1..l : s[i] = p
      BY <1>0, <2>1
    <3>2. i \in 1..(l + n) /\ t[i] = p
      BY <3>1
    <3>3. QED
      BY <3>2
  <2>2. CASE p \notin 1..e
    <3>1. p - e \in 1..n /\ e + (p - e) = p /\ l + (p - e) \in 1..(l + n)
      BY <2>2
    <3>2. t[l + (p - e)] = p
      BY <3>1
    <3>3. QED
      BY <3>1, <3>2
  <2>3. QED
    BY <2>1, <2>2
<1>6. {t[i] : i \in 1..(l + n)} = (1..(e + n)) \ d
  <2>1. {t[i] : i \in 1..(l + n)} \subseteq (1..(e + n)) \ d
    BY <1>4
  <2>2. (1..(e + n)) \ d \subseteq {t[i] : i \in 1..(l + n)}
    BY <1>5
  <2>3. QED
    BY <2>1, <2>2
<1>7. QED
  BY <1>3, <1>6 DEF Lists

\* What is put behind one packet comes behind all.
LEMMA PushedBack ==
    ASSUME NEW S, NEW s \in Seq(S), NEW e \in S, NEW r \in Seq(S)
    PROVE  Append(s, e) \o r = s \o (<<e>> \o r)
<1> DEFINE u == <<e>>
<1>1. u \in Seq(S)
  OBVIOUS
<1>2. Append(s, e) = s \o u
  BY AppendIsConcat
<1> HIDE DEF u
<1>3. (s \o u) \o r = s \o (u \o r)
  BY <1>1, ConcatAssociative
<1>4. Append(s, e) \o r = s \o (u \o r)
  BY <1>2, <1>3, Zenon
<1>5. QED
  BY <1>4, Zenon DEF u

\* What is left is a sequence of packets, one for each that has not been handed out.
LEMMA LeftType ==
    ASSUME TunInv
    PROVE  /\ Left \in Seq(1..MaxPackets)
           /\ Len(Left) = readCount - readNext
           /\ Drained => Left = <<>>
           /\ Out \in Seq(1..MaxPackets)
<1>1. /\ readBufs \in Seq(1..MaxPackets) /\ readNext \in Nat /\ Len(readBufs) \in Nat
      /\ handed \in Seq(1..MaxPackets) /\ readNext <= Len(readBufs)
  BY LenProperties DEF TunInv, TunTypeOK, readCount
<1>2. \A i \in readNext + 1 .. Len(readBufs) : readBufs[i] \in 1..MaxPackets
  BY <1>1, ElementOfSeq
<1>3. /\ Left \in Seq(1..MaxPackets)
      /\ Len(Left) = IF readNext + 1 <= Len(readBufs) THEN Len(readBufs) - (readNext + 1) + 1 ELSE 0
  BY <1>1, <1>2, SubSeqProperties DEF Left, readCount
<1>4. Drained => Left = <<>>
  BY <1>1, SubSeqEmpty DEF Drained, Left, readCount
<1>5. QED
  BY <1>1, <1>3, <1>4, ConcatProperties DEF Out, readCount

\* A packet of the batch is the next of what was still to come.
LEMMA ReadNextKeeps ==
    ASSUME TunInv, ReadNext
    PROVE  /\ Out' = Out
           /\ \E p \in 1..MaxPackets : handed' = Append(handed, p)
           /\ readNext' \in 0..BatchSize /\ readNext' <= readCount
<1> DEFINE p == readBufs[readNext + 1]
<1>1. /\ readBufs \in Seq(1..MaxPackets) /\ readNext \in Nat /\ Len(readBufs) \in Nat
      /\ handed \in Seq(1..MaxPackets) /\ readNext < Len(readBufs) /\ Len(readBufs) <= BatchSize
  BY LenProperties DEF TunInv, TunTypeOK, readCount, ReadNext, Drained
<1>2. p \in 1..MaxPackets
  BY <1>1, ElementOfSeq
<1>3. Left = <<p>> \o SubSeq(readBufs, readNext + 2, Len(readBufs))
  <2>1. readNext + 1 \in 1..Len(readBufs) /\ Len(readBufs) \in readNext + 1 .. Len(readBufs)
    BY <1>1
  <2>2. readNext + 1 + 1 = readNext + 2
    BY <1>1
  <2>3. QED
    BY <1>1, <2>1, <2>2, SubSeqRecursiveFirst DEF Left, readCount
<1>4. Left' = SubSeq(readBufs, readNext + 2, Len(readBufs))
  <2>1. readNext + 1 + 1 = readNext + 2
    BY <1>1
  <2>2. QED
    BY <2>1 DEF ReadNext, Left, readCount
<1>5. handed' = Append(handed, p)
  BY DEF ReadNext
<1>6. Left' \in Seq(1..MaxPackets)
  <2>1. \A i \in readNext + 2 .. Len(readBufs) : readBufs[i] \in 1..MaxPackets
    BY <1>1, ElementOfSeq
  <2>2. QED
    BY <1>1, <1>4, <2>1, SubSeqProperties
<1> HIDE DEF p
<1>7. Out' = handed \o (<<p>> \o Left')
  <2>1. handed \in Seq(1..MaxPackets)
    BY <1>1
  <2>2. Append(handed, p) \o Left' = handed \o (<<p>> \o Left')
    BY <2>1, <1>2, <1>6, PushedBack
  <2>3. QED
    BY <1>5, <2>2 DEF Out
<1>8. Out' = Out
  BY <1>3, <1>4, <1>7 DEF Out
<1>9. readNext' \in 0..BatchSize /\ readNext' <= readCount
  BY <1>1 DEF ReadNext, readCount
<1>10. QED
  BY <1>2, <1>5, <1>8, <1>9

\* A new batch comes behind everything that has been handed out.
LEMMA ReadBatchExtends ==
    ASSUME TunInv, NEW n \in 1..BatchSize, ReadBatch(n)
    PROVE  TunInv' /\ \E p \in 1..MaxPackets : handed' = Append(handed, p)
<1> DEFINE batch == [k \in 1..n |-> emitted + k]
<1>1. /\ handed \in Seq(1..MaxPackets) /\ emitted \in Nat /\ emitted' = emitted + n
      /\ emitted' \in 0..MaxPackets /\ n \in Nat \ {0} /\ n <= BatchSize
      /\ readBufs' = batch /\ readNext' = 1 /\ dropped' = dropped
      /\ handed' = Append(handed, emitted + 1)
  BY DEF TunInv, TunTypeOK, ReadBatch, Emits
<1>2. batch \in Seq(1..MaxPackets) /\ Len(batch) = n
  BY <1>1
<1>3. emitted + 1 \in 1..MaxPackets
  BY <1>1
<1>4. Out = handed
  BY <1>1, LeftType, ConcatEmptySeq DEF Out, ReadBatch
<1>5. Out' = handed \o batch
  <2>1. batch = <<emitted + 1>> \o SubSeq(batch, 2, n)
    <3>1. 1 \in 1..Len(batch) /\ n \in 1..Len(batch) /\ 1 + 1 = 2 /\ batch[1] = emitted + 1
      BY <1>1, <1>2
    <3>2. SubSeq(batch, 1, n) = batch
      BY <1>2, SubSeqFull
    <3>3. QED
      BY <1>2, <3>1, <3>2, SubSeqRecursiveFirst
  <2>2. Left' = SubSeq(batch, 2, n)
    BY <1>1, <1>2 DEF Left, readCount
  <2>3. Left' \in Seq(1..MaxPackets)
    <3>1. \A i \in 2..n : batch[i] \in 1..MaxPackets
      BY <1>1
    <3>2. QED
      BY <1>1, <2>2, <3>1, SubSeqProperties
  <2>4. Append(handed, emitted + 1) \o Left' = handed \o (<<emitted + 1>> \o Left')
    BY <1>1, <1>3, <2>3, PushedBack
  <2>5. QED
    BY <1>1, <2>1, <2>2, <2>4 DEF Out
<1>6. /\ Len(handed) \in Nat /\ DOMAIN handed = 1..Len(handed)
      /\ DOMAIN Out' = 1..(Len(handed) + n)
      /\ \A i \in 1..Len(handed) : Out'[i] = handed[i]
      /\ \A k \in 1..n : Out'[Len(handed) + k] = emitted + k
  <2>1. /\ handed \o batch \in Seq(1..MaxPackets)
        /\ Len(handed \o batch) = Len(handed) + n
        /\ \A i \in 1 .. Len(handed) + n : (handed \o batch)[i] =
                     IF i <= Len(handed) THEN handed[i] ELSE batch[i - Len(handed)]
    BY <1>1, <1>2, ConcatProperties
  <2>2. /\ Len(handed) \in Nat /\ DOMAIN handed = 1..Len(handed)
        /\ DOMAIN (handed \o batch) = 1..(Len(handed) + n)
    BY <1>1, <2>1, LenProperties
  <2>3. \A i \in 1..Len(handed) : (handed \o batch)[i] = handed[i]
    BY <1>1, <2>1, <2>2
  <2>4. ASSUME NEW k \in 1..n PROVE (handed \o batch)[Len(handed) + k] = batch[k]
    <3>1. /\ Len(handed) + k \in 1..Len(handed) + n /\ ~(Len(handed) + k <= Len(handed))
          /\ (Len(handed) + k) - Len(handed) = k
      BY <1>1, <2>2
    <3>2. QED
      BY <2>1, <3>1
  <2>5. \A k \in 1..n : (handed \o batch)[Len(handed) + k] = emitted + k
    BY <2>4
  <2>6. QED
    BY <1>5, <2>2, <2>3, <2>5
<1>7. Lists(handed, emitted, dropped) /\ dropped \subseteq 1..emitted
  BY <1>4 DEF TunInv
<1>8. Lists(Out', emitted + n, dropped)
  <2>1. n \in Nat /\ emitted \in Nat
    BY <1>1
  <2>2. Len(handed) \in Nat
    BY <1>6
  <2>3. CountsOn(Out', handed, Len(handed), n, emitted)
    BY <1>6 DEF CountsOn
  <2>4. QED
    BY <1>7, <2>1, <2>2, <2>3, CountingOn
<1>9. Lists(Out, emitted, dropped)'
  BY <1>1, <1>8
<1>10. TunTypeOK' /\ readNext' <= readCount' /\ dropped' \subseteq 1..emitted'
  <2>1. handed' \in Seq(1..MaxPackets)
    BY <1>1, <1>3, AppendProperties
  <2>2. QED
    BY <1>1, <1>2, <2>1 DEF TunInv, TunTypeOK, readCount
<1>11. QED
  BY <1>1, <1>3, <1>9, <1>10 DEF TunInv

\* A sequence that starts like another still does when the other grows, ...
LEMMA PrefixStays ==
    ASSUME NEW S, NEW s \in Seq(S), NEW t \in Seq(S), NEW e \in S,
           Len(s) <= Len(t), s = SubSeq(t, 1, Len(s))
    PROVE  s = SubSeq(Append(t, e), 1, Len(s))
<1> DEFINE u == Append(t, e)
<1>1. /\ Len(s) \in Nat /\ Len(t) \in Nat
      /\ u \in Seq(S) /\ \A i \in 1..Len(t) : u[i] = t[i] /\ t[i] \in S
  BY AppendProperties, LenProperties, ElementOfSeq
<1> HIDE DEF u
<1>2. \A i \in 1..Len(s) : s[i] = t[i]
  BY <1>1, SubSeqProperties
<1>3. \A i \in 1..Len(s) : u[i] \in S /\ u[i] = s[i]
  BY <1>1, <1>2
<1> DEFINE v == SubSeq(u, 1, Len(s))
<1>4. v \in Seq(S) /\ Len(v) = Len(s) /\ \A i \in 1..Len(s) : v[i] = s[i]
  <2>1. /\ SubSeq(u, 1, Len(s)) \in Seq(S)
        /\ Len(SubSeq(u, 1, Len(s))) = IF 1 <= Len(s) THEN Len(s) - 1 + 1 ELSE 0
        /\ \A i \in 1..Len(s) - 1 + 1 : SubSeq(u, 1, Len(s))[i] = u[1 + i - 1]
    BY <1>1, <1>3, SubSeqProperties
  <2>2. QED
    BY <1>1, <1>3, <2>1
<1> HIDE DEF v
<1>5. s = v
  BY <1>1, <1>4, SeqEqual
<1>6. QED
  BY <1>5 DEF v, u

\* ... and one that is an element short catches up with that element.
LEMMA PrefixCatchesUp ==
    ASSUME NEW S, NEW s \in Seq(S), NEW t \in Seq(S),
           Len(t) = Len(s) + 1, s = SubSeq(t, 1, Len(s))
    PROVE  /\ t[Len(t)] \in S
           /\ Append(s, t[Len(t)]) = SubSeq(t, 1, Len(Append(s, t[Len(t)])))
<1>1. Len(s) \in Nat /\ Len(t) \in 1..Len(t) /\ 1 \in 1..Len(t) /\ Len(t) - 1 = Len(s)
  BY LenProperties
<1>2. t[Len(t)] \in S
  BY <1>1, ElementOfSeq
<1>3. SubSeq(t, 1, Len(t)) = SubSeq(t, 1, Len(t) - 1) \o <<t[Len(t)]>>
  BY <1>1, SubSeqRecursiveSecond
<1>4. Append(s, t[Len(t)]) = s \o <<t[Len(t)]>>
  BY <1>2, AppendIsConcat
<1>5. Len(Append(s, t[Len(t)])) = Len(t)
  BY <1>1, <1>2, AppendProperties
<1>6. QED
  BY <1>1, <1>2, <1>3, <1>4, <1>5

-----------------------------------------------------------------------------
(* The connection with its data path *)

\* Every step of the data path is one of the connection's.
LEMMA PathStepIsStep == [PathNext]_pathVars => [Next]_vars
<1>1. CASE ConnectingD \/ TeardownD
  BY <1>1 DEF ConnectingD, TeardownD, NegotiatedOver, NegotiationRefused, Undisturbed, Next,
              Connecting
<1>2. CASE RxRunsD \/ TxRunsD
  BY <1>2 DEF RxRunsD, TxRunsD, RxDelivers, TxReleasedEmpty, TxTakes, Undisturbed, Next,
              RxRuns, TxRuns, Environment
<1>3. CASE EnvironmentD
  BY <1>3 DEF EnvironmentD, RxTakesData, RxTakesOther, TxTakes, TxFindsNothing, TxSends,
              Undisturbed, Next, Environment
<1>4. ASSUME NEW k \in Closers, Undisturbed(CloseCalled(k) \/ CloseAgain(k)) \/ ClosingD(k)
      PROVE  Next
  BY <1>4 DEF ClosingD, Undisturbed, Next
<1>5. CASE UNCHANGED pathVars
  BY <1>5
<1>6. QED
  BY <1>1, <1>2, <1>3, <1>4, <1>5 DEF PathNext

\* What the pumps carry changes nothing of how they run: the data path is a
\* connection, so every theorem about Connection holds of it.
THEOREM PathRunsConnection == PathSpec => Spec
<1>1. PathInit => Init
  BY DEF PathInit
<1>2. QED
  BY <1>1, PathStepIsStep, PTL DEF PathSpec, Spec

\* What tx has sent of what Read has handed out, and what it has in hand.
OutInv ==
    /\ sent \in Seq(1..MaxPackets)
    /\ Len(handed) \in {Len(sent), Len(sent) + 1}
    /\ sent = SubSeq(handed, 1, Len(sent))
    /\ tx \in {"off", "check", "read"} => Len(handed) = Len(sent)
    /\ tx = "write" => Len(handed) = Len(sent) + 1

\* What rx has delivered of what the gateway sent, and what it has in hand.
InInv ==
    /\ data \in Seq(1..MaxFrames) /\ delivered \in Seq(1..MaxFrames)
    /\ Len(data) \in {Len(delivered), Len(delivered) + 1}
    /\ delivered = SubSeq(data, 1, Len(delivered))
    /\ rx \in {"off", "check", "arm", "read", "control"} => Len(data) = Len(delivered)
    /\ rx = "write" => Len(data) = Len(delivered) + 1 /\ inHand = data[Len(data)]

Untunnelled == {"allocating", "dialing", "negotiating"}

\* Every datagram is of one of the first n frames, each of a later one than the last.
Datagrams(d, n) ==
    /\ \A i \in DOMAIN d : d[i] <= n
    /\ \A i, j \in DOMAIN d : i < j => d[i] < d[j]

\* A stream that nobody has read, and one with the head and the first n frames off it.
Fresh     == /\ \E g \in Greetings : wire = g \o Frames(MaxFrames)
             /\ headerChecked = FALSE /\ packets = <<>>
Framed(n) == headerChecked = TRUE /\ packets = [i \in 1..n |-> i] /\ wire = Frames(MaxFrames - n)

\* What ReadPacket has taken off the stream.
StreamInv ==
    /\ packets \in Seq(1..MaxFrames) /\ packets = [i \in 1..Len(packets) |-> i]
    /\ Datagrams(data, Len(packets))
    /\ stage \in Untunnelled => Fresh
    /\ stage \in Tunnelled => Framed(Len(packets)) /\ refused = FALSE /\ packets # <<>>

PathInv == IInv /\ TunInv /\ OutInv /\ InInv /\ StreamInv

\* A step that leaves the packets where they are, and the pumps as far from them.
Quiet ==
    /\ UNCHANGED dataVars
    /\ tx' \in {"off", "check", "read"} => tx \in {"off", "check", "read"}
    /\ tx' = "write" => tx = "write"
    /\ rx' \in {"off", "check", "arm", "read", "control"} =>
          rx \in {"off", "check", "arm", "read", "control"}
    /\ rx' = "write" => rx = "write"
    /\ stage' \in Untunnelled => stage \in Untunnelled
    /\ stage' \in Tunnelled => stage \in Tunnelled

\* Which steps move a packet.
LEMMA PathSteps ==
    ASSUME IInv, [PathNext]_pathVars
    PROVE  \/ Quiet
           \/ NegotiatedOver \/ NegotiationRefused \/ RxTakesData \/ RxDelivers
           \/ \E pc \in {"control", "check"} : RxTakesOther(pc)
           \/ TxTakes \/ TxFindsNothing \/ TxSends
<1> USE DEF Undisturbed, Untunnelled, Tunnelled
<1>1. ASSUME Undisturbed(Allocated \/ Dialed \/ DeviceCreated \/ Named \/ Applied
                         \/ AllocationFails \/ StageFails \/ Undone)
      PROVE  Quiet
  BY <1>1 DEF IInv, PumpsCounted, Quiet, Allocated, Dialed, DeviceCreated, Named, Applied,
              AllocationFails, StageFails, Undone
<1>2. ASSUME TeardownD PROVE Quiet
  BY <1>2 DEF Quiet, TeardownD, Teardown, RevertNet, CloseDevice, CloseLink, TornDown
<1>3. ASSUME NEW k \in Closers, Undisturbed(CloseCalled(k) \/ CloseAgain(k)) \/ ClosingD(k)
      PROVE  Quiet
  BY <1>3 DEF Quiet, ClosingD, CloseCalled, CloseAgain, Closing, CloseCancels, CloseWakes,
              CloseJoins, CloseReturns
<1>4. ASSUME Undisturbed(RxChecks \/ RxArms \/ RxReadReleased \/ RxControlReleased \/ RxFailed
                         \/ RxStops)
      PROVE  Quiet
  BY <1>4 DEF Quiet, RxChecks, RxArms, RxReadReleased, RxControlReleased, RxFailed, RxStops, Rx
<1>5. ASSUME Undisturbed(TxChecks \/ TxFailed \/ TxStops) \/ TxReleasedEmpty
      PROVE  Quiet
  BY <1>5 DEF Quiet, TxChecks, TxFailed, TxStops, TxReleasedEmpty, TxReleased, Tx
<1>6. ASSUME Undisturbed(RxBreaks \/ RxControlled \/ TxBreaks)
      PROVE  Quiet
  BY <1>6 DEF Quiet, RxBreaks, RxControlled, TxBreaks, Rx, Tx
<1>7. CASE UNCHANGED pathVars
  BY <1>7 DEF Quiet
<1>8. QED
  BY <1>1, <1>2, <1>3, <1>4, <1>5, <1>6, <1>7
  DEF PathNext, ConnectingD, RxRunsD, TxRunsD, EnvironmentD

\* The invariant of the data path holds when Connect is called, ...
LEMMA PathInitInv == PathInit => PathInv
<1> SUFFICES ASSUME PathInit PROVE PathInv
  OBVIOUS
<1>1. IInv
  BY InitIInv DEF PathInit
<1>2. /\ emitted = 0 /\ readBufs = <<>> /\ readNext = 0 /\ dropped = {} /\ handed = <<>>
      /\ packets = <<>> /\ data = <<>> /\ delivered = <<>> /\ sent = <<>>
      /\ stage = "allocating" /\ rx = "off" /\ tx = "off"
  BY DEF PathInit, TunInit, Init
<1>3. TunInv
  <2>1. Out = <<>>
    BY <1>2 DEF Out, Left, readCount
  <2>2. Lists(Out, emitted, dropped)
    BY <1>2, <2>1 DEF Lists, Ascending
  <2>3. QED
    BY <1>2, <2>2 DEF TunInv, TunTypeOK, readCount
<1>4. OutInv /\ InInv
  BY <1>2 DEF OutInv, InInv
<1>5. StreamInv
  <2>1. packets \in Seq(1..MaxFrames) /\ packets = [i \in 1..Len(packets) |-> i]
    BY <1>2
  <2>2. Fresh
    BY DEF PathInit, Fresh
  <2>3. Datagrams(data, Len(packets))
    BY <1>2 DEF Datagrams
  <2>4. stage \notin Tunnelled
    BY <1>2 DEF Tunnelled
  <2>5. QED
    BY <2>1, <2>2, <2>3, <2>4 DEF StreamInv
<1>6. QED
  BY <1>1, <1>3, <1>4, <1>5 DEF PathInv

\* A sequence of frames is what is left after one of them, ...
LEMMA FrameOff ==
    ASSUME NEW n \in Nat \ {0}
    PROVE  /\ Frames(n) \in Seq({"frame"}) /\ Len(Frames(n)) = n /\ Frames(n)[1] = "frame"
           /\ SubSeq(Frames(n), 2, Len(Frames(n))) = Frames(n - 1)
<1> DEFINE s == SubSeq(Frames(n), 2, n)
<1>1. Frames(n) \in Seq({"frame"}) /\ Len(Frames(n)) = n /\ Frames(n)[1] = "frame"
  BY DEF Frames
<1>2. \A i \in 2..n : Frames(n)[i] \in {"frame"}
  BY DEF Frames
<1>3. /\ s \in Seq({"frame"}) /\ Len(s) = IF 2 <= n THEN n - 2 + 1 ELSE 0
  BY <1>1, <1>2, SubSeqProperties
<1>4. /\ Frames(n - 1) \in Seq({"frame"}) /\ Len(Frames(n - 1)) = n - 1
      /\ \A i \in 1..n - 1 : Frames(n - 1)[i] = "frame"
  BY DEF Frames
<1>5. Len(s) = Len(Frames(n - 1))
  BY <1>3, <1>4
<1>6. \A i \in 1..Len(s) : s[i] = "frame"
  BY <1>3, ElementOfSeq
<1> HIDE DEF s
<1>7. \A i \in 1..Len(s) : s[i] = Frames(n - 1)[i]
  BY <1>3, <1>4, <1>5, <1>6
<1>8. s = Frames(n - 1)
  BY <1>3, <1>4, <1>5, <1>7, SeqEqual
<1>9. QED
  BY <1>1, <1>8 DEF s

\* ... the first empty line behind a head is the head's own, ...
LEMMA HeadEnds ==
    ASSUME NEW g, IsHead(g), wire = g \o Frames(MaxFrames)
    PROVE  /\ HasResponse /\ Len(g) \in Nat \ {0}
           /\ Min(EmptyLines) = Len(g)
<1> DEFINE items == Lines \union {"frame"}
           l     == Len(g)
<1>1. /\ g \in Seq(items) /\ l \in Nat /\ l >= 2 /\ g[1] \in StatusLines /\ g[l] = "blank"
      /\ \A i \in 2..l - 1 : g[i] = "field"
  <2>1. g \in Seq(Lines) /\ Lines \subseteq items
    BY DEF IsHead
  <2>2. g \in Seq(items)
    BY <2>1, SeqMonotonic
  <2>3. QED
    BY <2>1, <2>2, LenProperties DEF IsHead
<1> DEFINE f == Frames(MaxFrames)
<1>2. f \in Seq(items) /\ Len(f) = MaxFrames /\ wire = g \o f
  BY DEF Frames
<1> HIDE DEF l, items, f
<1>3. /\ wire \in Seq(items) /\ Len(wire) = l + MaxFrames
      /\ \A i \in 1 .. l + MaxFrames : i <= l => wire[i] = g[i]
  <2>1. /\ g \o f \in Seq(items) /\ Len(g \o f) = Len(g) + Len(f)
        /\ \A i \in 1 .. Len(g) + Len(f) :
              (g \o f)[i] = IF i <= Len(g) THEN g[i] ELSE f[i - Len(g)]
    BY <1>1, <1>2, ConcatProperties
  <2>2. QED
    BY <1>2, <2>1 DEF l
<1>4. DOMAIN wire = 1 .. l + MaxFrames
  BY <1>1, <1>3, LenProperties
<1>5. \A i \in 1..l : i \in DOMAIN wire /\ wire[i] = g[i]
  BY <1>1, <1>3, <1>4
<1>6. wire[1] \in StatusLines /\ wire[l] = "blank" /\ l \in DOMAIN wire
  BY <1>1, <1>5
<1>7. wire # <<>>
  BY <1>1, <1>3
<1>8. \A i \in EmptyLines : l <= i
  <2> SUFFICES ASSUME NEW i \in 1 .. l + MaxFrames, wire[i] \in {"blank", "frame"}, i < l
               PROVE  FALSE
    BY <1>1, <1>4 DEF EmptyLines
  <2>1. wire[i] = g[i] /\ (i = 1 \/ i \in 2..l - 1)
    BY <1>1, <1>5
  <2>2. wire[i] \in StatusLines \/ wire[i] = "field"
    BY <1>1, <2>1
  <2>3. QED
    BY <2>2 DEF StatusLines
<1>9. l \in EmptyLines /\ EmptyLines \subseteq Nat
  BY <1>4, <1>6 DEF EmptyLines
<1>10. Min(EmptyLines) = l
  <2>1. \A i \in EmptyLines : (\A j \in EmptyLines : i <= j) => i = l
    BY <1>1, <1>8, <1>9
  <2>2. QED
    BY <1>8, <1>9, <2>1 DEF Min
<1>11. QED
  BY <1>1, <1>6, <1>7, <1>10 DEF HasResponse, l

\* ... and behind it come the frames, ...
LEMMA BehindHead ==
    ASSUME NEW S, NEW g \in Seq(S), NEW f \in Seq(S), Len(f) # 0
    PROVE  SubSeq(g \o f, Len(g) + 1 + 1, Len(g \o f)) = SubSeq(f, 2, Len(f))
<1> DEFINE l == Len(g)
           m == Len(f)
           w == g \o f
           u == SubSeq(w, l + 1 + 1, Len(w))
           v == SubSeq(f, 2, m)
<1>1. l \in Nat /\ m \in Nat \ {0}
  BY LenProperties
<1>2. /\ w \in Seq(S) /\ Len(w) = l + m
      /\ \A i \in 1 .. l + m : w[i] = IF i <= l THEN g[i] ELSE f[i - l]
  BY ConcatProperties
<1> HIDE DEF w, l, m
<1>3. \A i \in l + 1 + 1 .. l + m : w[i] \in S
  BY <1>1, <1>2, ElementOfSeq
<1>4. \A i \in 2..m : f[i] \in S
  BY <1>1, ElementOfSeq DEF m
<1>5. /\ u \in Seq(S)
      /\ Len(u) = IF l + 1 + 1 <= l + m THEN l + m - (l + 1 + 1) + 1 ELSE 0
      /\ \A i \in 1 .. l + m - (l + 1 + 1) + 1 : u[i] = w[l + 1 + 1 + i - 1]
  BY <1>1, <1>2, <1>3, SubSeqProperties
<1>6. /\ v \in Seq(S) /\ Len(v) = IF 2 <= m THEN m - 2 + 1 ELSE 0
      /\ \A i \in 1 .. m - 2 + 1 : v[i] = f[2 + i - 1]
  BY <1>1, <1>4, SubSeqProperties DEF m
<1> HIDE DEF u, v
<1>7. Len(u) = m - 1 /\ Len(v) = m - 1
  BY <1>1, <1>5, <1>6
<1>8. ASSUME NEW i \in 1..m - 1 PROVE u[i] = v[i]
  <2>1. u[i] = w[l + 1 + i] /\ v[i] = f[1 + i]
    BY <1>1, <1>5, <1>6
  <2>2. l + 1 + i \in 1 .. l + m /\ ~(l + 1 + i <= l) /\ l + 1 + i - l = 1 + i
    BY <1>1
  <2> DEFINE k == l + 1 + i
  <2>3. k \in 1 .. l + m /\ ~(k <= l) /\ k - l = 1 + i
    BY <1>1, <2>2
  <2> HIDE DEF k
  <2>4. w[k] = f[k - l]
    BY <1>2, <2>3
  <2>5. QED
    BY <2>1, <2>3, <2>4 DEF k
<1>9. u = v
  BY <1>5, <1>6, <1>7, <1>8, SeqEqual
<1>10. QED
  BY <1>9 DEF u, v, w, l, m

\* ... and so frames come off a stream one at a time, the first from behind the
\* response if there is one.
LEMMA FramesCount ==
    ASSUME StreamInv, stage \in Untunnelled \union Tunnelled, ReadPacket
    PROVE  /\ Len(packets) + 1 \in 1..MaxFrames
           /\ packets' = Append(packets, Len(packets) + 1)
           /\ Framed(Len(packets))' /\ refused' = FALSE /\ packets' # <<>>
           /\ packets' \in Seq(1..MaxFrames) /\ Len(packets') = Len(packets) + 1
           /\ packets'[Len(packets')] = Len(packets) + 1
           /\ packets' = [i \in 1..Len(packets') |-> i]
<1> DEFINE n == Len(packets)
<1>1. n \in Nat /\ packets \in Seq(1..MaxFrames) /\ packets = [i \in 1..n |-> i]
  BY LenProperties DEF StreamInv
<1>a. /\ stage \in Tunnelled => headerChecked = TRUE /\ wire = Frames(MaxFrames - n)
      /\ stage \in Untunnelled => Fresh /\ n = 0
  BY DEF StreamInv, Framed, Fresh
<1>b. n <= MaxFrames
  BY <1>1, ElementOfSeq
<1> HIDE DEF n
<1>2. /\ n + 1 <= MaxFrames /\ wire' = Frames(MaxFrames - n - 1)
      /\ refused' = FALSE
  <2>1. CASE stage \in Tunnelled
    <3>1. headerChecked = TRUE /\ wire = Frames(MaxFrames - n)
      BY <1>a, <2>1
    <3>2. ResponseLines = 0
      BY <3>1 DEF ResponseLines
    <3>3. Frames(0) = <<>>
      BY DEF Frames
    <3>4. MaxFrames - n # 0
      BY <3>1, <3>3 DEF ReadPacket
    <3>9. MaxFrames - n \in Nat \ {0}
      BY <1>1, <1>b, <3>4
    <3>5. wire' = SubSeq(wire, 2, Len(wire))
      BY <3>2 DEF ReadPacket, After
    <3>6. wire' = Frames(MaxFrames - n - 1)
      BY <3>1, <3>5, <3>9, FrameOff
    <3>7. refused' = FALSE
      BY <3>1 DEF ReadPacket
    <3>8. QED
      BY <1>1, <3>9, <3>6, <3>7
  <2>2. CASE stage \in Untunnelled
    <3>1. headerChecked = FALSE /\ packets = <<>> /\ n = 0
      BY <1>a, <2>2 DEF Fresh
    <3>2. PICK g \in Greetings : wire = g \o Frames(MaxFrames)
      BY <1>a, <2>2 DEF Fresh
    <3>3. CASE g = <<>>
      <4>1. Frames(MaxFrames) \in Seq({"frame"}) /\ Len(Frames(MaxFrames)) = MaxFrames
        BY DEF Frames
      <4>2. wire = Frames(MaxFrames)
        BY <3>2, <3>3, <4>1, ConcatEmptySeq
      <4>3. MaxFrames # 0
        BY <4>2 DEF ReadPacket, Frames
      <4>4. wire[1] = "frame" /\ SubSeq(wire, 2, Len(wire)) = Frames(MaxFrames - 1)
        BY <4>2, <4>3, FrameOff
      <4>5. ResponseLines = 0
        BY <4>4 DEF ResponseLines, HasResponse, StatusLines
      <4>6. wire' = Frames(MaxFrames - 1)
        BY <4>4, <4>5 DEF ReadPacket, After
      <4>7. refused' = FALSE
        BY <4>4 DEF ReadPacket
      <4>8. QED
        BY <3>1, <4>3, <4>6, <4>7
    <3>4. CASE IsHead(g)
      <4> DEFINE l == Len(g)
      <4>1. HasResponse /\ l \in Nat \ {0} /\ ResponseLines = l
        BY <3>1, <3>2, <3>4, HeadEnds DEF ResponseLines
      <4>2. wire[1] = "200" /\ refused' = FALSE
        BY <3>1, <4>1 DEF ReadPacket, StatusIsOK
      <4>3. g \in Seq(Lines \union {"frame"})
        <5>1. g \in Seq(Lines) /\ Lines \subseteq Lines \union {"frame"}
          BY <3>4 DEF IsHead
        <5>2. QED
          BY <5>1, SeqMonotonic
      <4>4. Frames(MaxFrames) \in Seq(Lines \union {"frame"}) /\ Len(Frames(MaxFrames)) = MaxFrames
        BY DEF Frames
      <4>5. Len(wire) = l + MaxFrames /\ wire \in Seq(Lines \union {"frame"})
        BY <3>2, <4>3, <4>4, ConcatProperties
      <4>6. l + 1 \in DOMAIN wire /\ wire' = SubSeq(wire, l + 1 + 1, Len(wire))
        BY <4>1 DEF ReadPacket, After
      <4>7. MaxFrames # 0
        BY <4>1, <4>5, <4>6, LenProperties
      <4>8. SubSeq(wire, l + 1 + 1, Len(wire)) = SubSeq(Frames(MaxFrames), 2, MaxFrames)
        BY <3>2, <4>1, <4>3, <4>4, <4>5, <4>7, BehindHead
      <4>9. SubSeq(Frames(MaxFrames), 2, MaxFrames) = Frames(MaxFrames - 1)
        BY <4>4, <4>7, FrameOff
      <4>10. wire' = Frames(MaxFrames - 1)
        BY <4>6, <4>8, <4>9, Zenon
      <4>11. QED
        BY <3>1, <4>2, <4>7, <4>10
    <3>5. QED
      BY <3>2, <3>3, <3>4, GreetingsAreHeads
  <2>3. QED
    BY <2>1, <2>2
<1>3. Len(wire') = MaxFrames - n - 1
  BY <1>1, <1>2 DEF Frames
<1>4. packets' = Append(packets, n + 1) /\ headerChecked' = TRUE
  BY <1>1, <1>2, <1>3 DEF ReadPacket
<1>5. n + 1 \in 1..MaxFrames
  BY <1>1, <1>2
<1>6. /\ packets' \in Seq(1..MaxFrames) /\ Len(packets') = n + 1
      /\ packets'[n + 1] = n + 1 /\ \A i \in 1..n : packets'[i] = packets[i]
  BY <1>1, <1>4, <1>5, AppendProperties
<1>7. packets' = [i \in 1..n + 1 |-> i]
  <2>1. DOMAIN packets' = 1..n + 1 /\ packets' = [i \in DOMAIN packets' |-> packets'[i]]
    BY <1>1, <1>4
  <2>2. \A i \in 1..n + 1 : packets'[i] = i
    BY <1>1, <1>6
  <2>3. QED
    BY <2>1, <2>2
<1>8. MaxFrames - n - 1 = MaxFrames - (n + 1)
  BY <1>1
<1>9. Framed(Len(packets))'
  <2>1. wire' = Frames(MaxFrames - Len(packets'))
    BY <1>2, <1>6, <1>8
  <2>2. packets' = [i \in 1..Len(packets') |-> i]
    BY <1>6, <1>7
  <2>3. QED
    BY <1>4, <2>1, <2>2 DEF Framed
<1>10. packets' # <<>>
  BY <1>1, <1>6
<1>11. packets' = [i \in 1..Len(packets') |-> i] /\ packets'[Len(packets')] = n + 1
  BY <1>6, <1>7
<1>12. QED
  BY <1>2, <1>4, <1>5, <1>6, <1>9, <1>10, <1>11 DEF n

\* A step that reads a frame of a stream keeps the rest of the invariant when the
\* datagrams stay, or get the frame behind them.
LEMMA StreamStays ==
    ASSUME StreamInv, stage \in Untunnelled \union Tunnelled, stage' \in Tunnelled, ReadPacket,
           data \in Seq(1..MaxFrames),
           data' \in {data, Append(data, packets'[Len(packets')])}
    PROVE  StreamInv'
<1> DEFINE n == Len(packets)
<1>1. /\ n \in Nat /\ n + 1 \in 1..MaxFrames /\ Framed(Len(packets))' /\ refused' = FALSE
      /\ packets' # <<>> /\ packets' \in Seq(1..MaxFrames) /\ Len(packets') = n + 1
      /\ packets'[Len(packets')] = n + 1 /\ packets' = [i \in 1..Len(packets') |-> i]
  BY FramesCount, LenProperties DEF StreamInv
<1>2. Datagrams(data, n)
  BY DEF StreamInv
<1> HIDE DEF n
<1>3. /\ DOMAIN data = 1..Len(data) /\ Len(data) \in Nat
      /\ \A i \in 1..Len(data) : data[i] \in Nat
  BY LenProperties, ElementOfSeq
<1>4. Datagrams(data, n + 1)
  BY <1>1, <1>2, <1>3 DEF Datagrams
<1>5. Datagrams(Append(data, n + 1), n + 1)
  <2> DEFINE d == Append(data, n + 1)
             l == Len(data)
  <2>1. /\ DOMAIN d = 1..l + 1 /\ d[l + 1] = n + 1
        /\ \A i \in 1..l : d[i] = data[i]
    BY <1>1, <1>3, AppendProperties
  <2> HIDE DEF d, l
  <2>2. \A i \in 1..l : d[i] \in Nat /\ d[i] <= n
    BY <1>2, <1>3, <2>1 DEF Datagrams, l
  <2>3. l \in Nat /\ \A i, j \in 1..l : i < j => d[i] < d[j]
    BY <1>2, <1>3, <2>1 DEF Datagrams, l
  <2>4. \A i \in 1..l + 1 : i \in 1..l \/ i = l + 1
    BY <2>3
  <2>5. \A i \in 1..l + 1 : d[i] <= n + 1
    BY <1>1, <2>1, <2>2, <2>4
  <2>6. ASSUME NEW i \in 1..l + 1, NEW j \in 1..l + 1, i < j PROVE d[i] < d[j]
    <3>1. i \in 1..l
      BY <2>3, <2>6
    <3>2. CASE j \in 1..l
      BY <2>3, <2>6, <3>1, <3>2
    <3>3. CASE j = l + 1
      BY <1>1, <2>1, <2>2, <3>1, <3>3
    <3>4. QED
      BY <2>4, <3>2, <3>3
  <2>7. QED
    BY <2>1, <2>5, <2>6 DEF Datagrams, d
<1>6. Datagrams(data', n + 1)
  BY <1>1, <1>4, <1>5
<1>7. stage' \notin Untunnelled
  BY DEF Tunnelled, Untunnelled
<1>8. Datagrams(data, Len(packets))'
  BY <1>1, <1>6
<1>9. QED
  BY <1>1, <1>7, <1>8 DEF StreamInv

\* ... every step preserves it, ...
LEMMA PathInvStep == PathInv /\ [PathNext]_pathVars => PathInv'
<1> SUFFICES ASSUME PathInv, [PathNext]_pathVars PROVE PathInv'
  OBVIOUS
<1>a. IInv /\ TunInv /\ OutInv /\ InInv /\ StreamInv
  BY DEF PathInv
<1>b. IInv'
  BY <1>a, PathStepIsStep, IInvStep
<1>c. rx # "off" => stage = "connected"
  BY <1>a DEF IInv, PumpsCounted
<1>d. handed \in Seq(1..MaxPackets)
  BY <1>a DEF TunInv, TunTypeOK
<1>1. CASE Quiet
  <2>1. UNCHANGED <<tunVars, sent, data, delivered, inHand, stream>>
    BY <1>1 DEF Quiet
  <2>2. TunInv'
    BY <2>1, <1>a DEF TunInv, TunTypeOK, readCount, Out, Left
  <2>3. OutInv'
    BY <1>1, <2>1, <1>a DEF OutInv, Quiet
  <2>4. InInv'
    BY <1>1, <2>1, <1>a DEF InInv, Quiet
  <2>5. StreamInv'
    BY <1>1, <2>1, <1>a DEF StreamInv, Quiet, Fresh, Framed
  <2>6. QED
    BY <1>b, <2>2, <2>3, <2>4, <2>5 DEF PathInv
<1>2. CASE NegotiatedOver
  <2>1. /\ UNCHANGED <<tunVars, sent, data, delivered, inHand, rx, tx>>
        /\ stage = "negotiating" /\ stage' = "creating" /\ ReadPacket
    BY <1>2 DEF NegotiatedOver, Negotiated
  <2>2. TunInv'
    BY <2>1, <1>a DEF TunInv, TunTypeOK, readCount, Out, Left
  <2>3. OutInv' /\ InInv'
    BY <2>1, <1>a DEF OutInv, InInv
  <2>4. StreamInv'
    <3>1. stage \in Untunnelled /\ stage' \in Tunnelled /\ data' = data
          /\ data \in Seq(1..MaxFrames)
      BY <2>1, <1>a DEF Untunnelled, Tunnelled, InInv
    <3>2. QED
      BY <2>1, <3>1, <1>a, StreamStays
  <2>5. QED
    BY <1>b, <2>2, <2>3, <2>4 DEF PathInv
<1>3. CASE NegotiationRefused
  <2>1. /\ UNCHANGED <<tunVars, sent, data, delivered, inHand, rx, tx, packets>>
        /\ stage' = "undoing"
    BY <1>3 DEF NegotiationRefused, ResponseFails, StageFails
  <2>2. TunInv'
    BY <2>1, <1>a DEF TunInv, TunTypeOK, readCount, Out, Left
  <2>3. OutInv' /\ InInv'
    BY <2>1, <1>a DEF OutInv, InInv
  <2>4. StreamInv'
    BY <2>1, <1>a DEF StreamInv, Untunnelled, Tunnelled
  <2>5. QED
    BY <1>b, <2>2, <2>3, <2>4 DEF PathInv
<1>4. CASE RxTakesData
  <2>1. /\ UNCHANGED <<tunVars, sent, delivered, tx, stage>>
        /\ rx = "read" /\ rx' = "write" /\ ReadPacket
        /\ inHand' = packets'[Len(packets')] /\ data' = Append(data, inHand')
    BY <1>4 DEF RxTakesData, RxReceives, Rx
  <2>a. stage = "connected" /\ stage \in Tunnelled /\ stage' \in Tunnelled
    BY <1>c, <2>1 DEF Tunnelled
  <2>b. inHand' \in 1..MaxFrames
    BY <1>a, <2>1, <2>a, FramesCount
  <2>2. TunInv'
    BY <2>1, <1>a DEF TunInv, TunTypeOK, readCount, Out, Left
  <2>3. OutInv' /\ StreamInv'
    <3>1. OutInv' /\ data \in Seq(1..MaxFrames)
      BY <2>1, <1>a DEF OutInv, InInv
    <3>2. data' = Append(data, packets'[Len(packets')])
      BY <2>1
    <3>3. StreamInv'
      BY <2>1, <2>a, <3>1, <3>2, <1>a, StreamStays
    <3>4. QED
      BY <3>1, <3>3
  <2>4. InInv'
    <3>1. data \in Seq(1..MaxFrames) /\ delivered \in Seq(1..MaxFrames)
      BY <1>a DEF InInv
    <3>2. Len(data) = Len(delivered) /\ delivered = SubSeq(data, 1, Len(delivered))
      BY <2>1, <1>a DEF InInv
    <3>3. Len(delivered) \in Nat
      BY <3>1, LenProperties
    <3>4. inHand' \in 1..MaxFrames
      BY <2>b
    <3>5. delivered = SubSeq(Append(data, inHand'), 1, Len(delivered))
      BY <3>1, <3>2, <3>3, <3>4, PrefixStays
    <3>6. /\ Append(data, inHand') \in Seq(1..MaxFrames)
          /\ Len(Append(data, inHand')) = Len(delivered) + 1
          /\ Append(data, inHand')[Len(data) + 1] = inHand'
      BY <3>1, <3>2, <3>4, AppendProperties
    <3>7. QED
      BY <2>1, <3>1, <3>2, <3>5, <3>6 DEF InInv
  <2>5. QED
    BY <1>b, <2>2, <2>3, <2>4 DEF PathInv
<1>5. ASSUME NEW pc \in {"control", "check"}, RxTakesOther(pc) PROVE PathInv'
  <2>1. /\ UNCHANGED <<tunVars, sent, data, delivered, inHand, tx, stage>>
        /\ rx = "read" /\ rx' = pc /\ ReadPacket
    BY <1>5 DEF RxTakesOther, RxReceives, Rx
  <2>2. TunInv'
    BY <2>1, <1>a DEF TunInv, TunTypeOK, readCount, Out, Left
  <2>3. OutInv' /\ StreamInv'
    <3>1. OutInv' /\ data \in Seq(1..MaxFrames)
      BY <2>1, <1>a DEF OutInv, InInv
    <3>2. stage \in Tunnelled /\ stage' \in Tunnelled
      BY <1>c, <2>1 DEF Tunnelled
    <3>3. StreamInv'
      BY <2>1, <3>1, <3>2, <1>a, StreamStays
    <3>4. QED
      BY <3>1, <3>3
  <2>4. InInv'
    BY <2>1, <1>a DEF InInv
  <2>5. QED
    BY <1>b, <2>2, <2>3, <2>4 DEF PathInv
<1>6. CASE RxDelivers
  <2>1. /\ UNCHANGED <<tunVars, sent, data, inHand, stream, tx, stage>>
        /\ rx = "write" /\ rx' \in {"check", "failed"}
        /\ delivered' = IF rx' = "check" THEN Append(delivered, inHand) ELSE delivered
    BY <1>6 DEF RxDelivers, RxWrites, Rx
  <2>2. TunInv'
    BY <2>1, <1>a DEF TunInv, TunTypeOK, readCount, Out, Left
  <2>3. OutInv' /\ StreamInv'
    BY <2>1, <1>a DEF OutInv, StreamInv, Fresh, Framed
  <2>4. InInv'
    <3>1. /\ data \in Seq(1..MaxFrames) /\ delivered \in Seq(1..MaxFrames)
          /\ delivered = SubSeq(data, 1, Len(delivered))
      BY <1>a DEF InInv
    <3>2. Len(data) = Len(delivered) + 1 /\ inHand = data[Len(data)]
      BY <2>1, <1>a DEF InInv
    <3>3. CASE rx' = "failed"
      BY <2>1, <3>1, <3>2, <3>3 DEF InInv
    <3>4. CASE rx' = "check"
      <4>1. /\ inHand \in 1..MaxFrames
            /\ Append(delivered, inHand) = SubSeq(data, 1, Len(Append(delivered, inHand)))
        BY <3>1, <3>2, PrefixCatchesUp
      <4>2. /\ Append(delivered, inHand) \in Seq(1..MaxFrames)
            /\ Len(Append(delivered, inHand)) = Len(delivered) + 1
        BY <3>1, <4>1, AppendProperties
      <4>3. delivered' = Append(delivered, inHand)
        BY <2>1, <3>4
      <4>4. QED
        BY <2>1, <3>1, <3>2, <3>4, <4>1, <4>2, <4>3 DEF InInv
    <3>5. QED
      BY <2>1, <3>3, <3>4
  <2>5. QED
    BY <1>b, <2>2, <2>3, <2>4 DEF PathInv
<1>7. CASE TxTakes
  <2>1. /\ UNCHANGED <<sent, data, delivered, inHand, stream, rx, stage>>
        /\ tx = "read" /\ tx' = "write"
    BY <1>7 DEF TxTakes, TxReads, Tx
  <2>2. TunInv' /\ \E p \in 1..MaxPackets : handed' = Append(handed, p)
    <3>1. ASSUME NEW n \in 1..BatchSize, ReadBatch(n)
          PROVE  TunInv' /\ \E p \in 1..MaxPackets : handed' = Append(handed, p)
      BY <1>a, <3>1, ReadBatchExtends
    <3>2. ASSUME ReadNext
          PROVE  TunInv' /\ \E p \in 1..MaxPackets : handed' = Append(handed, p)
      <4>1. PICK p \in 1..MaxPackets : handed' = Append(handed, p)
        BY <1>a, <3>2, ReadNextKeeps
      <4>2. handed' \in Seq(1..MaxPackets)
        BY <1>d, <4>1, AppendProperties
      <4>3. Out' = Out /\ readNext' \in 0..BatchSize /\ readNext' <= readCount
        BY <1>a, <3>2, ReadNextKeeps
      <4>4. UNCHANGED <<emitted, readBufs, dropped>>
        BY <3>2 DEF ReadNext
      <4>5. TunInv'
        BY <1>a, <4>2, <4>3, <4>4 DEF TunInv, TunTypeOK, readCount
      <4>6. QED
        BY <4>1, <4>5
    <3>3. QED
      BY <1>7, <3>1, <3>2 DEF TxTakes
  <2>3. InInv' /\ StreamInv'
    BY <2>1, <1>a DEF InInv, StreamInv, Fresh, Framed
  <2>4. OutInv'
    <3>1. /\ sent \in Seq(1..MaxPackets) /\ sent = SubSeq(handed, 1, Len(sent))
          /\ Len(handed) = Len(sent)
      BY <2>1, <1>a DEF OutInv
    <3>2. PICK p \in 1..MaxPackets : handed' = Append(handed, p)
      BY <2>2
    <3>3. Len(sent) \in Nat
      BY <3>1, LenProperties
    <3>4. sent = SubSeq(Append(handed, p), 1, Len(sent))
      BY <1>d, <3>1, <3>3, PrefixStays
    <3>5. Len(Append(handed, p)) = Len(handed) + 1
      BY <1>d, AppendProperties
    <3>6. QED
      BY <2>1, <3>1, <3>2, <3>4, <3>5 DEF OutInv
  <2>5. QED
    BY <1>b, <2>2, <2>3, <2>4 DEF PathInv
<1>8. CASE TxFindsNothing
  <2>1. /\ UNCHANGED <<sent, data, delivered, inHand, stream, rx, stage, handed>>
        /\ tx = "read" /\ tx' = "check"
    BY <1>8 DEF TxFindsNothing, TxReads, Tx, ReadNothing, ReadOverflows
  <2>2. TunInv'
    <3>1. CASE ReadNothing
      <4>1. readBufs' = <<>> /\ readNext' = 0 /\ UNCHANGED <<emitted, dropped, handed>>
        BY <3>1 DEF ReadNothing
      <4>2. Left = <<>> /\ Left' = <<>>
        BY <1>a, <3>1, <4>1, LeftType DEF ReadNothing, Left, readCount
      <4>3. Out' = Out
        BY <4>1, <4>2 DEF Out
      <4>4. QED
        BY <1>a, <4>1, <4>3 DEF TunInv, TunTypeOK, readCount
    <3>2. CASE ReadOverflows(BatchSize + 1)
      <4>1. /\ UNCHANGED <<readBufs, readNext, handed>>
            /\ emitted' = emitted + (BatchSize + 1) /\ emitted' <= MaxPackets
            /\ dropped' = dropped \union emitted + 1 .. emitted + (BatchSize + 1)
            /\ emitted \in Nat /\ emitted' \in Nat /\ dropped \subseteq 1..emitted
        BY <3>2, <1>a DEF ReadOverflows, Emits, TunInv, TunTypeOK
      <4>2. Out' = Out
        BY <4>1 DEF Out, Left, readCount
      <4>3. (1..emitted') \ dropped' = (1..emitted) \ dropped
        BY <4>1
      <4>4. Lists(Out, emitted, dropped)'
        BY <1>a, <4>2, <4>3 DEF Lists, TunInv, Ascending
      <4>5. dropped' \subseteq 1..emitted'
        BY <4>1
      <4>6. QED
        BY <1>a, <4>1, <4>4, <4>5 DEF TunInv, TunTypeOK, readCount
    <3>3. QED
      BY <1>8, <3>1, <3>2 DEF TxFindsNothing
  <2>3. OutInv' /\ InInv' /\ StreamInv'
    BY <2>1, <1>a DEF OutInv, InInv, StreamInv, Fresh, Framed
  <2>4. QED
    BY <1>b, <2>2, <2>3 DEF PathInv
<1>9. CASE TxSends
  <2>1. /\ UNCHANGED <<tunVars, data, delivered, inHand, stream, rx, stage>>
        /\ tx = "write" /\ tx' = "check" /\ sent' = Append(sent, handed[Len(handed)])
    BY <1>9 DEF TxSends, TxWrites, Tx
  <2>2. TunInv'
    BY <2>1, <1>a DEF TunInv, TunTypeOK, readCount, Out, Left
  <2>3. InInv' /\ StreamInv'
    BY <2>1, <1>a DEF InInv, StreamInv, Fresh, Framed
  <2>4. OutInv'
    <3>1. /\ sent \in Seq(1..MaxPackets) /\ sent = SubSeq(handed, 1, Len(sent))
          /\ Len(handed) = Len(sent) + 1
      BY <2>1, <1>a DEF OutInv
    <3> DEFINE p == handed[Len(handed)]
    <3>2. p \in 1..MaxPackets /\ Append(sent, p) = SubSeq(handed, 1, Len(Append(sent, p)))
      BY <1>d, <3>1, PrefixCatchesUp
    <3>3. Append(sent, p) \in Seq(1..MaxPackets) /\ Len(Append(sent, p)) = Len(sent) + 1
      BY <3>1, <3>2, AppendProperties
    <3>4. QED
      BY <2>1, <3>1, <3>2, <3>3 DEF OutInv
  <2>5. QED
    BY <1>b, <2>2, <2>3, <2>4 DEF PathInv
<1>10. QED
  BY <1>a, <1>1, <1>2, <1>4, <1>5, <1>6, <1>7, <1>8, <1>9, <1>3, PathSteps

\* ... and so it always holds.
LEMMA PathInvariant == PathSpec => []PathInv
  BY PathInitInv, PathInvStep, PTL DEF PathSpec

\* Whatever batches the machine's packets come in, and whenever the interface is
\* closed under the pump, each goes out once and in order.
THEOREM OutboundIsFaithful == PathSpec => []OutboundInOrder
<1>1. PathInv => OutboundInOrder
  <2> SUFFICES ASSUME PathInv PROVE OutboundInOrder
    OBVIOUS
  <2>1. DrainedInOrder
    BY DEF PathInv, TunInv, Lists, Ascending, Out, Left, DrainedInOrder
  <2>2. Len(sent) \in Nat
    BY LenProperties DEF PathInv, OutInv
  <2>3. QED
    BY <2>1, <2>2 DEF PathInv, OutInv, OutboundInOrder
<1>2. QED
  BY <1>1, PathInvariant, PTL

\* However much the gateway sends, with or without a response in front of it: ReadPacket
\* returns every frame once and in order, the first one too, no line of a response is
\* taken for a frame, a refused tunnel is never used, and every datagram is delivered
\* once and in order.
THEOREM InboundIsFaithful == PathSpec => []InboundInOrder
<1>1. PathInv => InboundInOrder
  <2> SUFFICES ASSUME PathInv PROVE InboundInOrder
    OBVIOUS
  <2>1. Len(delivered) \in Nat
    BY LenProperties DEF PathInv, InInv
  <2>2. QED
    BY <2>1 DEF PathInv, InInv, StreamInv, Datagrams, Framed, InboundInOrder
<1>2. QED
  BY <1>1, PathInvariant, PTL

==============================================================================
