---------------------------- MODULE DaemonProofs ----------------------------
(* What Daemon guarantees for any callers, connections and default gateway. *)
EXTENDS Daemon, TLAPS

USE DEF fields, callers, vars

\* What the state says while a caller works.
StateOfWork ==
    \A h \in Callers :
        /\ pc[h] \in {"connecting", "returned"} => state \in {"connecting", "disconnecting"}
        /\ pc[h] \in {"undoing", "undone", "closing", "closed"} => state = "disconnecting"

\* What a caller has in hand, and when.
InHand ==
    \A h \in Callers :
        /\ held[h] # None => pc[h] \in {"returned", "undoing", "closing"}
        /\ pc[h] \in {"undoing", "closing"} => held[h] # None /\ conn[held[h]] = "closing"
        /\ pc[h] = "returned" =>
              IF held[h] = None THEN err[h] = "connect failed"
                                ELSE conn[held[h]] \in {"up", "lost", "ended"}

\* A watcher that tears its connection down is the only one to.
WatcherCloses ==
    \A c \in Conns : watcher[c] = "closing" =>
        conn[c] = "closing" /\ \A h \in Callers : held[h] # c

\* A connection that is not closed has an owner.
Owned ==
    \A c \in Conns : \/ conn[c] = "closed"
                     \/ connection = c
                     \/ \E h \in Callers : held[h] = c
                     \/ watcher[c] = "closing"

IInv == /\ TypeOK /\ OneCallerWorks /\ StateOfWork /\ InHand /\ WatcherCloses /\ Owned
        /\ NothingSlipsThrough /\ PublishedIsWatched /\ StatusCoherent

USE NoneIsNothing

-----------------------------------------------------------------------------

LEMMA InitIInv == Init => IInv
  BY DEF Init, IInv, TypeOK, OneCallerWorks, Working, Attempting, StateOfWork, InHand, WatcherCloses,
         NothingSlipsThrough, Owned, PublishedIsWatched, StatusCoherent, Status,
         States, Errors, PCs, ConnStates, WatcherStates

LEMMA TypeStep == TypeOK /\ [Next]_vars => TypeOK'
<1> SUFFICES ASSUME TypeOK, [Next]_vars PROVE TypeOK'
  OBVIOUS
<1> USE DEF TypeOK, States, Errors, PCs, ConnStates, WatcherStates, AnswerWith
<1>1. ASSUME NEW h \in Callers, NEW cookie \in BOOLEAN, NEW host \in BOOLEAN,
             Connect(h, cookie, host)
      PROVE  TypeOK'
  BY <1>1 DEF Connect
<1>2. ASSUME NEW h \in Callers, NEW e \in Errors, DisconnectBy(h, e)
      PROVE  TypeOK'
  <2>1. CASE CancelAttempt(h)
    BY <2>1 DEF CancelAttempt
  <2>2. CASE NothingToClose(h, e)
    BY <2>2 DEF NothingToClose
  <2>3. CASE CloseConnection(h)
    BY <2>3 DEF CloseConnection, StopWatching
  <2>4. QED
    BY <1>2, <2>1, <2>2, <2>3 DEF DisconnectBy
<1>3. ASSUME NEW h \in Callers, AskStatus(h) PROVE TypeOK'
  BY <1>3 DEF AskStatus
<1>4. ASSUME NEW h \in Callers, AttemptReturns(h) PROVE TypeOK'
  <2>1. CASE ConnectFails(h)
    BY <2>1 DEF ConnectFails
  <2>2. ASSUME NEW c \in Conns, ConnectSucceeds(h, c) PROVE TypeOK'
    BY <2>2 DEF ConnectSucceeds
  <2>3. QED
    BY <1>4, <2>1, <2>2 DEF AttemptReturns
<1>5. ASSUME NEW h \in Callers, Proceed(h) PROVE TypeOK'
  <2>1. CASE Aborted(h)
    BY <2>1 DEF Aborted, Returned
  <2>2. CASE Failed(h)
    BY <2>2 DEF Failed, Returned
  <2>3. CASE Publish(h)
    BY <2>3 DEF Publish, Returned
  <2>4. ASSUME NEW e \in {"nil", "close failed"}, CloseReturns(h, e) PROVE TypeOK'
    BY <2>4 DEF CloseReturns
  <2>5. CASE Settle(h) \/ Disconnected(h) \/ Answer(h)
    BY <2>5 DEF Settle, Disconnected, Answer
  <2>6. QED
    BY <1>5, <2>1, <2>2, <2>3, <2>4, <2>5 DEF Proceed
<1>6. ASSUME NEW c \in Conns, Watch(c) PROVE TypeOK'
  BY <1>6 DEF Watch, WatchCancelled, WatchWakes, WatchStale, WatchReports, WatchCloseReturns
<1>7. ASSUME NEW c \in Conns, NEW how \in {"lost", "ended"}, LinkStops(c, how) PROVE TypeOK'
  BY <1>7 DEF LinkStops
<1>8. CASE UNCHANGED vars
  BY <1>8
<1>9. QED
  BY <1>1, <1>2, <1>3, <1>4, <1>5, <1>6, <1>7, <1>8 DEF Next, Request, Disconnect, Shutdown

\* Every field, caller and connection only ever holds a value of its type: no
\* step calls a nil cancel function or closes a connection it does not have.
THEOREM TypeCorrect == Spec => []TypeOK
<1>1. Init => TypeOK
  BY InitIInv DEF IInv
<1>2. QED
  BY <1>1, TypeStep, PTL DEF Spec
-----------------------------------------------------------------------------

\* Each step preserves the inductive invariant.
LEMMA IInvStep == IInv /\ [Next]_vars => IInv'
<1> SUFFICES ASSUME IInv, [Next]_vars PROVE IInv'
  OBVIOUS
<1>a. /\ OneCallerWorks /\ StateOfWork /\ InHand /\ WatcherCloses /\ Owned
      /\ NothingSlipsThrough /\ PublishedIsWatched /\ StatusCoherent
  BY DEF IInv
<1>b. TypeOK /\ TypeOK'
  BY TypeStep DEF IInv
<1>1. ASSUME NEW h \in Callers, NEW cookie \in BOOLEAN, NEW host \in BOOLEAN,
             Connect(h, cookie, host)
      PROVE  IInv'
  <2>1. OneCallerWorks'
    BY <1>a, <1>b, <1>1 DEF TypeOK, OneCallerWorks, Working, Attempting,
        StateOfWork, Connect, Refused, AnswerWith
  <2>2. StateOfWork'
    BY <1>a, <1>b, <1>1 DEF TypeOK, StateOfWork, Connect, Refused, AnswerWith
  <2>3. InHand'
    <3>1. /\ held' = held /\ conn' = conn
          /\ \A g \in Callers : g # h => pc'[g] = pc[g] /\ err'[g] = err[g]
          /\ held[h] = None /\ pc'[h] \in {"connecting", "answering"}
      BY <1>a, <1>b, <1>1 DEF TypeOK, InHand, Connect, AnswerWith
    <3>2. QED
      BY <1>a, <3>1 DEF InHand
  <2>4. WatcherCloses'
    BY <1>a, <1>b, <1>1 DEF TypeOK, WatcherCloses, Connect, Refused, AnswerWith
  <2>5. Owned'
    BY <1>a, <1>b, <1>1 DEF TypeOK, Owned, Connect, Refused, AnswerWith
  <2>6. NothingSlipsThrough'
    BY <1>a, <1>b, <1>1 DEF TypeOK, NothingSlipsThrough, StateOfWork,
        StatusCoherent, Status, Connect, Refused, AnswerWith
  <2>7. PublishedIsWatched'
    BY <1>a, <1>b, <1>1 DEF TypeOK, PublishedIsWatched, Connect, Refused, AnswerWith
  <2>8. StatusCoherent'
    BY <1>a, <1>b, <1>1 DEF TypeOK, StatusCoherent, Status, Connect, Refused,
        AnswerWith
  <2>9. QED
    BY <1>b, <2>1, <2>2, <2>3, <2>4, <2>5, <2>6, <2>7, <2>8 DEF IInv
<1>2. ASSUME NEW h \in Callers, pc[h] = "idle", CancelAttempt(h)
      PROVE  IInv'
  <2>1. OneCallerWorks'
    BY <1>a, <1>b, <1>2 DEF TypeOK, OneCallerWorks, Working, Attempting,
        CancelAttempt, AnswerWith
  <2>2. StateOfWork'
    BY <1>a, <1>b, <1>2 DEF TypeOK, StateOfWork, CancelAttempt, AnswerWith
  <2>3. InHand'
    BY <1>a, <1>b, <1>2 DEF TypeOK, InHand, CancelAttempt, AnswerWith
  <2>4. WatcherCloses'
    BY <1>a, <1>b, <1>2 DEF TypeOK, WatcherCloses, CancelAttempt, AnswerWith
  <2>5. Owned'
    BY <1>a, <1>b, <1>2 DEF TypeOK, Owned, CancelAttempt, AnswerWith
  <2>6. NothingSlipsThrough'
    BY <1>a, <1>b, <1>2 DEF TypeOK, NothingSlipsThrough, CancelAttempt, AnswerWith
  <2>7. PublishedIsWatched'
    BY <1>a, <1>b, <1>2 DEF TypeOK, PublishedIsWatched, CancelAttempt, AnswerWith
  <2>8. StatusCoherent'
    BY <1>a, <1>b, <1>2 DEF TypeOK, StatusCoherent, Status, NothingSlipsThrough,
        CancelAttempt, AnswerWith
  <2>9. QED
    BY <1>b, <2>1, <2>2, <2>3, <2>4, <2>5, <2>6, <2>7, <2>8 DEF IInv
<1>3. ASSUME NEW h \in Callers, NEW e \in Errors, pc[h] = "idle", NothingToClose(h, e)
      PROVE  IInv'
  <2>1. OneCallerWorks'
    BY <1>a, <1>b, <1>3 DEF TypeOK, OneCallerWorks, Working, Attempting,
        NothingToClose, AnswerWith
  <2>2. StateOfWork'
    BY <1>a, <1>b, <1>3 DEF TypeOK, StateOfWork, NothingToClose, AnswerWith
  <2>3. InHand'
    BY <1>a, <1>b, <1>3 DEF TypeOK, InHand, NothingToClose, AnswerWith
  <2>4. WatcherCloses'
    BY <1>a, <1>b, <1>3 DEF TypeOK, WatcherCloses, NothingToClose, AnswerWith
  <2>5. Owned'
    BY <1>a, <1>b, <1>3 DEF TypeOK, Owned, NothingToClose, AnswerWith
  <2>6. NothingSlipsThrough'
    BY <1>a, <1>b, <1>3 DEF TypeOK, NothingSlipsThrough, NothingToClose, AnswerWith
  <2>7. PublishedIsWatched'
    BY <1>a, <1>b, <1>3 DEF TypeOK, PublishedIsWatched, NothingToClose, AnswerWith
  <2>8. StatusCoherent'
    BY <1>a, <1>b, <1>3 DEF TypeOK, StatusCoherent, Status, NothingToClose, AnswerWith
  <2>9. QED
    BY <1>b, <2>1, <2>2, <2>3, <2>4, <2>5, <2>6, <2>7, <2>8 DEF IInv
<1>4. ASSUME NEW h \in Callers, pc[h] = "idle", CloseConnection(h)
      PROVE  IInv'
  <2>1. OneCallerWorks'
    BY <1>a, <1>b, <1>4 DEF TypeOK, OneCallerWorks, Working, Attempting,
        StateOfWork, StatusCoherent, Status, CloseConnection, StopWatching
  <2>2. StateOfWork'
    BY <1>a, <1>b, <1>4 DEF TypeOK, StateOfWork, CloseConnection, StopWatching
  <2>3. InHand'
    BY <1>a, <1>b, <1>4 DEF TypeOK, InHand, StateOfWork, StatusCoherent, Status,
        CloseConnection, StopWatching
  <2>4. WatcherCloses'
    BY <1>a, <1>b, <1>4 DEF TypeOK, WatcherCloses, PublishedIsWatched,
        CloseConnection, StopWatching
  <2>5. Owned'
    BY <1>a, <1>b, <1>4 DEF TypeOK, Owned, InHand, CloseConnection, StopWatching
  <2>6. NothingSlipsThrough'
    BY <1>a, <1>b, <1>4 DEF TypeOK, NothingSlipsThrough, CloseConnection, StopWatching
  <2>7. PublishedIsWatched'
    BY <1>a, <1>b, <1>4 DEF TypeOK, PublishedIsWatched, CloseConnection, StopWatching
  <2>8. StatusCoherent'
    BY <1>a, <1>b, <1>4 DEF TypeOK, StatusCoherent, Status, CloseConnection,
        StopWatching
  <2>9. QED
    BY <1>b, <2>1, <2>2, <2>3, <2>4, <2>5, <2>6, <2>7, <2>8 DEF IInv
<1>5. ASSUME NEW h \in Callers, AskStatus(h)
      PROVE  IInv'
  <2>1. OneCallerWorks'
    BY <1>a, <1>b, <1>5 DEF TypeOK, OneCallerWorks, Working, Attempting, AskStatus,
        AnswerWith
  <2>2. StateOfWork'
    BY <1>a, <1>b, <1>5 DEF TypeOK, StateOfWork, AskStatus, AnswerWith
  <2>3. InHand'
    BY <1>a, <1>b, <1>5 DEF TypeOK, InHand, AskStatus, AnswerWith
  <2>4. WatcherCloses'
    BY <1>a, <1>b, <1>5 DEF TypeOK, WatcherCloses, AskStatus, AnswerWith
  <2>5. Owned'
    BY <1>a, <1>b, <1>5 DEF TypeOK, Owned, AskStatus, AnswerWith
  <2>6. NothingSlipsThrough'
    BY <1>a, <1>b, <1>5 DEF TypeOK, NothingSlipsThrough, AskStatus, AnswerWith
  <2>7. PublishedIsWatched'
    BY <1>a, <1>b, <1>5 DEF TypeOK, PublishedIsWatched, AskStatus, AnswerWith
  <2>8. StatusCoherent'
    BY <1>a, <1>b, <1>5 DEF TypeOK, StatusCoherent, Status, AskStatus, AnswerWith
  <2>9. QED
    BY <1>b, <2>1, <2>2, <2>3, <2>4, <2>5, <2>6, <2>7, <2>8 DEF IInv
<1>6. ASSUME NEW h \in Callers, NEW c \in Conns, ConnectSucceeds(h, c)
      PROVE  IInv'
  <2>1. OneCallerWorks'
    BY <1>a, <1>b, <1>6 DEF TypeOK, OneCallerWorks, Working, Attempting,
        ConnectSucceeds, Unreferenced
  <2>2. StateOfWork'
    BY <1>a, <1>b, <1>6 DEF TypeOK, StateOfWork, ConnectSucceeds, Unreferenced
  <2>3. InHand'
    BY <1>a, <1>b, <1>6 DEF TypeOK, InHand, ConnectSucceeds, Unreferenced
  <2>4. WatcherCloses'
    BY <1>a, <1>b, <1>6 DEF TypeOK, WatcherCloses, ConnectSucceeds, Unreferenced
  <2>5. Owned'
    <3>1. held[h] = None /\ held' = [held EXCEPT ![h] = c]
      BY <1>a, <1>6 DEF InHand, ConnectSucceeds
    <3>2. \A d \in Conns : (\E g \in Callers : held[g] = d) => \E g \in Callers : held'[g] = d
      BY <1>b, <3>1 DEF TypeOK
    <3>3. held'[h] = c /\ \A d \in Conns : d # c => conn'[d] = conn[d]
      BY <1>b, <1>6 DEF TypeOK, ConnectSucceeds
    <3>4. connection' = connection /\ watcher' = watcher
      BY <1>6 DEF ConnectSucceeds
    <3>5. QED
      BY <1>a, <3>2, <3>3, <3>4 DEF Owned
  <2>6. NothingSlipsThrough'
    BY <1>a, <1>b, <1>6 DEF TypeOK, NothingSlipsThrough, ConnectSucceeds, Unreferenced
  <2>7. PublishedIsWatched'
    BY <1>a, <1>b, <1>6 DEF TypeOK, PublishedIsWatched, ConnectSucceeds, Unreferenced
  <2>8. StatusCoherent'
    BY <1>a, <1>b, <1>6 DEF TypeOK, StatusCoherent, Status, ConnectSucceeds,
        Unreferenced
  <2>9. QED
    BY <1>b, <2>1, <2>2, <2>3, <2>4, <2>5, <2>6, <2>7, <2>8 DEF IInv
<1>7. ASSUME NEW h \in Callers, ConnectFails(h)
      PROVE  IInv'
  <2>1. OneCallerWorks'
    BY <1>a, <1>b, <1>7 DEF TypeOK, OneCallerWorks, Working, Attempting, ConnectFails
  <2>2. StateOfWork'
    BY <1>a, <1>b, <1>7 DEF TypeOK, StateOfWork, ConnectFails
  <2>3. InHand'
    BY <1>a, <1>b, <1>7 DEF TypeOK, InHand, ConnectFails
  <2>4. WatcherCloses'
    BY <1>a, <1>b, <1>7 DEF TypeOK, WatcherCloses, ConnectFails
  <2>5. Owned'
    BY <1>a, <1>b, <1>7 DEF TypeOK, Owned, ConnectFails
  <2>6. NothingSlipsThrough'
    BY <1>a, <1>b, <1>7 DEF TypeOK, NothingSlipsThrough, ConnectFails
  <2>7. PublishedIsWatched'
    BY <1>a, <1>b, <1>7 DEF TypeOK, PublishedIsWatched, ConnectFails
  <2>8. StatusCoherent'
    BY <1>a, <1>b, <1>7 DEF TypeOK, StatusCoherent, Status, ConnectFails
  <2>9. QED
    BY <1>b, <2>1, <2>2, <2>3, <2>4, <2>5, <2>6, <2>7, <2>8 DEF IInv
<1>8. ASSUME NEW h \in Callers, Aborted(h)
      PROVE  IInv'
  <2>1. OneCallerWorks'
    BY <1>a, <1>b, <1>8 DEF TypeOK, OneCallerWorks, Working, Attempting, Aborted,
        Returned
  <2>2. StateOfWork'
    BY <1>a, <1>b, <1>8 DEF TypeOK, StateOfWork, Aborted, Returned
  <2>3. InHand'
    <3>1. \A g \in Callers : g # h => held[g] = None
      BY <1>a, <1>b, <1>8 DEF InHand, OneCallerWorks, Working, Attempting, Aborted, Returned
    <3>2. held' = held /\ \A g \in Callers : g # h => pc'[g] = pc[g] /\ err'[g] = err[g]
      BY <1>b, <1>8 DEF TypeOK, Aborted
    <3>3. CASE held[h] = None
      <4>1. pc'[h] = "undone"
        BY <1>b, <1>8, <3>3 DEF TypeOK, Aborted
      <4>2. QED
        BY <1>a, <3>1, <3>2, <3>3, <4>1 DEF InHand
    <3>4. CASE held[h] # None
      <4>1. pc'[h] = "undoing" /\ conn'[held[h]] = "closing"
        BY <1>b, <1>8, <3>4 DEF TypeOK, Aborted
      <4>2. QED
        BY <1>a, <3>1, <3>2, <3>4, <4>1 DEF InHand
    <3>5. QED
      BY <3>3, <3>4
  <2>4. WatcherCloses'
    BY <1>a, <1>b, <1>8 DEF TypeOK, WatcherCloses, Aborted, Returned
  <2>5. Owned'
    BY <1>a, <1>b, <1>8 DEF TypeOK, Owned, Aborted, Returned
  <2>6. NothingSlipsThrough'
    BY <1>a, <1>b, <1>8 DEF TypeOK, NothingSlipsThrough, Aborted, Returned
  <2>7. PublishedIsWatched'
    BY <1>a, <1>b, <1>8 DEF TypeOK, PublishedIsWatched, NothingSlipsThrough,
        Aborted, Returned
  <2>8. StatusCoherent'
    BY <1>a, <1>b, <1>8 DEF TypeOK, StatusCoherent, Status, Aborted, Returned
  <2>9. QED
    BY <1>b, <2>1, <2>2, <2>3, <2>4, <2>5, <2>6, <2>7, <2>8 DEF IInv
<1>9. ASSUME NEW h \in Callers, Failed(h)
      PROVE  IInv'
  <2>1. OneCallerWorks'
    BY <1>a, <1>b, <1>9 DEF TypeOK, OneCallerWorks, Working, Attempting, Failed,
        Returned, AnswerWith
  <2>2. StateOfWork'
    BY <1>a, <1>b, <1>9 DEF TypeOK, StateOfWork, OneCallerWorks, Working,
        Attempting, Failed, Returned, AnswerWith
  <2>3. InHand'
    BY <1>a, <1>b, <1>9 DEF TypeOK, InHand, Failed, Returned, AnswerWith
  <2>4. WatcherCloses'
    BY <1>a, <1>b, <1>9 DEF TypeOK, WatcherCloses, Failed, Returned, AnswerWith
  <2>5. Owned'
    BY <1>a, <1>b, <1>9 DEF TypeOK, Owned, Failed, Returned, AnswerWith
  <2>6. NothingSlipsThrough'
    BY <1>a, <1>b, <1>9 DEF TypeOK, NothingSlipsThrough, Failed, Returned, AnswerWith
  <2>7. PublishedIsWatched'
    BY <1>a, <1>b, <1>9 DEF TypeOK, PublishedIsWatched, Failed, Returned, AnswerWith
  <2>8. StatusCoherent'
    BY <1>a, <1>b, <1>9 DEF TypeOK, StatusCoherent, Status, InHand,
        NothingSlipsThrough, Failed, Returned, AnswerWith
  <2>9. QED
    BY <1>b, <2>1, <2>2, <2>3, <2>4, <2>5, <2>6, <2>7, <2>8 DEF IInv
<1>10. ASSUME NEW h \in Callers, Publish(h)
      PROVE  IInv'
  <2>1. OneCallerWorks'
    BY <1>a, <1>b, <1>10 DEF TypeOK, OneCallerWorks, Working, Attempting, Publish,
        Returned, AnswerWith
  <2>2. StateOfWork'
    BY <1>a, <1>b, <1>10 DEF TypeOK, StateOfWork, OneCallerWorks, Working,
        Attempting, Publish, Returned, AnswerWith
  <2>3. InHand'
    BY <1>a, <1>b, <1>10 DEF TypeOK, InHand, Publish, Returned, AnswerWith
  <2>4. WatcherCloses'
    BY <1>a, <1>b, <1>10 DEF TypeOK, WatcherCloses, Publish, Returned, AnswerWith
  <2>5. Owned'
    BY <1>a, <1>b, <1>10 DEF TypeOK, Owned, NothingSlipsThrough, Publish, Returned,
        AnswerWith
  <2>6. NothingSlipsThrough'
    BY <1>a, <1>b, <1>10 DEF TypeOK, NothingSlipsThrough, Publish, Returned,
        AnswerWith
  <2>7. PublishedIsWatched'
    BY <1>a, <1>b, <1>10 DEF TypeOK, PublishedIsWatched, InHand, Publish, Returned,
        AnswerWith
  <2>8. StatusCoherent'
    BY <1>a, <1>b, <1>10 DEF TypeOK, StatusCoherent, Status, NothingSlipsThrough,
        Publish, Returned, AnswerWith
  <2>9. QED
    BY <1>b, <2>1, <2>2, <2>3, <2>4, <2>5, <2>6, <2>7, <2>8 DEF IInv
<1>11. ASSUME NEW h \in Callers, NEW e \in {"nil", "close failed"}, CloseReturns(h, e)
      PROVE  IInv'
  <2>1. OneCallerWorks'
    BY <1>a, <1>b, <1>11 DEF TypeOK, OneCallerWorks, Working, Attempting, CloseReturns
  <2>2. StateOfWork'
    BY <1>a, <1>b, <1>11 DEF TypeOK, StateOfWork, CloseReturns
  <2>3. InHand'
    BY <1>a, <1>b, <1>11 DEF TypeOK, InHand, OneCallerWorks, Working, Attempting,
        CloseReturns
  <2>4. WatcherCloses'
    BY <1>a, <1>b, <1>11 DEF TypeOK, WatcherCloses, CloseReturns
  <2>5. Owned'
    BY <1>a, <1>b, <1>11 DEF TypeOK, Owned, CloseReturns
  <2>6. NothingSlipsThrough'
    BY <1>a, <1>b, <1>11 DEF TypeOK, NothingSlipsThrough, CloseReturns
  <2>7. PublishedIsWatched'
    BY <1>a, <1>b, <1>11 DEF TypeOK, PublishedIsWatched, InHand, CloseReturns
  <2>8. StatusCoherent'
    BY <1>a, <1>b, <1>11 DEF TypeOK, StatusCoherent, Status, CloseReturns
  <2>9. QED
    BY <1>b, <2>1, <2>2, <2>3, <2>4, <2>5, <2>6, <2>7, <2>8 DEF IInv
<1>12. ASSUME NEW h \in Callers, Settle(h)
      PROVE  IInv'
  <2>1. OneCallerWorks'
    BY <1>a, <1>b, <1>12 DEF TypeOK, OneCallerWorks, Working, Attempting, Settle,
        AnswerWith
  <2>2. StateOfWork'
    BY <1>a, <1>b, <1>12 DEF TypeOK, StateOfWork, OneCallerWorks, Working,
        Attempting, Settle, AnswerWith
  <2>3. InHand'
    BY <1>a, <1>b, <1>12 DEF TypeOK, InHand, Settle, AnswerWith
  <2>4. WatcherCloses'
    BY <1>a, <1>b, <1>12 DEF TypeOK, WatcherCloses, Settle, AnswerWith
  <2>5. Owned'
    BY <1>a, <1>b, <1>12 DEF TypeOK, Owned, Settle, AnswerWith
  <2>6. NothingSlipsThrough'
    BY <1>a, <1>b, <1>12 DEF TypeOK, NothingSlipsThrough, OneCallerWorks, Working,
        Attempting, Settle, AnswerWith
  <2>7. PublishedIsWatched'
    BY <1>a, <1>b, <1>12 DEF TypeOK, PublishedIsWatched, Settle, AnswerWith
  <2>8. StatusCoherent'
    BY <1>a, <1>b, <1>12 DEF TypeOK, StatusCoherent, Status, StateOfWork, Settle,
        AnswerWith
  <2>9. QED
    BY <1>b, <2>1, <2>2, <2>3, <2>4, <2>5, <2>6, <2>7, <2>8 DEF IInv
<1>13. ASSUME NEW h \in Callers, Disconnected(h)
      PROVE  IInv'
  <2>1. OneCallerWorks'
    BY <1>a, <1>b, <1>13 DEF TypeOK, OneCallerWorks, Working, Attempting,
        Disconnected, AnswerWith
  <2>2. StateOfWork'
    BY <1>a, <1>b, <1>13 DEF TypeOK, StateOfWork, OneCallerWorks, Working,
        Attempting, Disconnected, AnswerWith
  <2>3. InHand'
    BY <1>a, <1>b, <1>13 DEF TypeOK, InHand, Disconnected, AnswerWith
  <2>4. WatcherCloses'
    BY <1>a, <1>b, <1>13 DEF TypeOK, WatcherCloses, Disconnected, AnswerWith
  <2>5. Owned'
    BY <1>a, <1>b, <1>13 DEF TypeOK, Owned, Disconnected, AnswerWith
  <2>6. NothingSlipsThrough'
    BY <1>a, <1>b, <1>13 DEF TypeOK, NothingSlipsThrough, OneCallerWorks, Working,
        Attempting, Disconnected, AnswerWith
  <2>7. PublishedIsWatched'
    BY <1>a, <1>b, <1>13 DEF TypeOK, PublishedIsWatched, Disconnected, AnswerWith
  <2>8. StatusCoherent'
    BY <1>a, <1>b, <1>13 DEF TypeOK, StatusCoherent, Status, StateOfWork,
        Disconnected, AnswerWith
  <2>9. QED
    BY <1>b, <2>1, <2>2, <2>3, <2>4, <2>5, <2>6, <2>7, <2>8 DEF IInv
<1>14. ASSUME NEW h \in Callers, Answer(h)
      PROVE  IInv'
  <2>1. OneCallerWorks'
    BY <1>a, <1>b, <1>14 DEF TypeOK, OneCallerWorks, Working, Attempting, Answer
  <2>2. StateOfWork'
    BY <1>a, <1>b, <1>14 DEF TypeOK, StateOfWork, Answer
  <2>3. InHand'
    BY <1>a, <1>b, <1>14 DEF TypeOK, InHand, Answer
  <2>4. WatcherCloses'
    BY <1>a, <1>b, <1>14 DEF TypeOK, WatcherCloses, Answer
  <2>5. Owned'
    BY <1>a, <1>b, <1>14 DEF TypeOK, Owned, Answer
  <2>6. NothingSlipsThrough'
    BY <1>a, <1>b, <1>14 DEF TypeOK, NothingSlipsThrough, Answer
  <2>7. PublishedIsWatched'
    BY <1>a, <1>b, <1>14 DEF TypeOK, PublishedIsWatched, Answer
  <2>8. StatusCoherent'
    BY <1>a, <1>b, <1>14 DEF TypeOK, StatusCoherent, Status, Answer
  <2>9. QED
    BY <1>b, <2>1, <2>2, <2>3, <2>4, <2>5, <2>6, <2>7, <2>8 DEF IInv
<1>15. ASSUME NEW c \in Conns, WatchCancelled(c)
      PROVE  IInv'
  <2>1. OneCallerWorks'
    BY <1>a, <1>b, <1>15 DEF TypeOK, OneCallerWorks, Working, Attempting,
        WatchCancelled
  <2>2. StateOfWork'
    BY <1>a, <1>b, <1>15 DEF TypeOK, StateOfWork, WatchCancelled
  <2>3. InHand'
    BY <1>a, <1>b, <1>15 DEF TypeOK, InHand, WatchCancelled
  <2>4. WatcherCloses'
    BY <1>a, <1>b, <1>15 DEF TypeOK, WatcherCloses, WatchCancelled
  <2>5. Owned'
    BY <1>a, <1>b, <1>15 DEF TypeOK, Owned, WatchCancelled
  <2>6. NothingSlipsThrough'
    BY <1>a, <1>b, <1>15 DEF TypeOK, NothingSlipsThrough, WatchCancelled
  <2>7. PublishedIsWatched'
    BY <1>a, <1>b, <1>15 DEF TypeOK, PublishedIsWatched, WatchCancelled
  <2>8. StatusCoherent'
    BY <1>a, <1>b, <1>15 DEF TypeOK, StatusCoherent, Status, WatchCancelled
  <2>9. QED
    BY <1>b, <2>1, <2>2, <2>3, <2>4, <2>5, <2>6, <2>7, <2>8 DEF IInv
<1>16. ASSUME NEW c \in Conns, WatchWakes(c)
      PROVE  IInv'
  <2>1. OneCallerWorks'
    BY <1>a, <1>b, <1>16 DEF TypeOK, OneCallerWorks, Working, Attempting,
        WatchWakes, DoneClosed
  <2>2. StateOfWork'
    BY <1>a, <1>b, <1>16 DEF TypeOK, StateOfWork, WatchWakes, DoneClosed
  <2>3. InHand'
    BY <1>a, <1>b, <1>16 DEF TypeOK, InHand, WatchWakes, DoneClosed
  <2>4. WatcherCloses'
    BY <1>a, <1>b, <1>16 DEF TypeOK, WatcherCloses, WatchWakes, DoneClosed
  <2>5. Owned'
    BY <1>a, <1>b, <1>16 DEF TypeOK, Owned, WatchWakes, DoneClosed
  <2>6. NothingSlipsThrough'
    BY <1>a, <1>b, <1>16 DEF TypeOK, NothingSlipsThrough, WatchWakes, DoneClosed
  <2>7. PublishedIsWatched'
    BY <1>a, <1>b, <1>16 DEF TypeOK, PublishedIsWatched, WatchWakes, DoneClosed
  <2>8. StatusCoherent'
    BY <1>a, <1>b, <1>16 DEF TypeOK, StatusCoherent, Status, WatchWakes, DoneClosed
  <2>9. QED
    BY <1>b, <2>1, <2>2, <2>3, <2>4, <2>5, <2>6, <2>7, <2>8 DEF IInv
<1>17. ASSUME NEW c \in Conns, WatchStale(c)
      PROVE  IInv'
  <2>1. OneCallerWorks'
    BY <1>a, <1>b, <1>17 DEF TypeOK, OneCallerWorks, Working, Attempting, WatchStale
  <2>2. StateOfWork'
    BY <1>a, <1>b, <1>17 DEF TypeOK, StateOfWork, WatchStale
  <2>3. InHand'
    BY <1>a, <1>b, <1>17 DEF TypeOK, InHand, WatchStale
  <2>4. WatcherCloses'
    BY <1>a, <1>b, <1>17 DEF TypeOK, WatcherCloses, WatchStale
  <2>5. Owned'
    BY <1>a, <1>b, <1>17 DEF TypeOK, Owned, WatchStale
  <2>6. NothingSlipsThrough'
    BY <1>a, <1>b, <1>17 DEF TypeOK, NothingSlipsThrough, WatchStale
  <2>7. PublishedIsWatched'
    BY <1>a, <1>b, <1>17 DEF TypeOK, PublishedIsWatched, WatchStale
  <2>8. StatusCoherent'
    BY <1>a, <1>b, <1>17 DEF TypeOK, StatusCoherent, Status, WatchStale
  <2>9. QED
    BY <1>b, <2>1, <2>2, <2>3, <2>4, <2>5, <2>6, <2>7, <2>8 DEF IInv
<1>18. ASSUME NEW c \in Conns, WatchReports(c)
      PROVE  IInv'
  <2>1. OneCallerWorks'
    BY <1>a, <1>b, <1>18 DEF TypeOK, OneCallerWorks, Working, Attempting, WatchReports
  <2>2. StateOfWork'
    BY <1>a, <1>b, <1>18 DEF TypeOK, StateOfWork, StatusCoherent, Status, WatchReports
  <2>3. InHand'
    BY <1>a, <1>b, <1>18 DEF TypeOK, InHand, StateOfWork, StatusCoherent, Status,
        WatchReports
  <2>4. WatcherCloses'
    BY <1>a, <1>b, <1>18 DEF TypeOK, WatcherCloses, StateOfWork, StatusCoherent,
        Status, InHand, WatchReports
  <2>5. Owned'
    BY <1>a, <1>b, <1>18 DEF TypeOK, Owned, WatchReports
  <2>6. NothingSlipsThrough'
    BY <1>a, <1>b, <1>18 DEF TypeOK, NothingSlipsThrough, WatchReports
  <2>7. PublishedIsWatched'
    BY <1>a, <1>b, <1>18 DEF TypeOK, PublishedIsWatched, WatchReports
  <2>8. StatusCoherent'
    BY <1>a, <1>b, <1>18 DEF TypeOK, StatusCoherent, Status, WatchReports
  <2>9. QED
    BY <1>b, <2>1, <2>2, <2>3, <2>4, <2>5, <2>6, <2>7, <2>8 DEF IInv
<1>19. ASSUME NEW c \in Conns, WatchCloseReturns(c)
      PROVE  IInv'
  <2>1. OneCallerWorks'
    BY <1>a, <1>b, <1>19 DEF TypeOK, OneCallerWorks, Working, Attempting,
        WatchCloseReturns
  <2>2. StateOfWork'
    BY <1>a, <1>b, <1>19 DEF TypeOK, StateOfWork, WatchCloseReturns
  <2>3. InHand'
    BY <1>a, <1>b, <1>19 DEF TypeOK, InHand, WatcherCloses, WatchCloseReturns
  <2>4. WatcherCloses'
    BY <1>a, <1>b, <1>19 DEF TypeOK, WatcherCloses, WatchCloseReturns
  <2>5. Owned'
    BY <1>a, <1>b, <1>19 DEF TypeOK, Owned, WatchCloseReturns
  <2>6. NothingSlipsThrough'
    BY <1>a, <1>b, <1>19 DEF TypeOK, NothingSlipsThrough, WatchCloseReturns
  <2>7. PublishedIsWatched'
    BY <1>a, <1>b, <1>19 DEF TypeOK, PublishedIsWatched, WatcherCloses,
        WatchCloseReturns
  <2>8. StatusCoherent'
    BY <1>a, <1>b, <1>19 DEF TypeOK, StatusCoherent, Status, WatchCloseReturns
  <2>9. QED
    BY <1>b, <2>1, <2>2, <2>3, <2>4, <2>5, <2>6, <2>7, <2>8 DEF IInv
<1>20. ASSUME NEW c \in Conns, NEW how \in {"lost", "ended"}, LinkStops(c, how)
      PROVE  IInv'
  <2>1. OneCallerWorks'
    BY <1>a, <1>b, <1>20 DEF TypeOK, OneCallerWorks, Working, Attempting, LinkStops
  <2>2. StateOfWork'
    BY <1>a, <1>b, <1>20 DEF TypeOK, StateOfWork, LinkStops
  <2>3. InHand'
    BY <1>a, <1>b, <1>20 DEF TypeOK, InHand, LinkStops
  <2>4. WatcherCloses'
    BY <1>a, <1>b, <1>20 DEF TypeOK, WatcherCloses, LinkStops
  <2>5. Owned'
    BY <1>a, <1>b, <1>20 DEF TypeOK, Owned, LinkStops
  <2>6. NothingSlipsThrough'
    BY <1>a, <1>b, <1>20 DEF TypeOK, NothingSlipsThrough, LinkStops
  <2>7. PublishedIsWatched'
    BY <1>a, <1>b, <1>20 DEF TypeOK, PublishedIsWatched, LinkStops
  <2>8. StatusCoherent'
    BY <1>a, <1>b, <1>20 DEF TypeOK, StatusCoherent, Status, LinkStops
  <2>9. QED
    BY <1>b, <2>1, <2>2, <2>3, <2>4, <2>5, <2>6, <2>7, <2>8 DEF IInv
<1>21. CASE UNCHANGED vars
  <2>1. OneCallerWorks' /\ StateOfWork' /\ InHand'
    BY <1>a, <1>21 DEF OneCallerWorks, Working, Attempting, StateOfWork, InHand
  <2>2. WatcherCloses' /\ Owned'
    BY <1>a, <1>21 DEF WatcherCloses, Owned
  <2>3. NothingSlipsThrough' /\ PublishedIsWatched' /\ StatusCoherent'
    BY <1>a, <1>21 DEF NothingSlipsThrough, PublishedIsWatched, StatusCoherent, Status
  <2>4. QED
    BY <1>b, <2>1, <2>2, <2>3 DEF IInv
<1>22. QED
  BY <1>1, <1>2, <1>3, <1>4, <1>5, <1>6, <1>7, <1>8, <1>9, <1>10, <1>11, <1>12,
      <1>13, <1>14, <1>15, <1>16, <1>17, <1>18, <1>19, <1>20, <1>21 DEF Next, Request, Disconnect, Shutdown,
     DisconnectBy, AttemptReturns, Proceed, Watch, Errors

LEMMA Invariant == Spec => []IInv
<1>1. QED
  BY InitIInv, IInvStep, PTL DEF Spec

-----------------------------------------------------------------------------

\* One caller at a time brings the VPN up or takes it down.
THEOREM OneCallerAtATime == Spec => []OneCallerWorks
<1>1. IInv => OneCallerWorks
  BY DEF IInv
<1>2. QED
  BY Invariant, <1>1, PTL

\* A disconnect finds an attempt to cancel or a connection to close for as long
\* as there is one.
THEOREM DisconnectFindsWhatRuns == Spec => []NothingSlipsThrough
<1>1. IInv => NothingSlipsThrough
  BY DEF IInv
<1>2. QED
  BY Invariant, <1>1, PTL

\* Every connection that is not closed has exactly one owner that will close it.
THEOREM EveryConnectionOwned == Spec => []OneOwner
<1>1. IInv => OneOwner
  <2> SUFFICES ASSUME IInv, NEW c \in Conns
               PROVE  /\ conn[c] # "closed" => Owners(c) # {}
                      /\ \A o, p \in Owners(c) : o = p
                      /\ Owners(c) # {} => conn[c] # "closed"
    BY DEF OneOwner
  <2>1. conn[c] # "closed" => Owners(c) # {}
    BY DEF IInv, Owned, Owners
  <2>2. ASSUME connection = c
        PROVE  /\ conn[c] # "closed" /\ watcher[c] # "closing"
               /\ \A h \in Callers : held[h] # c
    BY <2>2 DEF IInv, PublishedIsWatched, StatusCoherent, Status, StateOfWork, InHand
  <2>3. ASSUME NEW h \in Callers, held[h] = c
        PROVE  /\ conn[c] # "closed" /\ watcher[c] # "closing"
               /\ \A g \in Callers : held[g] = c => g = h
    BY <2>3 DEF IInv, InHand, WatcherCloses, OneCallerWorks, Working, Attempting
  <2>4. ASSUME watcher[c] = "closing" PROVE conn[c] # "closed"
    BY <2>4 DEF IInv, WatcherCloses
  <2>5. QED
    BY <2>1, <2>2, <2>3, <2>4 DEF Owners
<1>2. QED
  BY Invariant, <1>1, PTL

\* The published connection is not being torn down, and is watched.
THEOREM PublishedConnectionWatched == Spec => []PublishedIsWatched
<1>1. IInv => PublishedIsWatched
  BY DEF IInv
<1>2. QED
  BY Invariant, <1>1, PTL

\* Every status snapshot is coherent.
THEOREM CoherentSnapshots == Spec => []StatusCoherent
<1>1. IInv => StatusCoherent
  BY DEF IInv
<1>2. QED
  BY Invariant, <1>1, PTL

-----------------------------------------------------------------------------

\* An attempt that a disconnect cancelled is never published.
THEOREM CancelledStaysDown == Spec => AbortedNeverPublished
<1> DEFINE Fresh == connection' \notin {connection, None}
           Own == \E h \in Callers \ cancelled : pc[h] = "returned" /\ held[h] = connection'
<1>1. ASSUME IInv, [Next]_vars, Fresh PROVE Own
  <2>1. PICK h \in Callers : Publish(h)
    BY <1>1 DEF Next, Request, Connect, Disconnect, Shutdown, DisconnectBy, CancelAttempt,
       NothingToClose, CloseConnection, AskStatus, AttemptReturns, ConnectFails,
       ConnectSucceeds, Proceed, Returned, Aborted, Failed, CloseReturns, Settle,
       Disconnected, Answer, Watch, WatchCancelled, WatchWakes, WatchStale, WatchReports,
       WatchCloseReturns, LinkStops
  <2>2. h \notin cancelled
    BY <1>1, <2>1 DEF IInv, NothingSlipsThrough, Publish, Returned
  <2>3. QED
    BY <2>1, <2>2 DEF Publish, Returned
<1>2. QED
  BY Invariant, <1>1, PTL DEF Spec, AbortedNeverPublished

-----------------------------------------------------------------------------
(* The daemon uses a connection as ConnectionObject allows. *)

\* The goroutines that are inside connection c's Close.
InClose(c) == {h \in Callers : held[h] = c /\ pc[h] \in {"undoing", "closing"}}
              \union {o \in {"watcher"} : watcher[c] = "closing"}

\* A connection that is being closed has one goroutine in its Close, any other has none.
ClosedByOne ==
    \A c \in Conns :
        IF conn[c] = "closing" THEN \E k : InClose(c) = {k} ELSE InClose(c) = {}

LEMMA OneInClose == IInv => ClosedByOne
<1> SUFFICES ASSUME IInv, NEW c \in Conns
             PROVE  IF conn[c] = "closing" THEN \E k : InClose(c) = {k} ELSE InClose(c) = {}
  BY DEF ClosedByOne
<1>t. /\ TypeOK /\ OneCallerWorks /\ InHand /\ WatcherCloses /\ Owned /\ PublishedIsWatched
  BY DEF IInv
<1>1. CASE conn[c] # "closing"
  <2>1. watcher[c] # "closing"
    BY <1>t, <1>1 DEF WatcherCloses
  <2>2. \A h \in Callers : ~(held[h] = c /\ pc[h] \in {"undoing", "closing"})
    <3>1. \A h \in Callers : pc[h] \in {"undoing", "closing"} => conn[held[h]] = "closing"
      BY <1>t, Zenon DEF InHand
    <3>2. QED
      BY <1>1, <3>1, Zenon
  <2>3. InClose(c) = {}
    BY <2>1, <2>2 DEF InClose
  <2>4. QED
    BY <1>1, <2>3
<1>2. CASE conn[c] = "closing" /\ watcher[c] = "closing"
  <2>1. InClose(c) = {"watcher"}
    BY <1>t, <1>2 DEF InClose, WatcherCloses
  <2>2. QED
    BY <1>2, <2>1
<1>3. CASE conn[c] = "closing" /\ watcher[c] # "closing"
  <2>1. connection # c
    BY <1>t, <1>3 DEF PublishedIsWatched
  <2>2. PICK h \in Callers : held[h] = c
    BY <1>t, <1>3, <2>1 DEF Owned
  <2>3. pc[h] \in {"undoing", "closing"}
    BY <1>t, <1>3, <2>2 DEF InHand
  <2>4. \A g \in Callers : pc[g] \in {"undoing", "closing"} => g = h
    BY <1>t, <2>3 DEF OneCallerWorks, Working, Attempting
  <2>5. InClose(c) = {h}
    BY <1>3, <2>2, <2>3, <2>4 DEF InClose
  <2>6. QED
    BY <1>3, <2>5
<1>4. QED
  BY <1>1, <1>2, <1>3

\* Every step in connection c's life is one of ConnectionObject's: Opens, Drops, CloseBegins
\* and CloseReturns, the last two by the same goroutine, and in between no other goes in.
LivesOn(c) ==
    \/ conn'[c] = conn[c] /\ InClose(c)' = InClose(c)
    \/ conn[c] = "closed" /\ conn'[c] = "up"
    \/ conn[c] = "up" /\ conn'[c] \in {"lost", "ended"}
    \/ conn[c] \in {"up", "lost", "ended"} /\ conn'[c] = "closing"
       /\ InClose(c) = {} /\ \E k : InClose(c)' = {k}
    \/ conn[c] = "closing" /\ conn'[c] = "closed"
       /\ InClose(c)' = {} /\ \E k : InClose(c) = {k}

LEMMA MovesOn ==
    ASSUME IInv, IInv', [Next]_vars, NEW c \in Conns
    PROVE  \/ conn'[c] = conn[c] /\ (conn[c] = "closing" => InClose(c)' = InClose(c))
           \/ conn[c] = "closed" /\ conn'[c] = "up"
           \/ conn[c] = "up" /\ conn'[c] \in {"lost", "ended"}
           \/ conn[c] \in {"up", "lost", "ended"} /\ conn'[c] = "closing"
           \/ conn[c] = "closing" /\ conn'[c] = "closed"
<1>t. /\ TypeOK /\ OneCallerWorks /\ InHand /\ WatcherCloses /\ PublishedIsWatched
  BY DEF IInv
<1> DEFINE Moves ==
           \/ conn'[c] = conn[c] /\ (conn[c] = "closing" => InClose(c)' = InClose(c))
           \/ conn[c] = "closed" /\ conn'[c] = "up"
           \/ conn[c] = "up" /\ conn'[c] \in {"lost", "ended"}
           \/ conn[c] \in {"up", "lost", "ended"} /\ conn'[c] = "closing"
           \/ conn[c] = "closing" /\ conn'[c] = "closed"
           Inside(h) == held[h] = c /\ pc[h] \in {"undoing", "closing"}
<1>0. ASSUME conn' = conn, \A h \in Callers : Inside(h)' <=> Inside(h),
             (watcher'[c] = "closing") <=> (watcher[c] = "closing")
      PROVE  Moves
  <2>1. InClose(c)' = InClose(c)
    BY <1>0 DEF InClose
  <2>2. QED
    BY <1>0, <2>1
<1>1. ASSUME NEW h \in Callers, Request(h) PROVE Moves
  <2>1. CASE \E cookie, host \in BOOLEAN : Connect(h, cookie, host)
    BY <1>0, <1>t, <2>1 DEF Connect, AnswerWith, TypeOK
  <2>2. CASE AskStatus(h)
    BY <1>0, <1>t, <2>2 DEF AskStatus, AnswerWith, TypeOK
  <2>3. ASSUME NEW e, DisconnectBy(h, e) PROVE Moves
    <3>1. CASE CancelAttempt(h)
      BY <1>0, <1>t, <2>3, <3>1 DEF DisconnectBy, CancelAttempt, AnswerWith, TypeOK
    <3>2. CASE NothingToClose(h, e)
      BY <1>0, <1>t, <2>3, <3>2 DEF DisconnectBy, NothingToClose, AnswerWith, TypeOK
    <3>3. CASE CloseConnection(h)
      <4>1. CASE c = connection
        BY <1>t, <3>3, <4>1 DEF CloseConnection, PublishedIsWatched, TypeOK
      <4>2. CASE c # connection
        <5>1. conn'[c] = conn[c] /\ held' = [held EXCEPT ![h] = connection]
              /\ pc' = [pc EXCEPT ![h] = "closing"]
          BY <1>t, <3>3, <4>2 DEF CloseConnection, TypeOK
        <5>2. \A g \in Callers : Inside(g)' <=> Inside(g)
          BY <1>t, <2>3, <4>2, <5>1 DEF DisconnectBy, TypeOK
        <5>3. (watcher'[c] = "closing") <=> (watcher[c] = "closing")
          BY <1>t, <3>3 DEF CloseConnection, StopWatching, TypeOK
        <5>4. InClose(c)' = InClose(c)
          BY <5>2, <5>3 DEF InClose
        <5>5. QED
          BY <5>1, <5>4
      <4>3. QED
        BY <4>1, <4>2
    <3>4. QED
      BY <2>3, <3>1, <3>2, <3>3 DEF DisconnectBy
  <2>4. QED
    BY <1>1, <2>1, <2>2, <2>3 DEF Request, Disconnect, Shutdown
<1>2. ASSUME NEW h \in Callers, AttemptReturns(h) PROVE Moves
  <2>1. CASE ConnectFails(h)
    BY <1>0, <1>t, <2>1 DEF ConnectFails, TypeOK
  <2>2. ASSUME NEW d \in Conns, ConnectSucceeds(h, d) PROVE Moves
    <3>1. CASE c = d
      BY <1>t, <2>2, <3>1 DEF ConnectSucceeds, Unreferenced, TypeOK
    <3>2. CASE c # d
      <4>1. conn'[c] = conn[c] /\ watcher' = watcher
        BY <1>t, <2>2, <3>2 DEF ConnectSucceeds, TypeOK
      <4>2. \A g \in Callers : Inside(g)' <=> Inside(g)
        BY <1>t, <2>2, <3>2 DEF ConnectSucceeds, TypeOK
      <4>3. InClose(c)' = InClose(c)
        BY <4>1, <4>2 DEF InClose
      <4>4. QED
        BY <4>1, <4>3
    <3>3. QED
      BY <3>1, <3>2
  <2>3. QED
    BY <1>2, <2>1, <2>2 DEF AttemptReturns
<1>3. ASSUME NEW h \in Callers, Proceed(h) PROVE Moves
  <2>1. CASE Aborted(h)
    <3>1. CASE c = held[h]
      BY <1>t, <2>1, <3>1 DEF Aborted, Returned, InHand, TypeOK
    <3>2. CASE c # held[h]
      <4>1. conn'[c] = conn[c] /\ watcher' = watcher /\ held' = held
        BY <1>t, <2>1, <3>2 DEF Aborted, TypeOK
      <4>2. \A g \in Callers : Inside(g)' <=> Inside(g)
        BY <1>t, <2>1, <3>2 DEF Aborted, Returned, TypeOK
      <4>3. InClose(c)' = InClose(c)
        BY <4>1, <4>2 DEF InClose
      <4>4. QED
        BY <4>1, <4>3
    <3>3. QED
      BY <3>1, <3>2
  <2>2. CASE Failed(h)
    BY <1>0, <1>t, <2>2 DEF Failed, Returned, AnswerWith, TypeOK
  <2>3. CASE Publish(h)
    <3>1. \A g \in Callers : Inside(g)' <=> Inside(g)
      BY <1>t, <2>3 DEF Publish, Returned, AnswerWith, TypeOK
    <3>2. conn' = conn /\ watcher' = [watcher EXCEPT ![held[h]] = "waiting"]
      BY <2>3 DEF Publish
    <3>3. watcher[held[h]] # "closing"
      BY <1>t, <2>3 DEF Publish, TypeOK, WatcherCloses
    <3>4. (watcher'[c] = "closing") <=> (watcher[c] = "closing")
      BY <1>t, <3>2, <3>3 DEF TypeOK
    <3>5. QED
      BY <1>0, <3>1, <3>2, <3>4
  <2>4. ASSUME NEW e, CloseReturns(h, e) PROVE Moves
    <3>1. CASE c = held[h]
      BY <1>t, <2>4, <3>1 DEF CloseReturns, InHand, TypeOK
    <3>2. CASE c # held[h]
      <4>1. conn'[c] = conn[c] /\ watcher' = watcher
        BY <1>t, <2>4, <3>2 DEF CloseReturns, TypeOK
      <4>2. \A g \in Callers : Inside(g)' <=> Inside(g)
        BY <1>t, <2>4, <3>2 DEF CloseReturns, TypeOK
      <4>3. InClose(c)' = InClose(c)
        BY <4>1, <4>2 DEF InClose
      <4>4. QED
        BY <4>1, <4>3
    <3>3. QED
      BY <3>1, <3>2
  <2>5. CASE Settle(h)
    BY <1>0, <1>t, <2>5 DEF Settle, AnswerWith, TypeOK
  <2>6. CASE Disconnected(h)
    BY <1>0, <1>t, <2>6 DEF Disconnected, AnswerWith, TypeOK
  <2>7. CASE Answer(h)
    BY <1>0, <1>t, <2>7 DEF Answer, TypeOK
  <2>8. QED
    BY <1>3, <2>1, <2>2, <2>3, <2>4, <2>5, <2>6, <2>7 DEF Proceed
<1>4. ASSUME NEW d \in Conns, Watch(d) PROVE Moves
  <2>1. CASE WatchCancelled(d) \/ WatchWakes(d) \/ WatchStale(d)
    BY <1>0, <1>t, <2>1 DEF WatchCancelled, WatchWakes, WatchStale, TypeOK
  <2>2. CASE WatchReports(d)
    <3>1. CASE c = d
      BY <1>t, <2>2, <3>1 DEF WatchReports, PublishedIsWatched, TypeOK
    <3>2. CASE c # d
      <4>1. conn'[c] = conn[c] /\ watcher'[c] = watcher[c] /\ UNCHANGED callers
        BY <1>t, <2>2, <3>2 DEF WatchReports, TypeOK
      <4>2. InClose(c)' = InClose(c)
        BY <4>1 DEF InClose
      <4>3. QED
        BY <4>1, <4>2
    <3>3. QED
      BY <3>1, <3>2
  <2>3. CASE WatchCloseReturns(d)
    <3>1. CASE c = d
      BY <1>t, <2>3, <3>1 DEF WatchCloseReturns, WatcherCloses, TypeOK
    <3>2. CASE c # d
      <4>1. conn'[c] = conn[c] /\ watcher'[c] = watcher[c] /\ UNCHANGED callers
        BY <1>t, <2>3, <3>2 DEF WatchCloseReturns, TypeOK
      <4>2. InClose(c)' = InClose(c)
        BY <4>1 DEF InClose
      <4>3. QED
        BY <4>1, <4>2
    <3>3. QED
      BY <3>1, <3>2
  <2>4. QED
    BY <1>4, <2>1, <2>2, <2>3 DEF Watch
<1>5. ASSUME NEW d \in Conns, NEW how \in {"lost", "ended"}, LinkStops(d, how) PROVE Moves
  <2>1. UNCHANGED <<callers, watcher>>
    BY <1>5 DEF LinkStops
  <2>2. InClose(c)' = InClose(c)
    BY <2>1 DEF InClose
  <2>3. QED
    BY <1>t, <1>5, <2>2 DEF LinkStops, TypeOK
<1>6. CASE UNCHANGED vars
  BY <1>0, <1>6
<1>7. QED
  BY <1>1, <1>2, <1>3, <1>4, <1>5, <1>6 DEF Next

\* Of a connection the daemon asks no more than ConnectionObject promises: it calls Close once,
\* from one goroutine, and never on one that is being closed already (daemon.go:214-218, 266-271,
\* 300-310).
THEOREM UsesConnectionsAsPromised == Spec => [][\A c \in Conns : LivesOn(c)]_vars
<1>1. ASSUME IInv, IInv', ClosedByOne, ClosedByOne', [Next]_vars
      PROVE  \A c \in Conns : LivesOn(c)
  <2> SUFFICES ASSUME NEW c \in Conns PROVE LivesOn(c)
    OBVIOUS
  <2>1. IF conn[c] = "closing" THEN \E k : InClose(c) = {k} ELSE InClose(c) = {}
    BY <1>1 DEF ClosedByOne
  <2>2. IF conn'[c] = "closing" THEN \E k : InClose(c)' = {k} ELSE InClose(c)' = {}
    BY <1>1 DEF ClosedByOne
  <2>3. QED
    BY <1>1, <2>1, <2>2, MovesOn DEF LivesOn
<1>2. QED
  BY Invariant, OneInClose, <1>1, PTL DEF Spec

-----------------------------------------------------------------------------
(* The daemon implements VpnService. *)

\* The abstract phase is the reported state, in the client's words.
LEMMA PhaseIsState ==
    ASSUME IInv
    PROVE  /\ state = "connected" => absPhase = "up"
           /\ state = "connecting" => absPhase = "starting"
           /\ state = "disconnecting" => absPhase = "stopping"
           /\ state \in {"disconnected", "error"} => absPhase = "down"
  BY DEF IInv, StatusCoherent, Status, absPhase

LEMMA PhaseIsStateNext ==
    ASSUME IInv'
    PROVE  /\ state' = "connected" => absPhase' = "up"
           /\ state' = "connecting" => absPhase' = "starting"
           /\ state' = "disconnecting" => absPhase' = "stopping"
           /\ state' \in {"disconnected", "error"} => absPhase' = "down"
  BY DEF IInv, StatusCoherent, Status, absPhase

\* The abstract attempt is the one caller that is attempting, if any.
LEMMA AttemptIs ==
    ASSUME OneCallerWorks
    PROVE  /\ \A h \in Callers : Attempting(h) => absAttempt = h
           /\ (\A h \in Callers : ~Attempting(h)) => absAttempt = None
  BY DEF OneCallerWorks, Working, absAttempt

LEMMA AttemptIsNext ==
    ASSUME OneCallerWorks'
    PROVE  /\ \A h \in Callers : Attempting(h)' => absAttempt' = h
           /\ (\A h \in Callers : ~Attempting(h)') => absAttempt' = None
  BY DEF OneCallerWorks, Working, absAttempt

LEMMA AttemptKept ==
    ASSUME OneCallerWorks, OneCallerWorks',
           \A h \in Callers : Attempting(h)' <=> Attempting(h)
    PROVE  absAttempt' = absAttempt
  BY AttemptIs, AttemptIsNext

LEMMA BusyKept ==
    ASSUME \A h \in Callers : pc'[h] = "idle" <=> pc[h] = "idle"
    PROVE  {h \in Callers : pc[h] # "idle"}' = {h \in Callers : pc[h] # "idle"}
  OBVIOUS

\* A caller goes from idle to its answer: the attempt does not change.
LEMMA AcceptedAttemptKept ==
    ASSUME IInv, IInv', NEW h \in Callers, NEW x \in PCs,
           pc' = [pc EXCEPT ![h] = x], pc[h] = "idle",
           x \in {"answering", "closing"}
    PROVE  /\ absAttempt' = absAttempt
           /\ Service!Accept(h)
<1>1. \A g \in Callers : Attempting(g)' <=> Attempting(g)
  BY DEF IInv, TypeOK, Attempting
<1>2. QED
  BY <1>1, AttemptKept DEF IInv, TypeOK, Service!Accept

\* Every step of the daemon is a step of the service, or changes nothing it shows.
LEMMA StepRefines == IInv /\ IInv' /\ [Next]_vars => [Service!Next]_Service!vars
<1> SUFFICES ASSUME IInv, IInv', [Next]_vars PROVE [Service!Next]_Service!vars
  OBVIOUS
<1>t. /\ TypeOK /\ TypeOK' /\ OneCallerWorks /\ OneCallerWorks' /\ StateOfWork
      /\ NothingSlipsThrough /\ StatusCoherent /\ StatusCoherent'
  BY DEF IInv
<1> DEFINE Same == UNCHANGED Service!vars
<1>1. ASSUME NEW h \in Callers, NEW cookie \in BOOLEAN, NEW host \in BOOLEAN,
             Connect(h, cookie, host)
      PROVE  Service!Refuse(h) \/ Service!Start(h)
  <2>1. CASE Refused(cookie, host)
    <3>1. /\ pc[h] = "idle" /\ pc' = [pc EXCEPT ![h] = "answering"]
          /\ state' = state /\ connection' = connection
      BY <1>1, <2>1 DEF Connect, AnswerWith
    <3>2. QED
      BY <3>1, AcceptedAttemptKept DEF Service!Refuse, absPhase, PCs
  <2>2. CASE ~Refused(cookie, host)
    <3>1. /\ pc[h] = "idle" /\ pc' = [pc EXCEPT ![h] = "connecting"]
          /\ state \in {"disconnected", "error"} /\ state' = "connecting"
      BY <1>1, <1>t, <2>2 DEF Connect, Refused, TypeOK, States
    <3>2. absPhase = "down" /\ absPhase' = "starting"
      BY <3>1, PhaseIsState, PhaseIsStateNext
    <3>3. absAttempt' = h
      BY <1>t, <3>1, AttemptIsNext DEF TypeOK, Attempting
    <3>4. Service!Accept(h)
      BY <1>t, <3>1 DEF TypeOK, Service!Accept
    <3>5. QED
      BY <3>2, <3>3, <3>4 DEF Service!Start
  <2>3. QED
    BY <2>1, <2>2
<1>2. ASSUME NEW h \in Callers, NEW e \in Errors, DisconnectBy(h, e)
      PROVE  Service!Refuse(h) \/ Service!Stop(h)
  <2>1. CASE CancelAttempt(h)
    <3>1. /\ pc[h] = "idle" /\ pc' = [pc EXCEPT ![h] = "answering"]
          /\ state \in {"connecting", "disconnecting"} /\ state' = "disconnecting"
      BY <1>2, <1>t, <2>1 DEF DisconnectBy, CancelAttempt, AnswerWith, NothingSlipsThrough
    <3>2. QED
      BY <3>1, AcceptedAttemptKept, PhaseIsState, PhaseIsStateNext DEF Service!Stop, PCs
  <2>2. CASE NothingToClose(h, e)
    <3>1. /\ pc[h] = "idle" /\ pc' = [pc EXCEPT ![h] = "answering"]
          /\ state' = state /\ connection' = connection
      BY <1>2, <2>2 DEF DisconnectBy, NothingToClose, AnswerWith
    <3>2. QED
      BY <3>1, AcceptedAttemptKept DEF Service!Refuse, absPhase, PCs
  <2>3. CASE CloseConnection(h)
    <3>1. /\ pc[h] = "idle" /\ pc' = [pc EXCEPT ![h] = "closing"]
          /\ state = "connected" /\ state' = "disconnecting"
      BY <1>2, <1>t, <2>3 DEF DisconnectBy, CloseConnection, StatusCoherent, Status
    <3>2. QED
      BY <3>1, AcceptedAttemptKept, PhaseIsState, PhaseIsStateNext DEF Service!Stop, PCs
  <2>4. QED
    BY <1>2, <2>1, <2>2, <2>3 DEF DisconnectBy
<1>3. ASSUME NEW h \in Callers, AskStatus(h) PROVE Service!Refuse(h)
  <2>1. /\ pc[h] = "idle" /\ pc' = [pc EXCEPT ![h] = "answering"]
        /\ state' = state /\ connection' = connection
    BY <1>3 DEF AskStatus, AnswerWith
  <2>2. QED
    BY <2>1, AcceptedAttemptKept DEF Service!Refuse, absPhase, PCs
<1>4. ASSUME NEW h \in Callers, AttemptReturns(h) PROVE Same
  <2>1. /\ pc[h] = "connecting" /\ pc' = [pc EXCEPT ![h] = "returned"]
        /\ state' = state /\ connection' = connection
    BY <1>4 DEF AttemptReturns, ConnectSucceeds, ConnectFails
  <2>2. \A g \in Callers : /\ Attempting(g)' <=> Attempting(g)
                           /\ pc'[g] = "idle" <=> pc[g] = "idle"
    BY <1>t, <2>1 DEF TypeOK, Attempting
  <2>3. absAttempt' = absAttempt
    BY <1>t, <2>2, AttemptKept
  <2>4. QED
    BY <2>1, <2>2, <2>3, BusyKept DEF Service!vars, absPhase
<1>5. ASSUME NEW h \in Callers, Aborted(h) PROVE Same
  <2>1. /\ pc[h] = "returned" /\ state' = state /\ connection' = connection
        /\ \/ pc' = [pc EXCEPT ![h] = "undone"]
           \/ pc' = [pc EXCEPT ![h] = "undoing"]
    BY <1>5 DEF Aborted, Returned
  <2>2. \A g \in Callers : /\ Attempting(g)' <=> Attempting(g)
                           /\ pc'[g] = "idle" <=> pc[g] = "idle"
    BY <1>t, <2>1 DEF TypeOK, Attempting
  <2>3. absAttempt' = absAttempt
    BY <1>t, <2>2, AttemptKept
  <2>4. QED
    BY <2>1, <2>2, <2>3, BusyKept DEF Service!vars, absPhase
<1>6. ASSUME NEW h \in Callers, Failed(h) \/ Publish(h) PROVE Service!Fail \/ Service!Up
  <2>1. /\ pc[h] = "returned" /\ pc' = [pc EXCEPT ![h] = "answering"]
        /\ state = "connecting" /\ state' \in {"error", "connected"}
    BY <1>6, <1>t DEF Failed, Publish, Returned, AnswerWith, StateOfWork
  <2>2. \A g \in Callers : /\ ~Attempting(g)'
                           /\ pc'[g] = "idle" <=> pc[g] = "idle"
    BY <1>t, <2>1 DEF TypeOK, Attempting, OneCallerWorks, Working
  <2>3. absAttempt' = None
    BY <1>t, <2>2, AttemptIsNext
  <2>4. QED
    BY <2>1, <2>2, <2>3, BusyKept, PhaseIsState, PhaseIsStateNext
       DEF Service!Fail, Service!Up
<1>7. ASSUME NEW h \in Callers, NEW e \in {"nil", "close failed"}, CloseReturns(h, e)
      PROVE  Same
  <2>1. /\ state' = state /\ connection' = connection
        /\ \/ pc[h] = "undoing" /\ pc' = [pc EXCEPT ![h] = "undone"]
           \/ pc[h] = "closing" /\ pc' = [pc EXCEPT ![h] = "closed"]
    BY <1>7, <1>t DEF CloseReturns, TypeOK
  <2>2. \A g \in Callers : /\ Attempting(g)' <=> Attempting(g)
                           /\ pc'[g] = "idle" <=> pc[g] = "idle"
    BY <1>t, <2>1 DEF TypeOK, Attempting
  <2>3. absAttempt' = absAttempt
    BY <1>t, <2>2, AttemptKept
  <2>4. QED
    BY <2>1, <2>2, <2>3, BusyKept DEF Service!vars, absPhase
<1>8. ASSUME NEW h \in Callers, Settle(h) \/ Disconnected(h) PROVE Service!Stopped
  <2>1. /\ pc[h] \in {"undone", "closed"} /\ pc' = [pc EXCEPT ![h] = "answering"]
        /\ state = "disconnecting" /\ state' = "disconnected"
    BY <1>8, <1>t DEF Settle, Disconnected, AnswerWith, StateOfWork
  <2>2. \A g \in Callers : /\ ~Attempting(g)'
                           /\ pc'[g] = "idle" <=> pc[g] = "idle"
    BY <1>t, <2>1 DEF TypeOK, Attempting, OneCallerWorks, Working
  <2>3. absAttempt' = None
    BY <1>t, <2>2, AttemptIsNext
  <2>4. QED
    BY <2>1, <2>2, <2>3, BusyKept, PhaseIsState, PhaseIsStateNext DEF Service!Stopped
<1>9. ASSUME NEW h \in Callers, Answer(h) PROVE Service!Answer(h)
  <2>1. /\ pc[h] = "answering" /\ pc' = [pc EXCEPT ![h] = "idle"]
        /\ state' = state /\ connection' = connection
    BY <1>9 DEF Answer
  <2>2. \A g \in Callers : /\ Attempting(g)' <=> Attempting(g)
                           /\ pc'[g] = IF g = h THEN "idle" ELSE pc[g]
    BY <1>t, <2>1 DEF TypeOK, Attempting
  <2>3. absAttempt' = absAttempt /\ absAttempt # h
    BY <1>t, <2>1, <2>2, AttemptKept, AttemptIs DEF Attempting
  <2>4. QED
    BY <2>1, <2>2, <2>3 DEF Service!Answer, absPhase
<1>10. ASSUME NEW c \in Conns, WatchReports(c) PROVE Service!Lost
  <2>1. /\ pc' = pc /\ state = "connected" /\ state' \in {"error", "disconnected"}
    BY <1>10, <1>t DEF WatchReports, StatusCoherent, Status
  <2>2. QED
    BY <1>t, <2>1, AttemptKept, PhaseIsState, PhaseIsStateNext DEF Service!Lost, Attempting
<1>11. ASSUME pc' = pc, state' = state, connection' = connection PROVE Same
  BY <1>t, <1>11, AttemptKept DEF Service!vars, absPhase, Attempting
<1>12. ASSUME NEW c \in Conns,
              \/ WatchCancelled(c) \/ WatchWakes(c) \/ WatchStale(c) \/ WatchCloseReturns(c)
              \/ \E how \in {"lost", "ended"} : LinkStops(c, how)
       PROVE  Same
  BY <1>11, <1>12 DEF WatchCancelled, WatchWakes, WatchStale, WatchCloseReturns, LinkStops
<1>13. CASE UNCHANGED vars
  BY <1>11, <1>13
<1>14. QED
  BY <1>1, <1>2, <1>3, <1>4, <1>5, <1>6, <1>7, <1>8, <1>9, <1>10, <1>12, <1>13
     DEF Next, Request, Disconnect, Shutdown, AttemptReturns, Proceed, Watch, Errors,
         Service!Next

\* The daemon is an implementation of the abstract service.
THEOREM DaemonImplementsService == Spec => ImplementsService
<1>1. Init => Service!Init
  BY DEF Init, Service!Init, absPhase, absAttempt, Attempting
<1>2. QED
  BY Invariant, <1>1, StepRefines, PTL DEF Spec, ImplementsService, Service!SafeSpec
=============================================================================
