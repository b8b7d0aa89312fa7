---------------------------- MODULE SvpndProofs -----------------------------
(***************************************************************************)
(* Proofs about Svpnd and ControlSocket, for any number of clients,        *)
(* connections and other daemons: the process runs the daemon as Daemon    *)
(* specifies it, so the daemon's invariants hold in it; no handler runs    *)
(* when Shutdown does; when the process exits the daemon owns nothing; and *)
(* a daemon that serves is the one that answers at the path.               *)
(***************************************************************************)
EXTENDS ControlSocket, DaemonProofs

\* Where main is says where the goroutines are: a request is in a served
\* client's hands, main calls the daemon only to shut it down, and from then
\* on nothing is published.
Served ==
    /\ served \subseteq Clients
    /\ \A h \in Clients : pc[h] # "idle" => h \in served
    /\ main \in {"stopping", "exited"} => served = {} /\ connection = None
    /\ main \in {"accepting", "waiting", "exited"} => pc[Main] = "idle"
    /\ main \in {"accepting", "waiting", "stopping", "exited"}
    /\ pc[Main] \in {"idle", "closing", "closed", "answering"}

USE NoneIsNothing, MainIsACaller

-----------------------------------------------------------------------------
(* The process runs the daemon. *)

\* A step of the process is a step of the daemon or leaves it alone.
LEMMA ProcessStepRefines == [ProcessNext]_allVars => [Next]_vars
<1> SUFFICES ASSUME [ProcessNext]_allVars PROVE [Next]_vars
  OBVIOUS
<1>1. CASE Running /\ Serving
  BY <1>1 DEF Serving, ListenerCloses, AcceptFails, ServeReturns, Exits, Next, Request
<1>2. CASE Running /\ Outside
  BY <1>2 DEF Outside, TermArrives, AcceptFails, ClientAccepted, ClientAsks, ClientLeaves,
              Clients, Next, Request
<1>3. CASE \E h \in Callers : Continue(h)
  BY <1>3 DEF Continue, Next
<1>4. CASE \E c \in Conns : Watching(c) \/ \E how \in {"lost", "ended"} : LinkDrops(c, how)
  BY <1>4 DEF Watching, LinkDrops, Next
<1>5. CASE UNCHANGED allVars
  BY <1>5 DEF allVars
<1>6. QED
  BY <1>1, <1>2, <1>3, <1>4, <1>5 DEF ProcessNext

\* Everything proved of Daemon is true of the process (serve.go:92-98).
THEOREM ProcessRunsDaemon == ProcessSpec => Spec
<1>1. ProcessInit => Init
  BY DEF ProcessInit
<1>2. QED
  BY <1>1, ProcessStepRefines, PTL DEF ProcessSpec, Spec

\* The daemon in the process implements the abstract service.
THEOREM ProcessImplementsService == ProcessSpec => ImplementsService
<1>1. QED
  BY ProcessRunsDaemon, DaemonImplementsService, PTL

-----------------------------------------------------------------------------
(* Serve waits, and Shutdown leaves nothing published. *)

\* Only a served client starts a request, only a caller in the middle of one goes
\* on, and main is never in the middle of a connect.
LEMMA ServedStep == IInv /\ Served /\ [ProcessNext]_allVars => Served'
<1> SUFFICES ASSUME IInv, Served, [ProcessNext]_allVars PROVE Served'
  OBVIOUS
<1>t. TypeOK /\ NothingSlipsThrough
  BY DEF IInv
<1> USE DEF Served, Clients
<1>1. CASE Running /\ (ListenerCloses \/ AcceptFails \/ Exits \/ TermArrives)
  BY <1>1 DEF Running, ListenerCloses, AcceptFails, Exits, TermArrives, vars, fields, callers
<1>2. CASE Running /\ ServeReturns
  <2>1. /\ main = "waiting" /\ served = {} /\ main' = "stopping" /\ served' = {}
        /\ Shutdown(Main)
    BY <1>2 DEF ServeReturns
  <2>2. /\ connection' = None
        /\ pc' = [pc EXCEPT ![Main] = "answering"] \/ pc' = [pc EXCEPT ![Main] = "closing"]
    BY <2>1, <1>t DEF Shutdown, DisconnectBy, CancelAttempt, NothingToClose, CloseConnection,
                      StopWatching, AnswerWith, NothingSlipsThrough, fields
  <2>3. QED
    BY <1>t, <2>1, <2>2 DEF TypeOK
<1>3. ASSUME NEW h \in Clients, Running, ClientAccepted(h) \/ ClientLeaves(h) PROVE Served'
  BY <1>3 DEF ClientAccepted, ClientLeaves, vars, fields, callers, Running
<1>4. ASSUME NEW h \in Clients, Running, ClientAsks(h) PROVE Served'
  <2>1. h \in served /\ UNCHANGED process /\ main \notin {"stopping", "exited"}
    BY <1>4 DEF ClientAsks
  <2>2. PICK x \in PCs : pc' = [pc EXCEPT ![h] = x]
    BY <1>4 DEF ClientAsks, Connect, Disconnect, DisconnectBy, CancelAttempt, NothingToClose,
                CloseConnection, AskStatus, AnswerWith, PCs
  <2>3. QED
    BY <1>t, <2>1, <2>2 DEF TypeOK, process
<1>5. ASSUME NEW h \in Callers, Continue(h) PROVE Served'
  <2>1. UNCHANGED process /\ main # "exited" /\ (AttemptReturns(h) \/ Proceed(h))
    BY <1>5 DEF Continue, Running
  <2>2. pc[h] # "idle"
    BY <2>1 DEF AttemptReturns, ConnectFails, ConnectSucceeds, Proceed, Aborted, Failed, Publish,
                Returned, CloseReturns, Settle, Disconnected, Answer
  <2>3. PICK x \in PCs : pc' = [pc EXCEPT ![h] = x]
    BY <2>1 DEF AttemptReturns, ConnectFails, ConnectSucceeds, Proceed, Aborted, Failed, Publish,
                CloseReturns, Settle, Disconnected, Answer, AnswerWith, PCs
  <2>4. h = Main => x \in {"idle", "closed", "answering"}
    BY <1>t, <2>1, <2>3 DEF TypeOK, AttemptReturns, ConnectFails, ConnectSucceeds, Proceed,
                Aborted, Failed, Publish, Returned, CloseReturns, Settle, Disconnected, Answer,
                AnswerWith
  <2>5. main \in {"stopping", "exited"} => h = Main
    BY <2>2
  <2>6. h = Main => connection' = connection
    BY <2>1 DEF AttemptReturns, ConnectFails, ConnectSucceeds, Proceed, Aborted, Failed, Publish,
                Returned, CloseReturns, Settle, Disconnected, Answer, fields
  <2>7. QED
    BY <1>t, <2>1, <2>2, <2>3, <2>4, <2>5, <2>6 DEF TypeOK, process
<1>6. ASSUME NEW c \in Conns,
             Watching(c) \/ \E how \in {"lost", "ended"} : LinkDrops(c, how)
      PROVE  Served'
  <2>1. /\ UNCHANGED process /\ pc' = pc
        /\ connection' = connection \/ connection' = None
    BY <1>6 DEF Watching, Watch, WatchCancelled, WatchWakes, WatchStale, WatchReports,
                WatchCloseReturns, LinkDrops, LinkStops, callers, fields
  <2>2. QED
    BY <2>1 DEF process
<1>7. CASE UNCHANGED allVars
  BY <1>7 DEF allVars, vars, fields, callers, process
<1>8. QED
  BY <1>1, <1>2, <1>3, <1>4, <1>5, <1>6, <1>7
     DEF ProcessNext, Serving, Outside

LEMMA ServedInvariant == ProcessSpec => [](IInv /\ Served)
<1>1. ProcessInit => Served
  BY DEF ProcessInit, Init, Served, Clients
<1>2. QED
  BY <1>1, ServedStep, ProcessRunsDaemon, Invariant, PTL DEF ProcessSpec

\* No handler runs while Shutdown does, nor after it.
THEOREM NoHandlerDuringShutdown == ProcessSpec => []HandlersAreOver
<1>1. Served => HandlersAreOver
  BY DEF Served, HandlersAreOver
<1>2. QED
  BY <1>1, ServedInvariant, PTL

\* What is not closed when the process exits is in a watcher's hands.
THEOREM ExitClosesWhatItOwns == ProcessSpec => []ExitOwnsNothing
<1>1. IInv /\ Served => ExitOwnsNothing
  <2> SUFFICES ASSUME IInv, Served, main = "exited"
               PROVE  /\ connection = None
                      /\ \A h \in Callers : held[h] = None
                      /\ \A c \in Conns : conn[c] # "closed" => watcher[c] = "closing"
    BY DEF ExitOwnsNothing
  <2>1. connection = None /\ \A h \in Callers : pc[h] = "idle"
    BY DEF Served, Clients
  <2>2. \A h \in Callers : held[h] = None
    BY <2>1 DEF IInv, InHand
  <2>3. \A c \in Conns : conn[c] # "closed" => watcher[c] = "closing"
    BY <2>1, <2>2 DEF IInv, Owned
  <2>4. QED
    BY <2>1, <2>2, <2>3
<1>2. QED
  BY <1>1, ServedInvariant, PTL

-----------------------------------------------------------------------------
(* The socket *)

\* Only a process that has bound its socket, and lives, has one at the path.
OwnerIsUp == \A p \in Daemons : owner = p => at[p] \in {"modes", "opened", "serving"}

\* Two processes that are up at once know of each other.
TheyMeet == \A p, q \in Daemons : p # q /\ at[p] \notin Down /\ at[q] \notin Down => p \in met

\* What a process found at the path is still so, or another has changed it.
PathAsFound ==
    \A p \in Daemons :
        /\ at[p] \in {"dial", "remove"} => owner # None \/ p \in met
        /\ at[p] = "listen" => owner = None \/ p \in met
        /\ at[p] = "refused" => p \in met

\* As long as no two starts overlapped, one process at most is starting, whoever
\* listens is at the path, and nobody takes away the path of one that listens.
OneStarts ==
    ~overlapped =>
        /\ \A p, q \in Daemons : at[p] \in Starting /\ at[q] \in Starting => p = q
        /\ \A p \in Daemons :
              /\ Listening(p) => owner = p
              /\ at[p] = "opened" \/ (at[p] = "serving" /\ Listening(p)) => grouped
              /\ at[p] \in {"remove", "listen"} => \A q \in Daemons : ~Listening(q)

SocketInv == SocketTypeOK /\ OwnerIsUp /\ TheyMeet /\ PathAsFound /\ OneStarts

\* What happens at the path does not touch the process.
THEOREM HostRunsProcess == HostSpec => ProcessSpec
<1>1. HostInit => ProcessInit
  BY DEF HostInit
<1>2. [HostNext]_hostVars => [ProcessNext]_allVars
  BY DEF HostNext, Starts, Listen, Inspects, Dials, Removes, Binds, SetsModes, CannotSetModes, Serves,
         CannotServe, RivalStops, RivalDies, Lives, hostVars
<1>3. QED
  BY <1>1, <1>2, PTL DEF HostSpec, ProcessSpec

\* A listener that is closed stays so.
LEMMA ListenerStaysClosed == ProcessNext /\ listening' => listening
BY DEF ProcessNext, Serving, ListenerCloses, AcceptFails, ServeReturns, Exits, Outside, TermArrives,
       ClientAccepted, ClientAsks, ClientLeaves, Continue, Watching, LinkDrops, process

LEMMA SocketInit == HostInit => SocketInv
<1> SUFFICES ASSUME HostInit PROVE SocketInv
  OBVIOUS
<1> USE DEF HostInit
<1>1. SocketTypeOK
  <2>1. at \in [Daemons -> {"off", "stat", "dial", "remove", "listen", "modes", "opened",
                           "serving", "over", "refused"}]
    OBVIOUS
  <2>2. owner \in Daemons \union {Stale, None} /\ met \subseteq Daemons
    OBVIOUS
  <2>3. grouped \in BOOLEAN /\ overlapped \in BOOLEAN
    BY Zenon
  <2>4. QED
    BY <2>1, <2>2, <2>3, Zenon DEF SocketTypeOK
<1>2. \A p \in Daemons : owner # p
  BY StaleIsNobody, NoneIsNothing, MainIsACaller, RivalsAreOthers DEF Daemons
<1>3. \A p \in Daemons : ~Listening(p)
  BY DEF Listening
<1>4. OwnerIsUp /\ TheyMeet /\ PathAsFound /\ OneStarts
  BY <1>2, <1>3 DEF OwnerIsUp, TheyMeet, PathAsFound, OneStarts, Down, Starting
<1>5. QED
  BY <1>1, <1>4 DEF SocketInv

LEMMA NobodyIsNoDaemon == \A p \in Daemons : p # None /\ p # Stale
BY StaleIsNobody, NoneIsNothing, MainIsACaller, RivalsAreOthers DEF Daemons

\* The types, and who is up.
LEMMA SocketTyped == SocketInv /\ [HostNext]_hostVars => SocketTypeOK'
<1> SUFFICES ASSUME SocketTypeOK, [HostNext]_hostVars PROVE SocketTypeOK'
  BY DEF SocketInv
<1> USE DEF SocketTypeOK, Goes, Ended, Left
<1>1. Main \in Daemons
  BY DEF Daemons
<1>2. ASSUME NEW p \in Daemons, Starts(p) PROVE SocketTypeOK'
  <2>1. overlapped' \in BOOLEAN
    BY <1>2, Zenon DEF Starts
  <2>2. QED
    BY <1>2, <2>1 DEF Starts
<1>3. ASSUME NEW p \in Daemons, Inspects(p) \/ Dials(p) \/ Removes(p) PROVE SocketTypeOK'
  BY <1>3 DEF Inspects, Dials, Removes
<1>4. ASSUME NEW p \in Daemons, Binds(p) \/ SetsModes(p) PROVE SocketTypeOK'
  <2>1. grouped' \in BOOLEAN
    BY <1>4, Zenon DEF Binds, SetsModes
  <2>2. QED
    BY <1>4, <2>1 DEF Binds, SetsModes
<1>5. ASSUME NEW p \in Daemons, CannotSetModes(p) \/ Serves(p) \/ CannotServe(p) PROVE SocketTypeOK'
  BY <1>5 DEF CannotSetModes, Serves, CannotServe
<1>6. ASSUME NEW p \in Rivals, RivalStops(p) \/ RivalDies(p) PROVE SocketTypeOK'
  BY <1>6 DEF RivalStops, RivalDies, Daemons
<1>7. CASE Lives
  BY <1>7, <1>1 DEF Lives
<1>8. CASE UNCHANGED hostVars
  BY <1>8 DEF hostVars, socketVars
<1>9. QED
  BY <1>2, <1>3, <1>4, <1>5, <1>6, <1>7, <1>8 DEF HostNext, Listen

LEMMA OwnerStep == SocketInv /\ [HostNext]_hostVars => OwnerIsUp'
<1> SUFFICES ASSUME SocketTypeOK, OwnerIsUp, [HostNext]_hostVars PROVE OwnerIsUp'
  BY DEF SocketInv
<1>a. at \in [Daemons -> {"off", "stat", "dial", "remove", "listen", "modes", "opened",
                           "serving", "over", "refused"}]
  BY DEF SocketTypeOK
<1> USE NobodyIsNoDaemon DEF OwnerIsUp, Goes, Ended, Left
<1>1. ASSUME NEW p \in Daemons, Starts(p) \/ Inspects(p) \/ Dials(p) \/ Serves(p) \/ SetsModes(p)
      PROVE  OwnerIsUp'
  BY <1>1, <1>a DEF Starts, Inspects, Dials, Serves, SetsModes
<1>2. ASSUME NEW p \in Daemons, Binds(p) PROVE OwnerIsUp'
  BY <1>2, <1>a DEF Binds
<1>3. ASSUME NEW p \in Daemons, Removes(p) \/ CannotSetModes(p) \/ CannotServe(p) PROVE OwnerIsUp'
  BY <1>3, <1>a DEF Removes, CannotSetModes, CannotServe
<1>4. ASSUME NEW p \in Rivals, RivalStops(p) \/ RivalDies(p) PROVE OwnerIsUp'
  BY <1>4, <1>a DEF RivalStops, RivalDies, Daemons
<1>5. CASE Lives
  BY <1>5, <1>a DEF Lives, Daemons
<1>6. CASE UNCHANGED hostVars
  BY <1>6 DEF hostVars, socketVars
<1>7. QED
  BY <1>1, <1>2, <1>3, <1>4, <1>5, <1>6 DEF HostNext, Listen

LEMMA MeetStep == SocketInv /\ [HostNext]_hostVars => TheyMeet'
<1> SUFFICES ASSUME SocketTypeOK, TheyMeet, [HostNext]_hostVars PROVE TheyMeet'
  BY DEF SocketInv
<1>a. at \in [Daemons -> {"off", "stat", "dial", "remove", "listen", "modes", "opened",
                           "serving", "over", "refused"}]
  BY DEF SocketTypeOK
<1>1. ASSUME NEW p \in Daemons, Starts(p) PROVE TheyMeet'
  BY <1>1, <1>a DEF Starts, TheyMeet, Down
<1>2. ASSUME UNCHANGED met, \A q \in Daemons : at[q] \in Down => at'[q] \in Down
      PROVE  TheyMeet'
  BY <1>2 DEF TheyMeet
<1> USE DEF Goes, Ended, Down
<1>3. ASSUME NEW p \in Daemons, Listen(p) PROVE TheyMeet'
  BY <1>3, <1>2, <1>a DEF Listen, Inspects, Dials, Removes, Binds, SetsModes, CannotSetModes, Serves,
     CannotServe
<1>4. ASSUME NEW p \in Rivals, RivalStops(p) \/ RivalDies(p) PROVE TheyMeet'
  BY <1>4, <1>2, <1>a DEF RivalStops, RivalDies, Daemons
<1>5. CASE Lives
  BY <1>5, <1>2, <1>a DEF Lives, Daemons
<1>6. CASE UNCHANGED hostVars
  BY <1>6, <1>2 DEF hostVars, socketVars
<1>7. QED
  BY <1>1, <1>3, <1>4, <1>5, <1>6 DEF HostNext

\* Whoever changes the path is up, and a process that waits to act on what it saw
\* there is up as well: they have met.
LEMMA FoundStep == SocketInv /\ [HostNext]_hostVars => PathAsFound'
<1> SUFFICES ASSUME SocketTypeOK, OwnerIsUp, TheyMeet, PathAsFound, [HostNext]_hostVars
             PROVE  PathAsFound'
  BY DEF SocketInv
<1>a. at \in [Daemons -> {"off", "stat", "dial", "remove", "listen", "modes", "opened",
                           "serving", "over", "refused"}]
  BY DEF SocketTypeOK
<1> DEFINE Found(q) == /\ at[q] \in {"dial", "remove"} => owner # None \/ q \in met
                       /\ at[q] = "listen" => owner = None \/ q \in met
                       /\ at[q] = "refused" => q \in met
<1>1. ASSUME \A q \in Daemons : Found(q)' PROVE PathAsFound'
  BY <1>1 DEF PathAsFound
<1>2. \A q \in Daemons : Found(q)
  BY DEF PathAsFound
<1>3. ASSUME NEW p \in Daemons, at[p] \notin Down, UNCHANGED met,
             \A q \in Daemons \ {p} : at'[q] = at[q], Found(p)'
      PROVE  PathAsFound'
  <2>1. ASSUME NEW q \in Daemons, q # p PROVE Found(q)'
    <3>1. at'[q] = at[q]
      BY <1>3, <2>1
    <3>2. at[q] \notin Down => q \in met
      BY <1>3, <2>1 DEF TheyMeet
    <3>3. QED
      BY <1>2, <1>3, <3>1, <3>2 DEF Down
  <2>2. QED
    BY <1>1, <1>3, <2>1
<1> USE DEF Goes, Ended
<1>4. ASSUME NEW p \in Daemons, Starts(p) PROVE PathAsFound'
  <2>1. at'[p] = "stat" /\ owner' = owner /\ \A q \in Daemons \ {p} : at'[q] = at[q]
        /\ met \ {p} \subseteq met'
    BY <1>4, <1>a DEF Starts
  <2>2. \A q \in Daemons : Found(q)'
    BY <1>2, <2>1
  <2>3. QED
    BY <1>1, <2>2
<1>5. ASSUME NEW p \in Daemons, Listen(p) PROVE PathAsFound'
  <2>1. at[p] \notin Down /\ UNCHANGED met /\ \A q \in Daemons \ {p} : at'[q] = at[q]
    BY <1>5, <1>a DEF Listen, Inspects, Dials, Removes, Binds, SetsModes, CannotSetModes, Serves,
       CannotServe, Down
  <2>2. CASE Dials(p)
    <3>1. CASE owner \in Daemons /\ Listening(owner)
      <4>1. at[p] = "dial"
        BY <2>2 DEF Dials
      <4>2. owner # p /\ at[owner] \notin Down
        BY <3>1, <4>1 DEF OwnerIsUp, Down
      <4>3. p \in met
        BY <2>1, <3>1, <4>2 DEF TheyMeet
      <4>4. Found(p)'
        BY <2>1, <4>3
      <4>5. QED
        BY <1>3, <2>1, <4>4
    <3>2. CASE ~(owner \in Daemons /\ Listening(owner))
      <4>1. at'[p] = "remove" /\ at[p] = "dial" /\ owner' = owner
        BY <2>2, <3>2, <1>a DEF Dials
      <4>2. Found(p)'
        BY <1>2, <2>1, <4>1
      <4>3. QED
        BY <1>3, <2>1, <4>2
    <3>3. QED
      BY <3>1, <3>2
  <2>3. CASE ~Dials(p)
    <3>1. Found(p)'
      BY <1>5, <1>2, <1>a, <2>3 DEF Listen, Inspects, Removes, Binds, SetsModes, CannotSetModes,
         Serves, CannotServe
    <3>2. QED
      BY <1>3, <2>1, <3>1
  <2>4. QED
    BY <2>2, <2>3
<1>6. ASSUME NEW p \in Rivals, RivalStops(p) \/ RivalDies(p) PROVE PathAsFound'
  <2>1. /\ p \in Daemons /\ at[p] \notin Down /\ UNCHANGED met /\ at'[p] = "off"
        /\ \A q \in Daemons \ {p} : at'[q] = at[q]
    BY <1>6, <1>a DEF RivalStops, RivalDies, Daemons, Down
  <2>2. QED
    BY <1>3, <2>1
<1>7. CASE Lives
  <2>1. /\ Main \in Daemons /\ at[Main] \notin Down /\ UNCHANGED met
        /\ at'[Main] \in {"over", "serving"} /\ \A q \in Daemons \ {Main} : at'[q] = at[q]
    BY <1>7, <1>a DEF Lives, Daemons, Down
  <2>2. QED
    BY <1>3, <2>1
<1>8. CASE UNCHANGED hostVars
  BY <1>8 DEF hostVars, socketVars, PathAsFound
<1>9. QED
  BY <1>4, <1>5, <1>6, <1>7, <1>8 DEF HostNext

\* As long as starts do not overlap, what a start found at the path is what it acts on.
LEMMA OneStartsStep == SocketInv /\ [HostNext]_hostVars => OneStarts'
<1> SUFFICES ASSUME SocketTypeOK, OneStarts, [HostNext]_hostVars, ~overlapped' PROVE OneStarts'
  BY DEF SocketInv, OneStarts
<1>a. at \in [Daemons -> {"off", "stat", "dial", "remove", "listen", "modes", "opened",
                           "serving", "over", "refused"}]
  BY DEF SocketTypeOK
<1> DEFINE Sole     == \A p, q \in Daemons : at[p] \in Starting /\ at[q] \in Starting => p = q
           AtPath   == \A p \in Daemons : Listening(p) => owner = p
           Modes    == \A p \in Daemons :
                          at[p] = "opened" \/ (at[p] = "serving" /\ Listening(p)) => grouped
           Nobody   == \A p \in Daemons : at[p] \in {"remove", "listen"} =>
                                             \A q \in Daemons : ~Listening(q)
           NobodyIs == \A q \in Daemons : ~Listening(q)
<1>b. ASSUME Sole', AtPath', Modes', Nobody' PROVE OneStarts'
  BY <1>b DEF OneStarts
<1>c. ~overlapped
  BY DEF HostNext, Starts, Listen, Inspects, Dials, Removes, Binds, SetsModes, CannotSetModes, Serves,
         CannotServe, RivalStops, RivalDies, Lives, hostVars, socketVars
<1>d. Sole /\ AtPath /\ Modes /\ Nobody
  BY <1>c DEF OneStarts
<1> USE NobodyIsNoDaemon DEF Goes, Ended
<1>1. ASSUME NEW p \in Daemons, Starts(p) PROVE OneStarts'
  <2>1. /\ at'[p] = "stat" /\ \A q \in Daemons \ {p} : at'[q] = at[q]
        /\ UNCHANGED <<allVars, owner, grouped>>
        /\ \A q \in Daemons \ {p} : at[q] \notin Starting
    BY <1>1, <1>a DEF Starts, Starting, Down
  <2>2. \A q \in Daemons : Listening(q)' => Listening(q) /\ at'[q] = at[q]
    BY <2>1 DEF Listening, allVars, process
  <2>3. Sole'
    BY <2>1
  <2>4. AtPath' /\ Modes' /\ Nobody'
    BY <1>d, <2>1, <2>2
  <2>5. QED
    BY <1>b, <2>3, <2>4
\* A step of the one that starts.
<1>2. ASSUME NEW p \in Daemons, Listen(p) PROVE OneStarts'
  <2>1. /\ at[p] \in Starting /\ \A q \in Daemons \ {p} : at'[q] = at[q]
        /\ UNCHANGED <<allVars, met, overlapped>>
    BY <1>2, <1>a DEF Listen, Inspects, Dials, Removes, Binds, SetsModes, CannotSetModes, Serves,
       CannotServe, Starting
  <2>2. \A q \in Daemons \ {p} : at'[q] \notin Starting /\ (Listening(q)' <=> Listening(q))
    BY <1>d, <2>1 DEF Listening, allVars, process
  <2>3. Sole'
    BY <2>2
  <2>4. ASSUME NobodyIs, \/ Listening(p)' => owner' = p /\ at'[p] = "modes"
                         \/ ~Listening(p)'
        PROVE  OneStarts'
    <3>1. AtPath' /\ Modes'
      BY <2>2, <2>4 DEF Listening, Starting
    <3>2. Nobody'
      BY <2>2, <2>4 DEF Listening, Starting
    <3>3. QED
      BY <1>b, <2>3, <3>1, <3>2
  <2>5. CASE Inspects(p)
    <3>1. /\ at[p] = "stat" /\ at'[p] = (IF owner = None THEN "listen" ELSE "dial")
          /\ UNCHANGED <<owner, grouped>>
      BY <2>5, <1>a DEF Inspects
    <3>2. ~Listening(p) /\ ~Listening(p)'
      BY <3>1 DEF Listening
    <3>3. AtPath' /\ Modes'
      BY <1>d, <2>1, <2>2, <3>1, <3>2
    <3>4. Nobody'
      BY <1>d, <2>1, <2>2, <3>1, <3>2 DEF Starting
    <3>5. QED
      BY <1>b, <2>3, <3>3, <3>4
  <2>6. CASE Dials(p)
    <3>1. /\ at[p] = "dial" /\ UNCHANGED <<owner, grouped>>
          /\ at'[p] = (IF owner \in Daemons /\ Listening(owner) THEN "refused" ELSE "remove")
      BY <2>6, <1>a DEF Dials
    <3>2. ~Listening(p) /\ ~Listening(p)'
      BY <3>1 DEF Listening
    <3>3. AtPath' /\ Modes'
      BY <1>d, <2>1, <2>2, <3>1, <3>2
    <3>4. Nobody'
      BY <1>d, <2>1, <2>2, <3>1, <3>2 DEF Starting
    <3>5. QED
      BY <1>b, <2>3, <3>3, <3>4
  <2>7. CASE Removes(p)
    <3>1. at[p] = "remove" /\ at'[p] \in {"refused", "listen"}
      BY <2>7, <1>a DEF Removes
    <3>2. NobodyIs
      BY <1>d, <3>1
    <3>3. ~Listening(p)'
      BY <3>1 DEF Listening
    <3>4. QED
      BY <2>4, <3>2, <3>3
  <2>8. CASE Binds(p)
    <3>1. at[p] = "listen" /\ at'[p] \in {"refused", "modes"} /\ (at'[p] = "modes" => owner' = p)
      BY <2>8, <1>a DEF Binds
    <3>2. NobodyIs
      BY <1>d, <3>1
    <3>3. Listening(p)' => owner' = p /\ at'[p] = "modes"
      BY <3>1 DEF Listening
    <3>4. QED
      BY <2>4, <3>2, <3>3
  <2>9. CASE SetsModes(p)
    <3>1. at[p] = "modes" /\ at'[p] = "opened" /\ grouped' = TRUE /\ owner' = owner
      BY <2>9, <1>a DEF SetsModes
    <3>2. owner = p
      BY <1>d, <3>1 DEF Listening
    <3>3. AtPath'
      BY <1>d, <2>2, <3>1, <3>2
    <3>4. Nobody' /\ Modes'
      BY <2>2, <3>1 DEF Starting
    <3>5. QED
      BY <1>b, <2>3, <3>3, <3>4
  <2>10. CASE Serves(p)
    <3>1. at[p] = "opened" /\ at'[p] = "serving" /\ UNCHANGED <<owner, grouped>>
      BY <2>10, <1>a DEF Serves
    <3>2. owner = p /\ grouped
      BY <1>d, <3>1 DEF Listening
    <3>3. AtPath' /\ Modes'
      BY <1>d, <2>2, <3>1, <3>2
    <3>4. Nobody'
      BY <2>2, <3>1 DEF Starting
    <3>5. QED
      BY <1>b, <2>3, <3>3, <3>4
  <2>11. CASE CannotSetModes(p) \/ CannotServe(p)
    <3>1. at[p] \in {"modes", "opened"} /\ at'[p] \in {"over", "off"}
      BY <2>11, <1>a DEF CannotSetModes, CannotServe
    <3>2. owner = p
      BY <1>d, <3>1 DEF Listening
    <3>3. \A q \in Daemons : ~Listening(q)'
      BY <1>d, <2>2, <3>1, <3>2 DEF Listening
    <3>4. AtPath' /\ Modes' /\ Nobody'
      BY <2>2, <3>1, <3>3 DEF Starting
    <3>5. QED
      BY <1>b, <2>3, <3>4
  <2>12. QED
    BY <1>2, <2>5, <2>6, <2>7, <2>8, <2>9, <2>10, <2>11 DEF Listen
\* The path goes with the listener of its process, and with no other.
<1>3. ASSUME NEW p \in Daemons, at'[p] \notin Starting \/ UNCHANGED at, UNCHANGED <<grouped>>,
             \A q \in Daemons \ {p} : at'[q] = at[q] /\ (Listening(q)' <=> Listening(q)),
             Listening(p)' => Listening(p) /\ at'[p] = at[p] /\ owner' = owner,
             owner' = owner \/ owner = p \/ NobodyIs \/ Listening(p)
      PROVE  OneStarts'
  <2>1. \A q \in Daemons : Listening(q)' => Listening(q) /\ at'[q] = at[q]
    BY <1>3
  <2>2. \A q \in Daemons : Listening(q)' => owner' = q
    BY <1>d, <1>3, <2>1
  <2>3. Sole'
    BY <1>d, <1>3
  <2>4. Modes'
    BY <1>d, <1>3, <2>1 DEF Starting
  <2>5. Nobody'
    BY <1>d, <1>3, <2>1 DEF Starting
  <2>6. QED
    BY <1>b, <2>2, <2>3, <2>4, <2>5
<1>4. ASSUME NEW p \in Rivals, RivalStops(p) \/ RivalDies(p) PROVE OneStarts'
  <2>1. /\ p \in Daemons /\ p # Main /\ at'[p] = "off" /\ UNCHANGED <<grouped, allVars>>
        /\ \A q \in Daemons \ {p} : at'[q] = at[q]
    BY <1>4, <1>a, RivalsAreOthers DEF RivalStops, RivalDies, Daemons
  <2>2. /\ \A q \in Daemons \ {p} : Listening(q)' <=> Listening(q)
        /\ ~Listening(p)'
    BY <2>1 DEF Listening, allVars, process
  <2>3. owner' = owner \/ owner = p \/ Listening(p)
    BY <1>4, <2>1 DEF RivalStops, RivalDies, Left, Listening
  <2>4. QED
    BY <1>3, <2>1, <2>2, <2>3 DEF Starting
<1>5. CASE Lives
  <2>1. /\ Main \in Daemons /\ at[Main] = "serving" /\ at'[Main] \in {"over", "serving"}
        /\ UNCHANGED grouped /\ (listening' => listening)
        /\ \A q \in Daemons \ {Main} : at'[q] = at[q]
    BY <1>5, <1>a, ListenerStaysClosed DEF Lives, Daemons
  <2>2. \A q \in Daemons \ {Main} : Listening(q)' <=> Listening(q)
    BY <2>1 DEF Listening
  <2>3. owner' = owner \/ owner = Main \/ Listening(Main)
    BY <1>5, <2>1 DEF Lives, Listening
  <2>4. Listening(Main)' => Listening(Main) /\ at'[Main] = at[Main] /\ owner' = owner
    BY <1>5, <1>a, <2>1 DEF Lives, Listening, Daemons
  <2>5. QED
    BY <1>3, <2>1, <2>2, <2>3, <2>4 DEF Starting
<1>6. CASE UNCHANGED hostVars
  <2>1. UNCHANGED <<at, owner, grouped, overlapped>> /\ \A q \in Daemons : Listening(q)' <=> Listening(q)
    BY <1>6 DEF hostVars, socketVars, allVars, process, Listening
  <2>2. Sole' /\ AtPath' /\ Modes' /\ Nobody'
    BY <1>d, <2>1
  <2>3. QED
    BY <1>b, <2>2
<1>7. QED
  BY <1>1, <1>2, <1>4, <1>5, <1>6 DEF HostNext

\* A daemon that serves is the one that answers, and a start is refused only when there
\* was another: for any number of daemons on the machine.
THEOREM ServesWhereItIsAsked == HostSpec => []ServesAtThePath
<1>1. SocketInv /\ [HostNext]_hostVars => SocketInv'
  BY SocketTyped, OwnerStep, MeetStep, FoundStep, OneStartsStep DEF SocketInv
<1>2. SocketInv => ServesAtThePath
  BY DEF SocketInv, ServesAtThePath, OneStarts, PathAsFound
<1>3. QED
  BY <1>1, <1>2, SocketInit, PTL DEF HostSpec

\* What was proved of the process is true of it among others.
THEOREM HostExitsLikeTheProcess == HostSpec => [](HandlersAreOver /\ ExitOwnsNothing)
BY HostRunsProcess, NoHandlerDuringShutdown, ExitClosesWhatItOwns, PTL
=============================================================================
