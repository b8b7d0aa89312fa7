---------------------------- MODULE ControlSocket ----------------------------
(***************************************************************************)
(* internal/ipc/listener_unix.go: how svpnd comes by its socket.  The path *)
(* is shared with every other svpnd that is started on the machine, one    *)
(* that was killed included: its socket is still there.  Main is the       *)
(* process that Svpnd describes, from its start on; of its rivals only     *)
(* what they do with the path is described.                                *)
(***************************************************************************)
EXTENDS Svpnd

CONSTANT Rivals   \* other svpnd processes, each started again and again

ASSUME RivalsAreOthers == Main \notin Rivals /\ None \notin Rivals

Daemons == {Main} \union Rivals

VARIABLES
    at,          \* where each process is: in Listen, serving, or over
    owner,       \* whose socket is at the path: a process's, "stale", or None
    grouped,     \* that socket belongs to the group
    met,         \* history: those that another was around when they started
    overlapped   \* history: two starts have overlapped

socketVars == <<at, owner, grouped, met, overlapped>>
hostVars   == <<allVars, socketVars>>

Stale == "stale"
ASSUME StaleIsNobody == Stale \notin Daemons /\ Stale # None

SocketTypeOK ==
    /\ at \in [Daemons -> {"off", "stat", "dial", "remove", "listen", "modes", "opened",
                           "serving", "over", "refused"}]
    /\ owner \in Daemons \union {Stale, None}
    /\ grouped \in BOOLEAN
    /\ met \subseteq Daemons
    /\ overlapped \in BOOLEAN

\* A socket may have been left by a process that was killed before.
HostInit ==
    /\ ProcessInit
    /\ at = [p \in Daemons |-> "off"]
    /\ owner \in {Stale, None}
    /\ grouped = FALSE
    /\ met = {}
    /\ overlapped = FALSE

Down     == {"off", "over", "refused"}
Starting == {"stat", "dial", "remove", "listen", "modes", "opened"}

\* A connection to p would be taken: its listener is open.
Listening(p) == IF p = Main THEN at[p] \in {"modes", "opened"} \/ (at[p] = "serving" /\ listening)
                            ELSE at[p] \in {"modes", "opened", "serving"}

Goes(p, from, to) == at[p] = from /\ at' = [at EXCEPT ![p] = to]

\* Main is started once, as systemd restarts it with all its state gone.
Ended(p) == IF p = Main THEN "over" ELSE "off"

\* The socket of a process that ends without closing its listener stays.
Left(p) == owner' = IF owner = p THEN Stale ELSE owner

-----------------------------------------------------------------------------
(* Listen *)

Starts(p) ==
    LET around == {q \in Daemons \ {p} : at[q] \notin Down}
    IN  /\ at[p] = "off" \/ (p \in Rivals /\ at[p] = "refused")
        /\ at' = [at EXCEPT ![p] = "stat"]
        /\ met' = IF around = {} THEN met \ {p} ELSE met \union {p} \union around
        /\ overlapped' = (overlapped \/ \E q \in around : at[q] \in Starting)
        /\ UNCHANGED <<allVars, owner, grouped>>

\* removeStaleSocket: is there anything at the path ...
Inspects(p) ==
    /\ Goes(p, "stat", IF owner = None THEN "listen" ELSE "dial")
    /\ UNCHANGED <<allVars, owner, grouped, met, overlapped>>

\* Mutant of Dials: takes whatever is at the path for stale.
Dials_Not(p) ==
    /\ Goes(p, "dial", "remove")
    /\ UNCHANGED <<allVars, owner, grouped, met, overlapped>>

\* ... and does it answer?
Dials(p) ==
    LET answered == owner \in Daemons /\ Listening(owner)
    IN  /\ Goes(p, "dial", IF answered THEN "refused" ELSE "remove")
        /\ UNCHANGED <<allVars, owner, grouped, met, overlapped>>

\* By its name, whoever's it is by now; it is an error if it is gone.
Removes(p) ==
    /\ Goes(p, "remove", IF owner = None THEN "refused" ELSE "listen")
    /\ owner' = None
    /\ UNCHANGED <<allVars, grouped, met, overlapped>>

\* Binding fails when there is a file of that name.
Binds(p) ==
    /\ Goes(p, "listen", IF owner = None THEN "modes" ELSE "refused")
    /\ owner' = IF owner = None THEN p ELSE owner
    /\ grouped' = (owner # None /\ grouped)
    /\ UNCHANGED <<allVars, met, overlapped>>

\* chmod and chown go by the name too.
SetsModes(p) ==
    /\ owner # None
    /\ Goes(p, "modes", "opened")
    /\ grouped' = TRUE
    /\ UNCHANGED <<allVars, owner, met, overlapped>>

\* There is no such group, or no such file: Close removes the path.
CannotSetModes(p) ==
    /\ Goes(p, "modes", Ended(p))
    /\ owner' = None
    /\ UNCHANGED <<allVars, grouped, met, overlapped>>

\* serve has its listener and calls Serve ...
Serves(p) ==
    /\ Goes(p, "opened", "serving")
    /\ UNCHANGED <<allVars, owner, grouped, met, overlapped>>

\* ... unless an --allow-uid is out of range: it returns as it is.
CannotServe(p) ==
    /\ Goes(p, "opened", Ended(p))
    /\ Left(p)
    /\ UNCHANGED <<allVars, grouped, met, overlapped>>

Listen(p) == \/ Inspects(p) \/ Dials(p) \/ Removes(p) \/ Binds(p)
             \/ SetsModes(p) \/ CannotSetModes(p)
             \/ Serves(p) \/ CannotServe(p)

-----------------------------------------------------------------------------
(* Afterwards *)

\* The life of Main: closing the listener removes the path, exiting alone does not.
Lives ==
    /\ at[Main] = "serving"
    /\ ProcessNext
    /\ owner' = IF listening /\ ~listening' THEN None
                ELSE IF main' = "exited" /\ owner = Main THEN Stale
                ELSE owner
    /\ at' = IF main' = "exited" THEN [at EXCEPT ![Main] = "over"] ELSE at
    /\ UNCHANGED <<grouped, met, overlapped>>

\* A rival gets a TERM, which closes its listener, ...
RivalStops(p) ==
    /\ Goes(p, "serving", "off")
    /\ owner' = None
    /\ UNCHANGED <<allVars, grouped, met, overlapped>>

\* ... or is killed, wherever it is.
RivalDies(p) ==
    /\ at[p] \notin Down
    /\ at' = [at EXCEPT ![p] = "off"]
    /\ Left(p)
    /\ UNCHANGED <<allVars, grouped, met, overlapped>>

HostNext == \/ \E p \in Daemons : Starts(p) \/ Listen(p)
            \/ \E p \in Rivals : RivalStops(p) \/ RivalDies(p)
            \/ Lives

\* What Svpnd assumes of the process; a start goes on by itself.
HostSpec     == HostInit /\ [][HostNext]_hostVars
HostFairSpec == /\ HostSpec
                /\ ProcessFairness
                /\ ClientsHangUp
                /\ \A p \in Daemons : WF_hostVars(Listen(p))

-----------------------------------------------------------------------------
(* What has to hold *)

\* A daemon that serves is the one that answers at the path, to the group, unless two
\* starts overlapped; and a start is only refused when another daemon was around,
\* whatever a crash has left at the path (listener_unix.go:53-58, 98-100, 132-137).
ServesAtThePath ==
    \A p \in Daemons :
        /\ at[p] = "serving" /\ Listening(p) /\ ~overlapped => owner = p /\ grouped
        /\ at[p] = "refused" => p \in met
=============================================================================
