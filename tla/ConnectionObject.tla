-------------------------- MODULE ConnectionObject --------------------------
(***************************************************************************)
(* What the daemon relies on of a connection, without its pumps' work and  *)
(* the way its Close is done: layers that are built one on the other and   *)
(* taken down in reverse, pumps that run while all of them are up, a Done  *)
(* channel with what Err reports, and a Close that may be called by        *)
(* anybody and returns when nothing is left.                               *)
(*                                                                         *)
(* The promises are those of connection.go: "On any failure everything    *)
(* already created is torn down before returning" (103), the teardown runs *)
(* "in reverse order" (310), Done "is closed when the connection stops"    *)
(* (273), and Err is "nil if it was closed normally" (276).                *)
(***************************************************************************)
EXTENDS Naturals

CONSTANTS Closers,   \* the goroutines that may call Close
          Layers     \* how many layers a connection has

VARIABLES life,      \* what the connection is doing
          built,     \* how many layers there are
          running,   \* how many pumps run
          done, err, \* the Done channel is closed; what Err reports
          returned   \* the goroutines whose Close has returned

vars == <<life, built, running, done, err, returned>>

Init == /\ life = "connecting"
        /\ built = 0 /\ running = 0
        /\ done = FALSE /\ err = "nil"
        /\ returned = {}

-----------------------------------------------------------------------------

Builds == /\ life = "connecting" /\ built + 1 < Layers
          /\ built' = built + 1
          /\ UNCHANGED <<life, running, done, err, returned>>

\* With the last layer the connection is handed over.
Opens == /\ life = "connecting" /\ built + 1 = Layers
         /\ built' = Layers
         /\ life' = "up"
         /\ running' = 2
         /\ UNCHANGED <<done, err, returned>>

\* A layer fails, with or without leaving some of itself behind.
GivesUp == /\ life = "connecting" /\ built > 0
           /\ built' \in {built, built + 1} /\ built' <= Layers
           /\ life' = "undoing"
           /\ UNCHANGED <<running, done, err, returned>>

\* Connect returns its error when nothing is left.
Fails == /\ life \in {"connecting", "undoing"} /\ built = 0
         /\ life' = "failed"
         /\ UNCHANGED <<built, running, done, err, returned>>

\* The layer that was built last goes first.
Undoes == /\ life \in {"undoing", "closing"} /\ built > 0
          /\ built' = built - 1
          /\ UNCHANGED <<life, running, done, err, returned>>

\* Nothing but a broken link or interface ends a connection that nobody closes.
Drops == /\ life = "up"
         /\ life' = "lost"
         /\ running' = running - 1
         /\ done' = TRUE
         /\ err' = "broken"
         /\ UNCHANGED <<built, returned>>

\* A pump stops.  The first to have something to report closes Done with it.
Stops == /\ life \in {"lost", "closing"} /\ running > 0
         /\ running' = running - 1
         /\ \/ UNCHANGED <<done, err>>
            \/ ~done /\ done' = TRUE /\ err' \in {"broken", "unarmed"}
         /\ UNCHANGED <<life, built, returned>>

CloseBegins == /\ life \in {"up", "lost"}
               /\ life' = "closing"
               /\ UNCHANGED <<built, running, done, err, returned>>

\* Without anything to report Close closes Done itself, and Err stays nil.
Ends == /\ life = "closing" /\ built = 0 /\ ~done
        /\ done' = TRUE
        /\ UNCHANGED <<life, built, running, err, returned>>

\* The first Close returns ...
CloseReturns(k) == /\ life = "closing" /\ built = 0 /\ running = 0 /\ done
                   /\ life' = "closed"
                   /\ returned' = returned \union {k}
                   /\ UNCHANGED <<built, running, done, err>>

\* ... and no other one before it.
CloseAgain(k) == /\ life = "closed"
                 /\ returned' = returned \union {k}
                 /\ UNCHANGED <<life, built, running, done, err>>

Next == \/ Builds \/ Opens \/ GivesUp \/ Fails \/ Undoes
        \/ Drops \/ Stops \/ CloseBegins \/ Ends
        \/ \E k \in Closers : CloseReturns(k) \/ CloseAgain(k)

Spec == Init /\ [][Next]_vars
=============================================================================
