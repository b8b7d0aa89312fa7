------------------------------- MODULE Login --------------------------------
(***************************************************************************)
(* internal/forti/saml.go and internal/client/auth: the browser login.     *)
(*                                                                         *)
(* A login listens on loopback, sends the user's browser to the identity   *)
(* provider, and waits for the redirect that brings the session id.  The   *)
(* port is fixed, so the logins of one desktop, those of other programs    *)
(* and those that were abandoned a moment ago, compete for it; a tab that  *)
(* was opened for one of them may end up at the listener of another, and a *)
(* browser asks for other things than the redirect.  Requests are served   *)
(* by goroutines of their own, and Serve only ends when it is shut down.   *)
(***************************************************************************)
EXTENDS Naturals, Sequences, FiniteSets

CONSTANTS Logins,     \* the logins, each of which is tried once
          Requests,   \* the HTTP requests that the browser makes
          Replies,    \* the Set-Cookie headers auth_id may answer with
          None

\* Headers name other cookies, clear SVPNCOOKIE, or issue it.
Headers == {"other", "clear", "old", "new"}

ASSUME RepliesAreHeaders == \A r \in Replies : r \in Seq(Headers)
ASSUME NoneIsNoLogin     == Logins \intersect {None, "bad", "done"} = {} /\ None \notin {"bad", "done"}

VARIABLES
    pc,         \* where each login is
    done,       \* the logins whose context is done: cancelled, or timed out
    port,       \* the login that listens
    tabs,       \* the logins whose tab is open in the browser
    request,    \* each request: where it is, whose listener it came to, what it brings
    results,    \* the channel of each waitForCallback, of capacity 1
    taken,      \* what each waitForCallback came back with
    cookie,     \* what each login returned, or None
    first       \* history: what the first request served for a login brought

vars == <<pc, done, port, tabs, request, results, taken, cookie, first>>

\* What a request brings: the id of the login whose tab it comes from, or no valid id.
Bad   == "bad"
Brings == Logins \union {Bad}

TypeOK ==
    /\ pc \in [Logins -> {"idle", "bound", "waiting", "closing", "draining", "exchanging", "over"}]
    /\ done \subseteq Logins
    /\ port \in Logins \union {None}
    /\ tabs \subseteq Logins
    /\ request \in [Requests -> [at : {"browser", "backlog", "handler", "answered", "reset"},
                                 to : Logins \union {None}, brings : Brings \union {None}]]
    /\ results \in [Logins -> Brings \union {None}]
    /\ taken \in [Logins -> Brings \union {"done", None}]
    /\ cookie \in [Logins -> {"old", "new", None}]
    /\ first \in [Logins -> Brings \union {None}]

Init ==
    /\ pc = [l \in Logins |-> "idle"]
    /\ done = {}
    /\ port = None
    /\ tabs = {}
    /\ request = [r \in Requests |-> [at |-> "browser", to |-> None, brings |-> None]]
    /\ results = [l \in Logins |-> None]
    /\ taken = [l \in Logins |-> None]
    /\ cookie = [l \in Logins |-> None]
    /\ first = [l \in Logins |-> None]

Goes(l, from, to) == pc[l] = from /\ pc' = [pc EXCEPT ![l] = to]

\* A listener that is closed resets what it has not accepted.
Reset(l) == request' = [r \in Requests |-> IF request[r].at = "backlog" /\ request[r].to = l
                                           THEN [request[r] EXCEPT !.at = "reset"]
                                           ELSE request[r]]

-----------------------------------------------------------------------------
(* SAMLLogin *)

\* Mutant of Listens: leaves binding the port to waitForCallback.
Listens_Later(l) ==
    /\ Goes(l, "idle", "bound")
    /\ UNCHANGED <<done, port, tabs, request, results, taken, cookie, first>>

Listens(l) ==
    /\ port = None
    /\ Goes(l, "idle", "bound")
    /\ port' = l
    /\ UNCHANGED <<done, tabs, request, results, taken, cookie, first>>

\* Another login has the port, one that was cancelled and has not noticed included.
CannotListen(l) ==
    /\ port # None
    /\ Goes(l, "idle", "over")
    /\ UNCHANGED <<done, port, tabs, request, results, taken, cookie, first>>

\* The URL has been reported; the browser opens it, or the user does.
OpensBrowser(l) ==
    /\ Goes(l, "bound", "waiting")
    /\ tabs' = tabs \union {l}
    /\ UNCHANGED <<done, port, request, results, taken, cookie, first>>

\* Mutant of CannotOpen: returns without closing the listener.
CannotOpen_StaysBound(l) ==
    /\ Goes(l, "bound", "over")
    /\ UNCHANGED <<done, port, tabs, request, results, taken, cookie, first>>

\* A browser that cannot be launched ends the login, reported URL or not.
CannotOpen(l) ==
    /\ Goes(l, "bound", "over")
    /\ port' = None
    /\ Reset(l)
    /\ UNCHANGED <<done, tabs, results, taken, cookie, first>>

-----------------------------------------------------------------------------
(* waitForCallback *)

\* The server takes a request off the backlog, until it is shut down.
Accepts(r) ==
    /\ request[r].at = "backlog"
    /\ pc[request[r].to] \in {"waiting", "closing"}
    /\ request' = [request EXCEPT ![r].at = "handler"]
    /\ UNCHANGED <<pc, done, port, tabs, results, taken, cookie, first>>

\* Mutant of Serves: the last request wins.
Serves_Overwrites(r) ==
    LET l == request[r].to
    IN  /\ request[r].at = "handler"
        /\ request' = [request EXCEPT ![r].at = "answered"]
        /\ results' = [results EXCEPT ![l] = request[r].brings]
        /\ first' = [first EXCEPT ![l] = IF @ = None THEN request[r].brings ELSE @]
        /\ UNCHANGED <<pc, done, port, tabs, taken, cookie>>

\* The handler answers the browser, and offers what the request brought: an id, or
\* an error, which counts as an answer too.  It never waits for the channel.
Serves(r) ==
    LET l == request[r].to
    IN  /\ request[r].at = "handler"
        /\ request' = [request EXCEPT ![r].at = "answered"]
        /\ results' = [results EXCEPT ![l] = IF @ = None THEN request[r].brings ELSE @]
        /\ first' = [first EXCEPT ![l] = IF @ = None THEN request[r].brings ELSE @]
        /\ UNCHANGED <<pc, done, port, tabs, taken, cookie>>

\* Either of the two that are ready.
Receives(l) ==
    /\ Goes(l, "waiting", "closing")
    /\ \/ /\ results[l] # None
          /\ taken' = [taken EXCEPT ![l] = results[l]]
          /\ results' = [results EXCEPT ![l] = None]
       \/ /\ l \in done
          /\ taken' = [taken EXCEPT ![l] = "done"]
          /\ UNCHANGED results
    /\ UNCHANGED <<done, port, tabs, request, cookie, first>>

\* Shutdown closes the listener first, ...
ShutsDown(l) ==
    /\ Goes(l, "closing", "draining")
    /\ port' = None
    /\ Reset(l)
    /\ UNCHANGED <<done, tabs, results, taken, cookie, first>>

\* ... and waits for the requests, two seconds at most.
Drained(l) ==
    /\ pc[l] = "draining"
    /\ pc' = [pc EXCEPT ![l] = IF taken[l] \in Logins THEN "exchanging" ELSE "over"]
    /\ UNCHANGED <<done, port, tabs, request, results, taken, cookie, first>>

-----------------------------------------------------------------------------
(* exchangeSessionID *)

\* extractSVPNCookie: the last header that does not clear it.
ExtractSVPNCookie(headers) ==
    LET issued == {i \in DOMAIN headers : headers[i] \in {"old", "new"}}
        last   == CHOOSE i \in issued : \A j \in issued : j <= i
    IN  IF issued = {} THEN None ELSE headers[last]

\* The gateway answers; the request is not sent or not answered once the context is done.
Exchanges(l) ==
    /\ l \notin done
    /\ Goes(l, "exchanging", "over")
    /\ \E headers \in Replies : cookie' = [cookie EXCEPT ![l] = ExtractSVPNCookie(headers)]
    /\ UNCHANGED <<done, port, tabs, request, results, taken, first>>

CannotExchange(l) ==
    /\ Goes(l, "exchanging", "over")
    /\ UNCHANGED <<done, port, tabs, request, results, taken, cookie, first>>

-----------------------------------------------------------------------------
(* The user, the clock and the browser *)

\* The user cancels ...
Cancels(l) ==
    /\ pc[l] \notin {"idle", "over"}
    /\ l \notin done
    /\ done' = done \union {l}
    /\ UNCHANGED <<pc, port, tabs, request, results, taken, cookie, first>>

\* ... or LoginTimeout passes.
TimesOut(l) == Cancels(l)

\* A tab comes back from the identity provider, once, to whoever listens ...
Redirects(r) ==
    /\ request[r].at = "browser" /\ port # None
    /\ \E t \in tabs :
          /\ tabs' = tabs \ {t}
          /\ request' = [request EXCEPT ![r] = [at |-> "backlog", to |-> port, brings |-> t]]
    /\ UNCHANGED <<pc, done, port, results, taken, cookie, first>>

\* ... or the browser asks for something else, an icon for instance.
AsksElse(r) ==
    /\ request[r].at = "browser" /\ port # None
    /\ request' = [request EXCEPT ![r] = [at |-> "backlog", to |-> port, brings |-> Bad]]
    /\ UNCHANGED <<pc, done, port, tabs, results, taken, cookie, first>>

-----------------------------------------------------------------------------

Steps(l) == \/ Listens(l) \/ CannotListen(l) \/ OpensBrowser(l) \/ CannotOpen(l)
            \/ Receives(l) \/ ShutsDown(l) \/ Drained(l)
            \/ Exchanges(l) \/ CannotExchange(l)

Next == \/ \E l \in Logins : Steps(l) \/ Cancels(l)
        \/ \E r \in Requests : Accepts(r) \/ Serves(r) \/ Redirects(r) \/ AsksElse(r)

\* Goroutines are scheduled, and every login has a timeout.  The user need not do
\* anything, and the browser neither.
Fairness == /\ \A l \in Logins : WF_vars(Steps(l)) /\ WF_vars(TimesOut(l))
            /\ \A r \in Requests : WF_vars(Accepts(r)) /\ WF_vars(Serves(r))

Spec     == Init /\ [][Next]_vars
FairSpec == Spec /\ Fairness

-----------------------------------------------------------------------------
(* What has to hold *)

\* "Bind before sending the user to the identity provider" (saml.go:41): whatever
\* other logins do, a browser is only sent there for a login that has the port, and
\* that login keeps it for as long as it waits.
BrowserFindsListener ==
    /\ \A l \in Logins : pc[l] \in {"bound", "waiting"} => port = l
    /\ \A l \in tabs : taken[l] = None => port = l

\* The first request that is served decides, and a login that returns a cookie had
\* an id: what comes later, from another tab or for an icon, changes nothing
\* (saml.go:81-131).
FirstAnswerDecides ==
    \A l \in Logins :
        /\ taken[l] \in Brings => taken[l] = first[l]
        /\ cookie[l] # None => first[l] \in Logins

\* A login ends, with a browser that never comes back too, and leaves neither the
\* port taken for the next one nor a handler behind (saml.go:47, 88-122).
LoginLeavesNothing ==
    /\ \A l \in Logins : port = l ~> port # l
    /\ \A r \in Requests : request[r].at = "handler" ~> request[r].at = "answered"
=============================================================================
