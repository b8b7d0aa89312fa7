------------------------------ MODULE LoginProofs ------------------------------
(* What a browser login guarantees, for any logins that compete for the port, any *)
(* requests of the browser and any replies of the gateway.                        *)
EXTENDS Login, TLAPS, WellFoundedInduction

USE DEF vars
USE NoneIsNoLogin

-----------------------------------------------------------------------------
(* The cookie *)

LEMMA HasLeast ==
    ASSUME NEW T, T \subseteq Nat, T # {}
    PROVE  \E x \in T : \A y \in T : x <= y
<1>1. PICK x \in T : \A y \in T : ~ (<<y, x>> \in OpToRel(<, Nat))
  BY NatLessThanWellFounded, WFMin
<1>2. \A y \in T : ~(y < x)
  BY <1>1 DEF OpToRel
<1>3. QED
  BY <1>2

LEMMA HasLast ==
    ASSUME NEW n \in Nat, NEW T, T \subseteq 1..n, T # {}
    PROVE  \E x \in T : \A y \in T : y <= x
<1> DEFINE U == {n - x : x \in T}
<1>1. \A x \in T : n - x \in Nat
  OBVIOUS
<1>2. U \subseteq Nat /\ U # {}
  BY <1>1
<1>3. PICK u \in U : \A y \in U : u <= y
  BY <1>2, HasLeast
<1>4. PICK x \in T : u = n - x
  BY <1>3
<1>5. ASSUME NEW y \in T PROVE y <= x
  <2>1. n - y \in U
    OBVIOUS
  <2>2. u <= n - y
    BY <1>3, <2>1
  <2>3. QED
    BY <1>4, <2>2
<1>6. QED
  BY <1>5

\* Whatever Set-Cookie headers the gateway answers with, the cookie is one that it
\* issued, the last one, and there is none only when it issued none: a header that
\* clears the cookie, before or after, does not hide it.
THEOREM CookieIsTheLastIssued ==
    ASSUME NEW headers \in Seq(Headers)
    PROVE  LET cookies == {i \in DOMAIN headers : headers[i] \in {"old", "new"}}
           IN  IF cookies = {} THEN ExtractSVPNCookie(headers) = None
               ELSE \E i \in cookies : /\ ExtractSVPNCookie(headers) = headers[i]
                                       /\ \A j \in cookies : j <= i
<1> DEFINE issued == {i \in DOMAIN headers : headers[i] \in {"old", "new"}}
           last   == CHOOSE i \in issued : \A j \in issued : j <= i
<1>1. CASE issued = {}
  BY <1>1 DEF ExtractSVPNCookie
<1>2. CASE issued # {}
  <2>1. issued \subseteq 1..Len(headers) /\ Len(headers) \in Nat
    OBVIOUS
  <2>2. \E i \in issued : \A j \in issued : j <= i
    BY <1>2, <2>1, HasLast
  <2>3. last \in issued /\ \A j \in issued : j <= last
    BY <2>2
  <2>4. ExtractSVPNCookie(headers) = headers[last]
    BY <1>2 DEF ExtractSVPNCookie
  <2>5. QED
    BY <1>2, <2>3, <2>4
<1>3. QED
  BY <1>1, <1>2
-----------------------------------------------------------------------------
(* The invariant *)

\* The port is of the login that has bound it, until it shuts its server down.
PortHeld == \A l \in Logins : pc[l] \in {"bound", "waiting", "closing"} => port = l

\* A tab is opened for a login that waits, and stays when it has stopped waiting.
TabsOpened ==
    \A l \in tabs : /\ pc[l] \notin {"idle", "bound"}
                    /\ taken[l] = None => pc[l] = "waiting"

\* Until a login stops waiting, what it can receive is what came first.
FirstIsOffered ==
    \A l \in Logins : pc[l] \in {"idle", "bound", "waiting"} =>
                          taken[l] = None /\ results[l] = first[l]

\* A request on its way has come to somebody's listener, and brings something.
RequestsArrive ==
    \A r \in Requests : request[r].at \in {"backlog", "handler"} =>
                            request[r].to \in Logins /\ request[r].brings \in Brings

FirstIsTaken == \A l \in Logins : taken[l] \in Brings => taken[l] = first[l]

\* Only an id is exchanged for a cookie.
IdIsExchanged ==
    \A l \in Logins : pc[l] = "exchanging" \/ cookie[l] # None => taken[l] \in Logins

\* The inductive invariant.
IInv == /\ TypeOK /\ PortHeld /\ TabsOpened /\ FirstIsOffered /\ RequestsArrive
        /\ FirstIsTaken /\ IdIsExchanged

LEMMA InitIInv == Init => IInv
  BY DEF Init, IInv, TypeOK, PortHeld, TabsOpened, FirstIsOffered, RequestsArrive, FirstIsTaken,
         IdIsExchanged, Brings, Bad

\* Each step preserves the types.
LEMMA TypeStep == IInv /\ [Next]_vars => TypeOK'
<1> SUFFICES ASSUME IInv, [Next]_vars PROVE TypeOK'
  OBVIOUS
<1>a. TypeOK /\ RequestsArrive
  BY DEF IInv
<1> USE DEF TypeOK, Brings, Bad
<1>1. ASSUME NEW l \in Logins,
             Listens(l) \/ CannotListen(l) \/ OpensBrowser(l) \/ Drained(l)
             \/ CannotExchange(l) \/ Cancels(l)
      PROVE  TypeOK'
  BY <1>1, <1>a DEF Listens, CannotListen, OpensBrowser, Drained, CannotExchange, Cancels, Goes
<1>2. ASSUME NEW l \in Logins, CannotOpen(l) \/ ShutsDown(l) PROVE TypeOK'
  BY <1>2, <1>a DEF CannotOpen, ShutsDown, Goes, Reset
<1>3. ASSUME NEW l \in Logins, Receives(l) PROVE TypeOK'
  BY <1>3, <1>a DEF Receives, Goes
<1>4. ASSUME NEW l \in Logins, Exchanges(l) PROVE TypeOK'
  <2>1. PICK headers \in Replies : cookie' = [cookie EXCEPT ![l] = ExtractSVPNCookie(headers)]
    BY <1>4 DEF Exchanges
  <2>2. headers \in Seq(Headers)
    BY RepliesAreHeaders
  <2>3. ExtractSVPNCookie(headers) \in {"old", "new", None}
    BY <2>2, CookieIsTheLastIssued
  <2>4. QED
    BY <1>4, <1>a, <2>1, <2>3 DEF Exchanges, Goes
<1>5. ASSUME NEW r \in Requests, Accepts(r) \/ Redirects(r) \/ AsksElse(r) PROVE TypeOK'
  BY <1>5, <1>a DEF Accepts, Redirects, AsksElse
<1>6. ASSUME NEW r \in Requests, Serves(r) PROVE TypeOK'
  BY <1>6, <1>a DEF Serves, RequestsArrive
<1>7. CASE UNCHANGED vars
  BY <1>7, <1>a
<1>8. QED
  BY <1>1, <1>2, <1>3, <1>4, <1>5, <1>6, <1>7 DEF Next, Steps

\* Each step preserves the inductive invariant.
LEMMA IInvStep == IInv /\ [Next]_vars => IInv'
<1> SUFFICES ASSUME IInv, [Next]_vars PROVE IInv'
  OBVIOUS
<1>a. /\ TypeOK /\ PortHeld /\ TabsOpened /\ FirstIsOffered /\ RequestsArrive
      /\ FirstIsTaken /\ IdIsExchanged
  BY DEF IInv
<1>b. TypeOK'
  BY TypeStep
<1>c. ASSUME UNCHANGED <<request, results, taken, cookie, first>>
      PROVE  FirstIsTaken' /\ RequestsArrive'
  BY <1>c, <1>a DEF FirstIsTaken, RequestsArrive
<1>1. ASSUME NEW l \in Logins, Listens(l) PROVE IInv'
  BY <1>1, <1>a, <1>b, <1>c DEF IInv, TypeOK, Listens, Goes, PortHeld, TabsOpened, FirstIsOffered,
     IdIsExchanged
<1>2. ASSUME NEW l \in Logins, CannotListen(l) PROVE IInv'
  BY <1>2, <1>a, <1>b, <1>c DEF IInv, TypeOK, CannotListen, Goes, PortHeld, TabsOpened, FirstIsOffered,
     IdIsExchanged
<1>3. ASSUME NEW l \in Logins, OpensBrowser(l) PROVE IInv'
  BY <1>3, <1>a, <1>b, <1>c DEF IInv, TypeOK, OpensBrowser, Goes, PortHeld, TabsOpened, FirstIsOffered,
     IdIsExchanged
<1>4. ASSUME NEW l \in Logins, CannotOpen(l) \/ ShutsDown(l) PROVE IInv'
  <2>1. /\ pc[l] \in {"bound", "closing"} /\ pc' = [pc EXCEPT ![l] = IF @ = "bound" THEN "over" ELSE "draining"]
        /\ port' = None /\ UNCHANGED <<done, tabs, results, taken, cookie, first>>
    BY <1>4, <1>a DEF CannotOpen, ShutsDown, Goes, TypeOK
  <2>2. PortHeld' /\ TabsOpened' /\ FirstIsOffered' /\ FirstIsTaken' /\ IdIsExchanged'
    BY <2>1, <1>a DEF TypeOK, PortHeld, TabsOpened, FirstIsOffered, FirstIsTaken, IdIsExchanged
  <2>3. RequestsArrive'
    BY <1>4, <1>a DEF TypeOK, CannotOpen, ShutsDown, Reset, RequestsArrive
  <2>4. QED
    BY <1>b, <2>2, <2>3 DEF IInv
<1>5. ASSUME NEW l \in Logins, Receives(l) PROVE IInv'
  <2>1. PortHeld' /\ RequestsArrive'
    BY <1>5, <1>a DEF TypeOK, Receives, Goes, PortHeld, RequestsArrive
  <2>2. /\ pc[l] = "waiting" /\ pc' = [pc EXCEPT ![l] = "closing"]
        /\ \/ results[l] # None /\ taken' = [taken EXCEPT ![l] = results[l]]
           \/ taken' = [taken EXCEPT ![l] = "done"]
        /\ \A k \in Logins : k # l => results'[k] = results[k]
        /\ UNCHANGED <<tabs, first, cookie>>
    BY <1>5, <1>a DEF TypeOK, Receives, Goes
  <2>3. TabsOpened'
    BY <2>2, <1>a DEF TypeOK, TabsOpened
  <2>4. FirstIsOffered' /\ FirstIsTaken'
    BY <2>2, <1>a DEF TypeOK, FirstIsOffered, FirstIsTaken, Brings, Bad
  <2>5. IdIsExchanged'
    BY <2>2, <1>a DEF TypeOK, IdIsExchanged, FirstIsOffered
  <2>6. QED
    BY <1>b, <2>1, <2>3, <2>4, <2>5 DEF IInv
<1>6. ASSUME NEW l \in Logins, Drained(l) \/ Exchanges(l) \/ CannotExchange(l) PROVE IInv'
  <2>1. /\ pc[l] \in {"draining", "exchanging"} /\ pc' = [pc EXCEPT ![l] = pc'[l]]
        /\ pc'[l] \in {"exchanging", "over"} /\ (pc'[l] = "exchanging" => taken[l] \in Logins)
        /\ UNCHANGED <<done, port, tabs, request, results, taken, first>>
        /\ \A k \in Logins : k # l \/ pc[l] = "draining" => cookie'[k] = cookie[k]
    BY <1>6, <1>a DEF TypeOK, Drained, Exchanges, CannotExchange, Goes
  <2>2. PortHeld' /\ TabsOpened' /\ FirstIsOffered'
    BY <2>1, <1>a DEF TypeOK, PortHeld, TabsOpened, FirstIsOffered
  <2>3. FirstIsTaken' /\ RequestsArrive'
    BY <2>1, <1>a DEF FirstIsTaken, RequestsArrive
  <2>4. IdIsExchanged'
    BY <2>1, <1>a DEF TypeOK, IdIsExchanged
  <2>5. QED
    BY <1>b, <2>2, <2>3, <2>4 DEF IInv
<1>7. ASSUME NEW l \in Logins, Cancels(l) PROVE IInv'
  BY <1>7, <1>a, <1>b, <1>c DEF IInv, Cancels, PortHeld, TabsOpened, FirstIsOffered, IdIsExchanged
<1>8. ASSUME NEW r \in Requests, Accepts(r) \/ Redirects(r) \/ AsksElse(r) PROVE IInv'
  <2>1. RequestsArrive'
    BY <1>8, <1>a DEF TypeOK, RequestsArrive, Accepts, Redirects, AsksElse, Brings
  <2>2. UNCHANGED <<pc, done, port, results, taken, cookie, first>> /\ tabs' \subseteq tabs
    BY <1>8 DEF Accepts, Redirects, AsksElse
  <2>3. PortHeld' /\ TabsOpened' /\ FirstIsOffered' /\ FirstIsTaken' /\ IdIsExchanged'
    BY <2>2, <1>a DEF PortHeld, TabsOpened, FirstIsOffered, FirstIsTaken, IdIsExchanged
  <2>4. QED
    BY <1>b, <2>1, <2>3 DEF IInv
<1>9. ASSUME NEW r \in Requests, Serves(r) PROVE IInv'
  <2> DEFINE l == request[r].to
             b == request[r].brings
  <2>1. l \in Logins /\ b \in Brings
    BY <1>9, <1>a DEF Serves, RequestsArrive
  <2>2. /\ results' = [results EXCEPT ![l] = IF @ = None THEN b ELSE @]
        /\ first' = [first EXCEPT ![l] = IF @ = None THEN b ELSE @]
        /\ UNCHANGED <<pc, done, port, tabs, taken, cookie>>
    BY <1>9 DEF Serves
  <2>3. RequestsArrive'
    BY <1>9, <1>a DEF Serves, RequestsArrive, TypeOK
  <2> HIDE DEF l, b
  <2>4. PortHeld' /\ TabsOpened' /\ IdIsExchanged'
    BY <2>2, <1>a DEF PortHeld, TabsOpened, IdIsExchanged
  <2>5. FirstIsOffered' /\ FirstIsTaken'
    BY <2>1, <2>2, <1>a DEF TypeOK, FirstIsOffered, FirstIsTaken, Brings, Bad
  <2>6. QED
    BY <1>b, <2>3, <2>4, <2>5 DEF IInv
<1>10. CASE UNCHANGED vars
  BY <1>10, <1>a, <1>b, <1>c DEF IInv, PortHeld, TabsOpened, FirstIsOffered, IdIsExchanged
<1>11. QED
  BY <1>1, <1>2, <1>3, <1>4, <1>5, <1>6, <1>7, <1>8, <1>9, <1>10 DEF Next, Steps

\* It holds in every reachable state.
LEMMA Invariant == Spec => []IInv
  BY InitIInv, IInvStep, PTL DEF Spec

\* Every login, request and channel holds a value of its type; what a login
\* returns is a cookie that was issued.
THEOREM LoginTyped == Spec => []TypeOK
  BY Invariant, PTL DEF IInv

\* However many logins compete for the port, are cancelled and come again, a
\* browser that was sent away comes back to the login that sent it.
THEOREM BrowserComesBack == Spec => []BrowserFindsListener
<1>1. IInv => BrowserFindsListener
  BY DEF IInv, TypeOK, PortHeld, TabsOpened, BrowserFindsListener
<1>2. QED
  BY <1>1, Invariant, PTL

\* In whatever order requests come, are accepted and are served, the first served
\* decides, and only an id that came first is exchanged for a cookie.
THEOREM FirstServedDecides == Spec => []FirstAnswerDecides
<1>1. IInv => FirstAnswerDecides
  BY DEF IInv, TypeOK, FirstIsTaken, IdIsExchanged, Brings, FirstAnswerDecides
<1>2. QED
  BY <1>1, Invariant, PTL
=============================================================================
