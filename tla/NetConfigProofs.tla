---------------------------- MODULE NetConfigProofs -----------------------------
(* What the configuration of a tunnel's network guarantees, for any networks, any *)
(* document of the gateway and any --route.                                       *)
EXTENDS NetConfig, TLAPS, FiniteSetTheorems, SequenceTheorems, WellFoundedInduction

USE DEF vars, machine, settings, given, fields

-----------------------------------------------------------------------------
(* The list of networks *)

LEMMA HasLeast ==
    ASSUME NEW T, T \subseteq Nat, T # {}
    PROVE  \E x \in T : \A y \in T : x <= y
<1>1. PICK x \in T : \A y \in T : ~ (<<y, x>> \in OpToRel(<, Nat))
  BY NatLessThanWellFounded, WFMin
<1>2. \A y \in T : ~(y < x)
  BY <1>1 DEF OpToRel
<1>3. QED
  BY <1>2

\* A set that has 0, and with a number below n the one that follows, has all up to n.
LEMMA UpTo ==
    ASSUME NEW n \in Nat, NEW T, 0 \in T,
           \A k \in 0..n : k \in T /\ k < n => k + 1 \in T
    PROVE  0..n \subseteq T
<1> DEFINE missing == (0..n) \ T
<1>1. SUFFICES ASSUME missing # {} PROVE FALSE
  OBVIOUS
<1>2. PICK x \in missing : \A y \in missing : x <= y
  <2>1. missing \subseteq Nat
    OBVIOUS
  <2> HIDE DEF missing
  <2>2. QED
    BY <1>1, <2>1, HasLeast
<1>3. x # 0 /\ x - 1 \in 0..n /\ x - 1 < n
  BY <1>2
<1>4. x - 1 \in T
  BY <1>2, <1>3
<1>5. (x - 1) + 1 \in T
  BY <1>3, <1>4
<1>6. QED
  BY <1>2, <1>5

\* What an entry does to the list: nothing is lost, nothing comes twice, and of the
\* entry comes its network.
LEMMA KeepAddsOnce ==
    ASSUME NEW list \in Seq(Nets), NEW e \in Entries, IsInjective(list)
    PROVE  /\ Keep(list, e) \in Seq(Nets)
           /\ IsInjective(Keep(list, e))
           /\ ToSet(Keep(list, e)) =
                  ToSet(list) \union (IF e = Unusable THEN {} ELSE {ParseNetwork(e)})
<1>1. CASE e = Unusable
  BY <1>1 DEF Keep
<1>2. CASE e # Unusable
  <2> DEFINE net == ParseNetwork(e)
  <2>1. net \in Nets
    BY <1>2 DEF Entries, ParseNetwork
  <2>2. CASE Contains(list, net)
    <3>1. Keep(list, e) = list
      BY <2>2 DEF Keep
    <3>2. net \in ToSet(list)
      BY <2>2 DEF Contains, ToSet
    <3>3. QED
      BY <1>2, <3>1, <3>2
  <2>3. CASE ~Contains(list, net)
    <3>1. Keep(list, e) = Append(list, net)
      BY <1>2, <2>3 DEF Keep
    <3>2. \A i \in 1..Len(list) : list[i] # net
      BY <2>3 DEF Contains
    <3> HIDE DEF net
    <3>3. /\ Append(list, net) \in Seq(Nets) /\ Len(list) \in Nat
          /\ DOMAIN list = 1..Len(list) /\ DOMAIN Append(list, net) = 1..Len(list) + 1
          /\ Append(list, net)[Len(list) + 1] = net
          /\ \A i \in 1..Len(list) : Append(list, net)[i] = list[i]
      BY <2>1
    <3>4. IsInjective(Append(list, net))
      BY <3>2, <3>3 DEF IsInjective
    <3>5. ToSet(Append(list, net)) = ToSet(list) \union {net}
      BY <3>3 DEF ToSet
    <3>6. QED
      BY <1>2, <3>1, <3>3, <3>4, <3>5 DEF net
  <2>4. QED
    BY <2>2, <2>3
<1>3. QED
  BY <1>1, <1>2

\* The lists after so many entries.
Lists(f, entries) ==
    /\ f[0] = <<>>
    /\ \A n \in 1..Len(entries) : f[n] = Keep(f[n - 1], entries[n])

\* There is such a function, so that the loop of Collect computes one.
LEMMA ListsExist ==
    ASSUME NEW entries \in Seq(Entries)
    PROVE  \E f : f = [n \in 0..Len(entries) |->
                          IF n = 0 THEN <<>> ELSE Keep(f[n - 1], entries[n])]
<1> DEFINE L == Len(entries)
           Fills(k, f) == f = [n \in 0..k |-> IF n = 0 THEN <<>> ELSE Keep(f[n - 1], entries[n])]
           T == {k \in 0..L : \E f : Fills(k, f)}
<1>1. L \in Nat
  OBVIOUS
<1>2. 0 \in T
  <2> DEFINE f == [n \in 0..0 |-> <<>>]
  <2>1. f = [n \in 0..0 |-> IF n = 0 THEN <<>> ELSE Keep(f[n - 1], entries[n])]
    OBVIOUS
  <2>2. Fills(0, f)
    BY <2>1
  <2> HIDE DEF f
  <2>3. \E g : Fills(0, g)
    BY <2>2
  <2>4. QED
    BY <1>1, <2>3
<1>3. ASSUME NEW k \in 0..L, k \in T, k < L PROVE k + 1 \in T
  <2>1. PICK f : Fills(k, f)
    BY <1>3
  <2> DEFINE g == [n \in 0..k + 1 |-> IF n = k + 1 THEN Keep(f[k], entries[n]) ELSE f[n]]
  <2>2. k \in Nat /\ k + 1 \in 0..L
    BY <1>1, <1>3
  <2>3. ASSUME NEW n \in 0..k + 1
        PROVE  g[n] = IF n = 0 THEN <<>> ELSE Keep(g[n - 1], entries[n])
    <3>1. CASE n = k + 1
      <4>1. g[n - 1] = f[k] /\ n # 0
        BY <2>2, <3>1
      <4>2. g[n] = Keep(f[k], entries[n])
        BY <2>2, <3>1
      <4>3. QED
        BY <4>1, <4>2
    <3>2. CASE n # k + 1
      <4>1. n \in 0..k
        BY <2>2, <3>2
      <4>2. g[n] = f[n] /\ (n # 0 => g[n - 1] = f[n - 1])
        BY <2>2, <4>1
      <4>3. f[n] = IF n = 0 THEN <<>> ELSE Keep(f[n - 1], entries[n])
        BY <2>1, <4>1
      <4>4. QED
        BY <4>2, <4>3
    <3>3. QED
      BY <3>1, <3>2
  <2>4. Fills(k + 1, g)
    BY <2>3
  <2>5. QED
    BY <2>2, <2>4
<1>4. 0..L \subseteq T
  <2> HIDE DEF T, L
  <2>1. \A k \in 0..L : k \in T /\ k < L => k + 1 \in T
    BY <1>3
  <2>2. QED
    BY <1>1, <1>2, <2>1, UpTo
<1>5. L \in T
  BY <1>1, <1>4
<1>6. QED
  BY <1>5

LEMMA CollectIsLast ==
    ASSUME NEW entries \in Seq(Entries)
    PROVE  \E f : Lists(f, entries) /\ Collect(entries) = f[Len(entries)]
<1> DEFINE after == CHOOSE f : f = [n \in 0..Len(entries) |->
                                      IF n = 0 THEN <<>> ELSE Keep(f[n - 1], entries[n])]
<1>1. after = [n \in 0..Len(entries) |->
                  IF n = 0 THEN <<>> ELSE Keep(after[n - 1], entries[n])]
  BY ListsExist
<1>2. Collect(entries) = after[Len(entries)]
  BY DEF Collect
<1> HIDE DEF after
<1>3. Lists(after, entries)
  <2>1. Len(entries) \in Nat
    OBVIOUS
  <2>2. after[0] = <<>>
    BY <1>1, <2>1
  <2>3. \A n \in 1..Len(entries) : after[n] = Keep(after[n - 1], entries[n])
    BY <1>1, <2>1
  <2>4. QED
    BY <2>2, <2>3 DEF Lists
<1>4. QED
  BY <1>2, <1>3

\* However the gateway lists its networks, under whatever names, repeated, with host
\* bits or among entries that do not parse: each that it lists is collected, once, and
\* nothing else is.
THEOREM CollectsEachOnce ==
    ASSUME NEW entries \in Seq(Entries)
    PROVE  /\ Collect(entries) \in Seq(Nets)
           /\ IsInjective(Collect(entries))
           /\ ToSet(Collect(entries)) =
                  {ParseNetwork(e) : e \in ToSet(entries) \ {Unusable}}
<1> DEFINE L == Len(entries)
           Sofar(n) == {ParseNetwork(entries[i]) : i \in {j \in 1..n : entries[j] # Unusable}}
<1>1. PICK f : Lists(f, entries) /\ Collect(entries) = f[L]
  BY CollectIsLast
<1> DEFINE Good(n) == f[n] \in Seq(Nets) /\ IsInjective(f[n]) /\ ToSet(f[n]) = Sofar(n)
           T == {n \in 0..L : Good(n)}
<1>2. L \in Nat
  OBVIOUS
<1>3. 0 \in T
  <2>1. f[0] = <<>>
    BY <1>1 DEF Lists
  <2>2. f[0] \in Seq(Nets) /\ IsInjective(f[0]) /\ ToSet(f[0]) = {}
    BY <2>1 DEF IsInjective, ToSet
  <2>3. Sofar(0) = {}
    OBVIOUS
  <2>4. QED
    BY <1>2, <2>2, <2>3
<1>4. ASSUME NEW n \in 0..L, n \in T, n < L PROVE n + 1 \in T
  <2>1. n + 1 \in 1..L /\ n \in Nat
    BY <1>2, <1>4
  <2>2. f[n + 1] = Keep(f[n], entries[n + 1])
    <3>1. (n + 1) - 1 = n
      BY <2>1
    <3>2. QED
      BY <1>1, <2>1, <3>1 DEF Lists
  <2>3. f[n] \in Seq(Nets) /\ IsInjective(f[n]) /\ ToSet(f[n]) = Sofar(n)
    BY <1>4
  <2>4. entries[n + 1] \in Entries
    BY <2>1
  <2>5. /\ f[n + 1] \in Seq(Nets) /\ IsInjective(f[n + 1])
        /\ ToSet(f[n + 1]) = ToSet(f[n]) \union
              (IF entries[n + 1] = Unusable THEN {} ELSE {ParseNetwork(entries[n + 1])})
    BY <2>2, <2>3, <2>4, KeepAddsOnce
  <2>6. Sofar(n + 1) = Sofar(n) \union
              (IF entries[n + 1] = Unusable THEN {} ELSE {ParseNetwork(entries[n + 1])})
    <3>1. 1..n + 1 = 1..n \union {n + 1}
      BY <2>1
    <3>2. QED
      BY <3>1
  <2>7. Good(n + 1)
    BY <2>3, <2>5, <2>6
  <2>8. QED
    BY <2>1, <2>7
<1>5. Good(L)
  <2>1. \A k \in 0..L : k \in T /\ k < L => k + 1 \in T
    BY <1>4
  <2> HIDE DEF T, L
  <2>2. 0..L \subseteq T
    BY <1>2, <1>3, <2>1, UpTo
  <2>3. L \in T
    BY <1>2, <2>2
  <2>4. QED
    BY <2>3 DEF T
<1>6. Sofar(L) = {ParseNetwork(e) : e \in ToSet(entries) \ {Unusable}}
  BY DEF ToSet
<1>7. QED
  BY <1>1, <1>5, <1>6

\* So what Apply is given is a list of networks, without repeats if the gateway wrote it.
LEMMA RoutesAreNets ==
    ASSUME NEW flags \in Flags, NEW document \in Documents
    PROVE  /\ RoutesOf(flags, document) \in Seq(Nets)
           /\ RoutesOf(flags, document) \in Flags \/ IsInjective(RoutesOf(flags, document))
<1>1. CASE flags = Nil
  <2>1. RoutesOf(flags, document) = GetConfig(document)
    BY <1>1 DEF RoutesOf
  <2>2. document.include \o document.info \in Seq(Entries)
    BY DocumentsListNets
  <2>3. CASE document.read
    BY <2>1, <2>2, <2>3, CollectsEachOnce DEF GetConfig
  <2>4. CASE ~document.read
    BY <2>1, <2>4 DEF GetConfig, IsInjective
  <2>5. QED
    BY <2>3, <2>4
<1>2. CASE flags # Nil
  BY <1>2, FlagsListNets DEF RoutesOf
<1>3. QED
  BY <1>1, <1>2

-----------------------------------------------------------------------------
(* The inductive invariant *)

\* The host route that is ours is the one this configurator added, and the one that
\* another program added is not.
PinKnown ==
    /\ pin = "ours" => gatewayRouteAdded /\ gatewayKnown
    /\ gatewayRouteAdded => pin # "foreign"
    /\ pc \in {"none", "pin"} => ~gatewayRouteAdded
    /\ pc = "down" /\ ~problems => pin # "ours"

\* Nothing goes through a tunnel before its routes are added.
NothingYet ==
    pc \in {"none", "pin", "address", "link"} =>
        through = {} /\ conflicts = <<>> /\ installedRoutes = 0

\* What was verified stays: nothing adds a route afterwards, and a host route that is
\* lost is noted.
StaysVerified == pc \in Checked /\ gatewayKnown /\ ~lost => ~GatewayOverTunnel

Routing == {"routes", "verify", "dns", "domains", "applied"}

\* Each of the targets is through the tunnel, reported, or still to be added.
EachSomewhere ==
    pc \in Routing =>
        /\ through \union ToSet(conflicts) \union ToSet(todo) = ToSet(Targets)
        /\ IsFiniteSet(through)
        /\ Cardinality(through) + Len(conflicts) + Len(todo) = Len(Targets)
        /\ pc # "routes" => todo = <<>>

\* Of a list without repeats, what is reported is somebody else's, and what is still to
\* be added is not there yet; without a list nothing is reported.
NoneTwice ==
    pc \in Routing =>
        /\ routes = <<>> => conflicts = <<>>
        /\ routes # <<>> /\ (IsInjective(routes) \/ routes \notin Flags) =>
               /\ ToSet(conflicts) \subseteq own \ through
               /\ IsInjective(todo)
               /\ ToSet(todo) \intersect through = {}

Installed ==
    pc \in Routing \ {"routes"} =>
        installedRoutes = IF routes # <<>> THEN Len(routes) - Len(conflicts) ELSE 0

GatewayNets == routes \in Flags \/ IsInjective(routes)

IInv == /\ TypeOK /\ PinKnown /\ NothingYet /\ StaysVerified
        /\ EachSomewhere /\ NoneTwice /\ Installed /\ (pc # "none" => GatewayNets)

LEMMA HeadAndTail ==
    ASSUME NEW s \in Seq(Nets), s # <<>>
    PROVE  /\ Head(s) \in Nets /\ Tail(s) \in Seq(Nets)
           /\ Len(s) \in Nat /\ Len(Tail(s)) \in Nat /\ Len(s) = Len(Tail(s)) + 1
           /\ ToSet(s) = {Head(s)} \union ToSet(Tail(s))
           /\ IsInjective(s) => IsInjective(Tail(s)) /\ Head(s) \notin ToSet(Tail(s))
<1>1. /\ Head(s) \in Nets /\ Tail(s) \in Seq(Nets) /\ Head(s) = s[1]
      /\ Len(s) \in Nat \ {0} /\ Len(Tail(s)) = Len(s) - 1
      /\ DOMAIN s = 1..Len(s) /\ DOMAIN Tail(s) = 1..Len(s) - 1
      /\ \A i \in 1..Len(s) - 1 : Tail(s)[i] = s[i + 1]
  OBVIOUS
<1>2. \A j \in 1..Len(s) : j = 1 \/ (j - 1 \in 1..Len(s) - 1 /\ Tail(s)[j - 1] = s[j])
  BY <1>1
<1>3. ToSet(s) = {Head(s)} \union ToSet(Tail(s))
  <2>1. ASSUME NEW x \in ToSet(s) PROVE x \in {Head(s)} \union ToSet(Tail(s))
    <3>1. PICK j \in 1..Len(s) : x = s[j]
      BY <1>1 DEF ToSet
    <3>2. CASE j = 1
      BY <1>1, <3>1, <3>2
    <3>3. CASE j # 1
      <4>1. j - 1 \in 1..Len(s) - 1 /\ Tail(s)[j - 1] = x
        BY <1>2, <3>1, <3>3
      <4>2. QED
        BY <1>1, <4>1 DEF ToSet
    <3>4. QED
      BY <3>2, <3>3
  <2>2. Head(s) \in ToSet(s) /\ ToSet(Tail(s)) \subseteq ToSet(s)
    BY <1>1 DEF ToSet
  <2>3. QED
    BY <2>1, <2>2
<1>4. ASSUME IsInjective(s) PROVE IsInjective(Tail(s)) /\ Head(s) \notin ToSet(Tail(s))
  <2>1. \A a, b \in 1..Len(s) : s[a] = s[b] => a = b
    BY <1>1, <1>4 DEF IsInjective
  <2>2. \A i \in 1..Len(s) - 1 : i + 1 \in 1..Len(s) /\ i + 1 # 1 /\ 1 \in 1..Len(s)
    BY <1>1
  <2>3. IsInjective(Tail(s))
    BY <1>1, <2>1, <2>2 DEF IsInjective
  <2>4. Head(s) \notin ToSet(Tail(s))
    BY <1>1, <2>1, <2>2 DEF ToSet
  <2>5. QED
    BY <2>3, <2>4
<1>5. QED
  BY <1>1, <1>3, <1>4

LEMMA Appended ==
    ASSUME NEW s \in Seq(Nets), NEW e \in Nets
    PROVE  /\ Append(s, e) \in Seq(Nets) /\ Len(Append(s, e)) = Len(s) + 1 /\ Len(s) \in Nat
           /\ ToSet(Append(s, e)) = ToSet(s) \union {e}
<1>1. /\ Append(s, e) \in Seq(Nets) /\ Len(Append(s, e)) = Len(s) + 1 /\ Len(s) \in Nat
      /\ DOMAIN s = 1..Len(s) /\ DOMAIN Append(s, e) = 1..Len(s) + 1
      /\ Append(s, e)[Len(s) + 1] = e
      /\ \A i \in 1..Len(s) : Append(s, e)[i] = s[i]
  OBVIOUS
<1>2. QED
  BY <1>1 DEF ToSet

LEMMA TargetsAreNets == routes \in Seq(Nets) => Targets \in Seq(Nets)
BY NetsAreSplit DEF Targets

-----------------------------------------------------------------------------
(* The invariant holds at the start and in every step *)

LEMMA InitInv == Init => IInv
<1> SUFFICES ASSUME Init PROVE IInv
  OBVIOUS
<1> USE DEF Init, NoTunnel
<1>1. TypeOK
  <2>1. tunnels \in 0..MaxTunnels
    BY MaxTunnelsIsNat
  <2>2. routes \in Seq(Nets) /\ todo \in Seq(Nets) /\ conflicts \in Seq(Nets)
    OBVIOUS
  <2>3. installedRoutes \in 0..Len(routes)
    OBVIOUS
  <2>4. fullTunnel \in BOOLEAN /\ servers \in BOOLEAN /\ gatewayKnown \in BOOLEAN
    BY Zenon
  <2>5. applied \in BOOLEAN /\ gatewayRouteAdded \in BOOLEAN /\ problems \in BOOLEAN
    BY Zenon
  <2>6. /\ pin \in {"none", "ours", "stale", "foreign"} /\ own \subseteq Nets
        /\ through \subseteq Nets /\ pc \in PCs /\ resolver \in {"none", "servers", "domains"}
        /\ iface \in {"absent", "created", "addressed", "up", "down"}
    BY DEF PCs
  <2>7. QED
    BY <2>1, <2>2, <2>3, <2>4, <2>5, <2>6, Zenon DEF TypeOK
<1>2. PinKnown /\ NothingYet /\ StaysVerified
  BY DEF PinKnown, NothingYet, StaysVerified, Checked
<1>3. EachSomewhere /\ NoneTwice /\ Installed
  BY DEF EachSomewhere, NoneTwice, Installed, Routing
<1>4. QED
  BY <1>1, <1>2, <1>3 DEF IInv

\* What a step does to the settings and to the sequences.
LEMMA TypeStep == IInv /\ [Next]_vars => TypeOK'
<1> SUFFICES ASSUME IInv, [Next]_vars PROVE TypeOK'
  OBVIOUS
<1> USE DEF IInv
<1>a. TypeOK
  OBVIOUS
<1>1. CASE Starts
  <2>1. PICK flags \in Flags, document \in Documents : routes' = RoutesOf(flags, document)
    BY <1>1 DEF Starts
  <2>2. routes' \in Seq(Nets)
    BY <2>1, RoutesAreNets
  <2>3. installedRoutes' \in 0..Len(routes')
    <3>1. installedRoutes' = 0
      BY <1>1 DEF Starts, NothingYet
    <3>2. QED
      BY <2>2, <3>1
  <2>4. fullTunnel' \in BOOLEAN /\ servers' \in BOOLEAN /\ gatewayKnown' \in BOOLEAN
        /\ lost' \in BOOLEAN
    BY <1>1 DEF Starts
  <2>5. tunnels' \in 0..MaxTunnels
    BY <1>1, <1>a, MaxTunnelsIsNat DEF Starts, TypeOK
  <2>6. iface' = "created" /\ pc' = "pin" /\ UNCHANGED <<pin, own, through, resolver, todo, fields>>
    BY <1>1 DEF Starts
  <2>7. QED
    BY <1>a, <2>2, <2>3, <2>4, <2>5, <2>6 DEF TypeOK, PCs
<1>2. CASE Pins
  <2>1. gatewayRouteAdded' \in BOOLEAN
    BY <1>2, <1>a, Zenon DEF Pins, TypeOK
  <2>2. QED
    BY <1>2, <1>a, <2>1 DEF Pins, TypeOK, PCs, Goes
<1>3. CASE AddsAddress
  <2>1. applied' \in BOOLEAN
    BY <1>3, Zenon DEF AddsAddress
  <2>2. QED
    BY <1>3, <1>a, <2>1 DEF AddsAddress, TypeOK, PCs, Goes
<1>4. CASE BringsUp
  BY <1>4, <1>a, TargetsAreNets DEF BringsUp, TypeOK, PCs, Goes
<1>5. CASE AddsRoute
  <2>1. Head(todo) \in Nets /\ Tail(todo) \in Seq(Nets)
    BY <1>5, <1>a, HeadAndTail DEF AddsRoute, TypeOK
  <2>2. QED
    BY <1>5, <1>a, <2>1 DEF AddsRoute, TypeOK, PCs
<1>6. CASE RouteExists
  <2>1. Head(todo) \in Nets /\ Tail(todo) \in Seq(Nets)
    BY <1>6, <1>a, HeadAndTail DEF RouteExists, TypeOK
  <2>2. Append(conflicts, Head(todo)) \in Seq(Nets)
    BY <1>a, <2>1 DEF TypeOK
  <2>3. todo' \in Seq(Nets) /\ conflicts' \in Seq(Nets) /\ pc' \in PCs
    BY <1>6, <1>a, <2>1, <2>2 DEF RouteExists, TypeOK, PCs
  <2>4. QED
    BY <1>6, <1>a, <2>3 DEF RouteExists, TypeOK
<1>7. CASE RoutesAdded
  <2>1. Cardinality(through) \in Nat /\ Len(todo) \in Nat /\ Len(conflicts) \in Nat
        /\ Len(routes) \in Nat
    BY <1>7, <1>a, FS_CardinalityType DEF TypeOK, EachSomewhere, Routing, RoutesAdded, Goes
  <2>2. routes # <<>> => Len(conflicts) <= Len(routes)
    BY <1>7, <1>a, <2>1 DEF EachSomewhere, Routing, RoutesAdded, Goes, Targets
  <2>3. installedRoutes' \in 0..Len(routes')
    BY <1>7, <1>a, <2>1, <2>2 DEF RoutesAdded, TypeOK
  <2>4. QED
    BY <1>7, <1>a, <2>3 DEF RoutesAdded, TypeOK, PCs, Goes
<1>8. CASE Verifies
  BY <1>8, <1>a DEF Verifies, TypeOK, PCs
<1>9. CASE SetsServers
  BY <1>9, <1>a DEF SetsServers, TypeOK, PCs
<1>10. CASE SetsDomains
  BY <1>10, <1>a DEF SetsDomains, TypeOK, PCs, Goes
<1>11. CASE Fails
  BY <1>11, <1>a DEF Fails, TypeOK, PCs
<1>12. CASE RevertStarts
  BY <1>12, <1>a DEF RevertStarts, TypeOK, PCs
<1>13. ASSUME NEW ok \in BOOLEAN, Unpins(ok) PROVE TypeOK'
  <2>1. problems' \in BOOLEAN
    BY <1>13, <1>a, Zenon DEF Unpins, TypeOK
  <2>2. QED
    BY <1>13, <1>a, <2>1 DEF Unpins, TypeOK, PCs, Goes
<1>14. ASSUME NEW ok \in BOOLEAN, BringsDown(ok) PROVE TypeOK'
  <2>1. problems' \in BOOLEAN /\ applied' \in BOOLEAN
    BY <1>14, <1>a, Zenon DEF BringsDown, TypeOK
  <2>2. QED
    BY <1>14, <1>a, <2>1 DEF BringsDown, TypeOK, PCs, Goes
<1>15. CASE Ends \/ Dies
  <2>1. applied' \in BOOLEAN /\ gatewayRouteAdded' \in BOOLEAN /\ problems' \in BOOLEAN
    BY <1>15, Zenon DEF Ends, Dies
  <2>2. conflicts' = <<>> /\ (todo' = <<>> \/ todo' = todo)
    BY <1>15 DEF Ends, Dies
  <2>3. <<>> \in Seq(Nets) /\ todo \in Seq(Nets)
    BY <1>a DEF TypeOK
  <2>4. conflicts' \in Seq(Nets) /\ todo' \in Seq(Nets)
    BY <2>2, <2>3
  <2>5. pin' \in {"none", "ours", "stale", "foreign"}
    BY <1>15, <1>a DEF Ends, Dies, TypeOK
  <2>6. installedRoutes' \in 0..Len(routes')
    BY <1>15, <1>a DEF Ends, Dies, TypeOK
  <2>7. QED
    BY <1>15, <1>a, <2>1, <2>6, <2>4, <2>5 DEF Ends, Dies, TypeOK, PCs
<1>16. CASE UplinkFlaps
  BY <1>16, <1>a DEF UplinkFlaps, TypeOK
<1>17. CASE UNCHANGED vars
  BY <1>17, <1>a DEF TypeOK
<1>18. QED
  BY <1>1, <1>2, <1>3, <1>4, <1>5, <1>6, <1>7, <1>8, <1>9, <1>10, <1>11, <1>12, <1>13, <1>14,
     <1>15, <1>16, <1>17 DEF Next

\* The host route, and what was verified.
LEMMA PinStep == IInv /\ [Next]_vars => PinKnown' /\ NothingYet' /\ StaysVerified'
<1> SUFFICES ASSUME IInv, [Next]_vars PROVE PinKnown' /\ NothingYet' /\ StaysVerified'
  OBVIOUS
<1> USE DEF IInv, PinKnown, NothingYet, StaysVerified, GatewayOverTunnel, Checked, Goes
<1>1. CASE Starts
  BY <1>1 DEF Starts
<1>2. CASE Pins \/ AddsAddress \/ BringsUp
  BY <1>2 DEF Pins, AddsAddress, BringsUp
<1>3. CASE AddsRoute \/ RouteExists \/ RoutesAdded
  BY <1>3 DEF AddsRoute, RouteExists, RoutesAdded
<1>4. CASE Verifies \/ SetsServers \/ SetsDomains
  BY <1>4 DEF Verifies, SetsServers, SetsDomains
<1>5. CASE Fails \/ RevertStarts
  BY <1>5 DEF Fails, RevertStarts
<1>6. ASSUME NEW ok \in BOOLEAN, Unpins(ok) PROVE PinKnown' /\ NothingYet' /\ StaysVerified'
  BY <1>6 DEF Unpins
<1>7. ASSUME NEW ok \in BOOLEAN, BringsDown(ok) PROVE PinKnown' /\ NothingYet' /\ StaysVerified'
  BY <1>7 DEF BringsDown
<1>8. CASE Ends \/ Dies
  BY <1>8 DEF Ends, Dies
<1>9. CASE UplinkFlaps
  BY <1>9 DEF UplinkFlaps
<1>10. CASE UNCHANGED vars
  BY <1>10
<1>11. QED
  BY <1>1, <1>2, <1>3, <1>4, <1>5, <1>6, <1>7, <1>8, <1>9, <1>10 DEF Next

\* The settings are the gateway's or the administrator's.
LEMMA SettingsStep == IInv /\ [Next]_vars => (pc' # "none" => GatewayNets')
<1> SUFFICES ASSUME IInv, [Next]_vars PROVE pc' # "none" => GatewayNets'
  OBVIOUS
<1>1. CASE Starts
  <2>1. PICK flags \in Flags, document \in Documents : routes' = RoutesOf(flags, document)
    BY <1>1 DEF Starts
  <2>2. QED
    BY <2>1, RoutesAreNets DEF GatewayNets
<1>2. CASE UNCHANGED settings /\ (pc' # "none" => pc # "none")
  BY <1>2 DEF IInv, GatewayNets
<1>3. Next => Starts \/ (UNCHANGED settings /\ (pc' # "none" => pc # "none"))
  BY DEF Next, Goes, Pins, AddsAddress, BringsUp, AddsRoute, RouteExists, RoutesAdded, Verifies,
         SetsServers, SetsDomains, Fails, RevertStarts, Unpins, BringsDown, Ends, Dies, UplinkFlaps
<1>4. QED
  BY <1>1, <1>2, <1>3

\* The routes.
LEMMA RouteStep == IInv /\ [Next]_vars => EachSomewhere' /\ NoneTwice' /\ Installed'
<1> SUFFICES ASSUME IInv, [Next]_vars PROVE EachSomewhere' /\ NoneTwice' /\ Installed'
  OBVIOUS
<1>a. /\ through \subseteq Nets /\ routes \in Seq(Nets) /\ todo \in Seq(Nets)
      /\ conflicts \in Seq(Nets) /\ pc \in PCs
  BY DEF IInv, TypeOK
<1>b. EachSomewhere /\ NoneTwice /\ Installed /\ NothingYet
  BY DEF IInv
<1>1. CASE BringsUp
  <2>1. /\ pc' = "routes" /\ todo' = Targets /\ through' = {} /\ conflicts' = <<>>
        /\ UNCHANGED <<settings, own>> /\ Targets' = Targets
    BY <1>1, <1>b DEF BringsUp, NothingYet, Goes, Targets
  <2>2. IsFiniteSet({}) /\ Cardinality({}) = 0 /\ ToSet(<<>>) = {} /\ Len(Targets) \in Nat
    BY <1>a, TargetsAreNets, FS_EmptySet DEF ToSet
  <2>3. EachSomewhere'
    BY <2>1, <2>2 DEF EachSomewhere
  <2>4. routes # <<>> => Targets = routes
    BY DEF Targets
  <2>5. (IsInjective(routes) \/ routes \notin Flags) => IsInjective(routes)
    BY <1>1 DEF IInv, GatewayNets, BringsUp, Goes
  <2>6. NoneTwice'
    BY <2>1, <2>2, <2>4, <2>5 DEF NoneTwice
  <2>7. Installed'
    BY <2>1 DEF Installed
  <2>8. QED
    BY <2>3, <2>6, <2>7
<1>2. CASE AddsRoute
  <2> DEFINE net == Head(todo)
  <2>1. /\ pc = "routes" /\ pc' = "routes" /\ todo' = Tail(todo) /\ todo # <<>>
        /\ net \notin own \union through /\ through' = through \union {net}
        /\ UNCHANGED <<settings, own, conflicts>> /\ Targets' = Targets
    BY <1>2 DEF AddsRoute, Targets
  <2>2. /\ Len(todo) = Len(Tail(todo)) + 1 /\ Len(Tail(todo)) \in Nat /\ Len(conflicts) \in Nat
        /\ ToSet(todo) = {net} \union ToSet(Tail(todo))
        /\ IsInjective(todo) => IsInjective(Tail(todo)) /\ net \notin ToSet(Tail(todo))
    BY <1>a, <2>1, HeadAndTail
  <2>3. /\ IsFiniteSet(through) /\ Cardinality(through) \in Nat
        /\ IsFiniteSet(through \union {net})
        /\ Cardinality(through \union {net}) = Cardinality(through) + 1
    BY <1>b, <2>1, FS_AddElement, FS_CardinalityType DEF EachSomewhere, Routing
  <2> HIDE DEF net
  <2>4. EachSomewhere'
    <3>1. Cardinality(through) + Len(conflicts) + Len(todo) = Len(Targets)
      BY <1>b, <2>1 DEF EachSomewhere, Routing
    <3>2. Cardinality(through') = Cardinality(through) + 1 /\ Len(conflicts') = Len(conflicts)
      BY <2>1, <2>3
    <3>3. Len(todo') + 1 = Len(todo) /\ Len(todo') \in Nat /\ Len(Targets') = Len(Targets)
      BY <2>1, <2>2
    <3>4. Cardinality(through') + Len(conflicts') + Len(todo') = Len(Targets')
      BY <2>2, <2>3, <3>1, <3>2, <3>3
    <3>5. through' \union ToSet(conflicts') \union ToSet(todo') = ToSet(Targets')
      BY <1>b, <2>1, <2>2 DEF EachSomewhere, Routing
    <3>6. QED
      BY <2>1, <2>3, <3>4, <3>5 DEF EachSomewhere
  <2>5. NoneTwice'
    BY <1>b, <2>1, <2>2 DEF NoneTwice, Routing
  <2>6. Installed'
    BY <2>1 DEF Installed
  <2>7. QED
    BY <2>4, <2>5, <2>6
<1>3. CASE RouteExists /\ pc' = "routes"
  <2> DEFINE net == Head(todo)
  <2>1. /\ pc = "routes" /\ todo' = Tail(todo) /\ todo # <<>> /\ routes # <<>>
        /\ net \in own \union through /\ conflicts' = Append(conflicts, net)
        /\ UNCHANGED <<settings, own, through>> /\ Targets' = Targets
    BY <1>3 DEF RouteExists, Targets
  <2>2. /\ Len(todo) = Len(Tail(todo)) + 1 /\ Len(Tail(todo)) \in Nat /\ net \in Nets
        /\ ToSet(todo) = {net} \union ToSet(Tail(todo))
        /\ IsInjective(todo) => IsInjective(Tail(todo)) /\ net \notin ToSet(Tail(todo))
    BY <1>a, <2>1, HeadAndTail
  <2>3. /\ ToSet(Append(conflicts, net)) = ToSet(conflicts) \union {net}
        /\ Len(Append(conflicts, net)) = Len(conflicts) + 1 /\ Len(conflicts) \in Nat
    BY <1>a, <2>2, Appended
  <2>4. IsFiniteSet(through) /\ Cardinality(through) \in Nat
    BY <1>b, <2>1, FS_CardinalityType DEF EachSomewhere, Routing
  <2> HIDE DEF net
  <2>5. EachSomewhere'
    <3>1. Cardinality(through) + Len(conflicts) + Len(todo) = Len(Targets)
      BY <1>b, <2>1 DEF EachSomewhere, Routing
    <3>2. Cardinality(through') = Cardinality(through) /\ Len(conflicts') = Len(conflicts) + 1
      BY <2>1, <2>3
    <3>3. Len(todo') + 1 = Len(todo) /\ Len(todo') \in Nat /\ Len(Targets') = Len(Targets)
      BY <2>1, <2>2
    <3>4. Cardinality(through') + Len(conflicts') + Len(todo') = Len(Targets')
      BY <2>3, <2>4, <3>1, <3>2, <3>3
    <3>5. through' \union ToSet(conflicts') \union ToSet(todo') = ToSet(Targets')
      BY <1>b, <2>1, <2>2, <2>3 DEF EachSomewhere, Routing
    <3>6. QED
      BY <1>3, <2>1, <2>4, <3>4, <3>5 DEF EachSomewhere
  <2>6. NoneTwice'
    BY <1>b, <2>1, <2>2, <2>3 DEF NoneTwice, Routing
  <2>7. Installed'
    BY <1>3 DEF Installed
  <2>8. QED
    BY <2>5, <2>6, <2>7
<1>4. CASE RoutesAdded
  <2>1. /\ pc = "routes" /\ pc' = "verify" /\ todo = <<>> /\ Targets' = Targets
        /\ installedRoutes' = IF routes # <<>> THEN Len(routes) - Len(conflicts) ELSE 0
        /\ UNCHANGED <<settings, own, through, conflicts, todo>>
    BY <1>4 DEF RoutesAdded, Goes, Targets
  <2>2. QED
    BY <1>b, <2>1 DEF EachSomewhere, NoneTwice, Installed, Routing
<1>5. CASE /\ pc \in Routing /\ (pc = "routes" => pc' = "routes") /\ Targets' = Targets
           /\ UNCHANGED <<settings, own, through, conflicts, todo, installedRoutes>>
  BY <1>b, <1>5 DEF EachSomewhere, NoneTwice, Installed, Routing
<1>6. CASE pc' \notin Routing
  BY <1>6 DEF EachSomewhere, NoneTwice, Installed
<1>7. Verifies \/ SetsServers \/ SetsDomains =>
          \/ pc' \notin Routing
          \/ /\ pc \in Routing /\ (pc = "routes" => pc' = "routes") /\ Targets' = Targets
             /\ UNCHANGED <<settings, own, through, conflicts, todo, installedRoutes>>
  BY DEF Verifies, SetsServers, SetsDomains, Routing, Goes, Targets
<1>8. UplinkFlaps \/ UNCHANGED vars =>
          \/ pc' \notin Routing
          \/ /\ pc \in Routing /\ (pc = "routes" => pc' = "routes") /\ Targets' = Targets
             /\ UNCHANGED <<settings, own, through, conflicts, todo, installedRoutes>>
  BY DEF UplinkFlaps, Routing, Targets
<1>9. Starts \/ Pins \/ AddsAddress \/ Fails \/ RevertStarts \/ Ends \/ Dies => pc' \notin Routing
  BY DEF Starts, Pins, AddsAddress, Fails, RevertStarts, Ends, Dies, Routing, Goes
<1>10. ASSUME NEW ok \in BOOLEAN PROVE Unpins(ok) \/ BringsDown(ok) => pc' \notin Routing
  BY DEF Unpins, BringsDown, Routing, Goes
<1>11. RouteExists => pc' = "routes" \/ pc' \notin Routing
  BY DEF RouteExists, Routing
<1>12. QED
  BY <1>1, <1>2, <1>3, <1>4, <1>5, <1>6, <1>7, <1>8, <1>9, <1>10, <1>11 DEF Next

LEMMA InvStep == IInv /\ [Next]_vars => IInv'
BY TypeStep, PinStep, RouteStep, SettingsStep DEF IInv

LEMMA AlwaysInv == Spec => []IInv
BY InitInv, InvStep, PTL DEF Spec

-----------------------------------------------------------------------------
(* The results *)

\* Every value the code can store is of its type; the commands that were counted as
\* installed are no more than there are routes.
THEOREM NetConfigTyped == Spec => []TypeOK
<1>1. IInv => TypeOK
  BY DEF IInv
<1>2. QED
  BY <1>1, AlwaysInv, PTL

\* Apply gets past its check only with a gateway that is reached outside the tunnel, and
\* then the tunnel carries itself only if the host route is lost once more, whatever
\* networks hold the gateway.
THEOREM TunnelAvoidsItself == Spec => []NeverThroughItself
<1>1. IInv => NeverThroughItself
  BY DEF IInv, StaysVerified, NeverThroughItself
<1>2. QED
  BY <1>1, AlwaysInv, PTL

\* What was asked for is through the tunnel or reported, whatever the document, the
\* routes given and the machine's own.
THEOREM EveryRouteIsAccountedFor == Spec => []RoutesAccountedFor
<1>1. IInv => RoutesAccountedFor
  <2> SUFFICES ASSUME IInv, pc = "applied" PROVE RoutesAccountedFor
    BY DEF RoutesAccountedFor
  <2>1. EachSomewhere /\ NoneTwice /\ Installed /\ routes \in Seq(Nets) /\ conflicts \in Seq(Nets)
    BY DEF IInv, TypeOK
  <2>2. todo = <<>> /\ ToSet(<<>>) = {} /\ Len(<<>>) = 0
    BY <2>1 DEF EachSomewhere, Routing, ToSet
  <2>3. through \union ToSet(conflicts) = ToSet(Targets)
    BY <2>1, <2>2 DEF EachSomewhere, Routing
  <2>4. IsInjective(routes) \/ routes \notin Flags => ToSet(conflicts) \subseteq own \ through
    BY <2>1 DEF NoneTwice, Routing, ToSet
  <2>5. ASSUME routes # <<>> PROVE installedRoutes = Cardinality(through)
    <3>1. /\ Cardinality(through) \in Nat /\ Len(conflicts) \in Nat /\ Len(routes) \in Nat
          /\ Cardinality(through) + Len(conflicts) + 0 = Len(routes)
      BY <2>1, <2>2, <2>5, FS_CardinalityType DEF EachSomewhere, Routing, Targets
    <3>2. installedRoutes = Len(routes) - Len(conflicts)
      BY <2>1, <2>5 DEF Installed, Routing
    <3>3. QED
      BY <3>1, <3>2
  <2>6. QED
    BY <2>3, <2>4, <2>5 DEF RoutesAccountedFor
<1>2. QED
  BY <1>1, AlwaysInv, PTL

\* No step touches the machine's own routes or another program's host route.
THEOREM OthersAreLeftAlone == Spec => OthersUntouched
<1>1. IInv /\ [Next]_vars =>
          [/\ own' = own
           /\ pin = "foreign" => pin' = "foreign" \/ (pin' = "none" /\ pc' = pc)]_vars
  <2> SUFFICES ASSUME IInv, Next
               PROVE  /\ own' = own
                      /\ pin = "foreign" => pin' = "foreign" \/ (pin' = "none" /\ pc' = pc)
    OBVIOUS
  <2>1. gatewayRouteAdded => pin # "foreign"
    BY DEF IInv, PinKnown
  <2>2. QED
    BY <2>1 DEF Next, Goes, Starts, Pins, AddsAddress, BringsUp, AddsRoute, RouteExists, RoutesAdded,
         Verifies, SetsServers, SetsDomains, Fails, RevertStarts, Unpins, BringsDown, Ends, Dies,
         UplinkFlaps
<1>2. QED
  BY <1>1, AlwaysInv, PTL DEF Spec, OthersUntouched

\* A Revert without problems leaves no host route of ours and nothing through the
\* interface.
THEOREM RevertUndoesApply == Spec => RevertRestores
<1>1. IInv /\ [Next]_vars =>
          [pc = "down" /\ pc' = "reverted" /\ ~problems' => pin # "ours" /\ through' = {}]_vars
  <2> SUFFICES ASSUME IInv, Next, pc = "down", pc' = "reverted", ~problems'
               PROVE  pin # "ours" /\ through' = {}
    OBVIOUS
  <2>1. PICK ok \in BOOLEAN : BringsDown(ok)
    BY DEF Next, Goes, Starts, Pins, AddsAddress, BringsUp, AddsRoute, RouteExists, RoutesAdded,
           Verifies, SetsServers, SetsDomains, Fails, RevertStarts, Unpins, Ends, Dies, UplinkFlaps
  <2>2. ok /\ through' = {} /\ ~problems
    BY <2>1 DEF BringsDown
  <2>3. pin # "ours"
    BY <2>2 DEF IInv, PinKnown
  <2>4. QED
    BY <2>2, <2>3
<1>2. QED
  BY <1>1, AlwaysInv, PTL DEF Spec, RevertRestores
=============================================================================
