----------------------------- MODULE NetConfig ------------------------------
(***************************************************************************)
(* internal/service/netcfg/linux.go: the routes and name servers of one    *)
(* tunnel after another, on a machine that has routes of its own.          *)
(*                                                                         *)
(* Every connection gets a new configurator and a new interface (New, and  *)
(* connection.go:130 and 205).  Each action below is one command of Apply  *)
(* or Revert; any of them may fail, and the process may die between two.   *)
(* The kernel drops an interface's addresses and routes with it, and the   *)
(* interface with the process that holds it.                               *)
(***************************************************************************)
EXTENDS Naturals, FiniteSets, TunnelConfig

CONSTANTS Halves,      \* the two halves of the Internet, in the order they are added
          OverGateway, \* the networks that hold the gateway's address
          MaxTunnels   \* bound on the number of connections

ASSUME NetsAreSplit == Halves \in Seq(Nets) /\ OverGateway \subseteq Nets
ASSUME MaxTunnelsIsNat == MaxTunnels \in Nat

VARIABLES
    \* the machine: the host route to the gateway and whose it is, the networks
    \* it reaches another way, the tunnel's interface and what goes through it
    pin, own, iface, through, resolver,
    \* the settings
    routes, fullTunnel, servers, gatewayKnown,
    \* the configurator, and what addRoutes has left to add
    pc, todo, applied, gatewayRouteAdded, conflicts, installedRoutes, problems,
    tunnels,
    \* history: the host route was lost after Apply had looked at it
    lost

machine  == <<pin, own, iface, through, resolver>>
settings == <<routes, fullTunnel, servers, gatewayKnown>>
fields   == <<applied, gatewayRouteAdded, conflicts, installedRoutes, problems>>
given    == <<settings, lost>>
vars     == <<machine, given, pc, todo, fields, tunnels>>

PCs == {"none", "pin", "address", "link", "routes", "verify", "dns", "domains",
        "applied", "failed", "unpin", "down", "reverted"}

TypeOK ==
    /\ pin \in {"none", "ours", "stale", "foreign"}
    /\ own \subseteq Nets /\ through \subseteq Nets
    /\ iface \in {"absent", "created", "addressed", "up", "down"}
    /\ resolver \in {"none", "servers", "domains"}
    /\ routes \in Seq(Nets) /\ todo \in Seq(Nets) /\ fullTunnel \in BOOLEAN
    /\ servers \in BOOLEAN /\ gatewayKnown \in BOOLEAN
    /\ pc \in PCs
    /\ applied \in BOOLEAN /\ gatewayRouteAdded \in BOOLEAN /\ problems \in BOOLEAN
    /\ conflicts \in Seq(Nets)
    /\ installedRoutes \in 0..Len(routes)
    /\ tunnels \in 0..MaxTunnels /\ lost \in BOOLEAN

NoTunnel == /\ iface = "absent" /\ through = {} /\ resolver = "none"
            /\ pc = "none" /\ applied = FALSE /\ gatewayRouteAdded = FALSE
            /\ todo = <<>> /\ conflicts = <<>> /\ installedRoutes = 0 /\ problems = FALSE

Init ==
    /\ pin \in {"none", "foreign"}
    /\ own \in SUBSET Nets
    /\ NoTunnel
    /\ routes = <<>> /\ fullTunnel = FALSE /\ servers = FALSE /\ gatewayKnown = FALSE
    /\ tunnels = 0 /\ lost = FALSE

\* Where Apply is once it has looked at the route to the gateway.
Checked == {"dns", "domains", "applied"}

\* The interface that reaches the gateway, as "ip route get" tells it: a host
\* route decides before the networks do.
GatewayOverTunnel == pin = "none" /\ through \intersect OverGateway # {}

\* What addRoutes adds: the list, or with none of it and FullTunnel the halves.
Targets == IF routes # <<>> THEN routes ELSE IF fullTunnel THEN Halves ELSE <<>>

-----------------------------------------------------------------------------
(* Apply *)

\* Connect has created the interface and calls Apply of a new configurator; it
\* asks for the full tunnel only without routes.
Starts ==
    /\ pc = "none"
    /\ tunnels < MaxTunnels /\ tunnels' = tunnels + 1 /\ lost' = FALSE
    /\ pc' = "pin"
    /\ iface' = "created"
    /\ \E flags \in Flags, document \in Documents : routes' = RoutesOf(flags, document)
    /\ fullTunnel' \in {FALSE, routes' = <<>>}
    /\ servers' \in BOOLEAN /\ gatewayKnown' \in BOOLEAN
    /\ UNCHANGED <<pin, own, through, resolver, todo, fields>>

Goes(from, to) == pc = from /\ pc' = to

Fails == /\ pc \in {"pin", "address", "link", "routes", "verify", "dns", "domains"}
         /\ pc' = "failed" /\ todo' = <<>>
         /\ UNCHANGED <<machine, given, fields, tunnels>>

\* Mutant of Pins: takes a route it finds for its own.
Pins_Adopts ==
    /\ Goes("pin", "address")
    /\ IF ~gatewayKnown THEN UNCHANGED <<pin, gatewayRouteAdded>>
       ELSE /\ pin' = IF pin = "none" THEN "ours" ELSE pin
            /\ gatewayRouteAdded' = TRUE
    /\ UNCHANGED <<own, iface, through, resolver, given, todo, applied, conflicts,
                   installedRoutes, problems, tunnels>>

\* pinGatewayRoute: the route that is there already is somebody's.  Its refusal
\* of a gateway behind the tunnel is left to Fails: the interface is new and
\* carries nothing yet.
Pins ==
    /\ Goes("pin", "address")
    /\ IF ~gatewayKnown \/ pin # "none" THEN UNCHANGED <<pin, gatewayRouteAdded>>
       ELSE pin' = "ours" /\ gatewayRouteAdded' = TRUE
    /\ UNCHANGED <<own, iface, through, resolver, given, todo, applied, conflicts,
                   installedRoutes, problems, tunnels>>

AddsAddress ==
    /\ Goes("address", "link")
    /\ iface' = "addressed"
    /\ applied' = TRUE
    /\ UNCHANGED <<pin, own, through, resolver, given, todo, gatewayRouteAdded, conflicts,
                   installedRoutes, problems, tunnels>>

BringsUp ==
    /\ Goes("link", "routes")
    /\ iface' = "up"
    /\ todo' = Targets
    /\ UNCHANGED <<pin, own, through, resolver, given, fields, tunnels>>

AddsRoute ==
    /\ pc = "routes" /\ todo # <<>>
    /\ Head(todo) \notin own \union through
    /\ through' = through \union {Head(todo)}
    /\ todo' = Tail(todo)
    /\ UNCHANGED <<pin, own, iface, resolver, given, pc, fields, tunnels>>

\* "File exists": one of the list is left where it is, one of the halves is an
\* error.  A route that this tunnel has already exists as well.
RouteExists ==
    /\ pc = "routes" /\ todo # <<>>
    /\ Head(todo) \in own \union through
    /\ IF routes # <<>> THEN /\ conflicts' = Append(conflicts, Head(todo))
                             /\ todo' = Tail(todo) /\ UNCHANGED pc
                        ELSE pc' = "failed" /\ todo' = <<>> /\ UNCHANGED conflicts
    /\ UNCHANGED <<machine, given, applied, gatewayRouteAdded, installedRoutes,
                   problems, tunnels>>

\* Those that failed are conflicts, the others were installed.
RoutesAdded ==
    /\ todo = <<>>
    /\ Goes("routes", "verify")
    /\ installedRoutes' = IF routes # <<>> THEN Len(routes) - Len(conflicts) ELSE 0
    /\ UNCHANGED <<machine, given, todo, applied, gatewayRouteAdded, conflicts,
                   problems, tunnels>>

\* Mutant of Verifies: trusts the pin.
Verifies_Not ==
    /\ Goes("verify", "dns")
    /\ UNCHANGED <<machine, given, todo, fields, tunnels>>

\* verifyGatewayIsNotTunnelled
Verifies ==
    /\ pc = "verify"
    /\ pc' = IF gatewayKnown /\ GatewayOverTunnel THEN "failed" ELSE "dns"
    /\ UNCHANGED <<machine, given, todo, fields, tunnels>>

\* applyDNS, up to the servers: there may be none to set.
SetsServers ==
    /\ pc = "dns"
    /\ IF servers THEN resolver' = "servers" /\ pc' = "domains"
                  ELSE pc' = "applied" /\ UNCHANGED resolver
    /\ UNCHANGED <<pin, own, iface, through, given, todo, fields, tunnels>>

\* The domains to claim, all of them with a full tunnel; there may be none.
SetsDomains ==
    /\ Goes("domains", "applied")
    /\ resolver' \in {"domains"} \union (IF fullTunnel THEN {} ELSE {"servers"})
    /\ UNCHANGED <<pin, own, iface, through, given, todo, fields, tunnels>>

-----------------------------------------------------------------------------
(* Revert, which teardown calls whatever came of Apply, and then closes the  *)
(* interface.                                                                *)

RevertStarts ==
    /\ pc \in {"applied", "failed"}
    /\ pc' = IF applied THEN "unpin" ELSE "reverted"
    /\ UNCHANGED <<machine, given, todo, fields, tunnels>>

\* Mutant of Unpins: leaves the host route to the kernel, like the others.
Unpins_Not(ok) ==
    /\ Goes("unpin", "down")
    /\ UNCHANGED <<machine, given, todo, fields, tunnels>>

\* The host route is removed if it was added, ...
Unpins(ok) ==
    /\ Goes("unpin", "down")
    /\ IF gatewayRouteAdded /\ gatewayKnown
       THEN /\ ok => pin # "none"     \* there is nothing to delete
            /\ pin' = IF ok THEN "none" ELSE pin
            /\ problems' = ~ok
       ELSE UNCHANGED <<pin, problems>>
    /\ UNCHANGED <<own, iface, through, resolver, given, todo, applied, gatewayRouteAdded,
                   conflicts, installedRoutes, tunnels>>

\* ... and the interface goes down in any case, with what goes through it.
BringsDown(ok) ==
    /\ Goes("down", "reverted")
    /\ IF ok THEN iface' = "down" /\ through' = {} /\ UNCHANGED problems
             ELSE problems' = TRUE /\ UNCHANGED <<iface, through>>
    /\ applied' = FALSE
    /\ UNCHANGED <<pin, own, resolver, given, todo, gatewayRouteAdded, conflicts,
                   installedRoutes, tunnels>>

\* The interface is closed, and the configurator is gone.
Ends ==
    /\ pc = "reverted"
    /\ pin' = IF pin = "ours" THEN "stale" ELSE pin
    /\ iface' = "absent" /\ through' = {} /\ resolver' = "none"
    /\ pc' = "none" /\ applied' = FALSE /\ gatewayRouteAdded' = FALSE
    /\ conflicts' = <<>> /\ installedRoutes' = 0 /\ problems' = FALSE
    /\ UNCHANGED <<own, given, todo, tunnels>>

\* The process dies.  A host route to the gateway that nobody will remove is
\* stale, and the next configurator finds it.
Dies ==
    /\ pc # "none"
    /\ pin' = IF pin = "ours" THEN "stale" ELSE pin
    /\ iface' = "absent" /\ through' = {} /\ resolver' = "none"
    /\ pc' = "none" /\ applied' = FALSE /\ gatewayRouteAdded' = FALSE
    /\ conflicts' = <<>> /\ installedRoutes' = 0 /\ problems' = FALSE
    /\ todo' = <<>> /\ UNCHANGED <<own, given, tunnels>>

\* The uplink goes away for a moment, and the kernel drops the host route: at any
\* time, and nothing in the code looks at the route again once Verifies has.
UplinkFlaps ==
    /\ pin # "none" /\ pin' = "none"
    /\ lost' = (lost \/ pc \in Checked)
    /\ UNCHANGED <<own, iface, through, resolver, settings, todo, pc, fields, tunnels>>

-----------------------------------------------------------------------------

Next ==
    \/ Starts \/ Pins \/ AddsAddress \/ BringsUp
    \/ AddsRoute \/ RouteExists \/ RoutesAdded \/ Verifies \/ SetsServers \/ SetsDomains \/ Fails
    \/ RevertStarts \/ \E ok \in BOOLEAN : Unpins(ok) \/ BringsDown(ok)
    \/ Ends \/ Dies \/ UplinkFlaps

Spec == Init /\ [][Next]_vars

-----------------------------------------------------------------------------
(* What has to hold *)

\* "Now that routes exist, confirm the gateway is still reachable off the tunnel"
\* (linux.go:83-84): Apply gets past its check only while the route to the gateway avoids
\* the tunnel, whatever networks hold the gateway, also when the kernel has dropped the
\* host route since it was pinned (linux.go:58-63); and nothing that it or a connection
\* does afterwards leads the gateway through the tunnel.  A later loss of the host route
\* can, and nobody notices.
NeverThroughItself == pc \in Checked /\ gatewayKnown /\ ~lost => ~GatewayOverTunnel

\* What was asked for is through the tunnel or reported as left alone, and nothing
\* else is through it, however the gateway lists it: a repeat would be "rejected by the
\* kernel as an existing route" and be reported although it goes through the tunnel
\* (forti/session.go:259-279, netcfg/linux.go:98-133).  A --route that is given twice is.
RoutesAccountedFor ==
    pc = "applied" =>
        /\ through \union ToSet(conflicts) = ToSet(Targets)
        /\ IsInjective(routes) \/ routes \notin Flags => ToSet(conflicts) \subseteq own \ through
        /\ routes # <<>> => installedRoutes = Cardinality(through)

\* The machine's own routes, and a host route that somebody else added, are never
\* touched, except that the kernel may drop the latter ("a route that already
\* existed must be left alone", linux.go:33-34).
OthersUntouched ==
    [][/\ own' = own
       /\ pin = "foreign" => pin' = "foreign" \/ (pin' = "none" /\ pc' = pc)]_vars

\* A Revert without problems of an Apply that got as far as the address leaves
\* the host route as it was (linux.go:261-267).  One that failed before that is
\* not reverted at all, and its host route stays.
RevertRestores ==
    [][pc = "down" /\ pc' = "reverted" /\ ~problems' => pin # "ours" /\ through' = {}]_vars
=============================================================================
