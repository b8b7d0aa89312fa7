# svpn in TLA+

svpn is a FortiGate SSL-VPN client in Go. An unprivileged client (`svpn` on the
command line, `svpn-gui` on a desktop) logs in through the browser, and asks a
root daemon (`svpnd`) over a unix socket to bring a VPN up. The daemon dials the
gateway, negotiates PPP, creates a tun interface, installs routes and DNS, and
moves packets until it is told to stop or the link drops.

This directory holds TLA+ modules for the parts of that program that carry its
logic, the TLC configurations that check them, and TLAPS proofs about them.

Sections: 1 the inventory, 2 the plan, 3 the modules against the code, 4 what is
checked and within which bounds, 5 the fairness assumed, 6 what is proved, 7 what
the code does otherwise than it says, 8 what is not modelled.

To run a check: `tlc -config MCDaemon.cfg MCDaemon`; to check the proofs:
`tlapm DaemonProofs.tla`, and so for the other modules whose name ends in Proofs.
PROJECT.json names the lines every definition models,
the hazards with the properties that cover them, and for every property a
mutation of the code that breaks it.

## 1. Inventory

| Component | Source | State it keeps | Operations | What makes it correct |
|---|---|---|---|---|
| Daemon | `internal/service/daemon` | state, lastError, connection, watching, cancelConnect under one mutex | connect, disconnect, status, Shutdown, watch | one VPN at a time; a disconnect always finds what runs; every connection closed exactly once; no state survives its connection |
| Connection | `internal/service/vpn` | link, device, configurator, Done, closeOnce, two pumps | Connect, Close, Done/Err, the pumps | whatever was built is undone once, in reverse; Close ends although both pumps block; a read or write that fails after Close began is not reported |
| PPP session | `internal/ppp` (session, ipcp, options, packet) | LCP and IPCP flags, requested and negotiated addresses | Negotiate, HandleControl, Decode/Encode | both protocols open when Negotiate returns; a dispute ends; no rejected option is offered again |
| Network configuration | `internal/service/netcfg` | applied, gatewayRouteAdded, conflicts and the machine's routes | Apply, Revert | Revert removes what Apply added and nothing else, after a partial Apply too |
| Tun device | `internal/service/tundev` | a batch of packets not handed out yet | Read, Write, Close | every packet of a batch is handed out once, in order, also when the device is closed |
| IPC server and client | `internal/ipc` | listener, one goroutine per client | Serve, serveConn, Authorize, Client.Do | no handler runs after Serve returned; Serve returns |
| svpnd | `internal/service/cli` | process lifetime | serve, update | Shutdown runs before exit and after the last handler |
| GUI controller | `internal/client/state` | phase, working, generation, command queue | Run, connect, disconnect, cancel, refresh | the last command wins; no stale worker overwrites the snapshot |
| Login | `internal/client/auth`, `internal/forti/saml.go` | callback listener, result channel | Login, waitForCallback, exchangeSessionID | the browser is sent out only for a login that listens; the first answer decides; a login leaves neither port nor handler behind |
| Tunnel | `internal/forti` (tunnel, frame, lcp, ppp) | the TLS stream, headerChecked | OpenTunnel, ReadPacket, WritePacket, ReadFrame, WriteFrame | a frame is read whole or not at all; the look for a response head eats no frame |
| forti session | `internal/forti` (session) | none | RequestVPNAllocation, GetConfig | one route per network, however the gateway lists it |
| Control socket | `internal/ipc/listener_unix.go` | the file at the path, shared with other daemons | Listen, removeStaleSocket | who serves is at the path; a stale socket stops nobody |
| Installer | `internal/install` | files of the machine, allowlist, service | Plan, Apply, Uninstall | nobody drops off the allowlist; no unit without its binary; what ends well is in effect |
| Update | `internal/release`, `internal/service/cli/update.go` | the downloaded release | Newer, Download, Extract, handOver | never an older or unverified binary |
| GUI window and tray | `internal/client/gui` | the snapshot on the screen | Render, onAction | the button does what the snapshot allows |
| CLI, log, desktop, probe | rest of `internal/` and `cmd/` | none of their own | printing, diagnosis | not modelled: presentation and I/O |

### How the parts interact

A client sends one JSON line; `ipc.Server` starts a goroutine per client that
calls `Daemon.Handle` for each line. `connect` runs `vpn.Connect` outside the
mutex (allocate, configure, dial, PPP, tun, netcfg) and starts a watcher on the
connection's Done channel. The connection's two pumps run until the connection
is closed or one of them fails; a failure closes Done and wakes the watcher,
which reports the loss and closes the connection. A TERM cancels the server's
context: `Serve` stops accepting, waits for its goroutines, `Shutdown` closes
the VPN and the process exits. The GUI controller polls `status`, runs a
connect or disconnect in a worker goroutine and drops the results of workers it
has abandoned.

### What is hard

Interleavings of callers, watchers and teardown (Daemon, Connection); steps that
fail half way (Connect, Apply); reads that block beyond a cancelled context
(PPP, Serve); message order and disputes (PPP); a process that stops or crashes
with routes in place (netcfg, svpnd); workers that outlive the command that
started them (controller); two programs that want one port or one socket (login,
control socket); batches and frames under a pump that is being stopped (tun
device, tunnel); downloads that break off, and concurrent installs (installer).

## 2. Plan

In the order of what matters most to a machine with this daemon on it. Done:

1. `VpnService`, the abstract service: one VPN that is down, starting, up or
   stopping, and callers that are answered.
2. `Daemon`, which implements it, with `DaemonProofs`.
3. `PppSession`, the negotiation against a conforming gateway.
4. `Connection`, Connect's stages, Close and the two pumps.
5. `Svpnd`, the process: `ipc.Server`, TERM, Shutdown and exit around `Daemon`,
   with `SvpndProofs`.
6. `ClientController`, the GUI's controller over `VpnService`.
7. `NetConfig`, Apply and Revert on a machine with routes of its own.
8. `Installer`: install, update and uninstall against the files, the group,
   systemd and a running daemon.

9. `TunDevice`, the batches of the interface, and `DataPath`, which composes it
   and the tunnel's frames with the pumps of `Connection`.
10. `Codec`, the bytes of frames, packets and options, and `PppWire`, which puts
    every packet of `PppSession` on the wire with it.
11. `Login`: the callback server, its result channel and the port that logins
    compete for.
12. `ControlSocket`: Listen next to another svpnd, around `Svpnd`.
13. `TunnelConfig`: which networks GetConfig makes of the gateway's document, for
    `NetConfig`; the download and its verification, in `Installer`.

14. The proofs about all of these: `PppSessionProofs`, `ConnectionProofs` (with
    `DataPath`), `ClientControllerProofs`, `LoginProofs`, `NetConfigProofs` (with
    `TunnelConfig`), `InstallerProofs`, and `ControlSocket` in `SvpndProofs`.
15. `ConnectionObject`, what the daemon relies on of a connection, which
    `Connection` implements.

## 3. The modules and the code

Every operator carries the name of the function, field or state it stands for
where TLA+ allows it; PROJECT.json has the line numbers. Operators named
`X_Something` are mutations of `X`: a plausible mistake at that place of the
code, there to show that a property would notice.

**Daemon.** A caller is the goroutine of one client, or main in Shutdown. Every
critical section of `Daemon.mu` is one action, so `connect` is `Connect` (up to
`options.Connect`), `ConnectSucceeds`/`ConnectFails` (it returns, the lock is not
held), `Publish`/`Failed`/`Aborted` (the section after it) and, for an attempt
that was cancelled, `CloseReturns` and `Settle`. `disconnect` is
`DisconnectBy` with `CancelAttempt`, `NothingToClose` or `CloseConnection`, then
`CloseReturns`, `Disconnected`. Handle takes the lock again for the snapshot:
`Answer`. `watch` is the four `Watch...` actions. A connection object is up, lost
or ended (Done is closed, with or without an Err), closing or closed; the module
hands one out again only when nothing refers to it.

**VpnService** is what a client can know of that. `ImplementsService` maps the
phase to `connection`/`state`, the attempt to the caller inside connect, busy to
the callers with a request in hand.

**Svpnd** extends Daemon: `ClientAccepted`, `ClientAsks`, `ClientLeaves` are
`Serve` and `serveConn`; `TermArrives`, `ListenerCloses`, `AcceptFails`,
`ServeReturns`, `Exits` are the end of `serve`. When main has exited no action
of any goroutine is possible.

**ControlSocket** is that process together with the path of its socket. `Starts`
to `Serves` are the steps of serve before `Serve` is called: Listen asks whether
anything is at the path (`Inspects`), whether it answers (`Dials`), removes it by
its name (`Removes`), binds (`Binds`) and changes its mode and group
(`SetsModes`); `Lives` is a step of `Svpnd`. `owner` is whose socket the name
leads to: closing a listener unlinks the name, as Go's UnixListener does,
whoever's it is by then; a process that dies leaves it "stale". A rival is
another svpnd, of which only the way to its socket is followed; it is started
again and again and may be killed between any two steps.

**PppSession.** One action per kind of packet the client reads: the handler, and
what Negotiate's loop does before it reads again. The two directions of the TLS
stream are FIFOs. The gateway is external, a peer that follows RFC 1661/1332
with a policy chosen once: which LCP options it asks for, rejects, answers with
another value, and which DNS options it does not support.

**Codec** and **PppWire.** A packet of PppSession is a record. `Bytes` builds what
the handlers send with the operators of Codec, which are ReadFrame, WriteFrame,
Decode, Encode, DecodeOptions, EncodeOptions and the diagnosis' own DecodePacket
and NewLCPConfigureRequest on sequences of numbers below 256, and consumeHTTPResponse on
the same bytes: a line is empty if only carriage returns stand in it, and the status is
looked for in the first line. `Read` is what
Session makes of such bytes, and `ReadPackets` takes a stream apart. A function
that may fail returns a set of at most one result.

**Connection.** `stage` is where Connect is; the deferred teardown is the same
four steps that Close runs (`RevertNet`, `CloseDevice`, `CloseLink`, `TornDown`).
Each pump has a pc and the error in its hand. A blocked read or write ends only
by a packet, a failure, the read deadline, or because its resource was closed
under it; the cancelled context alone releases nothing, as in the code. `wg` is
the WaitGroup, `once` the sync.Once with its waiting callers.

**ConnectionObject** is what the daemon relies on of all that: layers (link, device,
configuration) that are built one on the other and go in reverse order, pumps that
run while all are up, and Done, Err and Close. `ImplementsObject` maps the stage,
closeOnce and Done to its `life`, whose up, lost, closing and closed are `conn` in
Daemon. Daemon allows one thing more: a connection that ends without an Err and
without a Close, the case the else branch of its watcher is for (daemon.go:254-260);
no connection of this code does.

**TunDevice** and **DataPath.** TunDevice is the adapter's Read: the library returns up
to `BatchSize` packets at once, or an overflow, and one call hands out one of them.
DataPath takes the pumps' steps of Connection together with what they carry: `TxTakes`
and `TxSends` for the packets of the interface, `ReadPacket` and `RxDelivers` for the
frames of the gateway. `wire` is what the gateway sends and nobody has read yet, item by
item: the lines of a response head, if it greets with one, and then the frames.
consumeHTTPResponse is `HasResponse` (Peek), `ResponseLines` (the lines up to the first
empty one) and `StatusIsOK`; for the loop that reads lines a frame is an item like any
other, in which an empty line may be found, so that a look for a head that is not there
would eat it. The first call of ReadPacket is Negotiate's: `ResponseFails` and
`NegotiationRefused` are the head that breaks off or refuses the tunnel. Packets are
numbers, so that order can be seen; `packets`, `data`, `handed` and `refused` are
history.

**NetConfig.** One action per command of Apply and Revert. `pin` is the host route to
the gateway and whose it is: of the configurator that runs (ours), of one that is gone
(stale), of somebody else (foreign). The kernel drops the routes and name servers of an
interface with it, and it may drop the host route at any time (`UplinkFlaps`), in Apply
before and after its check, while the connection is up, and during Revert. `lost` is
history: the host route was dropped after the check.

**TunnelConfig.** An entry of the gateway's list is a network and a way of writing
it (host bits that the mask takes away), or one that does not parse. `Collect` is
GetConfig's loop, a function on the list's prefixes that applies `Keep` to each
entry; `RoutesOf` is Connect's choice between the list and --route.

**ClientController.** `loop` is where Run is: in its select, or in one of the
three selects of `emit`. A worker is named by its generation. The closures posted
to `commands` are records; `FromWorker` is the test of postFor at the time a
closure runs. The UI renders what it takes out of `updates` and offers the
buttons window.go shows for it. The daemon is an instance of `VpnService` that
other clients use too and that may stop and start.

**Login.** A login goes from binding the port (`Listens`) to the browser
(`OpensBrowser`), the callback (`Receives`, when the `results` channel has
something), the shutdown of its server (`ShutsDown`, `Drained`) and the exchange
of the id for a cookie. A request of the browser is a goroutine: `Accepts`,
`Serves`; it may come from the tab of another login, or bring nothing usable.
`ExtractSVPNCookie` is a fold over the Set-Cookie headers. In ClientController
the login is only its outcome.

**Installer.** A job is one command line. `Plan` reads and decides in one step;
every command, rename and write of Apply and ApplyUninstall is a step of its own,
and `Stop` ends a job before any of them: a failure and a kill leave the same
behind. An update is `Update` (the comparison of versions), `Fetches` (the
sums, then the archive, which may be cut off or be another than the sums were
made for) and, if it is `Verified` and `Unpacks`, `HandOver` to the install of
the new version. The
environment file is its allowlist and whether the flags added by hand are in it;
writing it empties it first. systemd is external: `Runs` takes the binary and the
allowlist installed at that moment, also when it revives a daemon that crashed.
`kept` is history: what the environment file has to hold.

## 4. What is checked

| Run | Bounds | What it shows |
|---|---|---|
| daemon | 2 callers, 2 connection objects | OneCallerWorks, NothingSlipsThrough, OneOwner, PublishedIsWatched, StatusCoherent, AbortedNeverPublished; ImplementsService; under fairness ServiceIsLive and LostIsTornDown |
| ppp | 23 gateways, identifiers modulo 4, one unasked packet, 3 response heads | NegotiatedIsAgreed, GatewayNeverDiscards, OneRequestOutstanding, WireIsFaithful; NegotiationEnds |
| connection | 2 closers, 3 packets in batches of up to 2, 4 greetings of the gateway, 3 frames | FailedConnectLeavesNothing, CloseMeansStopped, OutboundInOrder, InboundInOrder; ImplementsObject; CloseEnds, BreakageIsNoticed |
| svpnd | 1 client and main, 2 connection objects, 1 other svpnd | HandlersAreOver, ExitOwnsNothing, ServesAtThePath; TermEndsProcess if clients hang up |
| controller | 2 clicks, a channel of 1, 1 outage or request of another client | FailureOfLastAction, NewestIsDelivered, PhaseFollowsWork; WorkEnds, Converges |
| login | 2 logins, 3 requests of the browser, 4 answers of the gateway | BrowserFindsListener, FirstAnswerDecides; LoginLeavesNothing |
| netcfg | 3 networks, lists of 2 and of 1 entries, 5 values of --route, 2 tunnels | NeverThroughItself, RoutesAccountedFor, OthersUntouched, RevertRestores |
| installer | 1 installer, 3 jobs, 1 account and root, 2 releases, 3 kinds of archive | UnitHasItsBinary, AllowlistAccumulates, InstallTakesEffect |
| daemon_teardown_race, svpnd_term, ppp_reject, installer_live_tunnel | as above, or smaller | one statement of the code each that TLC refutes: section 7 |

Why these bounds are enough for the questions asked:

- *Daemon*: two callers are a connect and the disconnect that races it; a caller
  is free again after its answer, so a third request in a row needs no third
  caller. Two connections are a published one and the one an old watcher still
  has. The safety properties are proved for any number of both (section 6).
- *Svpnd*: a client that gets in late, is in a request or idle, and main in
  Shutdown; HandlersAreOver and ExitOwnsNothing are proved for any number of
  clients (section 6), and two clients in the daemon at once are the daemon run's.
- *ControlSocket*: a daemon that is there, was killed, or starts at the same time
  is one rival that is started again and again.
- *PppSession*: identifiers wrap within one negotiation; the client offers two
  LCP options, so a policy per subset is every policy there is. WireIsFaithful
  looks at every packet the two ends have in flight in any of these exchanges, and is
  proved of all others (section 6).
- *Connection*: one Close that does the work and one that waits for it. Three packets
  are a batch of two, of which one is handed out when the device is closed, and the next
  batch; three frames are the negotiation's and two more. The gateway greets with
  nothing, with a response with and without a field, or with a refusal; as bytes, in the
  ppp run, these have lines ending in CRLF or LF, and a refusal with " 200" in a field,
  which must not count as the status.
- *Login*: two logins compete; three requests are the redirect, one that brings
  the other login's, and one for something else.
- *ClientController*: two clicks are an action and the cancel, or the second
  action, that makes its worker stale; a channel of one is full whenever
  anything is in it, so posting blocks more often than with the code's 16.
- *NetConfig*: the two halves of the Internet, one of them with the gateway in
  it, and a network of the company, each written in two ways: one list holds any
  two entries, so repeats occur within it and across the two. A second tunnel
  finds what the first left.
- *Installer*: three jobs are an installation, a second one or an update that
  stops somewhere, and one that meets what that left. One at a time, because
  nothing in the code keeps two apart: see section 7.

Every module has a type invariant, under a name that ends in TypeOK. TLC finds
all of them to hold within these bounds; none is among the runs' properties,
which are kept for what could be wrong about the code. Section 6 says which are
proved.

Deadlock is checked for `Daemon`, where a caller can always ask again. The other
systems may stop: a failed negotiation, a closed connection, an exited process,
an ended Run, the last tunnel or job allowed.

## 5. Fairness

- *Goroutines run*: weak fairness of every step a goroutine takes by itself,
  per goroutine, in all modules.
- *Calls return*: `options.Connect` returns (its requests, reads and commands
  have timeouts), `Connection.Close` returns (which `CloseEnds` shows), a login
  and a request to the daemon end (LoginTimeout, CommandTimeout).
- *Nothing from outside is assumed*: no client has to ask, no link has to drop,
  no packet has to arrive, nobody has to close or click.
  `NegotiationEnds` assumes a gateway that reads and answers what it must.
- *A login ends*: its goroutines run, and its context is done at some time
  (LoginTimeout, or the user), with a browser that never comes back too.
- *select*: a Go select that finds several channels ready picks one at random,
  so no ready channel is left out for ever: strong fairness of `RunCommand`,
  `RunTick` and `Render` in `ClientController`.
- *Clients hang up* (`ClientsHangUp`, strong fairness, in the svpnd run): the
  clients of this repository close their connection after each answer
  (`internal/client/client.go:45-48`). `TermEndsProcess` needs it, and
  `TermReachesTeardown` fails without it.

## 6. What is proved

Every safety property that a passing run checks is proved for all values of the
constants. None of them is inductive alone; each module
states an inductive invariant, which TLC found to hold within the bounds of
section 4 before it was proved, shows it step by step, one step per action, and
derives the properties from it. What follows names the parts of each invariant and
what they are there for.

The assumptions on constants, checked by TLC in every run, say that bounds are numbers
(of batches, frames, packets, clicks, jobs, tunnels: naturals, the size of a batch and
of a channel positive), that identifiers are at most as many as a byte has values
(`PppBounds`), that flags are Booleans, and that the names for nothing are no things
(`NoneIsNothing`, `NoneIsNobody`, `NoneIsNoLogin`, `StaleIsNobody`,
`MarksAreNoVersions`); main is a caller and no other svpnd (`MainIsACaller`,
`RivalsAreOthers`); the data have the shapes their readers expect (`GreetingsAreHeads`,
`ResponsesAreHeads`, `RepliesAreHeaders`, `DocumentsListNets`, `FlagsListNets`,
`NetsAreSplit`, `PoliciesAreTyped`, `ReleasesAreNumbered`). No number of goroutines,
clients, connections, logins, networks or rivals is assumed.

**DaemonProofs** (any callers and connections): TypeCorrect, OneCallerAtATime,
DisconnectFindsWhatRuns, EveryConnectionOwned, PublishedConnectionWatched,
CoherentSnapshots, CancelledStaysDown, DaemonImplementsService and
UsesConnectionsAsPromised. The invariant adds

- `StateOfWork`: what `state` is for each place a caller can be in. Without it
  nothing says that a connect finds the lock free of other attempts.
- `InHand`: who holds a connection and in which condition, so that what a caller
  publishes or closes is nobody else's.
- `WatcherCloses`: what a watcher tears down is in no caller's hands.
- `Owned`: every connection that is not closed is published, held, or being
  closed by its watcher; together with the three above this is `OneOwner`.

The refinement then shows that each action is a step of `VpnService` under the
mapping, or a stutter, with `PhaseIsState` to compute the mapped phase.
UsesConnectionsAsPromised is the daemon's side of `ConnectionObject`: each step of a
connection is one that the abstract connection makes, and of the goroutines of the
daemon one enters its Close, once, and the same one leaves it (`ClosedByOne`).
Connection implements that object (ConnectionImplementsObject), so the two modules
fit each other for any number of callers, except for the case named in section 3.

**SvpndProofs** (any clients and rivals): ProcessRunsDaemon (every step of the
process is one of the daemon or leaves it alone, so everything above holds in the
process), ProcessImplementsService, NoHandlerDuringShutdown, ExitClosesWhatItOwns. The
strengthening is `Served`: only a served client has a request in hand, main is in
the daemon only to shut it down, and from `stopping` on nobody is served and
nothing is published. HostRunsProcess and HostExitsLikeTheProcess carry that over to
`ControlSocket`. ServesWhereItIsAsked needs that two daemons that are up at once have
met (`TheyMeet`), that what a start found at the path is so or was changed by one it
met (`PathAsFound`), and from these that without an overlap one process at most is
between finding and binding (`OneStarts`).

**PppSessionProofs** (any set of gateways, any identifier space, any number of
unasked packets): SessionTyped, AnswersAreUnambiguous (OneRequestOutstanding),
IpcpIsHeard (GatewayNeverDiscards), OpenMeansAgreed (NegotiatedIsAgreed). The facts
are about packets anywhere in the two FIFOs, so each part of the invariant
speaks about all positions of both: `Opened` (IPCP starts after LCP, both ways), `Granted`
(the gateway has granted our LCP request from the moment its acknowledgement is on
the wire), `AckAhead` (our acknowledgement of its request is ahead of every IPCP
request, which is why the gateway does not discard that), `Numbered` (the
identifier and the options of the gateway's request until it is acknowledged: a
rejection changes them once), `Addressed` (what the addresses in each kind of
packet can be) and `Settled` (what each side knows when its half is done). So that
not every action is taken up for every conjunct, `ClientSteps` and
`GatewaySteps(h)` summarise what any action takes, learns and sends; each action
is shown to be such a step, and such a step to preserve the invariant.

Its second part is about Codec, for bytes of any length and content: FrameReadsBack and
TornFrameIsAnError (whatever follows a frame on the stream, its payload and the rest
come off it; a frame that breaks off anywhere is an error), PacketReadsBack and
TornPacketIsAnError (the same of a control packet with any padding, with or without
the address and control bytes), OptionsReadBack, and OptionsEchoed: what
DecodeOptions read, EncodeOptions writes back byte for byte, which is what the
comment in EncodeOptions relies on. The hypotheses are the code's own bounds: a payload
of at most maxFrameLen bytes, and lengths that fit their field (`Fits`, `Options`).
PacketReadsBack excludes one case of the form without address and control bytes, that
of a protocol whose number spells them. OptionsReadBack and OptionsEchoed go from the
last byte to the first (`FromBehind`), and both need that DecodeOptions' and
FlattenSeq's recursions define a function at all (`ParsesExist`, `JoinsExist`).

Its third part joins the two: WireFaithful (WireIsFaithful), that both ends read what the
other one sent, in every exchange with any set of gateways. That needs an invariant of
PppSession first, InFlightInvariant: the packets under way are `Spoken` (a configure
packet of LCP has names for options, one of IPCP addresses, every other packet none) or,
towards the client, requests that the gateway has spoilt. It is inductive only with the
invariant of the first part, because the client's answers echo what it received and its
requests say what the session knows. Then, for each such packet: its names have
different numbers (`TypesAre`, `CodesAre`, `ProtocolsAre`), `OptionList` writes each
option once and none besides (`OptionListIs`), so that `ReadOptions` finds them again
(`NamesAndValues`, from OptionsReadBack); its data are 24 bytes at most, and the packet
fits its fields and its frame (`BodyOfBytes`, which is where a byte has to hold the
identifier); and PacketReadsBack gives the packet back. StreamReadsBack does so for a
stream of any payloads that fit into frames, frame by frame, from FrameReadsBack, and the
torn cases are TornFrameIsAnError and TornPacketIsAnError. ResponseTakenOff is about the
head, for bytes of any length: consumeHTTPResponse takes a head off and nothing of what
follows it, refuses what has no " 200" in the first line of that head, and takes nothing
off a stream that starts with a frame, because the third byte of a frame is not that of
"HTTP/" (`NoResponse`).

**ConnectionProofs** (any closers, batches and traffic): ConnectionTyped,
ConnectUndoesItself, CloseWaitsForEverything, CloseIsNotAFailure (an error that Close
brings about in a read or a write of a pump is never what Err reports; a SetReadDeadline
that fails because of it is, section 7), ConnectionImplementsObject; PathRunsConnection,
OutboundIsFaithful, InboundIsFaithful. `PumpsCounted` ties wg to the pumps, `Built` and
`UndoneSoFar` the resources to the stage and to teardown's step, `OneCloser` says how
far the one closer is that closeOnce let through, `CausesOfClose` that an error of the
shutdown is only in the hand of a pump that will look at the context. The refinement
needs two facts more: no layer is up without those below it (`Stacked`), and a pump that
is about to close Done has something to report (`Reported`). For the packets, what was
handed out and what is left of the batch are one ascending sequence of all that the
interface emitted but for what an overflow lost (`TunInv`), and what each pump has
passed on is a prefix of what it took, but for the packet in its hand (`OutInv`,
`InInv`). `StreamInv` says how much of the gateway's stream has been read: nothing but
perhaps the head, or part of it, before the negotiation is over, and from then on the
head and the first frames, which are the ones that ReadPacket returned.
InboundIsFaithful, that all frames are returned once and in order behind any greeting,
follows from it, because the first empty line of a head is its last (`HeadEnds`) and
what begins with a frame has no status line in front.

**ClientControllerProofs** (any clicks, channel capacity and other clients):
PhaseIsOfTheAction, FailureIsOfTheLast, LastSnapshotArrives. `CancelsTheLast`: only the
action in flight can be cancelled, it is the last, and what was abandoned came before
it; so a closure of an abandoned worker never passes the test of postFor.
`ReplacesNothing`: emit finds the channel empty after it has emptied it, because only
Run puts anything into it.

**LoginProofs** (any logins, requests and answers): LoginTyped, BrowserComesBack,
FirstServedDecides, and CookieIsTheLastIssued, what ExtractSVPNCookie takes of a list
of headers of any length. `PortHeld` and `TabsOpened` relate the port and the tabs to
where a login is, `FirstIsOffered` and `FirstIsTaken` the result channel to the
request that was served first.

**NetConfigProofs** (any networks, documents, flags and tunnels): NetConfigTyped,
TunnelAvoidsItself, EveryRouteIsAccountedFor, OthersAreLeftAlone, RevertUndoesApply, and
CollectsEachOnce, what GetConfig's loop makes of a list of any length. `PinKnown` says
whose the host route is, `StaysVerified` that nothing but a later loss of the host route
leads the gateway into the tunnel after Apply has looked, `EachSomewhere` and
`NoneTwice` that each target is through the tunnel, reported, or still to be added, and
counted once. CollectsEachOnce and CookieIsTheLastIssued, like the theorems about
options, would be inductions on the length; they are proved by the least prefix for
which the claim fails, which exists because `<` is well-founded on the naturals.

**InstallerProofs** (any accounts, releases and jobs): InstallerTyped, for any installers;
and with the hypothesis that there is one installer, UnitNeverDangles,
NobodyIsLockedOut, InstallationIsInEffect. The hypothesis is not for the proof's sake:
nothing in the code keeps two installers apart, and with two the first two properties
fail (section 7). `BinaryFirst` follows the list of files still to be copied up to
the unit, `UnitFirst` that of a removal, `MergedInTime` says that what Plan merged
holds all that has to be kept when it is written, and `InEffect` what runs between
enabling the unit and the end.

Only model-checked:

- the liveness properties (ServiceIsLive, LostIsTornDown, NegotiationEnds, CloseEnds,
  BreakageIsNoticed, TermEndsProcess, WorkEnds, Converges, LoginLeavesNothing),
  because TLAPS does not reason about fairness and ENABLED;
- the four statements that TLC refutes.

## 7. Where the code and what it says differ

Refuted by a run:

- **A connect can race the teardown of a dropped link** (`daemon_teardown_race`).
  `watch` sets the state to error and releases the lock before it calls Close
  (daemon.go:254-269). The guard of connect refuses only `StateDisconnecting`, to
  not "race the teardown for the same interface and routes" (131-132).
- **A TERM may never reach the teardown** (`svpnd_term`). A client that keeps its
  connection open keeps serveConn in a read without a deadline (server.go:120)
  and Serve in wg.Wait; svpnd.go:94-95 says that a TERM "has to reach the
  teardown".
- **A rejected DNS option is offered again** (`ppp_reject`). The client forgets the
  address and then always encodes all three options (ipcp.go:16-34, 81-96), and
  the exchange does not end before the gateway or a timeout ends it.
- **An install or update drops a live tunnel** (`installer_live_tunnel`). tunnelIsUp
  asks the daemon as root (linux.go:349-362), whom the allowlist does not hold
  (serve.go:128-130) once any account was installed; the refusal has no status,
  counts as no, and the daemon is restarted. The README of the repository says at
  140 that it "is left alone", and at 161 that root is refused. An answer later than
  statusTimeout has the same effect, although its comment says that a busy daemon
  "is not one to interrupt".

The modules have these behaviours too, found while writing them; no run is
about them alone:

- cancelConnect is "set for exactly as long as the state is StateConnecting"
  (daemon.go:74); after a disconnect has cancelled an attempt it stays set
  while the state is disconnecting. `NothingSlipsThrough` states what is true.
- Negotiation with a gateway that rejects one LCP option and suggests a value for
  another alternates for ever: resendLCPWithout leaves out what the last packet
  disputed and brings the other back (session.go:250-280), although it means to
  retry "rather than insisting" (175-177). Hence `Agreeable` in NegotiationEnds.
- Err may be set after a normal Close: the pump reports a failed SetReadDeadline
  without looking at its context (connection.go:355-358), `RxArms`.
- Cancel does not stop an action whose login has ended and whose request has not
  been sent (controller.go:202-217): the VPN comes up although the action was
  abandoned. `HandsOver` does not ask whether the worker is abandoned.
- The process can exit while a watcher reverts a dropped connection, which
  Shutdown does not know of any more: the exception in `ExitOwnsNothing`.
- Two daemons that start at the same time both find a stale socket; the first
  binds, and the second removes what the first has just bound, by its name
  (listener_unix.go:134-143), so that a daemon serves where nobody finds it. The
  comment calls removing safe "because a live daemon holds a lock on the path"
  (53-55). Without `overlapped` ServesAtThePath fails in this way.
- A --route given twice is not collapsed as the gateway's list is
  (session.go:259-261): its second copy is reported as a conflict although the
  network goes through the tunnel. Hence the exception in RoutesAccountedFor.
- A browser that does not open is "Not fatal: the URL has already been reported, so
  the user can still open it by hand" (saml.go:60-61), but SAMLLogin returns the
  error and closes its listener: `CannotOpen`.
- Downloading "gets its own, longer, budget from the caller's context"
  (release.go:43-45), but the HTTP client's own Timeout is requestTimeout, 30
  seconds for a whole archive (72-78). And when the caller's budget ends during
  handOver, CommandContext kills the installer (update.go:170): `Stop`.
- The window is sized "to exactly what it holds" (window.go:323), but only when the
  login, the failure or the activity bar comes or goes: the gateway line and the
  hint, which come and go too, are not part of `shape` (389-400).
- Revert does not undo an Apply that stopped early: `applied` is set after the
  address was added, and a failure there leaves the host route (netcfg/linux.go:61-72,
  257), although Revert "must tolerate being called after a partial Apply"
  (netcfg.go:49-50). Hence "as far as the address" in RevertRestores.
- Two installs at once: each writes the environment file that its own Plan merged,
  so the account of the first drops off the allowlist, although the second is to be
  "added to the allowlist, not substituted for the first" (install.go:244-245).
  An install and an uninstall at once leave a unit without a binary. With
  Installers = {i1, i2}, AllowlistAccumulates and UnitHasItsBinary fail.
- An installer that stops between emptying and writing the environment file leaves
  it empty: the allowlist and the flags are lost, and the daemon then takes
  commands from every member of the group. `Stop` gives up `kept` there.
- An update that stops after svpnd was replaced is not repaired by another one,
  which compares with the version of the new svpnd: "already up to date"
  (update.go:80-98), while the desktop client and the unit are the old ones.
- A host route that is lost after the check (netcfg/linux.go:86), while Apply still sets
  the name servers (203-254) or later, is noticed by nobody: where a network of the
  tunnel holds the gateway, the tunnel then carries itself, although the check is to
  "confirm the gateway is still reachable off the tunnel" (83-84). NeverThroughItself
  says what the check achieves: without `lost` it fails.
- A killed svpnd leaves its host route, and the next one takes it for somebody
  else's: `Dies` and pin = "stale" in `NetConfig`.

## 8. What is not modelled

The command line, logging, desktop entries and the diagnosis commands print; the
command line's callers are those of `Daemon`. The window and the tray draw what
the snapshot on the screen says, without state of their own beyond caches of what
was drawn last; which snapshot that is and what the button then does is in
`ClientController`. Of the gateway's document only the list of networks is
modelled, not the name servers and the domain. Left out everywhere: times other
than as "may happen at any moment", byte counters, addresses, the text of
requests, TLS, and the wording of errors; whom authorizeUIDs lets through, except
root in `Installer`; installations with other paths or another group than the
default ones; paths inside an archive.
Of a gateway that answers with a response it is assumed that an empty line ends it
(`IsHead`, `ResponsesAreHeads`): without one consumeHTTPResponse would read on into the
frames. A route to the gateway that somebody adds after ours was lost is not modelled;
Revert would delete it.
Nor are Windows and macOS, for which the repository has stubs only.
