------------------------------ MODULE DataPath ------------------------------
(***************************************************************************)
(* What a connection is for: the packets that its two pumps move between   *)
(* the interface (TunDevice) and the tunnel (internal/forti/tunnel.go).    *)
(*                                                                         *)
(* The tunnel is one TLS stream in each direction, so nothing is lost or   *)
(* reordered on it.  Some gateways answer the request for the tunnel with  *)
(* an HTTP response before the first frame, some refuse the tunnel with    *)
(* it, and some start with the frames.  The lines of a response and the    *)
(* frames are items here; Codec has the bytes of both.  A frame is read    *)
(* whole or not at all: a read that fails in the middle of one ends its    *)
(* pump.  Frames are numbered as the gateway sends them.                   *)
(***************************************************************************)
EXTENDS Connection, TunDevice, FiniteSetsExt

CONSTANTS MaxFrames,  \* bound on the frames that the gateway sends
          Greetings   \* what a gateway may send in front of them, line by line

StatusLines == {"200", "refusal"}
Lines       == StatusLines \union {"field", "blank"}

IsHead(g) == /\ g \in Seq(Lines) /\ Len(g) >= 2
             /\ g[1] \in StatusLines /\ g[Len(g)] = "blank"
             /\ \A i \in 2 .. Len(g) - 1 : g[i] = "field"

ASSUME MaxFramesIsNat == MaxFrames \in Nat
ASSUME GreetingsAreHeads == \A g \in Greetings : g = <<>> \/ IsHead(g)

VARIABLES
    wire,            \* what the gateway sends and nobody has read yet
    headerChecked,   \* ReadPacket has looked for the response
    refused,         \* history: the response that was read refuses the tunnel
    packets,         \* history: the frames that ReadPacket returned
    data,            \* history: those of them that hold a datagram
    inHand,          \* the frame whose datagram rx is writing
    delivered,       \* the datagrams written to the interface, in order
    sent             \* the packets written to the tunnel, in order

stream   == <<wire, headerChecked, refused, packets>>
inbound  == <<stream, data, inHand, delivered>>
dataVars == <<inbound, tunVars, sent>>
pathVars == <<vars, dataVars>>

Frames(n) == [i \in 1..n |-> "frame"]

PathTypeOK ==
    /\ TypeOK /\ TunTypeOK
    /\ wire \in Seq(Lines \union {"frame"})
    /\ headerChecked \in BOOLEAN /\ refused \in BOOLEAN
    /\ packets \in Seq(1..MaxFrames)
    /\ data \in Seq(1..MaxFrames) /\ delivered \in Seq(1..MaxFrames)
    /\ inHand \in 0..MaxFrames
    /\ sent \in Seq(1..MaxPackets)

PathInit ==
    /\ Init /\ TunInit
    /\ \E g \in Greetings : wire = g \o Frames(MaxFrames)
    /\ headerChecked = FALSE /\ refused = FALSE
    /\ packets = <<>> /\ data = <<>> /\ inHand = 0 /\ delivered = <<>>
    /\ sent = <<>>

-----------------------------------------------------------------------------
(* Tunnel.ReadPacket *)

HasResponse == wire # <<>> /\ wire[1] \in StatusLines

\* Where ReadString may find an empty line: at the end of a head, or among the
\* bytes of a frame.
EmptyLines == {i \in DOMAIN wire : wire[i] \in {"blank", "frame"}}

\* What is left on the stream after its first n items.
After(n) == SubSeq(wire, n + 1, Len(wire))

\* Mutant of ResponseLines: reads a head without a look whether there is one.
ResponseLines_Assumed == IF headerChecked THEN 0 ELSE Min(EmptyLines)

\* consumeHTTPResponse peeks, and reads up to the first empty line if what it sees is
\* the start of a response.
ResponseLines == IF headerChecked \/ ~HasResponse THEN 0 ELSE Min(EmptyLines)

StatusIsOK == ~headerChecked /\ HasResponse => wire[1] = "200"

\* The response is looked for once, and what follows it has to be a frame.
ReadPacket ==
    /\ wire # <<>> /\ StatusIsOK
    /\ ResponseLines + 1 \in DOMAIN wire /\ wire[ResponseLines + 1] = "frame"
    /\ wire' = After(ResponseLines + 1)
    /\ headerChecked' = TRUE
    /\ packets' = Append(packets, MaxFrames - Len(wire'))
    /\ refused' = (~headerChecked /\ wire[1] = "refusal")

\* The response breaks off, or it is read to its end and refuses the tunnel.
ResponseFails ==
    /\ ~headerChecked /\ HasResponse
    /\ \E n \in 1..ResponseLines : /\ n = ResponseLines => ~StatusIsOK
                                   /\ wire' = After(n)
    /\ refused' = ~StatusIsOK
    /\ UNCHANGED <<headerChecked, packets>>

-----------------------------------------------------------------------------
(* Negotiate, and the pumps with the packets they carry *)

\* Negotiate has read what it needed: one packet here, for all of them.
NegotiatedOver ==
    /\ Negotiated
    /\ ReadPacket
    /\ UNCHANGED <<data, inHand, delivered, tunVars, sent>>

\* The tunnel is refused: Negotiate's first read fails, and so does Connect.
NegotiationRefused ==
    /\ stage = "negotiating" /\ StageFails
    /\ ResponseFails
    /\ UNCHANGED <<data, inHand, delivered, tunVars, sent>>

\* A datagram for the interface ...
RxTakesData ==
    /\ RxReceives("write")
    /\ ReadPacket
    /\ inHand' = packets'[Len(packets')]
    /\ data' = Append(data, inHand')
    /\ UNCHANGED <<delivered, tunVars, sent>>

\* ... or a control packet, or a frame that does not decode.
RxTakesOther(pc) ==
    /\ RxReceives(pc)
    /\ ReadPacket
    /\ UNCHANGED <<data, inHand, delivered, tunVars, sent>>

\* Device.Write
RxDelivers ==
    /\ RxWrites
    /\ IF rx' = "check" THEN delivered' = Append(delivered, inHand) ELSE UNCHANGED delivered
    /\ UNCHANGED <<stream, data, inHand, tunVars, sent>>

\* Device.Read returns a packet.
TxTakes ==
    /\ TxReads("write")
    /\ \/ device = "open" /\ \E n \in 1..BatchSize : ReadBatch(n)
       \/ ReadNext
    /\ UNCHANGED <<inbound, sent>>

\* Device.Read returns none.
TxFindsNothing ==
    /\ TxReads("check")
    /\ \/ ReadNothing
       \/ ReadOverflows(BatchSize + 1)
    /\ UNCHANGED <<inbound, sent>>

\* Mutant of TxSends: sends the front of the batch.
TxSends_First ==
    /\ TxWrites
    /\ sent' = Append(sent, readBufs[1])
    /\ UNCHANGED <<inbound, tunVars>>

\* Tunnel.WritePacket, of the packet that was handed out last.
TxSends ==
    /\ TxWrites
    /\ sent' = Append(sent, handed[Len(handed)])
    /\ UNCHANGED <<inbound, tunVars>>

\* A closed device fails a read only when nothing of a batch is left.
TxReleasedEmpty ==
    /\ TxReleased
    /\ tx = "read" => Drained
    /\ UNCHANGED dataVars

-----------------------------------------------------------------------------

Undisturbed(A) == A /\ UNCHANGED dataVars

ConnectingD == \/ NegotiatedOver \/ NegotiationRefused
               \/ Undisturbed(Allocated \/ Dialed \/ DeviceCreated \/ Named \/ Applied
                              \/ AllocationFails \/ StageFails \/ Undone)
TeardownD   == Undisturbed(Teardown)
ClosingD(k) == Undisturbed(Closing(k))
RxRunsD     == \/ RxDelivers
               \/ Undisturbed(RxChecks \/ RxArms \/ RxReadReleased \/ RxControlReleased
                              \/ RxFailed \/ RxStops)
TxRunsD     == \/ TxReleasedEmpty
               \/ tx = "read" /\ device = "closed" /\ TxTakes
               \/ Undisturbed(TxChecks \/ TxFailed \/ TxStops)
EnvironmentD == \/ RxTakesData \/ \E pc \in {"control", "check"} : RxTakesOther(pc)
                \/ TxTakes \/ TxFindsNothing \/ TxSends
                \/ Undisturbed(RxBreaks \/ RxControlled \/ TxBreaks)

PathNext == \/ ConnectingD \/ TeardownD \/ RxRunsD \/ TxRunsD \/ EnvironmentD
            \/ \E k \in Closers : Undisturbed(CloseCalled(k) \/ CloseAgain(k)) \/ ClosingD(k)

\* As for Connection; a read of what is left of a batch does not wait for anything.
PathFairness ==
    /\ WF_pathVars(ConnectingD) /\ WF_pathVars(TeardownD)
    /\ WF_pathVars(RxRunsD) /\ WF_pathVars(TxRunsD)
    /\ \A k \in Closers : WF_pathVars(ClosingD(k)) /\ WF_pathVars(Undisturbed(CloseAgain(k)))

PathSpec     == PathInit /\ [][PathNext]_pathVars
PathFairSpec == PathSpec /\ PathFairness

-----------------------------------------------------------------------------
(* What has to hold *)

\* Connect has negotiated, and nothing has failed since.
Tunnelled == {"creating", "naming", "applying", "connected"}

\* Everything that comes out of the interface is read once and in order, and goes out
\* once and in order, a packet at most behind, whatever batches it came in and whenever
\* the device is closed under the pump (device.go:112-155, connection.go:405-441).
OutboundInOrder ==
    /\ DrainedInOrder
    /\ sent = SubSeq(handed, 1, Len(sent))
    /\ Len(handed) - Len(sent) <= (IF tx \in {"off", "check", "read"} THEN 0 ELSE 1)

\* "Some gateways answer with an HTTP status line before switching to the packet stream
\* and some start framing straight away, [...] consuming a head that is not there would
\* eat the first frame" (tunnel.go:142-145): whatever the gateway begins with, ReadPacket
\* returns every frame once and in order, the first one too, and takes no line of a
\* response for one.  A tunnel that was refused never gets as far as an interface
\* (tunnel.go:132-134).  Every datagram then reaches the interface once and in order; the
\* last may be lost with the pump that has it in hand.
InboundInOrder ==
    /\ packets = [i \in 1..Len(packets) |-> i]
    /\ stage \in Tunnelled => /\ ~refused /\ packets # <<>>
                             /\ wire = Frames(MaxFrames - Len(packets))
    /\ \A i, j \in DOMAIN data : i < j => data[i] < data[j]
    /\ delivered = SubSeq(data, 1, Len(delivered))
    /\ Len(data) - Len(delivered) <= (IF rx \in {"off", "check", "arm", "read"} THEN 0 ELSE 1)
=============================================================================
