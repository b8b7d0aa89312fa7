------------------------------ MODULE PppWire -------------------------------
(***************************************************************************)
(* The packets of PppSession as they are on the tunnel: the bytes that     *)
(* Session's handlers build with Codec, and what the other end makes of    *)
(* them.  A stream is the frames of all packets in flight, one after the   *)
(* other; a gateway may leave out the address and control bytes, and pad.  *)
(***************************************************************************)
EXTENDS PppSession, Codec

CONSTANT Responses   \* the heads that a gateway may send in front of its frames

ASSUME ResponsesAreHeads ==
    \A h \in Responses : h \in Seq(0..255) /\ HasResponse(h) /\ EmptyLines(h) = {Len(h)}

ProtocolOf == [LCP |-> 49185, IPCP |-> 32801, IPv6CP |-> 32855]

\* "Other" is Discard-Request, one of the codes that Session skips.
Codes == {"Request", "Ack", "Nak", "Reject", "Terminate-Request", "Terminate-Ack",
          "Echo-Request", "Echo-Reply", "Other"}

CodeOf == [code \in Codes |->
    CASE code = "Request"           -> 1   [] code = "Ack"           -> 2
      [] code = "Nak"               -> 3   [] code = "Reject"        -> 4
      [] code = "Terminate-Request" -> 5   [] code = "Terminate-Ack" -> 6
      [] code = "Echo-Request"      -> 9   [] code = "Echo-Reply"    -> 10
      [] code = "Other"             -> 11]

TypeOf == [LCP  |-> [MRU |-> 1, ACCM |-> 2, Auth |-> 3, Magic |-> 5],
           IPCP |-> [IP |-> 3, DNS1 |-> 129, DNS2 |-> 131]]

Configures == {"Request", "Ack", "Nak", "Reject"}

Magic   == <<222, 173, 190, 239>>
Address == <<10, 0, 0, 1>>

NameOf(numbers, n) == CHOOSE name \in DOMAIN numbers : numbers[name] = n

\* mruOption, magicNumberOption and ipOption; the values of the gateway's own.
ValueOf(name, value) ==
    CASE name = "MRU"   -> U16(defaultMRU)
      [] name = "Magic" -> Magic
      [] name = "ACCM"  -> <<0, 0, 0, 0>>
      [] name = "Auth"  -> <<192, 35>>
      [] OTHER -> IF value = "unset" THEN <<0, 0, 0, 0>> ELSE Address

\* optionIP and isUnspecified
ReadValue(proto, value) ==
    IF proto = "LCP" THEN "-" ELSE IF value = <<0, 0, 0, 0>> THEN "unset" ELSE "assigned"

\* An option that a packet has.
OptionOf(p, name) ==
    IF name \in DOMAIN p.opts
    THEN <<[type |-> TypeOf[p.proto][name], value |-> ValueOf(name, p.opts[name])]>>
    ELSE <<>>

\* The options in the order of their types, which is the one Session writes them in.
OptionList(p) ==
    IF p.proto = "LCP"
    THEN OptionOf(p, "MRU") \o OptionOf(p, "ACCM") \o OptionOf(p, "Auth") \o OptionOf(p, "Magic")
    ELSE OptionOf(p, "IP") \o OptionOf(p, "DNS1") \o OptionOf(p, "DNS2")

\* An Echo-Reply carries the magic number.
Data(p) ==
    CASE ~Readable(p) -> <<3, 0>>
      [] Readable(p) /\ p.code \in Configures /\ p.proto \in DOMAIN TypeOf ->
             EncodeOptions(OptionList(p))
      [] p.code = "Echo-Reply" -> Magic
      [] OTHER -> <<>>

Bytes(p) == Encode([protocol |-> ProtocolOf[p.proto], code |-> CodeOf[p.code],
                    identifier |-> p.id, data |-> Data(p)])

\* What the handlers read out of a packet's options: of each the last one.
LastOf(type, list) ==
    CHOOSE i \in DOMAIN list :
        list[i].type = type /\ \A j \in DOMAIN list : list[j].type = type => j <= i

ReadList(proto, list) ==
    LET types == TypeOf[proto]
    IN  [name \in {NameOf(types, list[i].type) : i \in DOMAIN list} |->
            ReadValue(proto, list[LastOf(types[name], list)].value)]

ReadOptions(proto, data) ==
    LET read == DecodeOptions(data)
    IN  IF read = {} THEN Named({"Broken"}) ELSE ReadList(proto, CHOOSE l \in read : TRUE)

Read(bytes) ==
    {LET proto == NameOf(ProtocolOf, q.protocol)
         code  == NameOf(CodeOf, q.code)
     IN  Packet(proto, code, q.identifier,
                IF code \in Configures /\ proto \in DOMAIN TypeOf
                THEN ReadOptions(proto, q.data) ELSE NoOptions) : q \in Decode(bytes)}

\* A stream with the given packets, and one by one what ReadPacket returns of it.
Stream(packets) == FlattenSeq([i \in DOMAIN packets |-> CHOOSE b \in WriteFrame(packets[i]) : TRUE])

ReadPackets(stream) ==
    LET after[n \in 0..Len(stream)] ==    \* of the last n bytes
            LET frames == ReadFrame(From(stream, Len(stream) - n + 1))
            IN  IF frames = {} THEN <<>>
                ELSE LET f == CHOOSE f \in frames : TRUE
                     IN  <<f.payload>> \o after[Len(f.rest)]
    IN  after[Len(stream)]

-----------------------------------------------------------------------------
(* What has to hold *)

\* However the peer frames its packets (frame.go:33-64, packet.go:50-92): what is in
\* flight comes off the stream packet by packet as it was sent, with the address
\* bytes or without them and whatever padding follows, and the diagnosis names it alike,
\* and opens a session with the same request (lcp.go:37-66).
ReadsWhatWasSent(packets) ==
    LET sent    == [i \in DOMAIN packets |-> Bytes(packets[i])]
        short   == [i \in DOMAIN sent |-> From(sent[i], 3) \o <<0, 255>>]
    IN  /\ ReadPackets(Stream(sent)) = sent
        /\ ReadPackets(Stream(short)) = short
        /\ \A i \in DOMAIN packets :
              /\ Read(sent[i]) = {packets[i]} /\ Read(short[i]) = {packets[i]}
              /\ \A q \in Decode(sent[i]), d \in DecodePacket(short[i]) :
                    /\ d.hasCode /\ d.protocol = q.protocol
                    /\ d.code = q.code /\ d.identifier = q.identifier
              /\ packets[i] = LcpRequest(packets[i].id, LcpOffer)
                    => NewLCPConfigureRequest(packets[i].id, Magic) = sent[i]

\* A stream that breaks off inside a frame yields an error for that frame, and so
\* does a packet that is shorter than it says: a torn request is never taken for
\* another one ("a desynchronised stream is not recoverable", frame.go:46).
TornIsAnError(packets) ==
    packets # <<>> =>
        LET p     == Bytes(Head(packets))
            frame == CHOOSE b \in WriteFrame(p) : TRUE
        IN  /\ \A n \in 0 .. Len(frame) - 1 : ReadFrame(SubSeq(frame, 1, n)) = {}
            /\ \A n \in 0 .. Len(p) - 1 : Decode(SubSeq(p, 1, n)) = {}

\* Whether a gateway answers with an HTTP response or starts framing straight away, the
\* first frame comes next: "consuming a head that is not there would eat the first frame"
\* (tunnel.go:142-145).  No frame is ever taken for a response, a response goes with
\* every line of it, and only a status of 200 opens the tunnel (tunnel.go:107-136).
ResponseComesOff(packets) ==
    LET sent == Stream([i \in DOMAIN packets |-> Bytes(packets[i])])
    IN  /\ packets # <<>> => consumeHTTPResponse(sent) = {sent}
        /\ \A h \in Responses :
              consumeHTTPResponse(h \o sent) = IF StatusIsOK(h) THEN {sent} ELSE {}

\* All three, of every packet that is ever under way: the peer reads what was sent, or
\* an error, and the client finds the first frame wherever it starts.
WireIsFaithful ==
    /\ \A packets \in {toGateway, toClient} : ReadsWhatWasSent(packets) /\ TornIsAnError(packets)
    /\ ResponseComesOff(toClient)
=============================================================================
