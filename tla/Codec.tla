------------------------------- MODULE Codec --------------------------------
(***************************************************************************)
(* The bytes on the tunnel: frames (internal/forti/frame.go), the HTTP     *)
(* response that may come before them (forti/tunnel.go), PPP packets and   *)
(* their options (internal/ppp/packet.go), and the two helpers of the      *)
(* diagnosis that read and write them on their own (forti/ppp.go, lcp.go). *)
(*                                                                         *)
(* A byte is a number below 256.  A function that may fail returns the set *)
(* of its results: one, or none for an error.                              *)
(***************************************************************************)
EXTENDS Naturals, SequencesExt

\* encoding/binary's BigEndian
U16(n)        == <<(n \div 256) % 256, n % 256>>
ReadU16(b, k) == 256 * b[k] + b[k + 1]

From(b, k) == SubSeq(b, k, Len(b))

-----------------------------------------------------------------------------
(* forti/frame.go *)

frameHeaderSize == 6
frameMagic      == 20560    \* 0x5050
maxFrameLen     == 8192     \* 0x2000

WriteFrame(payload) ==
    IF Len(payload) > maxFrameLen THEN {}
    ELSE {U16(frameHeaderSize + Len(payload)) \o U16(frameMagic) \o U16(Len(payload)) \o payload}

\* What ReadFrame asks of a header, and that the payload is there.  A frame without
\* payload, which WriteFrame would write, is refused.
WellFramed(b) ==
    LET total == ReadU16(b, 1)
        size  == ReadU16(b, 5)
    IN  /\ Len(b) >= frameHeaderSize
        /\ ReadU16(b, 3) = frameMagic
        /\ total >= frameHeaderSize + 1 /\ total - frameHeaderSize = size
        /\ size <= maxFrameLen
        /\ Len(b) >= frameHeaderSize + size

\* Mutant of ReadFrame: takes what a single read returns for the payload.
ReadFrame_Short(b) ==
    IF Len(b) < frameHeaderSize \/ ReadU16(b, 3) # frameMagic THEN {}
    ELSE LET size == ReadU16(b, 5)
             end  == IF Len(b) < frameHeaderSize + size THEN Len(b) ELSE frameHeaderSize + size
         IN  {[payload |-> SubSeq(b, frameHeaderSize + 1, end), rest |-> From(b, end + 1)]}

\* The frame at the front of a stream, and what follows it.
ReadFrame(b) ==
    IF ~WellFramed(b) THEN {}
    ELSE LET end == frameHeaderSize + ReadU16(b, 5)
         IN  {[payload |-> SubSeq(b, frameHeaderSize + 1, end), rest |-> From(b, end + 1)]}

-----------------------------------------------------------------------------
(* forti/tunnel.go: the response in front of the first frame *)

ResponseStart == <<72, 84, 84, 80, 47>>    \* "HTTP/"
StatusOK      == <<32, 50, 48, 48>>        \* " 200"
CR == 13
LF == 10

HasResponse(b) == Len(b) >= 5 /\ \A i \in 1..5 : b[i] = ResponseStart[i]

\* Where a line ends of which TrimRight leaves nothing: one of carriage returns only.
EmptyLines(b) ==
    {k \in DOMAIN b : /\ b[k] = LF
                      /\ \E j \in 0 .. k - 1 : /\ j = 0 \/ b[j] = LF
                                               /\ \A i \in j + 1 .. k - 1 : b[i] = CR}

\* The status is looked for in the first line, wherever it stands there.
StatusIsOK(b) ==
    \E i \in DOMAIN b : /\ i + 3 \in DOMAIN b
                        /\ \A j \in 1..4 : b[i + j - 1] = StatusOK[j]
                        /\ \A j \in 1 .. i + 3 : b[j] # LF

\* What is left of a stream behind the response, all of it if there is none: Peek
\* takes nothing off.
consumeHTTPResponse(b) ==
    IF Len(b) < 5 THEN {}
    ELSE IF ~HasResponse(b) THEN {b}
    ELSE IF EmptyLines(b) = {} \/ ~StatusIsOK(b) THEN {}
    ELSE {From(b, Min(EmptyLines(b)) + 1)}

-----------------------------------------------------------------------------
(* ppp/packet.go: packets *)

AddressAndControl == <<255, 3>>
headerLen == 4

IsControl(protocol) == protocol >= 32768    \* 0x8000

Encode(p) ==
    AddressAndControl \o U16(p.protocol)
    \o (IF IsControl(p.protocol)
        THEN <<p.code, p.identifier>> \o U16(headerLen + Len(p.data)) ELSE <<>>)
    \o p.data

\* A peer may leave out the address and control bytes.
Unaddressed(frame) == IF IsPrefix(AddressAndControl, frame) THEN From(frame, 3) ELSE frame

\* The length that a control packet declares, the header included.
Declared(body) == ReadU16(body, 3)

\* What is left of a control packet's frame after the declared length is padding.
DecodeControl(protocol, body) ==
    IF Len(body) < headerLen \/ Declared(body) \notin headerLen .. Len(body) THEN {}
    ELSE {[protocol |-> protocol, code |-> body[1], identifier |-> body[2],
           data |-> SubSeq(body, headerLen + 1, Declared(body))]}

Decode(frame) ==
    LET body     == Unaddressed(frame)
        protocol == ReadU16(body, 1)
    IN  IF Len(body) < 2 THEN {}
        ELSE IF IsControl(protocol) THEN DecodeControl(protocol, From(body, 3))
        ELSE {[protocol |-> protocol, code |-> 0, identifier |-> 0, data |-> From(body, 3)]}

-----------------------------------------------------------------------------
(* ppp/packet.go: options *)

\* The length is one byte, and counts the type and itself.
EncodeOptions(options) ==
    FlattenSeq([i \in DOMAIN options |->
        <<options[i].type, (2 + Len(options[i].value)) % 256>> \o options[i].value])

\* from[k]: the options from byte k on.  A length below 2 would not advance.
DecodeOptions(data) ==
    LET end == Len(data) + 1
        from[k \in 1..end] ==
            IF k = end THEN {<<>>}
            ELSE IF k + 1 = end \/ data[k + 1] < 2 \/ k + data[k + 1] > end THEN {}
            ELSE LET next == k + data[k + 1]
                 IN  {<<[type |-> data[k], value |-> SubSeq(data, k + 2, next - 1)]>> \o rest :
                         rest \in from[next]}
    IN  from[1]

-----------------------------------------------------------------------------
(* The diagnosis: forti/ppp.go and forti/lcp.go *)

\* Names a packet, without a look at its length.
DecodePacket(payload) ==
    LET body    == Unaddressed(payload)
        hasCode == IsControl(ReadU16(body, 1)) /\ Len(body) >= 4
    IN  IF Len(body) < 2 THEN {}
        ELSE {[protocol |-> ReadU16(body, 1), hasCode |-> hasCode,
               code |-> IF hasCode THEN body[3] ELSE 0,
               identifier |-> IF hasCode THEN body[4] ELSE 0]}

ProtocolLCP == 49185    \* 0xc021
defaultMRU  == 1492

\* The request that opens a session, written out byte by byte.
NewLCPConfigureRequest(identifier, magic) ==
    LET options == <<1, 4>> \o U16(defaultMRU) \o <<5, 6>> \o magic
    IN  <<255, 3>> \o U16(ProtocolLCP) \o <<1, identifier>> \o U16(4 + Len(options)) \o options
=============================================================================
