----------------------------- MODULE PppSession -----------------------------
(***************************************************************************)
(* internal/ppp: Session, the client side of a PPP negotiation, against a  *)
(* gateway that follows RFC 1661 and RFC 1332.                             *)
(*                                                                         *)
(* The tunnel is a TLS stream, so each direction is a FIFO that neither    *)
(* loses nor reorders packets.  Session reads one packet at a time; what   *)
(* it does with it (the handler, and what Negotiate's loop does before the *)
(* next read) is one action per kind of packet.  The gateway is not part   *)
(* of the repository: it is what a conforming peer may do, and what it     *)
(* refuses is its policy, chosen once at the start.                        *)
(*                                                                         *)
(* An option is its name.  Its value matters only for the addresses, which *)
(* are "unset" (0.0.0.0), or "assigned", the gateway's choice.             *)
(***************************************************************************)
EXTENDS Naturals, Sequences

CONSTANTS Policies,     \* the gateways to negotiate with
          IdSpace,      \* how many identifiers there are: 256 in the code, a byte
          MaxUnasked    \* bounds what the gateway sends of its own accord:
                        \* keepalives, repeated requests, terminations, noise

ASSUME PppBounds == /\ IdSpace \in 1..256
                    /\ MaxUnasked \in Nat

VARIABLES status,      \* "negotiating", "open" once Negotiate returned, "failed"
          session,     \* the Session fields
          toGateway, toClient,
          gateway,     \* the peer's own state
          policy,
          disputed     \* history: what the gateway refused, per protocol

vars == <<status, session, toGateway, toClient, gateway, policy, disputed>>

LcpOffer    == {"MRU", "Magic"}
Addresses   == {"IP", "DNS1", "DNS2"}
OptionNames == LcpOffer \union Addresses \union {"ACCM", "Auth", "Broken"}

\* acceptableLCPOptions
Acceptable == {"MRU", "ACCM", "Magic"}

\* What a gateway may be: the LCP options it asks for, those of ours it rejects
\* and those it answers with another value, and the DNS options it rejects.
PolicyType == [offers : SUBSET {"MRU", "ACCM", "Magic", "Auth"},
               rejects : SUBSET LcpOffer, naks : SUBSET LcpOffer,
               rejectsDNS : SUBSET {"DNS1", "DNS2"}]

ASSUME PoliciesAreTyped == Policies \subseteq PolicyType

\* A list of options with a "Broken" one does not parse.
Readable(p) == "Broken" \notin DOMAIN p.opts

Packet(proto, code, id, opts) == [proto |-> proto, code |-> code, id |-> id, opts |-> opts]

\* Options that carry no address, and none at all.
Named(names) == [n \in names |-> "-"]
NoOptions    == Named({})

\* The identifier is a byte, and wraps.
NextId(i) == (i + 1) % IdSpace

-----------------------------------------------------------------------------
(* The client *)

LcpRequest(id, names) == Packet("LCP", "Request", id, Named(names))

\* ipOption encodes an address that is not known as 0.0.0.0, and always encodes
\* all three.
IpcpRequest(s) ==
    Packet("IPCP", "Request", NextId(s.identifier),
           [o \in Addresses |-> IF s.requested[o] = "nil" THEN "unset" ELSE s.requested[o]])

\* Negotiate has sent its first request; nothing has been read.
Init ==
    /\ status = "negotiating"
    /\ session = [identifier |-> NextId(0),
                  lcpLocalDone |-> FALSE, lcpRemoteDone |-> FALSE,
                  ipcpLocalDone |-> FALSE, ipcpRemoteDone |-> FALSE,
                  ipcpRequestSent |-> FALSE,
                  requested |-> [o \in Addresses |-> "nil"],
                  negotiated |-> [o \in Addresses |-> "nil"],
                  remoteIP |-> "nil"]
    /\ toGateway = <<LcpRequest(NextId(0), LcpOffer)>>
    /\ toClient = <<>>
    /\ gateway = [id |-> 0, offer |-> {}, lcpSent |-> FALSE, ipcpSent |-> FALSE,
                  lcpAcked |-> FALSE, lcpGranted |-> FALSE,
                  ipcpAcked |-> FALSE, ipcpGranted |-> FALSE,
                  granted |-> [o \in Addresses |-> "nil"],
                  echo |-> FALSE, terminated |-> FALSE, unasked |-> 0]
    /\ policy \in Policies
    /\ disputed = [p \in {"LCP", "IPCP"} |-> {}]

Running == status \in {"negotiating", "open"}

Receive(proto, code) ==
    /\ Running
    /\ toClient # <<>>
    /\ Head(toClient).proto = proto
    /\ Head(toClient).code = code
    /\ toClient' = Tail(toClient)

\* Mutant of OpensIPCP: forgets that the exchange has been opened already.
OpensIPCP_EveryTime(s) == status = "negotiating" /\ s.lcpLocalDone /\ s.lcpRemoteDone

\* Mutant of OpensIPCP: does not wait for the peer's own LCP request.
OpensIPCP_OneSided(s) ==
    status = "negotiating" /\ s.lcpLocalDone /\ ~s.ipcpRequestSent

\* Negotiate opens IPCP when LCP is open in both directions.
OpensIPCP(s) ==
    /\ status = "negotiating"
    /\ s.lcpLocalDone /\ s.lcpRemoteDone
    /\ ~s.ipcpRequestSent

\* Mutant of Finished: returns as soon as our own addresses are acknowledged.
Finished_OneSided(s) == s.ipcpLocalDone

Finished(s) == s.ipcpLocalDone /\ s.ipcpRemoteDone

\* The handler has left the session as s and sent the replies; the rest of
\* Negotiate's loop follows, and after the negotiation nothing (HandleControl).
Continue(s, replies) ==
    LET opens == OpensIPCP(s)
    IN  /\ session' = IF opens THEN [s EXCEPT !.ipcpRequestSent = TRUE,
                                              !.identifier = NextId(@)]
                               ELSE s
        /\ toGateway' = toGateway \o replies \o (IF opens THEN <<IpcpRequest(s)>> ELSE <<>>)
        /\ status' = IF status = "negotiating" /\ Finished(s) THEN "open" ELSE status
        /\ UNCHANGED <<gateway, policy>>

\* A request whose options do not parse fails Negotiate or the data plane.
Unparsable(proto) ==
    /\ Receive(proto, "Request")
    /\ ~Readable(Head(toClient))
    /\ status' = "failed"
    /\ UNCHANGED <<session, toGateway, gateway, policy, disputed>>

\* answerLCPConfigureRequest: a request with an option the client does not
\* support is rejected, any other acknowledged.
AnswerLcpRequest ==
    /\ Receive("LCP", "Request") /\ Readable(Head(toClient))
    /\ LET p == Head(toClient)
           rejected == DOMAIN p.opts \ Acceptable
       IN  IF rejected # {}
           THEN Continue(session, <<Packet("LCP", "Reject", p.id, Named(rejected))>>)
           ELSE Continue([session EXCEPT !.lcpRemoteDone = TRUE],
                         <<Packet("LCP", "Ack", p.id, p.opts)>>)
    /\ UNCHANGED disputed

\* An acknowledgement is taken whatever its identifier is.
LcpAcknowledged ==
    /\ Receive("LCP", "Ack")
    /\ Continue([session EXCEPT !.lcpLocalDone = TRUE], <<>>)
    /\ UNCHANGED disputed

\* resendLCPWithout: asks again without what this packet disputes.
LcpRefused(code) ==
    /\ Receive("LCP", code)
    /\ LET p == Head(toClient)
           id == NextId(session.identifier)
       IN  /\ disputed' = [disputed EXCEPT !["LCP"] = @ \union DOMAIN p.opts]
           /\ Continue([session EXCEPT !.identifier = id],
                       <<LcpRequest(id, LcpOffer \ DOMAIN p.opts)>>)

EchoRequested ==
    /\ Receive("LCP", "Echo-Request")
    /\ Continue(session, <<Packet("LCP", "Echo-Reply", Head(toClient).id, NoOptions)>>)
    /\ UNCHANGED disputed

\* Acknowledges, and fails Negotiate or the data plane.
LcpTerminated ==
    /\ Receive("LCP", "Terminate-Request")
    /\ toGateway' = Append(toGateway, Packet("LCP", "Terminate-Ack", Head(toClient).id, NoOptions))
    /\ status' = "failed"
    /\ UNCHANGED <<session, gateway, policy, disputed>>

\* answerIPCPConfigureRequest: the peer may have any address it wants.
AnswerIpcpRequest ==
    /\ Receive("IPCP", "Request") /\ Readable(Head(toClient))
    /\ LET p == Head(toClient)
       IN  Continue([session EXCEPT !.ipcpRemoteDone = TRUE,
                                    !.remoteIP = IF "IP" \in DOMAIN p.opts THEN p.opts["IP"]
                                                                           ELSE @],
                    <<Packet("IPCP", "Ack", p.id, p.opts)>>)
    /\ UNCHANGED disputed

\* adoptIPCPOptions
Adopt(opts, target) ==
    [o \in Addresses |-> IF o \in DOMAIN opts THEN opts[o] ELSE target[o]]

\* The final values are read from the acknowledgement.
IpcpAcknowledged ==
    /\ Receive("IPCP", "Ack")
    /\ Continue([session EXCEPT !.negotiated = Adopt(Head(toClient).opts, @),
                                !.ipcpLocalDone = TRUE], <<>>)
    /\ UNCHANGED disputed

\* Sends the IPCP request again, with what the session asks for now.
AskAgain(s) == Continue([s EXCEPT !.identifier = NextId(@), !.ipcpRequestSent = TRUE],
                        <<IpcpRequest(s)>>)

\* A Nak carries the addresses to ask for.
IpcpSuggested ==
    /\ Receive("IPCP", "Nak")
    /\ AskAgain([session EXCEPT !.requested = Adopt(Head(toClient).opts, @)])
    /\ UNCHANGED disputed

\* Without an address there is nothing to negotiate; a DNS server that is
\* rejected is forgotten, and the request is sent again.
IpcpRejected ==
    /\ Receive("IPCP", "Reject")
    /\ LET refused == DOMAIN Head(toClient).opts
       IN  /\ disputed' = [disputed EXCEPT !["IPCP"] = @ \union refused]
           /\ IF "IP" \in refused
              THEN /\ status' = "failed"
                   /\ UNCHANGED <<session, toGateway, gateway, policy>>
              ELSE AskAgain([session EXCEPT !.requested =
                        [o \in Addresses |-> IF o \in refused THEN "nil" ELSE @[o]]])

\* Acknowledged, and nothing else: the session goes on as if IPCP were open.
IpcpTerminated ==
    /\ Receive("IPCP", "Terminate-Request")
    /\ Continue(session, <<Packet("IPCP", "Terminate-Ack", Head(toClient).id, NoOptions)>>)
    /\ UNCHANGED disputed

\* Codes and protocols the client does not know are skipped.
Ignored ==
    /\ \/ Receive("LCP", "Other")
       \/ Receive("IPCP", "Other")
       \/ Receive("IPv6CP", "Request")
    /\ Continue(session, <<>>)
    /\ UNCHANGED disputed

\* The link fails, a read times out, or ctx is found done between two reads.
LinkFails ==
    /\ Running
    /\ status' = "failed"
    /\ UNCHANGED <<session, toGateway, toClient, gateway, policy, disputed>>

-----------------------------------------------------------------------------
(* The gateway *)

LcpOpen == gateway.lcpAcked /\ gateway.lcpGranted

ToClient(g, packets) == /\ gateway' = g
                        /\ toClient' = toClient \o packets
                        /\ UNCHANGED <<status, session, policy, disputed>>

GatewayRequest(g, proto) ==
    Packet(proto, "Request", g.id,
           IF proto = "LCP" THEN Named(g.offer) ELSE [o \in {"IP"} |-> "assigned"])

GatewayRequests(g, proto) == ToClient(g, <<GatewayRequest(g, proto)>>)

GatewayStartsLcp ==
    /\ ~gateway.lcpSent
    /\ GatewayRequests([gateway EXCEPT !.lcpSent = TRUE, !.offer = policy.offers], "LCP")
    /\ UNCHANGED toGateway

GatewayStartsIpcp ==
    /\ LcpOpen /\ ~gateway.ipcpSent /\ ~gateway.terminated
    /\ GatewayRequests([gateway EXCEPT !.ipcpSent = TRUE, !.id = NextId(@)], "IPCP")
    /\ UNCHANGED toGateway

\* What a gateway sends of its own accord.
Unasked(g, packet) == /\ gateway.unasked < MaxUnasked
                      /\ ~gateway.terminated
                      /\ ToClient([g EXCEPT !.unasked = @ + 1], <<packet>>)
                      /\ UNCHANGED toGateway

\* The restart timer expires before the answer is read.
GatewayResendsLcp == /\ gateway.lcpSent /\ ~gateway.lcpAcked
                     /\ Unasked(gateway, GatewayRequest(gateway, "LCP"))

GatewayResendsIpcp == /\ gateway.ipcpSent /\ ~gateway.ipcpAcked
                      /\ Unasked(gateway, GatewayRequest(gateway, "IPCP"))

GatewayEchoes ==
    /\ LcpOpen /\ ~gateway.echo
    /\ Unasked([gateway EXCEPT !.echo = TRUE], Packet("LCP", "Echo-Request", gateway.id, NoOptions))

GatewayTerminatesLcp ==
    Unasked([gateway EXCEPT !.terminated = TRUE],
            Packet("LCP", "Terminate-Request", gateway.id, NoOptions))

GatewayTerminatesIpcp ==
    /\ gateway.ipcpSent
    /\ Unasked(gateway, Packet("IPCP", "Terminate-Request", gateway.id, NoOptions))

\* Something the client does not model: another protocol, another code.
GatewayNoise ==
    \E p \in {<<"LCP", "Other">>, <<"IPCP", "Other">>, <<"IPv6CP", "Request">>} :
        Unasked(gateway, Packet(p[1], p[2], gateway.id, NoOptions))

\* Not what a conforming gateway does: an option of length zero.
GatewayGarbles ==
    \E proto \in {"LCP", "IPCP"} :
        Unasked(gateway, Packet(proto, "Request", gateway.id, Named({"Broken"})))

\* Rejections come before suggestions, and suggestions before an agreement.
Answering(p, rejects, naks, suggestion) ==
    LET names == DOMAIN p.opts
    IN  CASE names \intersect rejects # {} ->
                 Packet(p.proto, "Reject", p.id, [o \in names \intersect rejects |-> p.opts[o]])
          [] names \intersect rejects = {} /\ names \intersect naks # {} ->
                 Packet(p.proto, "Nak", p.id, [o \in names \intersect naks |-> suggestion])
          [] OTHER -> Packet(p.proto, "Ack", p.id, p.opts)

GatewayAnswersLcp(p) ==
    LET answer == Answering(p, policy.rejects, policy.naks, "-")
    IN  ToClient([gateway EXCEPT !.lcpGranted = (answer.code = "Ack")], <<answer>>)

\* An IPCP packet before LCP is open is discarded without a word.
GatewayAnswersIpcp(p) ==
    LET wrong == {o \in DOMAIN p.opts : p.opts[o] = "unset"}
        answer == Answering(p, policy.rejectsDNS, wrong, "assigned")
    IN  IF LcpOpen
        THEN ToClient([gateway EXCEPT !.ipcpGranted = (answer.code = "Ack"),
                                      !.granted = IF answer.code = "Ack"
                                                  THEN Adopt(p.opts, @) ELSE @],
                      <<answer>>)
        ELSE ToClient(gateway, <<>>)

\* An answer counts only if it answers the last request.
GatewayRejectedLcp(p) ==
    LET g == [gateway EXCEPT !.offer = @ \ DOMAIN p.opts, !.id = NextId(@)]
    IN  IF p.id = gateway.id /\ ~gateway.lcpAcked
        THEN GatewayRequests(g, "LCP")
        ELSE ToClient(gateway, <<>>)

GatewayHears(p) ==
    CASE p.code = "Request" /\ p.proto = "LCP"  -> GatewayAnswersLcp(p)
      [] p.code = "Request" /\ p.proto = "IPCP" -> GatewayAnswersIpcp(p)
      [] p.code = "Ack" /\ p.proto = "LCP" ->
             ToClient([gateway EXCEPT !.lcpAcked = @ \/ p.id = gateway.id], <<>>)
      [] p.code = "Ack" /\ p.proto = "IPCP" ->
             ToClient([gateway EXCEPT !.ipcpAcked = @ \/ p.id = gateway.id], <<>>)
      [] p.code = "Reject" -> GatewayRejectedLcp(p)
      [] p.code = "Echo-Reply" -> ToClient([gateway EXCEPT !.echo = FALSE], <<>>)
      [] OTHER -> ToClient(gateway, <<>>)

GatewayReads ==
    /\ toGateway # <<>>
    /\ toGateway' = Tail(toGateway)
    /\ GatewayHears(Head(toGateway))

-----------------------------------------------------------------------------

Client == \/ AnswerLcpRequest \/ LcpAcknowledged
          \/ \E code \in {"Nak", "Reject"} : LcpRefused(code)
          \/ EchoRequested \/ LcpTerminated
          \/ AnswerIpcpRequest \/ IpcpAcknowledged \/ IpcpSuggested \/ IpcpRejected
          \/ IpcpTerminated \/ Ignored
          \/ \E proto \in {"LCP", "IPCP"} : Unparsable(proto)

\* What the gateway has to do, and what it may do.
GatewayMust == GatewayReads \/ GatewayStartsLcp \/ GatewayStartsIpcp
GatewayMay  == \/ GatewayResendsLcp \/ GatewayResendsIpcp \/ GatewayEchoes
               \/ GatewayTerminatesLcp \/ GatewayTerminatesIpcp \/ GatewayNoise
               \/ GatewayGarbles

Next == Client \/ LinkFails \/ GatewayMust \/ GatewayMay

\* The client reads what arrives, and the gateway answers what it reads.
Fairness == /\ WF_vars(Client)
            /\ WF_vars(GatewayReads) /\ WF_vars(GatewayStartsLcp) /\ WF_vars(GatewayStartsIpcp)

Spec     == Init /\ [][Next]_vars
FairSpec == Spec /\ Fairness

-----------------------------------------------------------------------------
(* What has to hold *)

Values  == {"nil", "unset", "assigned"}
Options == UNION {[names -> Values \union {"-"}] : names \in SUBSET OptionNames}

Packets == [proto : {"LCP", "IPCP", "IPv6CP"},
            code : {"Request", "Ack", "Nak", "Reject", "Echo-Request", "Echo-Reply",
                    "Terminate-Request", "Terminate-Ack", "Other"},
            id : 0..IdSpace - 1, opts : Options]

SessionType == [identifier : 0..IdSpace - 1,
                lcpLocalDone : BOOLEAN, lcpRemoteDone : BOOLEAN,
                ipcpLocalDone : BOOLEAN, ipcpRemoteDone : BOOLEAN,
                ipcpRequestSent : BOOLEAN,
                requested : [Addresses -> Values], negotiated : [Addresses -> Values],
                remoteIP : Values]

GatewayType == [id : 0..IdSpace - 1, offer : SUBSET {"MRU", "ACCM", "Magic", "Auth"},
                lcpSent : BOOLEAN, ipcpSent : BOOLEAN,
                lcpAcked : BOOLEAN, lcpGranted : BOOLEAN,
                ipcpAcked : BOOLEAN, ipcpGranted : BOOLEAN,
                granted : [Addresses -> Values],
                echo : BOOLEAN, terminated : BOOLEAN, unasked : 0..MaxUnasked]

\* The fields of both ends, the packets on the wire and the policy are of their types.
TypeOK ==
    /\ status \in {"negotiating", "open", "failed"}
    /\ session \in SessionType
    /\ gateway \in GatewayType
    /\ toGateway \in Seq(Packets)
    /\ toClient \in Seq(Packets)
    /\ policy \in Policies

\* When Negotiate has returned, both protocols are open in both directions, and
\* the addresses it returned are the ones the gateway granted, none of them
\* 0.0.0.0 ("reads until both protocols are open", session.go:86).
NegotiatedIsAgreed ==
    status = "open" =>
        /\ session.lcpLocalDone /\ session.lcpRemoteDone
        /\ session.ipcpLocalDone /\ session.ipcpRemoteDone
        /\ session.negotiated["IP"] = "assigned" /\ session.remoteIP = "assigned"
        /\ gateway.ipcpGranted /\ session.negotiated = gateway.granted

\* The client never repeats a request, so an IPCP request that reached a gateway
\* whose LCP is not open yet would be discarded and never answered: it is only
\* sent when every packet before it opens LCP there (session.go:125).
GatewayNeverDiscards ==
    toGateway # <<>> /\ Head(toGateway).proto = "IPCP" /\ Head(toGateway).code = "Request"
        => LcpOpen

Answers == {"Ack", "Nak", "Reject"}

Requests(proto) ==
    {i \in DOMAIN toGateway : toGateway[i].proto = proto /\ toGateway[i].code = "Request"}
Answered(proto) ==
    {i \in DOMAIN toClient : toClient[i].proto = proto /\ toClient[i].code \in Answers}

\* An answer is taken whatever its identifier is (session.go:169-171,
\* ipcp.go:41-57), which is sound because at most one request of a protocol is
\* ever unanswered: in flight, or answered in flight.
OneRequestOutstanding ==
    \A proto \in {"LCP", "IPCP"} :
        /\ \A i, j \in Requests(proto) : i = j
        /\ \A i, j \in Answered(proto) : i = j
        /\ Requests(proto) = {} \/ Answered(proto) = {}

\* A gateway that the client does not argue with for ever: it supports the DNS
\* options, and does not both reject LCP options and suggest values for others.
Agreeable == policy.rejectsDNS = {} /\ (policy.rejects = {} \/ policy.naks = {})

\* A negotiation with such a gateway ends: in an open link, or in a failure
\* (session.go:84-87).
NegotiationEnds == Agreeable /\ status = "negotiating" ~> status # "negotiating"

\* "Rejected options must not be offered again" (ipcp.go:81).
RejectedNotOfferedAgain ==
    [][Len(toGateway') > Len(toGateway) =>
          LET p == toGateway'[Len(toGateway')]
          IN  p.proto = "IPCP" /\ p.code = "Request"
                  => DOMAIN p.opts \intersect disputed'["IPCP"] = {}]_vars
=============================================================================
