--------------------------- MODULE PppSessionProofs ---------------------------
(* What a negotiation comes to, with any gateways and any number of packets they *)
(* send of their own accord; from "What is written to the tunnel" on, that       *)
(* frames, packets and options are read as they were written, whatever they say; *)
(* and from "What is on the tunnel" on, that therefore both ends read whatever   *)
(* PppSession ever puts on the tunnel.                                           *)
EXTENDS PppWire, TLAPS, SequenceTheorems, WellFoundedInduction

USE DEF vars

Is(p, proto, code) == p.proto = proto /\ p.code = code

Agreed == [o \in Addresses |-> "assigned"]

\* IPCP is opened when both directions of LCP are open, and not before.
Opened ==
    /\ session.ipcpRequestSent => session.lcpLocalDone /\ session.lcpRemoteDone
    /\ ~session.ipcpRequestSent => Requests("IPCP") = {} /\ Answered("IPCP") = {}

\* Our LCP request is granted from the moment its acknowledgement is sent.
Granted ==
    /\ \A i \in DOMAIN toClient : Is(toClient[i], "LCP", "Ack") => gateway.lcpGranted
    /\ session.lcpLocalDone => /\ gateway.lcpGranted
                               /\ Requests("LCP") = {} /\ Answered("LCP") = {}

\* Acks of the gateway's request travel ahead of every IPCP request.
AckAhead ==
    /\ session.lcpRemoteDone => \/ gateway.lcpAcked
                                \/ \E j \in DOMAIN toGateway : Is(toGateway[j], "LCP", "Ack")
    /\ \A k \in Requests("IPCP") :
           \/ gateway.lcpAcked
           \/ \E j \in DOMAIN toGateway : j < k /\ Is(toGateway[j], "LCP", "Ack")

\* The gateway's request has its number until it is acknowledged: a rejection,
\* which only its authentication option meets with, changes it once.
Numbered ==
    /\ \A i \in DOMAIN toClient :
           Is(toClient[i], "LCP", "Request") /\ Readable(toClient[i]) =>
               /\ gateway.lcpSent
               /\ "Auth" \in DOMAIN toClient[i].opts =>
                      toClient[i].id = 0 /\ "Auth" \in policy.offers
               /\ DOMAIN toClient[i].opts \subseteq Acceptable =>
                      \/ gateway.lcpAcked
                      \/ (toClient[i].id = gateway.id /\ "Auth" \notin gateway.offer)
               /\ DOMAIN toClient[i].opts \subseteq Acceptable \union {"Auth"}
    /\ \A i \in DOMAIN toGateway :
           /\ Is(toGateway[i], "LCP", "Ack") =>
                  /\ gateway.lcpSent
                  /\ \/ gateway.lcpAcked
                     \/ (toGateway[i].id = gateway.id /\ "Auth" \notin gateway.offer)
           /\ toGateway[i].code = "Reject" =>
                  /\ toGateway[i].proto = "LCP" /\ toGateway[i].id = 0
                  /\ DOMAIN toGateway[i].opts = {"Auth"} /\ "Auth" \in policy.offers
                  /\ gateway.lcpSent
    /\ ~gateway.lcpSent => gateway.id = 0 /\ gateway.offer = {} /\ ~gateway.lcpAcked
    /\ gateway.lcpSent => gateway.offer \in {policy.offers, policy.offers \ {"Auth"}}
    /\ gateway.lcpSent /\ ~gateway.lcpAcked =>
           gateway.id = IF gateway.offer = policy.offers THEN 0 ELSE NextId(0)

\* What the addresses in a packet can be.
Addressed ==
    /\ \A o \in Addresses : session.requested[o] \in {"nil", "assigned"}
    /\ \A i \in Requests("IPCP") : toGateway[i].opts \in [Addresses -> {"unset", "assigned"}]
    /\ \A i \in DOMAIN toClient :
           /\ Is(toClient[i], "IPCP", "Nak") =>
                  \A o \in DOMAIN toClient[i].opts : toClient[i].opts[o] = "assigned"
           /\ Is(toClient[i], "IPCP", "Request") /\ Readable(toClient[i]) =>
                  toClient[i].opts = [o \in {"IP"} |-> "assigned"]
           /\ Is(toClient[i], "IPCP", "Ack") =>
                  toClient[i].opts = Agreed /\ gateway.granted = Agreed /\ gateway.ipcpGranted

\* What each of the two ends knows when its half is done.
Settled ==
    /\ session.ipcpLocalDone => /\ session.ipcpRequestSent
                                /\ Requests("IPCP") = {} /\ Answered("IPCP") = {}
                                /\ session.negotiated = Agreed
                                /\ gateway.granted = Agreed /\ gateway.ipcpGranted
    /\ session.ipcpRemoteDone => session.remoteIP = "assigned"
    /\ status = "open" => session.ipcpLocalDone /\ session.ipcpRemoteDone

IInv == /\ TypeOK /\ OneRequestOutstanding
        /\ Opened /\ Granted /\ AckAhead /\ Numbered /\ Addressed /\ Settled

-----------------------------------------------------------------------------
(* Sequences, identifiers and options *)

\* Taking the first element moves all others down by one.
LEMMA TailMoves ==
    ASSUME NEW S, NEW q \in Seq(S), q # <<>>
    PROVE  /\ Head(q) = q[1] /\ Head(q) \in S /\ 1 \in DOMAIN q
           /\ Tail(q) \in Seq(S)
           /\ \A i \in DOMAIN Tail(q) : i + 1 \in DOMAIN q /\ Tail(q)[i] = q[i + 1]
           /\ \A i \in DOMAIN q : i = 1 \/ (i - 1 \in DOMAIN Tail(q) /\ Tail(q)[i - 1] = q[i])
  OBVIOUS

\* r is q with more behind it.
OnlyAdds(q, r) == /\ DOMAIN q \subseteq DOMAIN r
                  /\ \A i \in DOMAIN q : r[i] = q[i]
                  /\ \A i \in DOMAIN q, j \in DOMAIN r \ DOMAIN q : i < j

\* A sequence with another behind it.
LEMMA Appends ==
    ASSUME NEW S, NEW q \in Seq(S), NEW t \in Seq(S)
    PROVE  /\ q \o t \in Seq(S) /\ OnlyAdds(q, q \o t)
           /\ Len(q \o t) = Len(q) + Len(t)
           /\ \A i \in DOMAIN (q \o t) \ DOMAIN q : /\ i - Len(q) \in DOMAIN t
                                                   /\ (q \o t)[i] = t[i - Len(q)]
           /\ \A i \in DOMAIN t : /\ Len(q) + i \in DOMAIN (q \o t) \ DOMAIN q
                                  /\ (q \o t)[Len(q) + i] = t[i]
<1>1. /\ q \o t \in Seq(S) /\ Len(q \o t) = Len(q) + Len(t)
      /\ DOMAIN q = 1..Len(q) /\ DOMAIN t = 1..Len(t)
      /\ DOMAIN (q \o t) = 1..(Len(q) + Len(t))
      /\ Len(q) \in Nat /\ Len(t) \in Nat
  OBVIOUS
<1>2. \A i \in 1..(Len(q) + Len(t)) : (q \o t)[i] = IF i <= Len(q) THEN q[i] ELSE t[i - Len(q)]
  OBVIOUS
<1>. QED  BY <1>1, <1>2 DEF OnlyAdds

\* An identifier stays one.
LEMMA NextIdTyped == ASSUME NEW i \in Nat PROVE NextId(i) \in 0..IdSpace - 1
  BY PppBounds DEF NextId

\* Which functions are options.
LEMMA OptionsTyped ==
    ASSUME NEW f, f = [o \in DOMAIN f |-> f[o]], DOMAIN f \subseteq OptionNames,
           \A o \in DOMAIN f : f[o] \in Values \union {"-"}
    PROVE  f \in Options
<1>1. f \in [DOMAIN f -> Values \union {"-"}]
  BY Zenon
<1>. QED  BY <1>1, Zenon DEF Options

LEMMA OptionsAre ==
    ASSUME NEW f \in Options
    PROVE  /\ f = [o \in DOMAIN f |-> f[o]] /\ DOMAIN f \subseteq OptionNames
           /\ \A o \in DOMAIN f : f[o] \in Values \union {"-"}
<1>1. PICK names \in SUBSET OptionNames : f \in [names -> Values \union {"-"}]
  BY Zenon DEF Options
<1>. QED  BY <1>1

LEMMA NamedTyped ==
    ASSUME NEW names \in SUBSET OptionNames
    PROVE  Named(names) \in Options /\ DOMAIN Named(names) = names
<1>1. Named(names) = [o \in names |-> "-"] /\ DOMAIN Named(names) = names
  BY DEF Named
<1>. HIDE DEF Named
<1>2. \A o \in DOMAIN Named(names) : Named(names)[o] = "-"
  BY <1>1
<1>3. Named(names) = [o \in DOMAIN Named(names) |-> Named(names)[o]]
  BY <1>1
<1>. QED  BY <1>1, <1>2, <1>3, OptionsTyped

LEMMA PacketTyped ==
    ASSUME NEW proto \in {"LCP", "IPCP", "IPv6CP"}, NEW id \in 0..IdSpace - 1, NEW opts \in Options,
           NEW code \in {"Request", "Ack", "Nak", "Reject", "Echo-Request", "Echo-Reply",
                         "Terminate-Request", "Terminate-Ack", "Other"}
    PROVE  /\ Packet(proto, code, id, opts) \in Packets
           /\ Packet(proto, code, id, opts).proto = proto
           /\ Packet(proto, code, id, opts).code = code
           /\ Packet(proto, code, id, opts).id = id
           /\ Packet(proto, code, id, opts).opts = opts
  BY DEF Packet, Packets

-----------------------------------------------------------------------------
(* What the client does with a packet *)

Refuses(p, proto) == p.proto = proto /\ p.code \in {"Nak", "Reject"}
Asks(p)           == Is(p, "LCP", "Request") /\ Readable(p)
Accepted(p)       == Asks(p) /\ DOMAIN p.opts \subseteq Acceptable

\* The packets a step sends to the gateway.
New == DOMAIN toGateway' \ DOMAIN toGateway

Takes == toClient # <<>> /\ toClient' = Tail(toClient) /\ UNCHANGED <<gateway, policy>>

\* What the session comes to know from the packet h.
Learns(h) ==
    /\ session' \in SessionType
    /\ session'.lcpLocalDone <=> session.lcpLocalDone \/ Is(h, "LCP", "Ack")
    /\ session'.lcpRemoteDone <=> session.lcpRemoteDone \/ Accepted(h)
    /\ session'.ipcpLocalDone <=> session.ipcpLocalDone \/ Is(h, "IPCP", "Ack")
    /\ session'.ipcpRemoteDone <=>
           session.ipcpRemoteDone \/ (Is(h, "IPCP", "Request") /\ Readable(h))
    /\ session.ipcpRequestSent => session'.ipcpRequestSent
    /\ session'.ipcpRequestSent => \/ session.ipcpRequestSent
                                   \/ session'.lcpLocalDone /\ session'.lcpRemoteDone
    /\ \A o \in Addresses : session'.requested[o] \in {session.requested[o], "nil", "assigned"}
    /\ session'.negotiated = IF Is(h, "IPCP", "Ack") THEN Agreed ELSE session.negotiated
    /\ session'.remoteIP = IF Is(h, "IPCP", "Request") /\ Readable(h) THEN "assigned"
                                                                      ELSE session.remoteIP
    /\ status' \in {"negotiating", "open", "failed"}
    /\ status' = "open" => \/ status = "open"
                           \/ session'.ipcpLocalDone /\ session'.ipcpRemoteDone

\* When a packet p may be sent at position i of the queue.
MaySend(h, p, i) ==
    /\ Is(p, "LCP", "Request") => Refuses(h, "LCP")
    /\ Is(p, "IPCP", "Request") =>
           /\ session'.ipcpRequestSent
           /\ Refuses(h, "IPCP") \/ ~session.ipcpRequestSent
           /\ p.opts \in [Addresses -> {"unset", "assigned"}]
           /\ session.lcpRemoteDone \/ \E j \in New : j < i /\ Is(toGateway'[j], "LCP", "Ack")
    /\ Is(p, "LCP", "Ack") => Accepted(h) /\ p.id = h.id
    /\ p.code = "Reject" => /\ Asks(h) /\ ~Accepted(h)
                            /\ p.proto = "LCP" /\ p.id = h.id
                            /\ DOMAIN p.opts = DOMAIN h.opts \ Acceptable

\* What the session sends on the packet h.
Sends(h) ==
    /\ toGateway' \in Seq(Packets) /\ OnlyAdds(toGateway, toGateway')
    /\ \A i \in New : MaySend(h, toGateway'[i], i)
    /\ \A i, j \in New :
           /\ toGateway'[i].code = "Request" /\ toGateway'[j].code = "Request"
           /\ toGateway'[i].proto = toGateway'[j].proto
           => i = j
    /\ session'.lcpRemoteDone /\ ~session.lcpRemoteDone =>
           \E j \in New : Is(toGateway'[j], "LCP", "Ack")

LEMMA IpcpRequestTyped ==
    ASSUME NEW s \in SessionType, \A o \in Addresses : s.requested[o] \in {"nil", "assigned"}
    PROVE  /\ IpcpRequest(s) \in Packets /\ Is(IpcpRequest(s), "IPCP", "Request")
           /\ IpcpRequest(s).opts \in [Addresses -> {"unset", "assigned"}]
<1>. DEFINE f == [o \in Addresses |-> IF s.requested[o] = "nil" THEN "unset" ELSE s.requested[o]]
<1>1. /\ \A o \in Addresses : f[o] \in {"unset", "assigned"}
      /\ f \in [Addresses -> {"unset", "assigned"}]
      /\ DOMAIN f = Addresses /\ f = [o \in DOMAIN f |-> f[o]]
  OBVIOUS
<1>2. IpcpRequest(s) = Packet("IPCP", "Request", NextId(s.identifier), f)
  BY DEF IpcpRequest
<1>. HIDE DEF f
<1>3. f \in Options
  BY <1>1, OptionsTyped DEF OptionNames, Values
<1>4. NextId(s.identifier) \in 0..IdSpace - 1
  BY NextIdTyped, PppBounds DEF SessionType
<1>. QED  BY <1>1, <1>2, <1>3, <1>4, PacketTyped DEF Is

LEMMA LcpRequestTyped ==
    ASSUME NEW i \in 0..IdSpace - 1, NEW names \in SUBSET LcpOffer
    PROVE  LcpRequest(i, names) \in Packets /\ Is(LcpRequest(i, names), "LCP", "Request")
<1>1. Named(names) \in Options
  BY NamedTyped DEF LcpOffer, OptionNames
<1>. QED  BY <1>1, PacketTyped DEF LcpRequest, Is

\* Negotiate's loop after a handler: what it puts behind the handler's replies.
LEMMA Continues ==
    ASSUME TypeOK, NEW s \in SessionType, NEW replies \in Seq(Packets), Continue(s, replies),
           \A o \in Addresses : s.requested[o] \in {"nil", "assigned"}
    PROVE  /\ toGateway' \in Seq(Packets) /\ OnlyAdds(toGateway, toGateway')
           /\ \A i \in New : \/ /\ i - Len(toGateway) \in DOMAIN replies
                                /\ toGateway'[i] = replies[i - Len(toGateway)]
                             \/ /\ OpensIPCP(s) /\ i = Len(toGateway) + Len(replies) + 1
                                /\ toGateway'[i] = IpcpRequest(s)
           /\ \A i \in DOMAIN replies : /\ Len(toGateway) + i \in New
                                        /\ toGateway'[Len(toGateway) + i] = replies[i]
<1>. DEFINE opening == IF OpensIPCP(s) THEN <<IpcpRequest(s)>> ELSE <<>>
            sent == replies \o opening
<1>1. IpcpRequest(s) \in Packets
  BY IpcpRequestTyped
<1>2. /\ opening \in Seq(Packets)
      /\ \A i \in DOMAIN opening : OpensIPCP(s) /\ i = 1 /\ opening[i] = IpcpRequest(s)
  BY <1>1
<1>3. toGateway \in Seq(Packets)
  BY DEF TypeOK
<1>4. toGateway' = (toGateway \o replies) \o opening
  BY DEF Continue
<1>. HIDE DEF opening
<1>5. toGateway' = toGateway \o sent
  BY <1>2, <1>3, <1>4, ConcatAssociative
<1>6. /\ sent \in Seq(Packets) /\ OnlyAdds(replies, sent) /\ Len(sent) = Len(replies) + Len(opening)
      /\ \A i \in DOMAIN sent \ DOMAIN replies : /\ i - Len(replies) \in DOMAIN opening
                                                 /\ sent[i] = opening[i - Len(replies)]
  BY <1>2, Appends
<1>. HIDE DEF sent
<1>7. /\ toGateway' \in Seq(Packets) /\ OnlyAdds(toGateway, toGateway')
      /\ \A i \in New : /\ i - Len(toGateway) \in DOMAIN sent
                        /\ toGateway'[i] = sent[i - Len(toGateway)]
      /\ \A i \in DOMAIN sent : /\ Len(toGateway) + i \in New
                                /\ toGateway'[Len(toGateway) + i] = sent[i]
  BY <1>3, <1>5, <1>6, Appends DEF New
<1>8. ASSUME NEW i \in New
      PROVE  \/ /\ i - Len(toGateway) \in DOMAIN replies
                /\ toGateway'[i] = replies[i - Len(toGateway)]
             \/ /\ OpensIPCP(s) /\ i = Len(toGateway) + Len(replies) + 1
                /\ toGateway'[i] = IpcpRequest(s)
  <2>. DEFINE k == i - Len(toGateway)
  <2>1. k \in DOMAIN sent /\ toGateway'[i] = sent[k]
    BY <1>7
  <2>2. CASE k \in DOMAIN replies
    BY <2>1, <2>2, <1>6 DEF OnlyAdds
  <2>3. CASE k \notin DOMAIN replies
    <3>1. /\ k - Len(replies) \in DOMAIN opening
          /\ sent[k] = opening[k - Len(replies)]
      BY <2>1, <2>3, <1>6
    <3>2. OpensIPCP(s) /\ k - Len(replies) = 1 /\ sent[k] = IpcpRequest(s)
      BY <3>1, <1>2
    <3>3. i \in Nat /\ Len(toGateway) \in Nat /\ Len(replies) \in Nat
      BY <1>7, <1>3 DEF New
    <3>. QED  BY <2>1, <3>2, <3>3
  <2>. QED  BY <2>2, <2>3
<1>9. \A i \in DOMAIN replies : i \in DOMAIN sent /\ sent[i] = replies[i]
  BY <1>6 DEF OnlyAdds
<1>. QED  BY <1>7, <1>8, <1>9

\* What a handler may reply to h.
Replies(h, s, p) ==
    /\ Is(p, "LCP", "Request") => Refuses(h, "LCP")
    /\ Is(p, "IPCP", "Request") => /\ s.ipcpRequestSent /\ Refuses(h, "IPCP")
                                   /\ p.opts \in [Addresses -> {"unset", "assigned"}]
    /\ Is(p, "LCP", "Ack") => Accepted(h) /\ p.id = h.id
    /\ p.code = "Reject" => /\ Asks(h) /\ ~Accepted(h)
                            /\ p.proto = "LCP" /\ p.id = h.id
                            /\ DOMAIN p.opts = DOMAIN h.opts \ Acceptable

\* A handler of h leaves the session as s and gives at most one reply.
Handled(h, s, replies) ==
    /\ s \in SessionType
    /\ s.lcpLocalDone <=> session.lcpLocalDone \/ Is(h, "LCP", "Ack")
    /\ s.lcpRemoteDone <=> session.lcpRemoteDone \/ Accepted(h)
    /\ s.ipcpLocalDone <=> session.ipcpLocalDone \/ Is(h, "IPCP", "Ack")
    /\ s.ipcpRemoteDone <=>
           session.ipcpRemoteDone \/ (Is(h, "IPCP", "Request") /\ Readable(h))
    /\ s.ipcpRequestSent = session.ipcpRequestSent
    /\ \A o \in Addresses : s.requested[o] \in {session.requested[o], "nil", "assigned"}
    /\ s.negotiated = IF Is(h, "IPCP", "Ack") THEN Agreed ELSE session.negotiated
    /\ s.remoteIP = IF Is(h, "IPCP", "Request") /\ Readable(h) THEN "assigned"
                                                               ELSE session.remoteIP
    /\ replies \in Seq(Packets)
    /\ \A i, j \in DOMAIN replies : i = j
    /\ \A i \in DOMAIN replies : Replies(h, s, replies[i])
    /\ Accepted(h) => \E i \in DOMAIN replies : Is(replies[i], "LCP", "Ack")

LEMMA Learning ==
    ASSUME TypeOK, NEW h, NEW s, NEW replies, Handled(h, s, replies), Continue(s, replies)
    PROVE  Learns(h)
<1>1. s \in SessionType /\ session \in SessionType
  BY DEF Handled, TypeOK
<1>2. session' = IF OpensIPCP(s) THEN [s EXCEPT !.ipcpRequestSent = TRUE,
                                                !.identifier = NextId(@)] ELSE s
  BY DEF Continue
<1>3. NextId(s.identifier) \in 0..IdSpace - 1
  BY <1>1, NextIdTyped, PppBounds DEF SessionType
<1>4. /\ session' \in SessionType
      /\ session'.lcpLocalDone = s.lcpLocalDone /\ session'.lcpRemoteDone = s.lcpRemoteDone
      /\ session'.ipcpLocalDone = s.ipcpLocalDone /\ session'.ipcpRemoteDone = s.ipcpRemoteDone
      /\ session'.requested = s.requested /\ session'.negotiated = s.negotiated
      /\ session'.remoteIP = s.remoteIP
      /\ session'.ipcpRequestSent <=> s.ipcpRequestSent \/ OpensIPCP(s)
  BY <1>1, <1>2, <1>3 DEF SessionType
<1>5. /\ status' \in {"negotiating", "open", "failed"}
      /\ status' = "open" => status = "open" \/ (s.ipcpLocalDone /\ s.ipcpRemoteDone)
  BY DEF TypeOK, Continue, Finished
<1>6. OpensIPCP(s) => s.lcpLocalDone /\ s.lcpRemoteDone
  BY DEF OpensIPCP
<1>. QED  BY <1>4, <1>5, <1>6 DEF Learns, Handled

LEMMA Sending ==
    ASSUME TypeOK, NEW h, NEW s, NEW replies, Handled(h, s, replies), Continue(s, replies),
           \A o \in Addresses : session.requested[o] \in {"nil", "assigned"},
           Refuses(h, "IPCP") => session.lcpRemoteDone
    PROVE  Sends(h)
<1>. /\ s \in SessionType /\ replies \in Seq(Packets)
     /\ \A o \in Addresses : s.requested[o] \in {"nil", "assigned"}
     /\ \A i, j \in DOMAIN replies : i = j
     /\ \A i \in DOMAIN replies : Replies(h, s, replies[i])
     /\ s.lcpRemoteDone <=> session.lcpRemoteDone \/ Accepted(h)
     /\ Accepted(h) => \E i \in DOMAIN replies : Is(replies[i], "LCP", "Ack")
     /\ session.ipcpRequestSent => s.ipcpRequestSent
  BY DEF Handled
<1>1. /\ toGateway' \in Seq(Packets) /\ OnlyAdds(toGateway, toGateway')
      /\ \A i \in New : \/ /\ i - Len(toGateway) \in DOMAIN replies
                           /\ toGateway'[i] = replies[i - Len(toGateway)]
                        \/ /\ OpensIPCP(s) /\ i = Len(toGateway) + Len(replies) + 1
                           /\ toGateway'[i] = IpcpRequest(s)
      /\ \A i \in DOMAIN replies : /\ Len(toGateway) + i \in New
                                   /\ toGateway'[Len(toGateway) + i] = replies[i]
  BY Continues
<1>2. /\ session'.lcpRemoteDone = s.lcpRemoteDone
      /\ s.ipcpRequestSent \/ OpensIPCP(s) => session'.ipcpRequestSent
  BY DEF Continue, SessionType
<1>3. Is(IpcpRequest(s), "IPCP", "Request")
      /\ IpcpRequest(s).opts \in [Addresses -> {"unset", "assigned"}]
  BY IpcpRequestTyped
<1>4. Len(toGateway) \in Nat /\ DOMAIN replies = 1..Len(replies) /\ Len(replies) \in Nat
  BY DEF TypeOK
<1>5. \A i \in New : i \in Nat
  BY <1>1 DEF New
<1>6. OpensIPCP(s) => s.lcpRemoteDone /\ ~s.ipcpRequestSent
  BY DEF OpensIPCP
<1>7. \A i \in DOMAIN replies : Is(replies[i], "LCP", "Ack") =>
          /\ Len(toGateway) + i \in New /\ Is(toGateway'[Len(toGateway) + i], "LCP", "Ack")
          /\ Len(toGateway) + i < Len(toGateway) + Len(replies) + 1
  BY <1>1, <1>4
<1>8. Accepted(h) => \E j \in New : /\ j < Len(toGateway) + Len(replies) + 1
                                    /\ Is(toGateway'[j], "LCP", "Ack")
  BY <1>7
<1>9. ASSUME NEW i \in New PROVE MaySend(h, toGateway'[i], i)
  <2>1. CASE /\ i - Len(toGateway) \in DOMAIN replies
             /\ toGateway'[i] = replies[i - Len(toGateway)]
    <3>1. Replies(h, s, toGateway'[i])
      BY <2>1
    <3>. QED  BY <3>1, <1>2 DEF Replies, MaySend, Refuses, Is
  <2>2. CASE /\ OpensIPCP(s) /\ i = Len(toGateway) + Len(replies) + 1
             /\ toGateway'[i] = IpcpRequest(s)
    <3>1. session.lcpRemoteDone \/ \E j \in New : j < i /\ Is(toGateway'[j], "LCP", "Ack")
      BY <2>2, <1>6, <1>8
    <3>. QED  BY <3>1, <2>2, <1>2, <1>3, <1>6 DEF MaySend, Is
  <2>. QED  BY <1>1, <2>1, <2>2
<1>10. ASSUME NEW i \in New, NEW j \in New,
              toGateway'[i].code = "Request", toGateway'[j].code = "Request",
              toGateway'[i].proto = toGateway'[j].proto
       PROVE  i = j
  <2>1. CASE /\ i - Len(toGateway) \in DOMAIN replies
             /\ toGateway'[i] = replies[i - Len(toGateway)]
    <3>1. CASE /\ j - Len(toGateway) \in DOMAIN replies
               /\ toGateway'[j] = replies[j - Len(toGateway)]
      <4>1. i - Len(toGateway) = j - Len(toGateway)
        BY <2>1, <3>1
      <4>. QED  BY <4>1, <1>4, <1>5
    <3>2. CASE /\ OpensIPCP(s) /\ j = Len(toGateway) + Len(replies) + 1
               /\ toGateway'[j] = IpcpRequest(s)
      BY <1>3, <1>6, <1>10, <2>1, <3>2 DEF Replies, Is
    <3>. QED  BY <1>1, <3>1, <3>2
  <2>2. CASE /\ OpensIPCP(s) /\ i = Len(toGateway) + Len(replies) + 1
             /\ toGateway'[i] = IpcpRequest(s)
    <3>1. CASE /\ j - Len(toGateway) \in DOMAIN replies
               /\ toGateway'[j] = replies[j - Len(toGateway)]
      BY <1>3, <1>6, <1>10, <2>2, <3>1 DEF Replies, Is
    <3>2. CASE j = Len(toGateway) + Len(replies) + 1
      BY <2>2, <3>2
    <3>. QED  BY <1>1, <3>1, <3>2
  <2>. QED  BY <1>1, <2>1, <2>2
<1>11. session'.lcpRemoteDone /\ ~session.lcpRemoteDone =>
           \E j \in New : Is(toGateway'[j], "LCP", "Ack")
  BY <1>2, <1>8
<1>. QED  BY <1>1, <1>9, <1>10, <1>11 DEF Sends

\* What the client can count on in the packet it reads next.
LEMMA HeadOfToClient ==
    ASSUME IInv, toClient # <<>>
    PROVE  LET h == Head(toClient)
           IN  /\ h \in Packets /\ h = toClient[1] /\ 1 \in DOMAIN toClient
               /\ Refuses(h, "IPCP") \/ Is(h, "IPCP", "Ack") => session.ipcpRequestSent
               /\ Is(h, "IPCP", "Nak") => \A o \in DOMAIN h.opts : h.opts[o] = "assigned"
               /\ Is(h, "IPCP", "Ack") => h.opts = Agreed
               /\ Is(h, "IPCP", "Request") /\ Readable(h) =>
                      "IP" \in DOMAIN h.opts /\ h.opts["IP"] = "assigned"
<1>. DEFINE h == Head(toClient)
<1>1. h \in Packets /\ h = toClient[1] /\ 1 \in DOMAIN toClient
  BY TailMoves DEF IInv, TypeOK
<1>2. (Refuses(h, "IPCP") \/ Is(h, "IPCP", "Ack")) => 1 \in Answered("IPCP")
  BY <1>1 DEF Refuses, Is, Answered, Answers
<1>3. (Refuses(h, "IPCP") \/ Is(h, "IPCP", "Ack")) => session.ipcpRequestSent
  BY <1>2 DEF IInv, Opened
<1>. QED  BY <1>1, <1>3 DEF IInv, Addressed, Is

\* A handler that ends in Negotiate's loop.
LEMMA HandlerSteps ==
    ASSUME IInv, toClient # <<>>, toClient' = Tail(toClient), NEW s, NEW replies,
           Handled(Head(toClient), s, replies), Continue(s, replies)
    PROVE  Takes /\ Learns(Head(toClient)) /\ Sends(Head(toClient))
<1>1. Takes
  BY DEF Takes, Continue
<1>2. Learns(Head(toClient))
  BY Learning DEF IInv
<1>3. \A o \in Addresses : session.requested[o] \in {"nil", "assigned"}
  BY DEF IInv, Addressed
<1>4. Refuses(Head(toClient), "IPCP") => session.lcpRemoteDone
  BY HeadOfToClient DEF IInv, Opened
<1>5. Sends(Head(toClient))
  BY <1>3, <1>4, Sending DEF IInv
<1>. QED  BY <1>1, <1>2, <1>5

\* A handler that fails the session, and only may send a packet that no one answers.
LEMMA FailureSteps ==
    ASSUME IInv, toClient # <<>>, toClient' = Tail(toClient),
           status' = "failed", UNCHANGED <<session, gateway, policy>>,
           ~Accepted(Head(toClient)), ~Is(Head(toClient), "LCP", "Ack"),
           ~Is(Head(toClient), "IPCP", "Ack"),
           ~(Is(Head(toClient), "IPCP", "Request") /\ Readable(Head(toClient))),
           \/ toGateway' = toGateway
           \/ \E p \in Packets : /\ p.code = "Terminate-Ack"
                                 /\ toGateway' = Append(toGateway, p)
    PROVE  Takes /\ Learns(Head(toClient)) /\ Sends(Head(toClient))
<1>1. Takes
  BY DEF Takes
<1>2. Learns(Head(toClient))
  BY DEF Learns, IInv, TypeOK
<1>3. toGateway \in Seq(Packets)
  BY DEF IInv, TypeOK
<1>4. ASSUME toGateway' = toGateway
      PROVE  Sends(Head(toClient))
  <2>1. /\ toGateway' \in Seq(Packets) /\ New = {}
        /\ DOMAIN toGateway \subseteq DOMAIN toGateway'
        /\ \A i \in DOMAIN toGateway : toGateway'[i] = toGateway[i]
    BY <1>3, <1>4 DEF New
  <2>2. OnlyAdds(toGateway, toGateway')
    BY <2>1 DEF OnlyAdds, New
  <2>. QED  BY <2>1, <2>2 DEF Sends
<1>5. ASSUME NEW p \in Packets, p.code = "Terminate-Ack", toGateway' = Append(toGateway, p)
      PROVE  Sends(Head(toClient))
  <2>1. /\ toGateway' \in Seq(Packets) /\ OnlyAdds(toGateway, toGateway')
        /\ \A i \in New : toGateway'[i] = p
    BY <1>3, <1>5 DEF OnlyAdds, New
  <2>2. \A i \in New : MaySend(Head(toClient), toGateway'[i], i)
    BY <2>1, <1>5 DEF MaySend, Is
  <2>. QED  BY <2>1, <2>2, <1>5 DEF Sends
<1>. QED  BY <1>1, <1>2, <1>4, <1>5

-----------------------------------------------------------------------------
(* Every action of the client takes, learns and sends so *)

ClientSteps == Takes /\ Learns(Head(toClient)) /\ Sends(Head(toClient))

LEMMA AnswerLcpRequestSteps == ASSUME IInv, AnswerLcpRequest PROVE ClientSteps
<1>. DEFINE h == Head(toClient)
            rejected == DOMAIN h.opts \ Acceptable
            refusal == Packet("LCP", "Reject", h.id, Named(rejected))
            ack == Packet("LCP", "Ack", h.id, h.opts)
            s == [session EXCEPT !.lcpRemoteDone = TRUE]
<1>1. toClient # <<>> /\ toClient' = Tail(toClient) /\ Asks(h)
  BY DEF AnswerLcpRequest, Receive, Asks, Is
<1>2. h \in Packets /\ h.opts \in Options /\ h.id \in 0..IdSpace - 1
  BY <1>1, HeadOfToClient DEF Packets
<1>3. session \in SessionType
  BY DEF IInv, TypeOK
<1>4. /\ rejected # {} => Continue(session, <<refusal>>)
      /\ rejected = {} => Continue(s, <<ack>>)
  BY DEF AnswerLcpRequest
<1>5. Accepted(h) <=> rejected = {}
  BY <1>1 DEF Accepted
<1>6. CASE rejected # {}
  <2>1. Named(rejected) \in Options /\ DOMAIN Named(rejected) = rejected
    BY <1>2, OptionsAre, NamedTyped
  <2>2. /\ refusal \in Packets /\ refusal.proto = "LCP" /\ refusal.code = "Reject"
        /\ refusal.id = h.id /\ refusal.opts = Named(rejected)
    <3>. HIDE DEF h, rejected
    <3>. QED  BY <1>2, <2>1, PacketTyped
  <2>. HIDE DEF refusal
  <2>3. Replies(h, session, refusal)
    BY <1>1, <1>5, <1>6, <2>1, <2>2 DEF Replies, Is
  <2>4. Handled(h, session, <<refusal>>)
    BY <1>1, <1>3, <1>5, <1>6, <2>2, <2>3 DEF Handled, Asks, Is
  <2>. QED  BY <1>1, <1>4, <1>6, <2>4, HandlerSteps DEF ClientSteps
<1>7. CASE rejected = {}
  <2>1. ack \in Packets /\ Is(ack, "LCP", "Ack") /\ ack.id = h.id
    BY <1>2, PacketTyped DEF Is
  <2>. HIDE DEF ack
  <2>2. Replies(h, s, ack)
    BY <1>5, <1>7, <2>1 DEF Replies, Is
  <2>3. /\ s \in SessionType /\ s.lcpRemoteDone
        /\ s.lcpLocalDone = session.lcpLocalDone /\ s.ipcpLocalDone = session.ipcpLocalDone
        /\ s.ipcpRemoteDone = session.ipcpRemoteDone
        /\ s.ipcpRequestSent = session.ipcpRequestSent /\ s.requested = session.requested
        /\ s.negotiated = session.negotiated /\ s.remoteIP = session.remoteIP
    BY <1>3 DEF SessionType
  <2>. HIDE DEF s
  <2>4. Handled(h, s, <<ack>>)
    BY <1>1, <1>5, <1>7, <2>1, <2>2, <2>3 DEF Handled, Asks, Is
  <2>. QED  BY <1>1, <1>4, <1>7, <2>4, HandlerSteps DEF ClientSteps
<1>. QED  BY <1>6, <1>7

LEMMA LcpAcknowledgedSteps == ASSUME IInv, LcpAcknowledged PROVE ClientSteps
<1>. DEFINE h == Head(toClient)
            s == [session EXCEPT !.lcpLocalDone = TRUE]
<1>1. /\ toClient # <<>> /\ toClient' = Tail(toClient)
      /\ h.proto = "LCP" /\ h.code = "Ack" /\ Continue(s, <<>>)
  BY DEF LcpAcknowledged, Receive
<1>2. session \in SessionType
  BY DEF IInv, TypeOK
<1>3. /\ s \in SessionType /\ s.lcpLocalDone
      /\ s.lcpRemoteDone = session.lcpRemoteDone /\ s.ipcpLocalDone = session.ipcpLocalDone
      /\ s.ipcpRemoteDone = session.ipcpRemoteDone
      /\ s.ipcpRequestSent = session.ipcpRequestSent /\ s.requested = session.requested
      /\ s.negotiated = session.negotiated /\ s.remoteIP = session.remoteIP
  BY <1>2 DEF SessionType
<1>. HIDE DEF s
<1>4. <<>> \in Seq(Packets)
  OBVIOUS
<1>5. Handled(h, s, <<>>)
  BY <1>1, <1>3, <1>4 DEF Handled, Accepted, Asks, Is
<1>. QED  BY <1>1, <1>5, HandlerSteps DEF ClientSteps

LEMMA LcpRefusedSteps ==
    ASSUME IInv, NEW code \in {"Nak", "Reject"}, LcpRefused(code) PROVE ClientSteps
<1>. DEFINE h == Head(toClient)
            id == NextId(session.identifier)
            s == [session EXCEPT !.identifier = id]
            again == LcpRequest(id, LcpOffer \ DOMAIN h.opts)
<1>1. /\ toClient # <<>> /\ toClient' = Tail(toClient)
      /\ h.proto = "LCP" /\ h.code = code /\ Continue(s, <<again>>)
  BY DEF LcpRefused, Receive
<1>2. session \in SessionType
  BY DEF IInv, TypeOK
<1>3. id \in 0..IdSpace - 1
  BY <1>2, NextIdTyped, PppBounds DEF SessionType
<1>. HIDE DEF id
<1>4. again \in Packets /\ again.proto = "LCP" /\ again.code = "Request"
  BY <1>3, LcpRequestTyped DEF Is
<1>. HIDE DEF again
<1>5. Replies(h, s, again)
  BY <1>1, <1>4 DEF Replies, Is, Refuses
<1>6. Handled(h, s, <<again>>)
  BY <1>1, <1>2, <1>3, <1>4, <1>5 DEF Handled, Accepted, Asks, Is, SessionType
<1>. QED  BY <1>1, <1>6, HandlerSteps DEF ClientSteps

\* A reply that no one waits for.
LEMMA CourtesySteps ==
    ASSUME IInv, toClient # <<>>, toClient' = Tail(toClient), NEW replies \in Seq(Packets),
           ~Asks(Head(toClient)), Head(toClient).code \notin {"Ack", "Nak", "Reject"},
           ~(Is(Head(toClient), "IPCP", "Request") /\ Readable(Head(toClient))),
           Continue(session, replies),
           replies = <<>> \/ \E p \in Packets : /\ replies = <<p>>
                                                /\ p.code \in {"Echo-Reply", "Terminate-Ack"}
    PROVE  ClientSteps
<1>. DEFINE h == Head(toClient)
<1>1. \A i, j \in DOMAIN replies : i = j
  OBVIOUS
<1>2. \A i \in DOMAIN replies : replies[i].code \in {"Echo-Reply", "Terminate-Ack"}
  OBVIOUS
<1>3. \A i \in DOMAIN replies : Replies(h, session, replies[i])
  BY <1>2 DEF Replies, Is
<1>4. session \in SessionType
  BY DEF IInv, TypeOK
<1>5. Handled(h, session, replies)
  BY <1>1, <1>3, <1>4 DEF Handled, Accepted, Is
<1>. QED  BY <1>5, HandlerSteps DEF ClientSteps

LEMMA EchoRequestedSteps == ASSUME IInv, EchoRequested PROVE ClientSteps
<1>. DEFINE h == Head(toClient)
            p == Packet("LCP", "Echo-Reply", h.id, NoOptions)
<1>1. /\ toClient # <<>> /\ toClient' = Tail(toClient)
      /\ h.proto = "LCP" /\ h.code = "Echo-Request" /\ Continue(session, <<p>>)
  BY DEF EchoRequested, Receive
<1>2. h.id \in 0..IdSpace - 1
  BY <1>1, HeadOfToClient DEF Packets
<1>3. NoOptions \in Options
  BY NamedTyped DEF NoOptions
<1>4. p \in Packets /\ p.code = "Echo-Reply"
  BY <1>2, <1>3, PacketTyped
<1>. HIDE DEF p
<1>5. <<p>> \in Seq(Packets)
  BY <1>4
<1>. QED  BY <1>1, <1>4, <1>5, CourtesySteps DEF Asks, Is

LEMMA IpcpTerminatedSteps == ASSUME IInv, IpcpTerminated PROVE ClientSteps
<1>. DEFINE h == Head(toClient)
            p == Packet("IPCP", "Terminate-Ack", h.id, NoOptions)
<1>1. /\ toClient # <<>> /\ toClient' = Tail(toClient)
      /\ h.proto = "IPCP" /\ h.code = "Terminate-Request" /\ Continue(session, <<p>>)
  BY DEF IpcpTerminated, Receive
<1>2. h.id \in 0..IdSpace - 1
  BY <1>1, HeadOfToClient DEF Packets
<1>3. NoOptions \in Options
  BY NamedTyped DEF NoOptions
<1>4. p \in Packets /\ p.code = "Terminate-Ack"
  BY <1>2, <1>3, PacketTyped
<1>. HIDE DEF p
<1>5. <<p>> \in Seq(Packets)
  BY <1>4
<1>. QED  BY <1>1, <1>4, <1>5, CourtesySteps DEF Asks, Is

LEMMA IgnoredSteps == ASSUME IInv, Ignored PROVE ClientSteps
<1>. DEFINE h == Head(toClient)
<1>1. /\ toClient # <<>> /\ toClient' = Tail(toClient) /\ Continue(session, <<>>)
      /\ h.code = "Other" \/ (h.proto = "IPv6CP" /\ h.code = "Request")
  BY DEF Ignored, Receive
<1>2. <<>> \in Seq(Packets)
  OBVIOUS
<1>. QED  BY <1>1, <1>2, CourtesySteps DEF Asks, Is

LEMMA LcpTerminatedSteps == ASSUME IInv, LcpTerminated PROVE ClientSteps
<1>. DEFINE h == Head(toClient)
            p == Packet("LCP", "Terminate-Ack", h.id, NoOptions)
<1>1. /\ toClient # <<>> /\ toClient' = Tail(toClient)
      /\ h.proto = "LCP" /\ h.code = "Terminate-Request"
      /\ toGateway' = Append(toGateway, p)
      /\ status' = "failed" /\ UNCHANGED <<session, gateway, policy>>
  BY DEF LcpTerminated, Receive
<1>2. h.id \in 0..IdSpace - 1
  BY <1>1, HeadOfToClient DEF Packets
<1>3. NoOptions \in Options
  BY NamedTyped DEF NoOptions
<1>4. p \in Packets /\ p.code = "Terminate-Ack"
  BY <1>2, <1>3, PacketTyped
<1>. HIDE DEF p
<1>. QED  BY <1>1, <1>4, FailureSteps DEF ClientSteps, Accepted, Asks, Is

LEMMA UnparsableSteps ==
    ASSUME IInv, NEW proto \in {"LCP", "IPCP"}, Unparsable(proto) PROVE ClientSteps
<1>1. /\ toClient # <<>> /\ toClient' = Tail(toClient)
      /\ Head(toClient).proto = proto /\ Head(toClient).code = "Request"
      /\ ~Readable(Head(toClient))
      /\ status' = "failed" /\ UNCHANGED <<session, toGateway, gateway, policy>>
  BY DEF Unparsable, Receive
<1>. QED  BY <1>1, FailureSteps DEF ClientSteps, Accepted, Asks, Is

LEMMA AnswerIpcpRequestSteps == ASSUME IInv, AnswerIpcpRequest PROVE ClientSteps
<1>. DEFINE h == Head(toClient)
            ack == Packet("IPCP", "Ack", h.id, h.opts)
            s == [session EXCEPT !.ipcpRemoteDone = TRUE, !.remoteIP = "assigned"]
<1>1. /\ toClient # <<>> /\ toClient' = Tail(toClient)
      /\ h.proto = "IPCP" /\ h.code = "Request" /\ Readable(h)
  BY DEF AnswerIpcpRequest, Receive
<1>2. /\ h \in Packets /\ h.opts \in Options /\ h.id \in 0..IdSpace - 1
      /\ "IP" \in DOMAIN h.opts /\ h.opts["IP"] = "assigned"
  BY <1>1, HeadOfToClient DEF Packets, Is
<1>3. session \in SessionType
  BY DEF IInv, TypeOK
<1>4. Continue([session EXCEPT !.ipcpRemoteDone = TRUE,
                               !.remoteIP = IF "IP" \in DOMAIN h.opts THEN h.opts["IP"] ELSE @],
               <<ack>>)
  BY DEF AnswerIpcpRequest
<1>5. Continue(s, <<ack>>)
  <2>1. [session EXCEPT !.ipcpRemoteDone = TRUE,
                        !.remoteIP = IF "IP" \in DOMAIN h.opts THEN h.opts["IP"] ELSE @] = s
    BY <1>2
  <2>. QED  BY <1>4, <2>1, Zenon
<1>6. ack \in Packets /\ ack.proto = "IPCP" /\ ack.code = "Ack"
  BY <1>2, PacketTyped
<1>. HIDE DEF ack
<1>7. /\ s \in SessionType /\ s.ipcpRemoteDone /\ s.remoteIP = "assigned"
      /\ s.lcpLocalDone = session.lcpLocalDone /\ s.ipcpLocalDone = session.ipcpLocalDone
      /\ s.lcpRemoteDone = session.lcpRemoteDone
      /\ s.ipcpRequestSent = session.ipcpRequestSent /\ s.requested = session.requested
      /\ s.negotiated = session.negotiated
  BY <1>3 DEF SessionType, Values
<1>. HIDE DEF s
<1>8. Replies(h, s, ack)
  BY <1>6 DEF Replies, Is
<1>9. Handled(h, s, <<ack>>)
  BY <1>1, <1>6, <1>7, <1>8 DEF Handled, Accepted, Asks, Is
<1>. QED  BY <1>1, <1>5, <1>9, HandlerSteps DEF ClientSteps

LEMMA IpcpAcknowledgedSteps == ASSUME IInv, IpcpAcknowledged PROVE ClientSteps
<1>. DEFINE h == Head(toClient)
            s == [session EXCEPT !.negotiated = Adopt(h.opts, @), !.ipcpLocalDone = TRUE]
<1>1. /\ toClient # <<>> /\ toClient' = Tail(toClient)
      /\ h.proto = "IPCP" /\ h.code = "Ack" /\ Continue(s, <<>>)
  BY DEF IpcpAcknowledged, Receive
<1>2. h.opts = Agreed
  BY <1>1, HeadOfToClient DEF Is
<1>3. session \in SessionType
  BY DEF IInv, TypeOK
<1>4. Adopt(h.opts, session.negotiated) = Agreed /\ Agreed \in [Addresses -> Values]
  BY <1>2 DEF Adopt, Agreed, Values
<1>5. /\ s \in SessionType /\ s.ipcpLocalDone /\ s.negotiated = Agreed
      /\ s.lcpLocalDone = session.lcpLocalDone /\ s.ipcpRemoteDone = session.ipcpRemoteDone
      /\ s.lcpRemoteDone = session.lcpRemoteDone
      /\ s.ipcpRequestSent = session.ipcpRequestSent /\ s.requested = session.requested
      /\ s.remoteIP = session.remoteIP
  BY <1>3, <1>4 DEF SessionType
<1>. HIDE DEF s
<1>6. <<>> \in Seq(Packets)
  OBVIOUS
<1>7. Handled(h, s, <<>>)
  BY <1>1, <1>5, <1>6 DEF Handled, Accepted, Asks, Is
<1>. QED  BY <1>1, <1>7, HandlerSteps DEF ClientSteps

\* IPCP's answers that the client does not like.
LEMMA AskAgainSteps ==
    ASSUME IInv, toClient # <<>>, toClient' = Tail(toClient), Refuses(Head(toClient), "IPCP"),
           NEW r \in [Addresses -> {"nil", "assigned"}],
           \A o \in Addresses : r[o] \in {session.requested[o], "nil", "assigned"},
           AskAgain([session EXCEPT !.requested = r])
    PROVE  ClientSteps
<1>. DEFINE h == Head(toClient)
            asked == [session EXCEPT !.requested = r]
            s == [asked EXCEPT !.identifier = NextId(@), !.ipcpRequestSent = TRUE]
<1>1. session \in SessionType /\ session.ipcpRequestSent
  BY HeadOfToClient DEF IInv, TypeOK
<1>2. asked \in SessionType /\ asked.requested = r
  BY <1>1 DEF SessionType, Values
<1>3. NextId(asked.identifier) \in 0..IdSpace - 1
  BY <1>2, NextIdTyped, PppBounds DEF SessionType
<1>4. /\ s \in SessionType /\ s.ipcpRequestSent /\ s.requested = r
      /\ s.lcpLocalDone = session.lcpLocalDone /\ s.ipcpLocalDone = session.ipcpLocalDone
      /\ s.lcpRemoteDone = session.lcpRemoteDone /\ s.ipcpRemoteDone = session.ipcpRemoteDone
      /\ s.negotiated = session.negotiated /\ s.remoteIP = session.remoteIP
  BY <1>1, <1>3 DEF SessionType, Values
<1>5. /\ IpcpRequest(asked) \in Packets /\ Is(IpcpRequest(asked), "IPCP", "Request")
      /\ IpcpRequest(asked).opts \in [Addresses -> {"unset", "assigned"}]
  BY <1>2, IpcpRequestTyped
<1>6. Continue(s, <<IpcpRequest(asked)>>)
  BY DEF AskAgain
<1>. HIDE DEF s, asked
<1>7. Replies(h, s, IpcpRequest(asked))
  BY <1>4, <1>5 DEF Replies, Is
<1>8. Handled(h, s, <<IpcpRequest(asked)>>)
  BY <1>1, <1>4, <1>5, <1>7 DEF Handled, Accepted, Asks, Is, Refuses
<1>. QED  BY <1>6, <1>8, HandlerSteps DEF ClientSteps

LEMMA IpcpSuggestedSteps == ASSUME IInv, IpcpSuggested PROVE ClientSteps
<1>. DEFINE h == Head(toClient)
            r == Adopt(h.opts, session.requested)
<1>1. /\ toClient # <<>> /\ toClient' = Tail(toClient) /\ Is(h, "IPCP", "Nak")
      /\ AskAgain([session EXCEPT !.requested = r])
  BY DEF IpcpSuggested, Receive, Is
<1>2. \A o \in DOMAIN h.opts : h.opts[o] = "assigned"
  BY <1>1, HeadOfToClient
<1>3. \A o \in Addresses : session.requested[o] \in {"nil", "assigned"}
  BY DEF IInv, Addressed
<1>4. r \in [Addresses -> {"nil", "assigned"}]
      /\ \A o \in Addresses : r[o] \in {session.requested[o], "nil", "assigned"}
  BY <1>2, <1>3 DEF Adopt
<1>. HIDE DEF r
<1>. QED  BY <1>1, <1>4, AskAgainSteps DEF Refuses, Is

LEMMA IpcpRejectedSteps == ASSUME IInv, IpcpRejected PROVE ClientSteps
<1>. DEFINE h == Head(toClient)
            r == [o \in Addresses |-> IF o \in DOMAIN h.opts THEN "nil" ELSE session.requested[o]]
<1>1. toClient # <<>> /\ toClient' = Tail(toClient) /\ Is(h, "IPCP", "Reject")
  BY DEF IpcpRejected, Receive, Is
<1>2. CASE "IP" \in DOMAIN h.opts
  <2>1. status' = "failed" /\ UNCHANGED <<session, toGateway, gateway, policy>>
    BY <1>2 DEF IpcpRejected
  <2>. QED  BY <1>1, <2>1, FailureSteps DEF ClientSteps, Accepted, Asks, Is
<1>3. CASE "IP" \notin DOMAIN h.opts
  <2>1. AskAgain([session EXCEPT !.requested = r])
    BY <1>3 DEF IpcpRejected
  <2>2. \A o \in Addresses : session.requested[o] \in {"nil", "assigned"}
    BY DEF IInv, Addressed
  <2>3. r \in [Addresses -> {"nil", "assigned"}]
        /\ \A o \in Addresses : r[o] \in {session.requested[o], "nil", "assigned"}
    BY <2>2
  <2>. HIDE DEF r
  <2>. QED  BY <1>1, <2>1, <2>3, AskAgainSteps DEF Refuses, Is
<1>. QED  BY <1>2, <1>3

LEMMA ClientTakesSteps == ASSUME IInv, Client PROVE ClientSteps
  BY AnswerLcpRequestSteps, LcpAcknowledgedSteps, LcpRefusedSteps, EchoRequestedSteps,
     LcpTerminatedSteps, AnswerIpcpRequestSteps, IpcpAcknowledgedSteps, IpcpSuggestedSteps,
     IpcpRejectedSteps, IpcpTerminatedSteps, IgnoredSteps, UnparsableSteps DEF Client

-----------------------------------------------------------------------------
(* The client keeps the invariant *)

LEMMA ClientKeepsIInv == ASSUME IInv, ClientSteps PROVE IInv'
<1>. DEFINE h == Head(toClient)
<1>1. /\ toClient # <<>> /\ h = toClient[1] /\ 1 \in DOMAIN toClient /\ h \in Packets
      /\ toClient' \in Seq(Packets)
      /\ \A i \in DOMAIN toClient' : /\ i + 1 \in DOMAIN toClient /\ i + 1 # 1
                                     /\ toClient'[i] = toClient[i + 1]
  BY TailMoves DEF ClientSteps, Takes, IInv, TypeOK
<1>2. Learns(h) /\ Sends(h) /\ UNCHANGED <<gateway, policy>>
  BY DEF ClientSteps, Takes
<1>3. /\ \A i \in DOMAIN toGateway : i \in DOMAIN toGateway' /\ toGateway'[i] = toGateway[i]
      /\ \A i \in DOMAIN toGateway' : i \in New \/ i \in DOMAIN toGateway
      /\ \A i \in DOMAIN toGateway, j \in New : i < j
      /\ \A i \in New : i \in DOMAIN toGateway' /\ MaySend(h, toGateway'[i], i)
  BY <1>2 DEF Sends, OnlyAdds, New
<1>. HIDE DEF h
<1>4. ASSUME NEW proto \in {"LCP", "IPCP"}, h.proto = proto, h.code \in Answers
      PROVE  Requests(proto) = {} /\ Answered(proto)' = {} /\ Answered(proto) # {}
  <2>1. 1 \in Answered(proto)
    BY <1>1, <1>4 DEF Answered
  <2>2. Requests(proto) = {} /\ \A i \in Answered(proto) : i = 1
    BY <2>1 DEF IInv, OneRequestOutstanding
  <2>3. \A i \in Answered(proto)' : i + 1 \in Answered(proto) /\ i + 1 # 1
    BY <1>1 DEF Answered
  <2>. QED  BY <2>1, <2>2, <2>3
<1>5. ASSUME NEW proto \in {"LCP", "IPCP"}, NEW i \in New, Is(toGateway'[i], proto, "Request")
      PROVE  Requests(proto) = {} /\ Answered(proto)' = {}
  <2>1. Refuses(h, proto) \/ (proto = "IPCP" /\ ~session.ipcpRequestSent)
    BY <1>3, <1>5 DEF MaySend, Is
  <2>2. CASE Refuses(h, proto)
    BY <1>4, <2>2 DEF Refuses, Answers
  <2>3. CASE proto = "IPCP" /\ ~session.ipcpRequestSent
    <3>1. Requests(proto) = {} /\ Answered(proto) = {}
      BY <2>3 DEF IInv, Opened
    <3>2. \A j \in Answered(proto)' : j + 1 \in Answered(proto)
      BY <1>1 DEF Answered
    <3>. QED  BY <3>1, <3>2
  <2>. QED  BY <2>1, <2>2, <2>3
<1>6. \A proto \in {"LCP", "IPCP"} :
          /\ \A i \in Requests(proto)' : /\ i \in Requests(proto) \/ i \in New
                                         /\ Is(toGateway'[i], proto, "Request")
          /\ \A i \in Answered(proto)' : i + 1 \in Answered(proto)
  BY <1>1, <1>3 DEF Requests, Answered, Is
<1>7. TypeOK'
  BY <1>1, <1>2 DEF IInv, TypeOK, Learns, Sends
<1>8. OneRequestOutstanding'
  <2>. SUFFICES ASSUME NEW proto \in {"LCP", "IPCP"}
                PROVE  /\ \A i, j \in Requests(proto)' : i = j
                       /\ \A i, j \in Answered(proto)' : i = j
                       /\ Requests(proto)' = {} \/ Answered(proto)' = {}
    BY DEF OneRequestOutstanding
  <2>1. /\ \A i, j \in Requests(proto) : i = j
        /\ \A i, j \in Answered(proto) : i = j
        /\ Requests(proto) = {} \/ Answered(proto) = {}
    BY DEF IInv, OneRequestOutstanding
  <2>2. ASSUME NEW i \in Requests(proto)', NEW j \in Requests(proto)' PROVE i = j
    <3>1. CASE i \in Requests(proto) /\ j \in Requests(proto)
      BY <2>1, <3>1
    <3>2. CASE i \in New \/ j \in New
      <4>1. i \in New /\ j \in New
        BY <1>5, <1>6, <3>2
      <4>2. /\ toGateway'[i].code = "Request" /\ toGateway'[j].code = "Request"
            /\ toGateway'[i].proto = toGateway'[j].proto
        BY <1>6 DEF Is
      <4>. QED  BY <1>2, <4>1, <4>2 DEF Sends
    <3>. QED  BY <1>6, <3>1, <3>2
  <2>3. ASSUME NEW i \in Answered(proto)', NEW j \in Answered(proto)' PROVE i = j
    <3>1. i \in Nat /\ j \in Nat /\ i + 1 = j + 1
      BY <1>1, <1>6, <2>1 DEF Answered
    <3>. QED  BY <3>1
  <2>4. Requests(proto)' = {} \/ Answered(proto)' = {}
    BY <1>5, <1>6, <2>1
  <2>. QED  BY <2>2, <2>3, <2>4
<1>9. Opened'
  <2>1. session'.ipcpRequestSent => session'.lcpLocalDone /\ session'.lcpRemoteDone
    BY <1>2 DEF Learns, IInv, Opened
  <2>2. ASSUME ~session'.ipcpRequestSent
        PROVE  Requests("IPCP")' = {} /\ Answered("IPCP")' = {}
    <3>1. Requests("IPCP") = {} /\ Answered("IPCP") = {}
      BY <1>2, <2>2 DEF Learns, IInv, Opened
    <3>2. \A i \in New : ~Is(toGateway'[i], "IPCP", "Request")
      BY <1>3, <2>2 DEF MaySend
    <3>. QED  BY <1>6, <3>1, <3>2
  <2>. QED  BY <2>1, <2>2 DEF Opened
<1>10. Granted'
  <2>1. \A i \in DOMAIN toClient' : Is(toClient'[i], "LCP", "Ack") => gateway'.lcpGranted
    BY <1>1, <1>2 DEF IInv, Granted
  <2>2. ASSUME session'.lcpLocalDone
        PROVE  gateway'.lcpGranted /\ Requests("LCP")' = {} /\ Answered("LCP")' = {}
    <3>1. CASE session.lcpLocalDone
      <4>1. gateway.lcpGranted /\ Requests("LCP") = {} /\ Answered("LCP") = {}
        BY <3>1 DEF IInv, Granted
      <4>2. ~Refuses(h, "LCP")
        BY <1>4, <4>1 DEF Refuses, Answers
      <4>3. \A i \in New : ~Is(toGateway'[i], "LCP", "Request")
        BY <1>3, <4>2 DEF MaySend
      <4>. QED  BY <1>2, <1>6, <4>1, <4>3
    <3>2. CASE Is(h, "LCP", "Ack")
      <4>1. gateway.lcpGranted /\ Requests("LCP") = {} /\ Answered("LCP")' = {}
        BY <1>1, <1>4, <3>2 DEF IInv, Granted, Is, Answers
      <4>2. \A i \in New : ~Is(toGateway'[i], "LCP", "Request")
        BY <1>3, <3>2 DEF MaySend, Refuses, Is
      <4>. QED  BY <1>2, <1>6, <4>1, <4>2
    <3>. QED  BY <1>2, <2>2, <3>1, <3>2 DEF Learns
  <2>. QED  BY <2>1, <2>2 DEF Granted
<1>11. AckAhead'
  <2>1. session.lcpRemoteDone => \/ gateway.lcpAcked
                                 \/ \E j \in DOMAIN toGateway : Is(toGateway[j], "LCP", "Ack")
    BY DEF IInv, AckAhead
  <2>2. session'.lcpRemoteDone => \/ gateway'.lcpAcked
                                  \/ \E j \in DOMAIN toGateway' : Is(toGateway'[j], "LCP", "Ack")
    BY <1>2, <1>3, <2>1 DEF Sends
  <2>3. ASSUME NEW k \in Requests("IPCP")'
        PROVE  \/ gateway'.lcpAcked
               \/ \E j \in DOMAIN toGateway' : j < k /\ Is(toGateway'[j], "LCP", "Ack")
    <3>1. CASE k \in Requests("IPCP")
      BY <1>2, <1>3, <3>1 DEF IInv, AckAhead
    <3>2. CASE k \in New
      <4>1. \/ session.lcpRemoteDone
            \/ \E j \in New : j < k /\ Is(toGateway'[j], "LCP", "Ack")
        BY <1>3, <1>6, <3>2 DEF MaySend
      <4>. QED  BY <1>2, <1>3, <2>1, <3>2, <4>1
    <3>. QED  BY <1>6, <3>1, <3>2
  <2>. QED  BY <2>2, <2>3 DEF AckAhead
<1>12. Numbered'
  <2>1. ASSUME NEW i \in DOMAIN toClient', Is(toClient'[i], "LCP", "Request"),
               Readable(toClient'[i])
        PROVE  /\ gateway'.lcpSent
               /\ "Auth" \in DOMAIN toClient'[i].opts =>
                      toClient'[i].id = 0 /\ "Auth" \in policy'.offers
               /\ DOMAIN toClient'[i].opts \subseteq Acceptable =>
                      \/ gateway'.lcpAcked
                      \/ (toClient'[i].id = gateway'.id /\ "Auth" \notin gateway'.offer)
               /\ DOMAIN toClient'[i].opts \subseteq Acceptable \union {"Auth"}
    BY <1>1, <1>2, <2>1 DEF IInv, Numbered
  <2>2. Asks(h) =>
            /\ gateway.lcpSent
            /\ "Auth" \in DOMAIN h.opts => h.id = 0 /\ "Auth" \in policy.offers
            /\ DOMAIN h.opts \subseteq Acceptable =>
                   \/ gateway.lcpAcked
                   \/ (h.id = gateway.id /\ "Auth" \notin gateway.offer)
            /\ DOMAIN h.opts \subseteq Acceptable \union {"Auth"}
    BY <1>1 DEF IInv, Numbered, Asks
  <2>3. ASSUME NEW i \in DOMAIN toGateway', Is(toGateway'[i], "LCP", "Ack")
        PROVE  /\ gateway'.lcpSent
               /\ \/ gateway'.lcpAcked
                  \/ (toGateway'[i].id = gateway'.id /\ "Auth" \notin gateway'.offer)
    <3>1. CASE i \in DOMAIN toGateway
      BY <1>2, <1>3, <2>3, <3>1 DEF IInv, Numbered
    <3>2. CASE i \in New
      BY <1>2, <1>3, <2>2, <2>3, <3>2 DEF MaySend, Accepted
    <3>. QED  BY <1>3, <3>1, <3>2
  <2>4. ASSUME NEW i \in DOMAIN toGateway', toGateway'[i].code = "Reject"
        PROVE  /\ toGateway'[i].proto = "LCP" /\ toGateway'[i].id = 0
               /\ DOMAIN toGateway'[i].opts = {"Auth"} /\ "Auth" \in policy'.offers
               /\ gateway'.lcpSent
    <3>1. CASE i \in DOMAIN toGateway
      BY <1>2, <1>3, <2>4, <3>1 DEF IInv, Numbered
    <3>2. CASE i \in New
      <4>1. /\ Asks(h) /\ ~Accepted(h) /\ toGateway'[i].proto = "LCP"
            /\ toGateway'[i].id = h.id /\ DOMAIN toGateway'[i].opts = DOMAIN h.opts \ Acceptable
        BY <1>3, <2>4, <3>2 DEF MaySend
      <4>2. "Auth" \in DOMAIN h.opts /\ DOMAIN h.opts \ Acceptable = {"Auth"}
        BY <2>2, <4>1 DEF Accepted, Acceptable
      <4>. QED  BY <1>2, <2>2, <4>1, <4>2
    <3>. QED  BY <1>3, <3>1, <3>2
  <2>5. /\ ~gateway'.lcpSent => gateway'.id = 0 /\ gateway'.offer = {} /\ ~gateway'.lcpAcked
        /\ gateway'.lcpSent => gateway'.offer \in {policy'.offers, policy'.offers \ {"Auth"}}
        /\ gateway'.lcpSent /\ ~gateway'.lcpAcked =>
               gateway'.id = IF gateway'.offer = policy'.offers THEN 0 ELSE NextId(0)
    BY <1>2 DEF IInv, Numbered
  <2>. QED  BY <2>1, <2>3, <2>4, <2>5 DEF Numbered
<1>13. Addressed'
  <2>1. \A o \in Addresses : session'.requested[o] \in {"nil", "assigned"}
    BY <1>2 DEF IInv, Addressed, Learns
  <2>2. ASSUME NEW i \in Requests("IPCP")'
        PROVE  toGateway'[i].opts \in [Addresses -> {"unset", "assigned"}]
    <3>1. CASE i \in Requests("IPCP")
      BY <1>3, <3>1 DEF IInv, Addressed, Requests
    <3>2. CASE i \in New
      BY <1>3, <1>6, <3>2 DEF MaySend
    <3>. QED  BY <1>6, <3>1, <3>2
  <2>3. ASSUME NEW i \in DOMAIN toClient'
        PROVE  /\ Is(toClient'[i], "IPCP", "Nak") =>
                      \A o \in DOMAIN toClient'[i].opts : toClient'[i].opts[o] = "assigned"
               /\ Is(toClient'[i], "IPCP", "Request") /\ Readable(toClient'[i]) =>
                      toClient'[i].opts = [o \in {"IP"} |-> "assigned"]
               /\ Is(toClient'[i], "IPCP", "Ack") =>
                      toClient'[i].opts = Agreed /\ gateway'.granted = Agreed /\ gateway'.ipcpGranted
    BY <1>1, <1>2 DEF IInv, Addressed
  <2>. QED  BY <2>1, <2>2, <2>3 DEF Addressed
<1>14. Settled'
  <2>1. ASSUME session'.ipcpLocalDone
        PROVE  /\ session'.ipcpRequestSent
               /\ Requests("IPCP")' = {} /\ Answered("IPCP")' = {}
               /\ session'.negotiated = Agreed
               /\ gateway'.granted = Agreed /\ gateway'.ipcpGranted
    <3>1. CASE Is(h, "IPCP", "Ack")
      <4>1. gateway.granted = Agreed /\ gateway.ipcpGranted
        BY <1>1, <3>1 DEF IInv, Addressed
      <4>2. Requests("IPCP") = {} /\ Answered("IPCP")' = {} /\ Answered("IPCP") # {}
        BY <1>4, <3>1 DEF Is, Answers
      <4>3. session.ipcpRequestSent
        BY <4>2 DEF IInv, Opened
      <4>4. \A i \in New : ~Is(toGateway'[i], "IPCP", "Request")
        BY <1>3, <3>1, <4>3 DEF MaySend, Refuses, Is
      <4>5. session'.ipcpRequestSent /\ session'.negotiated = Agreed
        BY <1>2, <3>1, <4>3 DEF Learns
      <4>. QED  BY <1>2, <1>6, <4>1, <4>2, <4>4, <4>5
    <3>2. CASE session.ipcpLocalDone /\ ~Is(h, "IPCP", "Ack")
      <4>1. /\ session.ipcpRequestSent /\ Requests("IPCP") = {} /\ Answered("IPCP") = {}
            /\ session.negotiated = Agreed /\ gateway.granted = Agreed /\ gateway.ipcpGranted
        BY <3>2 DEF IInv, Settled
      <4>2. ~Refuses(h, "IPCP")
        BY <1>4, <4>1 DEF Refuses, Answers
      <4>3. \A i \in New : ~Is(toGateway'[i], "IPCP", "Request")
        BY <1>3, <4>1, <4>2 DEF MaySend
      <4>4. session'.ipcpRequestSent /\ session'.negotiated = Agreed
        BY <1>2, <3>2, <4>1 DEF Learns
      <4>. QED  BY <1>2, <1>6, <4>1, <4>3, <4>4
    <3>. QED  BY <1>2, <2>1, <3>1, <3>2 DEF Learns
  <2>2. session'.ipcpRemoteDone => session'.remoteIP = "assigned"
    BY <1>2 DEF IInv, Settled, Learns
  <2>3. status' = "open" => session'.ipcpLocalDone /\ session'.ipcpRemoteDone
    BY <1>2 DEF IInv, Settled, Learns
  <2>. QED  BY <2>1, <2>2, <2>3 DEF Settled
<1>. QED  BY <1>7, <1>8, <1>9, <1>10, <1>11, <1>12, <1>13, <1>14 DEF IInv

-----------------------------------------------------------------------------
(* What the gateway does, on a packet or of its own accord *)

\* The packets a step sends to the client.
Given == DOMAIN toClient' \ DOMAIN toClient

\* What there is to read for a gateway that acts of its own accord.
Silence == [proto |-> "none", code |-> "none", id |-> 0, opts |-> NoOptions]

Hears(h) == \/ h = Silence /\ toGateway' = toGateway
            \/ toGateway # <<>> /\ h = Head(toGateway) /\ toGateway' = Tail(toGateway)

\* When it may send a packet p.
MayGive(h, p) ==
    /\ p.code \in Answers => p.proto \in {"LCP", "IPCP"} /\ Is(h, p.proto, "Request")
    /\ Is(p, "LCP", "Ack") => gateway'.lcpGranted
    /\ Is(p, "IPCP", "Ack") =>
           p.opts = Agreed /\ gateway'.granted = Agreed /\ gateway'.ipcpGranted
    /\ Is(p, "IPCP", "Nak") => \A o \in DOMAIN p.opts : p.opts[o] = "assigned"
    /\ Is(p, "IPCP", "Request") /\ Readable(p) => p.opts = [o \in {"IP"} |-> "assigned"]
    /\ Asks(p) => /\ p.id = gateway'.id /\ DOMAIN p.opts = gateway'.offer
                  /\ gateway'.lcpSent /\ ~gateway'.lcpAcked

Gives(h) ==
    /\ toClient' \in Seq(Packets) /\ OnlyAdds(toClient, toClient')
    /\ \A i \in Given : MayGive(h, toClient'[i])
    /\ \A i, j \in Given : i = j

\* What becomes of the number and the options of its own request.
KeepsNumber  == /\ gateway'.id = gateway.id /\ gateway'.offer = gateway.offer
                /\ gateway'.lcpSent = gateway.lcpSent
                /\ gateway'.lcpAcked => gateway.lcpAcked \/ gateway.lcpSent
StartsNumber == /\ ~gateway.lcpSent /\ gateway'.lcpSent
                /\ gateway'.offer = policy.offers /\ gateway'.id = gateway.id
                /\ gateway'.lcpAcked = gateway.lcpAcked
PastNumbers  == /\ gateway.lcpAcked /\ gateway'.offer = gateway.offer
                /\ gateway'.lcpSent = gateway.lcpSent
NextNumber(h) == /\ h.code = "Reject" /\ h.id = gateway.id /\ ~gateway.lcpAcked
                 /\ gateway'.offer = gateway.offer \ DOMAIN h.opts
                 /\ gateway'.id = NextId(gateway.id)
                 /\ gateway'.lcpSent = gateway.lcpSent /\ ~gateway'.lcpAcked

Moves(h) ==
    /\ gateway' \in GatewayType
    /\ gateway.lcpAcked => gateway'.lcpAcked
    /\ Is(h, "LCP", "Ack") => gateway'.lcpAcked
    /\ gateway'.lcpGranted = gateway.lcpGranted \/ Is(h, "LCP", "Request")
    /\ \/ gateway'.granted = gateway.granted /\ gateway'.ipcpGranted = gateway.ipcpGranted
       \/ Is(h, "IPCP", "Request")
    /\ KeepsNumber \/ StartsNumber \/ PastNumbers \/ NextNumber(h)

GatewaySteps(h) == /\ UNCHANGED <<status, session, policy>>
                   /\ Hears(h) /\ Gives(h) /\ Moves(h)

\* How the queue to the gateway looks to whoever reads it: shifted by e.
LEMMA HearingShifts ==
    ASSUME toGateway \in Seq(Packets), NEW h, Hears(h)
    PROVE  /\ toGateway' \in Seq(Packets)
           /\ \E e \in {0, 1} :
                  /\ e = 0 => h = Silence
                  /\ e = 1 => h = toGateway[1] /\ 1 \in DOMAIN toGateway
                  /\ \A i \in DOMAIN toGateway' : /\ i + e \in DOMAIN toGateway
                                                  /\ toGateway'[i] = toGateway[i + e]
                  /\ \A i \in DOMAIN toGateway :
                         \/ e = 1 /\ i = 1
                         \/ i - e \in DOMAIN toGateway' /\ toGateway'[i - e] = toGateway[i]
                  /\ e = 1 => \A i \in DOMAIN toGateway' : i + 1 # 1
<1>1. CASE h = Silence /\ toGateway' = toGateway
  <2>1. \A i \in DOMAIN toGateway : i + 0 = i /\ i - 0 = i
    OBVIOUS
  <2>2. /\ toGateway' \in Seq(Packets)
        /\ 0 = 0 => h = Silence
        /\ \A i \in DOMAIN toGateway' : /\ i + 0 \in DOMAIN toGateway
                                        /\ toGateway'[i] = toGateway[i + 0]
        /\ \A i \in DOMAIN toGateway : /\ i - 0 \in DOMAIN toGateway'
                                       /\ toGateway'[i - 0] = toGateway[i]
    BY <1>1, <2>1
  <2>. QED  BY <2>2
<1>2. CASE toGateway # <<>> /\ h = Head(toGateway) /\ toGateway' = Tail(toGateway)
  <2>1. /\ toGateway' \in Seq(Packets)
        /\ h = toGateway[1] /\ 1 \in DOMAIN toGateway
        /\ \A i \in DOMAIN toGateway' : /\ i + 1 \in DOMAIN toGateway
                                        /\ toGateway'[i] = toGateway[i + 1]
        /\ \A i \in DOMAIN toGateway :
               i = 1 \/ (i - 1 \in DOMAIN toGateway' /\ toGateway'[i - 1] = toGateway[i])
        /\ \A i \in DOMAIN toGateway' : i + 1 # 1
    BY <1>2, TailMoves
  <2>. QED  BY <2>1
<1>. QED  BY <1>1, <1>2 DEF Hears

LEMMA GatewayKeepsIInv == ASSUME IInv, NEW h, GatewaySteps(h) PROVE IInv'
<1>1. /\ Hears(h) /\ Gives(h) /\ Moves(h) /\ UNCHANGED <<status, session, policy>>
      /\ toGateway \in Seq(Packets)
  BY DEF GatewaySteps, IInv, TypeOK
<1>2. toGateway' \in Seq(Packets)
  BY <1>1, HearingShifts
<1>3. PICK e \in {0, 1} :
          /\ e = 0 => h = Silence
          /\ e = 1 => h = toGateway[1] /\ 1 \in DOMAIN toGateway
          /\ \A i \in DOMAIN toGateway' : /\ i + e \in DOMAIN toGateway
                                          /\ toGateway'[i] = toGateway[i + e]
          /\ \A i \in DOMAIN toGateway :
                 \/ e = 1 /\ i = 1
                 \/ i - e \in DOMAIN toGateway' /\ toGateway'[i - e] = toGateway[i]
          /\ e = 1 => \A i \in DOMAIN toGateway' : i + 1 # 1
  BY <1>1, HearingShifts
<1>4. /\ \A i \in DOMAIN toClient : i \in DOMAIN toClient' /\ toClient'[i] = toClient[i]
      /\ \A i \in DOMAIN toClient' : i \in Given \/ i \in DOMAIN toClient
      /\ \A i \in Given : i \in DOMAIN toClient' /\ MayGive(h, toClient'[i])
      /\ \A i, j \in Given : i = j
  BY <1>1 DEF Gives, OnlyAdds, Given
<1>5. ASSUME NEW proto \in {"LCP", "IPCP"}, Is(h, proto, "Request")
      PROVE  Answered(proto) = {} /\ Requests(proto)' = {} /\ Requests(proto) # {}
  <2>1. e = 1 /\ 1 \in Requests(proto)
    BY <1>3, <1>5 DEF Requests, Is, Silence
  <2>2. Answered(proto) = {} /\ \A i \in Requests(proto) : i = 1
    BY <2>1 DEF IInv, OneRequestOutstanding
  <2>3. \A i \in Requests(proto)' : i + 1 \in Requests(proto) /\ i + 1 # 1
    BY <1>3, <2>1 DEF Requests
  <2>. QED  BY <2>1, <2>2, <2>3
<1>6. \A proto \in {"LCP", "IPCP"} :
          /\ \A i \in Requests(proto)' : i + e \in Requests(proto)
          /\ \A i \in Answered(proto)' : \/ i \in Answered(proto)
                                         \/ i \in Given /\ Is(h, proto, "Request")
  BY <1>3, <1>4 DEF Requests, Answered, MayGive
<1>7. TypeOK'
  BY <1>1, <1>2 DEF IInv, TypeOK, Gives, Moves
<1>8. OneRequestOutstanding'
  <2>. SUFFICES ASSUME NEW proto \in {"LCP", "IPCP"}
                PROVE  /\ \A i, j \in Requests(proto)' : i = j
                       /\ \A i, j \in Answered(proto)' : i = j
                       /\ Requests(proto)' = {} \/ Answered(proto)' = {}
    BY DEF OneRequestOutstanding
  <2>1. /\ \A i, j \in Requests(proto) : i = j
        /\ \A i, j \in Answered(proto) : i = j
        /\ Requests(proto) = {} \/ Answered(proto) = {}
    BY DEF IInv, OneRequestOutstanding
  <2>2. ASSUME NEW i \in Requests(proto)', NEW j \in Requests(proto)' PROVE i = j
    <3>1. i \in Nat /\ j \in Nat /\ i + e = j + e
      BY <1>2, <1>6, <2>1 DEF Requests
    <3>. QED  BY <3>1
  <2>3. ASSUME NEW i \in Answered(proto)', NEW j \in Answered(proto)' PROVE i = j
    <3>1. CASE Is(h, proto, "Request")
      BY <1>4, <1>5, <1>6, <3>1
    <3>2. CASE ~Is(h, proto, "Request")
      BY <1>6, <2>1, <3>2
    <3>. QED  BY <3>1, <3>2
  <2>4. Requests(proto)' = {} \/ Answered(proto)' = {}
    <3>1. CASE Is(h, proto, "Request")
      BY <1>5, <3>1
    <3>2. CASE ~Is(h, proto, "Request")
      BY <1>6, <2>1, <3>2
    <3>. QED  BY <3>1, <3>2
  <2>. QED  BY <2>2, <2>3, <2>4
<1>9. Opened'
  <2>1. session'.ipcpRequestSent => session'.lcpLocalDone /\ session'.lcpRemoteDone
    BY <1>1 DEF IInv, Opened
  <2>2. ASSUME ~session'.ipcpRequestSent
        PROVE  Requests("IPCP")' = {} /\ Answered("IPCP")' = {}
    <3>1. Requests("IPCP") = {} /\ Answered("IPCP") = {}
      BY <1>1, <2>2 DEF IInv, Opened
    <3>. QED  BY <1>5, <1>6, <3>1
  <2>. QED  BY <2>1, <2>2 DEF Opened
<1>10. Granted'
  <2>1. ASSUME NEW i \in DOMAIN toClient', Is(toClient'[i], "LCP", "Ack")
        PROVE  gateway'.lcpGranted
    <3>1. CASE i \in Given
      BY <1>4, <2>1, <3>1 DEF MayGive
    <3>2. CASE i \in DOMAIN toClient
      <4>1. gateway.lcpGranted /\ i \in Answered("LCP")
        BY <1>4, <2>1, <3>2 DEF IInv, Granted, Answered, Is, Answers
      <4>2. ~Is(h, "LCP", "Request")
        BY <1>5, <4>1
      <4>. QED  BY <1>1, <4>1, <4>2 DEF Moves
    <3>. QED  BY <1>4, <3>1, <3>2
  <2>2. ASSUME session'.lcpLocalDone
        PROVE  gateway'.lcpGranted /\ Requests("LCP")' = {} /\ Answered("LCP")' = {}
    <3>1. gateway.lcpGranted /\ Requests("LCP") = {} /\ Answered("LCP") = {}
      BY <1>1, <2>2 DEF IInv, Granted
    <3>2. ~Is(h, "LCP", "Request")
      BY <1>5, <3>1
    <3>. QED  BY <1>1, <1>6, <3>1, <3>2 DEF Moves
  <2>. QED  BY <2>1, <2>2 DEF Granted
<1>11. AckAhead'
  <2>1. ASSUME NEW j \in DOMAIN toGateway, Is(toGateway[j], "LCP", "Ack")
        PROVE  \/ gateway'.lcpAcked
               \/ /\ j - e \in DOMAIN toGateway'
                  /\ Is(toGateway'[j - e], "LCP", "Ack")
    BY <1>1, <1>3, <2>1 DEF Moves
  <2>2. session'.lcpRemoteDone =>
            \/ gateway'.lcpAcked
            \/ \E j \in DOMAIN toGateway' : Is(toGateway'[j], "LCP", "Ack")
    BY <1>1, <2>1 DEF IInv, AckAhead, Moves
  <2>3. ASSUME NEW k \in Requests("IPCP")'
        PROVE  \/ gateway'.lcpAcked
               \/ \E j \in DOMAIN toGateway' : j < k /\ Is(toGateway'[j], "LCP", "Ack")
    <3>1. k + e \in Requests("IPCP") /\ k \in Nat
      BY <1>2, <1>6 DEF Requests
    <3>2. CASE gateway.lcpAcked
      BY <1>1, <3>2 DEF Moves
    <3>3. ASSUME NEW j \in DOMAIN toGateway, j < k + e, Is(toGateway[j], "LCP", "Ack")
          PROVE  \/ gateway'.lcpAcked
                 \/ \E i \in DOMAIN toGateway' : i < k /\ Is(toGateway'[i], "LCP", "Ack")
      <4>1. j - e < k
        BY <1>1, <3>1, <3>3
      <4>. QED  BY <2>1, <3>3, <4>1
    <3>. QED  BY <3>1, <3>2, <3>3 DEF IInv, AckAhead
  <2>. QED  BY <2>2, <2>3 DEF AckAhead
<1>12. ASSUME NextNumber(h)
       PROVE  /\ gateway.lcpSent /\ "Auth" \in policy.offers
              /\ gateway'.offer = policy.offers \ {"Auth"} /\ gateway'.id = NextId(0)
              /\ "Auth" \notin gateway.offer => gateway'.id = gateway.id
  <2>1. e = 1 /\ h = toGateway[1] /\ 1 \in DOMAIN toGateway
    BY <1>3, <1>12 DEF NextNumber, Silence
  <2>2. /\ h.id = 0 /\ DOMAIN h.opts = {"Auth"} /\ "Auth" \in policy.offers /\ gateway.lcpSent
    BY <1>12, <2>1 DEF IInv, Numbered, NextNumber
  <2>3. /\ gateway.id = 0 /\ gateway.offer \in {policy.offers, policy.offers \ {"Auth"}}
        /\ gateway.id = IF gateway.offer = policy.offers THEN 0 ELSE NextId(0)
    BY <1>12, <2>2 DEF IInv, Numbered, NextNumber
  <2>4. gateway'.offer = gateway.offer \ {"Auth"} /\ gateway'.id = NextId(0)
    BY <1>12, <2>2, <2>3 DEF NextNumber
  <2>5. gateway'.offer = policy.offers \ {"Auth"}
    BY <2>3, <2>4
  <2>6. ASSUME "Auth" \notin gateway.offer PROVE gateway'.id = gateway.id
    BY <2>2, <2>3, <2>4, <2>6
  <2>. QED  BY <2>2, <2>4, <2>5, <2>6
<1>13. ASSUME gateway.lcpSent PROVE gateway'.lcpSent
  BY <1>1, <1>13 DEF Moves, KeepsNumber, StartsNumber, PastNumbers, NextNumber
<1>14. ASSUME NEW n, gateway.lcpSent,
              gateway.lcpAcked \/ (n = gateway.id /\ "Auth" \notin gateway.offer)
       PROVE  gateway'.lcpAcked \/ (n = gateway'.id /\ "Auth" \notin gateway'.offer)
  <2>1. CASE gateway.lcpAcked
    BY <1>1, <2>1 DEF Moves
  <2>2. CASE NextNumber(h)
    BY <1>12, <1>14, <2>2 DEF NextNumber
  <2>3. CASE KeepsNumber
    BY <1>14, <2>1, <2>3 DEF KeepsNumber
  <2>4. CASE ~gateway.lcpAcked /\ (StartsNumber \/ PastNumbers)
    BY <1>14, <2>4 DEF StartsNumber, PastNumbers
  <2>. QED  BY <1>1, <2>1, <2>2, <2>3, <2>4 DEF Moves
<1>15. /\ ~gateway'.lcpSent => gateway'.id = 0 /\ gateway'.offer = {} /\ ~gateway'.lcpAcked
       /\ gateway'.lcpSent => gateway'.offer \in {policy'.offers, policy'.offers \ {"Auth"}}
       /\ gateway'.lcpSent /\ ~gateway'.lcpAcked =>
              gateway'.id = IF gateway'.offer = policy'.offers THEN 0 ELSE NextId(0)
  <2>1. /\ ~gateway.lcpSent => gateway.id = 0 /\ gateway.offer = {} /\ ~gateway.lcpAcked
        /\ gateway.lcpSent => gateway.offer \in {policy.offers, policy.offers \ {"Auth"}}
        /\ gateway.lcpSent /\ ~gateway.lcpAcked =>
               gateway.id = IF gateway.offer = policy.offers THEN 0 ELSE NextId(0)
    BY DEF IInv, Numbered
  <2>2. policy' = policy /\ (gateway.lcpAcked => gateway'.lcpAcked)
    BY <1>1 DEF Moves
  <2>3. CASE KeepsNumber
    BY <2>1, <2>2, <2>3 DEF KeepsNumber
  <2>4. CASE StartsNumber
    BY <2>1, <2>2, <2>4 DEF StartsNumber
  <2>5. CASE PastNumbers
    BY <2>1, <2>2, <2>5 DEF PastNumbers
  <2>6. CASE NextNumber(h)
    <3>1. gateway'.offer # policy.offers
      BY <1>12, <2>6
    <3>. QED  BY <1>12, <1>13, <2>2, <2>6, <3>1
  <2>. QED  BY <1>1, <2>3, <2>4, <2>5, <2>6 DEF Moves
<1>16. Numbered'
  <2>1. ASSUME NEW i \in DOMAIN toClient', Is(toClient'[i], "LCP", "Request"),
               Readable(toClient'[i])
        PROVE  /\ gateway'.lcpSent
               /\ "Auth" \in DOMAIN toClient'[i].opts =>
                      toClient'[i].id = 0 /\ "Auth" \in policy'.offers
               /\ DOMAIN toClient'[i].opts \subseteq Acceptable =>
                      \/ gateway'.lcpAcked
                      \/ (toClient'[i].id = gateway'.id /\ "Auth" \notin gateway'.offer)
               /\ DOMAIN toClient'[i].opts \subseteq Acceptable \union {"Auth"}
    <3>1. CASE i \in Given
      <4>1. /\ toClient'[i].id = gateway'.id /\ DOMAIN toClient'[i].opts = gateway'.offer
            /\ gateway'.lcpSent /\ ~gateway'.lcpAcked
        BY <1>4, <2>1, <3>1 DEF MayGive, Asks
      <4>2. gateway'.offer \subseteq Acceptable \union {"Auth"}
        BY <1>1 DEF Moves, GatewayType, Acceptable
      <4>3. "Auth" \in gateway'.offer => gateway'.id = 0 /\ "Auth" \in policy'.offers
        BY <1>15, <4>1
      <4>4. gateway'.offer \subseteq Acceptable => "Auth" \notin gateway'.offer
        BY DEF Acceptable
      <4>. QED  BY <4>1, <4>2, <4>3, <4>4
    <3>2. CASE i \in DOMAIN toClient
      <4>1. /\ gateway.lcpSent
            /\ "Auth" \in DOMAIN toClient[i].opts =>
                   toClient[i].id = 0 /\ "Auth" \in policy.offers
            /\ DOMAIN toClient[i].opts \subseteq Acceptable =>
                   \/ gateway.lcpAcked
                   \/ (toClient[i].id = gateway.id /\ "Auth" \notin gateway.offer)
            /\ DOMAIN toClient[i].opts \subseteq Acceptable \union {"Auth"}
        BY <1>4, <2>1, <3>2 DEF IInv, Numbered
      <4>. QED  BY <1>1, <1>4, <1>13, <1>14, <3>2, <4>1
    <3>. QED  BY <1>4, <3>1, <3>2
  <2>2. ASSUME NEW i \in DOMAIN toGateway', Is(toGateway'[i], "LCP", "Ack")
        PROVE  /\ gateway'.lcpSent
               /\ \/ gateway'.lcpAcked
                  \/ (toGateway'[i].id = gateway'.id /\ "Auth" \notin gateway'.offer)
    <3>1. /\ gateway.lcpSent
          /\ \/ gateway.lcpAcked
             \/ (toGateway'[i].id = gateway.id /\ "Auth" \notin gateway.offer)
      BY <1>3, <2>2 DEF IInv, Numbered
    <3>. QED  BY <1>13, <1>14, <3>1
  <2>3. ASSUME NEW i \in DOMAIN toGateway', toGateway'[i].code = "Reject"
        PROVE  /\ toGateway'[i].proto = "LCP" /\ toGateway'[i].id = 0
               /\ DOMAIN toGateway'[i].opts = {"Auth"} /\ "Auth" \in policy'.offers
               /\ gateway'.lcpSent
    BY <1>1, <1>3, <1>13, <2>3 DEF IInv, Numbered
  <2>. QED  BY <1>15, <2>1, <2>2, <2>3 DEF Numbered
<1>17. Addressed'
  <2>1. \A o \in Addresses : session'.requested[o] \in {"nil", "assigned"}
    BY <1>1 DEF IInv, Addressed
  <2>2. \A i \in Requests("IPCP")' : toGateway'[i].opts \in [Addresses -> {"unset", "assigned"}]
    BY <1>3, <1>6 DEF IInv, Addressed, Requests
  <2>3. ASSUME NEW i \in DOMAIN toClient'
        PROVE  /\ Is(toClient'[i], "IPCP", "Nak") =>
                      \A o \in DOMAIN toClient'[i].opts : toClient'[i].opts[o] = "assigned"
               /\ Is(toClient'[i], "IPCP", "Request") /\ Readable(toClient'[i]) =>
                      toClient'[i].opts = [o \in {"IP"} |-> "assigned"]
    BY <1>4 DEF IInv, Addressed, MayGive
  <2>4. ASSUME NEW i \in DOMAIN toClient', Is(toClient'[i], "IPCP", "Ack")
        PROVE  toClient'[i].opts = Agreed /\ gateway'.granted = Agreed /\ gateway'.ipcpGranted
    <3>1. CASE i \in Given
      BY <1>4, <2>4, <3>1 DEF MayGive
    <3>2. CASE i \in DOMAIN toClient
      <4>1. /\ toClient[i].opts = Agreed /\ gateway.granted = Agreed /\ gateway.ipcpGranted
            /\ i \in Answered("IPCP")
        BY <1>4, <2>4, <3>2 DEF IInv, Addressed, Answered, Is, Answers
      <4>2. ~Is(h, "IPCP", "Request")
        BY <1>5, <4>1
      <4>. QED  BY <1>1, <1>4, <3>2, <4>1, <4>2 DEF Moves
    <3>. QED  BY <1>4, <3>1, <3>2
  <2>. QED  BY <2>1, <2>2, <2>3, <2>4 DEF Addressed
<1>18. Settled'
  <2>1. ASSUME session'.ipcpLocalDone
        PROVE  /\ session'.ipcpRequestSent
               /\ Requests("IPCP")' = {} /\ Answered("IPCP")' = {}
               /\ session'.negotiated = Agreed
               /\ gateway'.granted = Agreed /\ gateway'.ipcpGranted
    <3>1. /\ session.ipcpRequestSent /\ Requests("IPCP") = {} /\ Answered("IPCP") = {}
          /\ session.negotiated = Agreed /\ gateway.granted = Agreed /\ gateway.ipcpGranted
      BY <1>1, <2>1 DEF IInv, Settled
    <3>2. ~Is(h, "IPCP", "Request")
      BY <1>5, <3>1
    <3>. QED  BY <1>1, <1>6, <3>1, <3>2 DEF Moves
  <2>2. /\ session'.ipcpRemoteDone => session'.remoteIP = "assigned"
        /\ status' = "open" => session'.ipcpLocalDone /\ session'.ipcpRemoteDone
    BY <1>1 DEF IInv, Settled
  <2>. QED  BY <2>1, <2>2 DEF Settled
<1>. QED  BY <1>7, <1>8, <1>9, <1>10, <1>11, <1>16, <1>17, <1>18 DEF IInv

-----------------------------------------------------------------------------
(* Every action of the gateway hears, gives and moves so *)

LEMMA GivesNothing ==
    ASSUME IInv, NEW h, toClient' = toClient \o <<>> PROVE Gives(h)
<1>1. toClient' = toClient /\ toClient \in Seq(Packets)
  BY DEF IInv, TypeOK
<1>2. Given = {} /\ OnlyAdds(toClient, toClient')
  BY <1>1 DEF Given, OnlyAdds
<1>. QED  BY <1>1, <1>2 DEF Gives

LEMMA GivesOne ==
    ASSUME IInv, NEW h, NEW p \in Packets, toClient' = toClient \o <<p>>, MayGive(h, p)
    PROVE  Gives(h)
<1>. DEFINE t == <<p>>
<1>1. /\ toClient \in Seq(Packets) /\ t \in Seq(Packets) /\ DOMAIN t = {1} /\ t[1] = p
      /\ toClient' = toClient \o t
  BY DEF IInv, TypeOK
<1>. HIDE DEF t
<1>2. /\ toClient' \in Seq(Packets) /\ OnlyAdds(toClient, toClient')
      /\ \A i \in Given : i - Len(toClient) \in DOMAIN t /\ toClient'[i] = t[i - Len(toClient)]
  BY <1>1, Appends DEF Given
<1>3. ASSUME NEW i \in Given PROVE i = Len(toClient) + 1 /\ toClient'[i] = p
  <2>1. i \in Nat /\ Len(toClient) \in Nat
    BY <1>1, <1>2 DEF Given
  <2>2. i - Len(toClient) = 1
    BY <1>1, <1>2
  <2>. QED  BY <1>1, <1>2, <2>1, <2>2
<1>. QED  BY <1>2, <1>3 DEF Gives

LEMMA GatewayRequestTyped ==
    ASSUME NEW g \in GatewayType
    PROVE  /\ GatewayRequest(g, "LCP") \in Packets
           /\ GatewayRequest(g, "LCP").proto = "LCP" /\ GatewayRequest(g, "LCP").code = "Request"
           /\ GatewayRequest(g, "LCP").id = g.id
           /\ DOMAIN GatewayRequest(g, "LCP").opts = g.offer
           /\ GatewayRequest(g, "IPCP") \in Packets
           /\ GatewayRequest(g, "IPCP").proto = "IPCP" /\ GatewayRequest(g, "IPCP").code = "Request"
           /\ GatewayRequest(g, "IPCP").opts = [o \in {"IP"} |-> "assigned"]
<1>1. g.id \in 0..IdSpace - 1 /\ g.offer \in SUBSET OptionNames
  BY DEF GatewayType, OptionNames, LcpOffer
<1>2. Named(g.offer) \in Options /\ DOMAIN Named(g.offer) = g.offer
  BY <1>1, NamedTyped
<1>. DEFINE f == [o \in {"IP"} |-> "assigned"]
<1>3. f \in Options
  <2>1. /\ f = [o \in DOMAIN f |-> f[o]] /\ DOMAIN f \subseteq OptionNames
        /\ \A o \in DOMAIN f : f[o] \in Values \union {"-"}
    BY DEF OptionNames, Addresses, Values
  <2>. HIDE DEF f
  <2>. QED  BY <2>1, OptionsTyped
<1>4. /\ GatewayRequest(g, "LCP") = Packet("LCP", "Request", g.id, Named(g.offer))
      /\ GatewayRequest(g, "IPCP") = Packet("IPCP", "Request", g.id, f)
  BY DEF GatewayRequest
<1>. HIDE DEF f
<1>5. /\ GatewayRequest(g, "LCP") \in Packets
      /\ GatewayRequest(g, "LCP").proto = "LCP" /\ GatewayRequest(g, "LCP").code = "Request"
      /\ GatewayRequest(g, "LCP").id = g.id /\ GatewayRequest(g, "LCP").opts = Named(g.offer)
  BY <1>1, <1>2, <1>4, PacketTyped
<1>6. /\ GatewayRequest(g, "IPCP") \in Packets
      /\ GatewayRequest(g, "IPCP").proto = "IPCP" /\ GatewayRequest(g, "IPCP").code = "Request"
      /\ GatewayRequest(g, "IPCP").opts = f
  BY <1>1, <1>3, <1>4, PacketTyped
<1>. QED  BY <1>2, <1>5, <1>6 DEF f

LEMMA PolicyTyped ==
    ASSUME IInv PROVE policy.offers \subseteq {"MRU", "ACCM", "Magic", "Auth"}
  BY PoliciesAreTyped DEF IInv, TypeOK, PolicyType

\* What a gateway sends without an occasion leaves all but its count as it is.
LEMMA UnaskedSteps ==
    ASSUME IInv, NEW g \in GatewayType, NEW p \in Packets, Unasked(g, p),
           toGateway' = toGateway, g.unasked = gateway.unasked,
           g.id = gateway.id, g.offer = gateway.offer, g.lcpSent = gateway.lcpSent,
           g.lcpAcked = gateway.lcpAcked, g.lcpGranted = gateway.lcpGranted,
           g.granted = gateway.granted, g.ipcpGranted = gateway.ipcpGranted,
           p.code \notin Answers,
           Is(p, "IPCP", "Request") /\ Readable(p) => p.opts = [o \in {"IP"} |-> "assigned"],
           Asks(p) => /\ p.id = gateway.id /\ DOMAIN p.opts = gateway.offer
                      /\ gateway.lcpSent /\ ~gateway.lcpAcked
    PROVE  GatewaySteps(Silence)
<1>. DEFINE new == [g EXCEPT !.unasked = @ + 1]
<1>1. /\ gateway.unasked < MaxUnasked /\ gateway' = new /\ toClient' = toClient \o <<p>>
      /\ UNCHANGED <<status, session, policy>>
  BY DEF Unasked, ToClient
<1>2. gateway.unasked \in Nat /\ gateway.unasked + 1 \in 0..MaxUnasked
  BY <1>1, PppBounds DEF IInv, TypeOK, GatewayType
<1>3. /\ gateway' \in GatewayType
      /\ gateway'.id = gateway.id /\ gateway'.offer = gateway.offer
      /\ gateway'.lcpSent = gateway.lcpSent /\ gateway'.lcpAcked = gateway.lcpAcked
      /\ gateway'.lcpGranted = gateway.lcpGranted
      /\ gateway'.granted = gateway.granted /\ gateway'.ipcpGranted = gateway.ipcpGranted
  BY <1>1, <1>2 DEF GatewayType
<1>4. Moves(Silence)
  BY <1>3 DEF Moves, KeepsNumber, Silence, Is
<1>5. MayGive(Silence, p)
  BY <1>3 DEF MayGive, Is, Answers
<1>6. Gives(Silence)
  BY <1>1, <1>5, GivesOne
<1>. QED  BY <1>1, <1>4, <1>6 DEF GatewaySteps, Hears

LEMMA GatewayMaySteps == ASSUME IInv, GatewayMay PROVE GatewaySteps(Silence)
<1>1. /\ gateway \in GatewayType /\ gateway.id \in 0..IdSpace - 1
      /\ toGateway' = toGateway
  BY DEF IInv, TypeOK, GatewayType, GatewayMay, GatewayResendsLcp, GatewayResendsIpcp,
         GatewayEchoes, GatewayTerminatesLcp, GatewayTerminatesIpcp, GatewayNoise, GatewayGarbles, Unasked
<1>2. /\ NoOptions \in Options
      /\ Named({"Broken"}) \in Options /\ DOMAIN Named({"Broken"}) = {"Broken"}
  BY NamedTyped DEF NoOptions, OptionNames
<1>3. CASE GatewayResendsLcp
  <2>1. GatewayRequest(gateway, "LCP").code \notin Answers
        /\ ~Is(GatewayRequest(gateway, "LCP"), "IPCP", "Request")
    BY <1>1, GatewayRequestTyped DEF Answers, Is
  <2>. QED  BY <1>1, <1>3, <2>1, GatewayRequestTyped, UnaskedSteps DEF GatewayResendsLcp
<1>4. CASE GatewayResendsIpcp
  <2>1. GatewayRequest(gateway, "IPCP").code \notin Answers
        /\ ~Asks(GatewayRequest(gateway, "IPCP"))
    BY <1>1, GatewayRequestTyped DEF Answers, Asks, Is
  <2>. QED  BY <1>1, <1>4, <2>1, GatewayRequestTyped, UnaskedSteps DEF GatewayResendsIpcp
<1>5. CASE GatewayEchoes
  <2>. DEFINE p == Packet("LCP", "Echo-Request", gateway.id, NoOptions)
              g == [gateway EXCEPT !.echo = TRUE]
  <2>1. p \in Packets /\ p.code = "Echo-Request"
    BY <1>1, <1>2, PacketTyped
  <2>2. /\ g \in GatewayType /\ g.unasked = gateway.unasked
        /\ g.id = gateway.id /\ g.offer = gateway.offer /\ g.lcpSent = gateway.lcpSent
        /\ g.lcpAcked = gateway.lcpAcked /\ g.lcpGranted = gateway.lcpGranted
        /\ g.granted = gateway.granted /\ g.ipcpGranted = gateway.ipcpGranted
    BY <1>1 DEF GatewayType
  <2>3. Unasked(g, p)
    BY <1>5 DEF GatewayEchoes
  <2>. HIDE DEF p, g
  <2>. QED  BY <1>1, <2>1, <2>2, <2>3, UnaskedSteps DEF Answers, Asks, Is
<1>6. CASE GatewayTerminatesLcp
  <2>. DEFINE p == Packet("LCP", "Terminate-Request", gateway.id, NoOptions)
              g == [gateway EXCEPT !.terminated = TRUE]
  <2>1. p \in Packets /\ p.code = "Terminate-Request"
    BY <1>1, <1>2, PacketTyped
  <2>2. /\ g \in GatewayType /\ g.unasked = gateway.unasked
        /\ g.id = gateway.id /\ g.offer = gateway.offer /\ g.lcpSent = gateway.lcpSent
        /\ g.lcpAcked = gateway.lcpAcked /\ g.lcpGranted = gateway.lcpGranted
        /\ g.granted = gateway.granted /\ g.ipcpGranted = gateway.ipcpGranted
    BY <1>1 DEF GatewayType
  <2>3. Unasked(g, p)
    BY <1>6 DEF GatewayTerminatesLcp
  <2>. HIDE DEF p, g
  <2>. QED  BY <1>1, <2>1, <2>2, <2>3, UnaskedSteps DEF Answers, Asks, Is
<1>7. CASE GatewayTerminatesIpcp
  <2>. DEFINE p == Packet("IPCP", "Terminate-Request", gateway.id, NoOptions)
  <2>1. p \in Packets /\ p.code = "Terminate-Request"
    BY <1>1, <1>2, PacketTyped
  <2>2. Unasked(gateway, p)
    BY <1>7 DEF GatewayTerminatesIpcp
  <2>. HIDE DEF p
  <2>. QED  BY <1>1, <2>1, <2>2, UnaskedSteps DEF Answers, Asks, Is
<1>8. CASE GatewayNoise
  <2>1. PICK t \in {<<"LCP", "Other">>, <<"IPCP", "Other">>, <<"IPv6CP", "Request">>} :
            Unasked(gateway, Packet(t[1], t[2], gateway.id, NoOptions))
    BY <1>8 DEF GatewayNoise
  <2>. DEFINE p == Packet(t[1], t[2], gateway.id, NoOptions)
  <2>2. t[1] \in {"LCP", "IPCP", "IPv6CP"} /\ t[2] \in {"Other", "Request"}
        /\ (t[2] = "Other" \/ t[1] = "IPv6CP")
    OBVIOUS
  <2>3. /\ p \in Packets /\ p.code \in {"Other", "Request"}
        /\ p.code = "Other" \/ p.proto = "IPv6CP"
    BY <1>1, <1>2, <2>2, PacketTyped
  <2>4. Unasked(gateway, p)
    BY <2>1
  <2>. HIDE DEF p
  <2>. QED  BY <1>1, <2>3, <2>4, UnaskedSteps DEF Answers, Asks, Is
<1>9. CASE GatewayGarbles
  <2>1. PICK proto \in {"LCP", "IPCP"} :
            Unasked(gateway, Packet(proto, "Request", gateway.id, Named({"Broken"})))
    BY <1>9 DEF GatewayGarbles
  <2>. DEFINE p == Packet(proto, "Request", gateway.id, Named({"Broken"}))
  <2>2. p \in Packets /\ p.code = "Request" /\ p.opts = Named({"Broken"})
    BY <1>1, <1>2, PacketTyped
  <2>3. Unasked(gateway, p)
    BY <2>1
  <2>. HIDE DEF p
  <2>4. ~Readable(p)
    BY <1>2, <2>2 DEF Readable
  <2>. QED  BY <1>1, <2>2, <2>3, <2>4, UnaskedSteps DEF Answers, Asks
<1>. QED  BY <1>3, <1>4, <1>5, <1>6, <1>7, <1>8, <1>9 DEF GatewayMay

LEMMA GatewayStartsSteps ==
    ASSUME IInv, GatewayStartsLcp \/ GatewayStartsIpcp PROVE GatewaySteps(Silence)
<1>1. gateway \in GatewayType
  BY DEF IInv, TypeOK
<1>2. CASE GatewayStartsLcp
  <2>. DEFINE g == [gateway EXCEPT !.lcpSent = TRUE, !.offer = policy.offers]
  <2>1. /\ g \in GatewayType /\ g.lcpSent /\ g.offer = policy.offers
        /\ g.id = gateway.id /\ g.lcpAcked = gateway.lcpAcked /\ g.lcpGranted = gateway.lcpGranted
        /\ g.granted = gateway.granted /\ g.ipcpGranted = gateway.ipcpGranted
    BY <1>1, PolicyTyped DEF GatewayType
  <2>2. ~gateway.lcpSent /\ ~gateway.lcpAcked
    BY <1>2 DEF GatewayStartsLcp, IInv, Numbered
  <2>3. /\ gateway' = g /\ toClient' = toClient \o <<GatewayRequest(g, "LCP")>>
        /\ UNCHANGED <<status, session, policy, toGateway>>
    BY <1>2 DEF GatewayStartsLcp, GatewayRequests, ToClient
  <2>. HIDE DEF g
  <2>4. Moves(Silence)
    BY <2>1, <2>2, <2>3 DEF Moves, StartsNumber, Silence, Is
  <2>5. MayGive(Silence, GatewayRequest(g, "LCP"))
    BY <2>1, <2>2, <2>3, GatewayRequestTyped DEF MayGive, Answers, Is
  <2>6. Gives(Silence)
    BY <2>1, <2>3, <2>5, GatewayRequestTyped, GivesOne
  <2>. QED  BY <2>3, <2>4, <2>6 DEF GatewaySteps, Hears
<1>3. CASE GatewayStartsIpcp
  <2>. DEFINE g == [gateway EXCEPT !.ipcpSent = TRUE, !.id = NextId(@)]
  <2>1. NextId(gateway.id) \in 0..IdSpace - 1
    BY <1>1, NextIdTyped, PppBounds DEF GatewayType
  <2>2. /\ g \in GatewayType /\ g.lcpSent = gateway.lcpSent /\ g.offer = gateway.offer
        /\ g.lcpAcked = gateway.lcpAcked /\ g.lcpGranted = gateway.lcpGranted
        /\ g.granted = gateway.granted /\ g.ipcpGranted = gateway.ipcpGranted
    BY <1>1, <2>1 DEF GatewayType
  <2>3. /\ gateway' = g /\ toClient' = toClient \o <<GatewayRequest(g, "IPCP")>>
        /\ UNCHANGED <<status, session, policy, toGateway>> /\ gateway.lcpAcked
    BY <1>3 DEF GatewayStartsIpcp, GatewayRequests, ToClient, LcpOpen
  <2>. HIDE DEF g
  <2>4. Moves(Silence)
    BY <2>2, <2>3 DEF Moves, PastNumbers, Silence, Is
  <2>5. MayGive(Silence, GatewayRequest(g, "IPCP"))
    BY <2>2, GatewayRequestTyped DEF MayGive, Answers, Asks, Is
  <2>6. Gives(Silence)
    BY <2>2, <2>3, <2>5, GatewayRequestTyped, GivesOne
  <2>. QED  BY <2>3, <2>4, <2>6 DEF GatewaySteps, Hears
<1>. QED  BY <1>2, <1>3

\* What the gateway answers: first rejections, then suggestions, then agreement.
LEMMA AnsweringGives ==
    ASSUME NEW p \in Packets, NEW rejects, NEW naks, NEW suggestion \in {"-", "assigned"}
    PROVE  LET a == Answering(p, rejects, naks, suggestion)
           IN  /\ a \in Packets /\ a.proto = p.proto /\ a.code \in Answers
               /\ a.code = "Ack" => a.opts = p.opts /\ DOMAIN p.opts \intersect naks = {}
               /\ a.code = "Nak" => \A o \in DOMAIN a.opts : a.opts[o] = suggestion
<1>. DEFINE names == DOMAIN p.opts
            refused == [o \in names \intersect rejects |-> p.opts[o]]
            suggested == [o \in names \intersect naks |-> suggestion]
            a == Answering(p, rejects, naks, suggestion)
<1>1. /\ p.proto \in {"LCP", "IPCP", "IPv6CP"} /\ p.id \in 0..IdSpace - 1 /\ p.opts \in Options
      /\ names \subseteq OptionNames /\ \A o \in names : p.opts[o] \in Values \union {"-"}
  BY OptionsAre DEF Packets
<1>2. /\ refused = [o \in DOMAIN refused |-> refused[o]] /\ DOMAIN refused \subseteq OptionNames
      /\ \A o \in DOMAIN refused : refused[o] \in Values \union {"-"}
      /\ suggested = [o \in DOMAIN suggested |-> suggested[o]]
      /\ DOMAIN suggested \subseteq OptionNames
      /\ \A o \in DOMAIN suggested : /\ suggested[o] = suggestion
                                     /\ suggested[o] \in Values \union {"-"}
  BY <1>1 DEF Values
<1>3. CASE names \intersect rejects # {}
  <2>1. a = Packet(p.proto, "Reject", p.id, refused)
    BY <1>3 DEF Answering
  <2>. HIDE DEF refused, suggested, a
  <2>2. refused \in Options
    BY <1>2, OptionsTyped
  <2>. QED  BY <1>1, <2>1, <2>2, PacketTyped DEF Answers, a
<1>4. CASE names \intersect rejects = {} /\ names \intersect naks # {}
  <2>1. a = Packet(p.proto, "Nak", p.id, suggested)
    BY <1>4 DEF Answering
  <2>. HIDE DEF refused, suggested, a
  <2>2. suggested \in Options
    BY <1>2, OptionsTyped
  <2>3. a \in Packets /\ a.proto = p.proto /\ a.code = "Nak" /\ a.opts = suggested
    BY <1>1, <2>1, <2>2, PacketTyped
  <2>. QED  BY <1>2, <2>3 DEF Answers, a
<1>5. CASE names \intersect rejects = {} /\ names \intersect naks = {}
  <2>1. a = Packet(p.proto, "Ack", p.id, p.opts)
    BY <1>5 DEF Answering
  <2>. HIDE DEF a
  <2>2. a \in Packets /\ a.proto = p.proto /\ a.code = "Ack" /\ a.opts = p.opts
    BY <1>1, <2>1, PacketTyped
  <2>. QED  BY <1>5, <2>2 DEF Answers, a
<1>. QED  BY <1>3, <1>4, <1>5

LEMMA AnswersLcpSteps ==
    ASSUME IInv, NEW h \in Packets, Is(h, "LCP", "Request"), Hears(h), GatewayAnswersLcp(h)
    PROVE  GatewaySteps(h)
<1>. DEFINE a == Answering(h, policy.rejects, policy.naks, "-")
            g == [gateway EXCEPT !.lcpGranted = (a.code = "Ack")]
<1>1. a \in Packets /\ a.proto = "LCP" /\ a.code \in Answers
  BY AnsweringGives DEF Is
<1>2. /\ gateway' = g /\ toClient' = toClient \o <<a>> /\ UNCHANGED <<status, session, policy>>
  BY DEF GatewayAnswersLcp, ToClient
<1>. HIDE DEF a
<1>3. gateway \in GatewayType /\ (a.code = "Ack") \in BOOLEAN
  BY DEF IInv, TypeOK
<1>4. /\ g \in GatewayType /\ g.lcpGranted = (a.code = "Ack")
      /\ g.lcpSent = gateway.lcpSent /\ g.offer = gateway.offer /\ g.id = gateway.id
      /\ g.lcpAcked = gateway.lcpAcked
      /\ g.granted = gateway.granted /\ g.ipcpGranted = gateway.ipcpGranted
  BY <1>3 DEF GatewayType
<1>. HIDE DEF g
<1>5. Moves(h)
  BY <1>2, <1>4 DEF Moves, KeepsNumber, Is
<1>6. MayGive(h, a)
  BY <1>1, <1>2, <1>4 DEF MayGive, Asks, Is, Answers
<1>7. Gives(h)
  BY <1>1, <1>2, <1>6, GivesOne
<1>. QED  BY <1>2, <1>5, <1>7 DEF GatewaySteps

LEMMA AnswersIpcpSteps ==
    ASSUME IInv, NEW h \in Packets, Is(h, "IPCP", "Request"), Hears(h), GatewayAnswersIpcp(h),
           h.opts \in [Addresses -> {"unset", "assigned"}]
    PROVE  GatewaySteps(h)
<1>. DEFINE wrong == {o \in DOMAIN h.opts : h.opts[o] = "unset"}
            a == Answering(h, policy.rejectsDNS, wrong, "assigned")
            g == [gateway EXCEPT !.ipcpGranted = (a.code = "Ack"),
                                 !.granted = IF a.code = "Ack" THEN Adopt(h.opts, @) ELSE @]
<1>1. gateway \in GatewayType /\ (a.code = "Ack") \in BOOLEAN
  BY DEF IInv, TypeOK
<1>2. CASE LcpOpen
  <2>1. /\ gateway' = g /\ toClient' = toClient \o <<a>> /\ UNCHANGED <<status, session, policy>>
    BY <1>2 DEF GatewayAnswersIpcp, ToClient
  <2>2. /\ a \in Packets /\ a.proto = "IPCP" /\ a.code \in Answers
        /\ a.code = "Ack" => a.opts = h.opts /\ DOMAIN h.opts \intersect wrong = {}
        /\ a.code = "Nak" => \A o \in DOMAIN a.opts : a.opts[o] = "assigned"
    <3>. HIDE DEF wrong
    <3>. QED  BY AnsweringGives DEF Is
  <2>3. DOMAIN h.opts \intersect wrong = {} => h.opts = Agreed
    BY DEF Agreed
  <2>. HIDE DEF a, wrong
  <2>4. a.code = "Ack" => Adopt(h.opts, gateway.granted) = Agreed
    BY <2>2, <2>3 DEF Adopt, Agreed
  <2>5. Agreed \in [Addresses -> Values]
    BY DEF Agreed, Values
  <2>6. /\ g \in GatewayType /\ g.ipcpGranted = (a.code = "Ack")
        /\ a.code = "Ack" => g.granted = Agreed
        /\ g.lcpSent = gateway.lcpSent /\ g.offer = gateway.offer /\ g.id = gateway.id
        /\ g.lcpAcked = gateway.lcpAcked /\ g.lcpGranted = gateway.lcpGranted
    BY <1>1, <2>4, <2>5 DEF GatewayType
  <2>. HIDE DEF g
  <2>7. Moves(h)
    BY <2>1, <2>6 DEF Moves, KeepsNumber, Is
  <2>8. MayGive(h, a)
    BY <2>1, <2>2, <2>3, <2>6 DEF MayGive, Asks, Is, Answers
  <2>9. Gives(h)
    BY <2>1, <2>2, <2>8, GivesOne
  <2>. QED  BY <2>1, <2>7, <2>9 DEF GatewaySteps
<1>3. CASE ~LcpOpen
  <2>1. gateway' = gateway /\ toClient' = toClient \o <<>> /\ UNCHANGED <<status, session, policy>>
    BY <1>3 DEF GatewayAnswersIpcp, ToClient
  <2>2. Moves(h)
    BY <1>1, <2>1 DEF Moves, KeepsNumber, Is
  <2>. QED  BY <2>1, <2>2, GivesNothing DEF GatewaySteps
<1>. QED  BY <1>2, <1>3

LEMMA RejectedLcpSteps ==
    ASSUME IInv, NEW h \in Packets, Hears(h), GatewayRejectedLcp(h), h.code = "Reject"
    PROVE  GatewaySteps(h)
<1>. DEFINE g == [gateway EXCEPT !.offer = @ \ DOMAIN h.opts, !.id = NextId(@)]
<1>1. gateway \in GatewayType
  BY DEF IInv, TypeOK
<1>2. CASE h.id = gateway.id /\ ~gateway.lcpAcked
  <2>1. /\ gateway' = g /\ toClient' = toClient \o <<GatewayRequest(g, "LCP")>>
        /\ UNCHANGED <<status, session, policy>>
    BY <1>2 DEF GatewayRejectedLcp, GatewayRequests, ToClient
  <2>2. NextId(gateway.id) \in 0..IdSpace - 1
    BY <1>1, NextIdTyped, PppBounds DEF GatewayType
  <2>3. /\ g \in GatewayType /\ g.id = NextId(gateway.id)
        /\ g.offer = gateway.offer \ DOMAIN h.opts /\ g.lcpSent = gateway.lcpSent
        /\ g.lcpAcked = gateway.lcpAcked /\ g.lcpGranted = gateway.lcpGranted
        /\ g.granted = gateway.granted /\ g.ipcpGranted = gateway.ipcpGranted
    BY <1>1, <2>2 DEF GatewayType
  <2>. HIDE DEF g
  <2>4. h = toGateway[1] /\ 1 \in DOMAIN toGateway
    BY TailMoves DEF Hears, Silence, IInv, TypeOK
  <2>5. gateway.lcpSent
    BY <2>4 DEF IInv, Numbered
  <2>6. Moves(h)
    BY <1>2, <2>1, <2>3 DEF Moves, NextNumber, Is
  <2>7. MayGive(h, GatewayRequest(g, "LCP"))
    BY <1>2, <2>1, <2>3, <2>5, GatewayRequestTyped DEF MayGive, Answers, Is
  <2>8. Gives(h)
    BY <2>1, <2>3, <2>7, GatewayRequestTyped, GivesOne
  <2>. QED  BY <2>1, <2>6, <2>8 DEF GatewaySteps
<1>3. CASE ~(h.id = gateway.id /\ ~gateway.lcpAcked)
  <2>1. gateway' = gateway /\ toClient' = toClient \o <<>> /\ UNCHANGED <<status, session, policy>>
    BY <1>3 DEF GatewayRejectedLcp, ToClient
  <2>2. Moves(h)
    BY <1>1, <2>1 DEF Moves, KeepsNumber, Is
  <2>. QED  BY <2>1, <2>2, GivesNothing DEF GatewaySteps
<1>. QED  BY <1>2, <1>3

\* A packet that changes at most lcpAcked, ipcpAcked or echo, and gets no answer.
LEMMA NotesSteps ==
    ASSUME IInv, NEW h, Hears(h), NEW g \in GatewayType, ToClient(g, <<>>),
           h.code # "Request", ~Is(h, "LCP", "Ack") \/ g.lcpAcked,
           g.lcpAcked => gateway.lcpAcked \/ gateway.lcpSent, gateway.lcpAcked => g.lcpAcked,
           g.id = gateway.id, g.offer = gateway.offer, g.lcpSent = gateway.lcpSent,
           g.lcpGranted = gateway.lcpGranted,
           g.granted = gateway.granted, g.ipcpGranted = gateway.ipcpGranted
    PROVE  GatewaySteps(h)
<1>1. gateway' = g /\ toClient' = toClient \o <<>> /\ UNCHANGED <<status, session, policy>>
  BY DEF ToClient
<1>2. Moves(h)
  BY <1>1 DEF Moves, KeepsNumber
<1>. QED  BY <1>1, <1>2, GivesNothing DEF GatewaySteps

LEMMA GatewayReadsSteps ==
    ASSUME IInv, GatewayReads PROVE GatewaySteps(Head(toGateway))
<1>. DEFINE h == Head(toGateway)
<1>1. /\ h \in Packets /\ h = toGateway[1] /\ 1 \in DOMAIN toGateway
      /\ Hears(h) /\ GatewayHears(h)
  BY TailMoves DEF GatewayReads, Hears, IInv, TypeOK
<1>2. gateway \in GatewayType
  BY DEF IInv, TypeOK
<1>. HIDE DEF h
<1>3. CASE Is(h, "LCP", "Request")
  <2>1. GatewayAnswersLcp(h)
    BY <1>1, <1>3 DEF GatewayHears, Is
  <2>. QED  BY <1>1, <1>3, <2>1, AnswersLcpSteps DEF h
<1>4. CASE Is(h, "IPCP", "Request")
  <2>1. GatewayAnswersIpcp(h)
    BY <1>1, <1>4 DEF GatewayHears, Is
  <2>2. h.opts \in [Addresses -> {"unset", "assigned"}]
    BY <1>1, <1>4 DEF IInv, Addressed, Requests, Is
  <2>. QED  BY <1>1, <1>4, <2>1, <2>2, AnswersIpcpSteps DEF h
<1>5. CASE Is(h, "LCP", "Ack")
  <2>. DEFINE g == [gateway EXCEPT !.lcpAcked = @ \/ h.id = gateway.id]
  <2>1. ToClient(g, <<>>)
    BY <1>1, <1>5 DEF GatewayHears, Is
  <2>2. gateway.lcpSent /\ (gateway.lcpAcked \/ h.id = gateway.id)
    BY <1>1, <1>5 DEF IInv, Numbered
  <2>3. /\ g \in GatewayType /\ g.lcpAcked
        /\ g.id = gateway.id /\ g.offer = gateway.offer /\ g.lcpSent = gateway.lcpSent
        /\ g.lcpGranted = gateway.lcpGranted
        /\ g.granted = gateway.granted /\ g.ipcpGranted = gateway.ipcpGranted
    BY <1>2, <2>2 DEF GatewayType
  <2>. HIDE DEF g
  <2>. QED  BY <1>1, <1>5, <2>1, <2>2, <2>3, NotesSteps DEF Is, h
<1>6. CASE Is(h, "IPCP", "Ack")
  <2>. DEFINE g == [gateway EXCEPT !.ipcpAcked = @ \/ h.id = gateway.id]
  <2>1. ToClient(g, <<>>)
    BY <1>1, <1>6 DEF GatewayHears, Is
  <2>2. /\ g \in GatewayType /\ g.lcpAcked = gateway.lcpAcked
        /\ g.id = gateway.id /\ g.offer = gateway.offer /\ g.lcpSent = gateway.lcpSent
        /\ g.lcpGranted = gateway.lcpGranted
        /\ g.granted = gateway.granted /\ g.ipcpGranted = gateway.ipcpGranted
    BY <1>2 DEF GatewayType
  <2>. HIDE DEF g
  <2>. QED  BY <1>1, <1>6, <2>1, <2>2, NotesSteps DEF Is, h
<1>7. CASE h.code = "Reject"
  <2>1. GatewayRejectedLcp(h)
    BY <1>1, <1>7 DEF GatewayHears
  <2>. QED  BY <1>1, <1>7, <2>1, RejectedLcpSteps DEF h
<1>8. CASE h.code = "Echo-Reply"
  <2>. DEFINE g == [gateway EXCEPT !.echo = FALSE]
  <2>1. ToClient(g, <<>>)
    BY <1>1, <1>8 DEF GatewayHears
  <2>2. /\ g \in GatewayType /\ g.lcpAcked = gateway.lcpAcked
        /\ g.id = gateway.id /\ g.offer = gateway.offer /\ g.lcpSent = gateway.lcpSent
        /\ g.lcpGranted = gateway.lcpGranted
        /\ g.granted = gateway.granted /\ g.ipcpGranted = gateway.ipcpGranted
    BY <1>2 DEF GatewayType
  <2>. HIDE DEF g
  <2>. QED  BY <1>1, <1>8, <2>1, <2>2, NotesSteps DEF Is, h
<1>9. CASE /\ ~Is(h, "LCP", "Request") /\ ~Is(h, "IPCP", "Request")
           /\ ~Is(h, "LCP", "Ack") /\ ~Is(h, "IPCP", "Ack")
           /\ h.code # "Reject" /\ h.code # "Echo-Reply"
  <2>1. ToClient(gateway, <<>>)
    BY <1>1, <1>9 DEF GatewayHears, Is
  <2>2. gateway' = gateway /\ toClient' = toClient \o <<>> /\ UNCHANGED <<status, session, policy>>
    BY <2>1 DEF ToClient
  <2>3. Moves(h)
    BY <1>2, <1>9, <2>2 DEF Moves, KeepsNumber
  <2>. QED  BY <1>1, <2>2, <2>3, GivesNothing DEF GatewaySteps, h
<1>. QED  BY <1>3, <1>4, <1>5, <1>6, <1>7, <1>8, <1>9

-----------------------------------------------------------------------------
(* The theorems *)

LEMMA InitIInv == Init => IInv
<1>. SUFFICES ASSUME Init PROVE IInv
  OBVIOUS
<1>. DEFINE first == LcpRequest(NextId(0), LcpOffer)
<1>1. NextId(0) \in 0..IdSpace - 1 /\ 0 \in 0..IdSpace - 1
  BY NextIdTyped, PppBounds
<1>2. first \in Packets /\ Is(first, "LCP", "Request")
  BY <1>1, LcpRequestTyped
<1>3. toGateway = <<first>> /\ toClient = <<>>
  BY DEF Init
<1>4. session.ipcpRequestSent = FALSE /\ session.lcpLocalDone = FALSE
      /\ session.lcpRemoteDone = FALSE /\ session.ipcpLocalDone = FALSE
      /\ session.ipcpRemoteDone = FALSE /\ session.requested = [o \in Addresses |-> "nil"]
      /\ status = "negotiating"
      /\ gateway.lcpSent = FALSE /\ gateway.id = 0 /\ gateway.offer = {} /\ gateway.lcpAcked = FALSE
  BY DEF Init
<1>5. session \in SessionType
  BY <1>1 DEF Init, SessionType, Values
<1>6. gateway \in GatewayType
  BY <1>1, PppBounds DEF Init, GatewayType, Values
<1>. HIDE DEF first
<1>7. TypeOK
  BY <1>2, <1>3, <1>5, <1>6 DEF TypeOK, Init
<1>8. /\ DOMAIN toGateway = {1} /\ toGateway[1] = first /\ DOMAIN toClient = {}
      /\ \A proto : Answered(proto) = {}
      /\ Requests("IPCP") = {} /\ Requests("LCP") = {1}
  BY <1>2, <1>3 DEF Answered, Requests, Is
<1>9. OneRequestOutstanding
  BY <1>8 DEF OneRequestOutstanding
<1>10. Opened /\ Granted /\ AckAhead
  BY <1>4, <1>8 DEF Opened, Granted, AckAhead
<1>11. Numbered
  BY <1>2, <1>4, <1>8 DEF Numbered, Is
<1>12. Addressed /\ Settled
  BY <1>4, <1>8 DEF Addressed, Settled
<1>. QED  BY <1>7, <1>9, <1>10, <1>11, <1>12 DEF IInv

LEMMA NextIInv == IInv /\ [Next]_vars => IInv'
<1>. SUFFICES ASSUME IInv, [Next]_vars PROVE IInv'
  OBVIOUS
<1>1. CASE Client
  BY <1>1, ClientTakesSteps, ClientKeepsIInv
<1>2. CASE LinkFails
  <2>1. status' = "failed" /\ UNCHANGED <<session, toGateway, toClient, gateway, policy>>
    BY <1>2 DEF LinkFails
  <2>2. TypeOK' /\ OneRequestOutstanding' /\ Opened' /\ Granted'
    BY <2>1 DEF IInv, TypeOK, OneRequestOutstanding, Opened, Granted, Requests, Answered
  <2>3. AckAhead' /\ Numbered' /\ Addressed' /\ Settled'
    BY <2>1 DEF IInv, AckAhead, Numbered, Addressed, Settled, Requests, Answered
  <2>. QED  BY <2>2, <2>3 DEF IInv
<1>3. CASE GatewayReads
  BY <1>3, GatewayReadsSteps, GatewayKeepsIInv
<1>4. CASE GatewayStartsLcp \/ GatewayStartsIpcp
  BY <1>4, GatewayStartsSteps, GatewayKeepsIInv
<1>5. CASE GatewayMay
  BY <1>5, GatewayMaySteps, GatewayKeepsIInv
<1>6. CASE UNCHANGED vars
  <2>1. TypeOK' /\ OneRequestOutstanding' /\ Opened' /\ Granted'
    BY <1>6 DEF IInv, TypeOK, OneRequestOutstanding, Opened, Granted, Requests, Answered
  <2>2. AckAhead' /\ Numbered' /\ Addressed' /\ Settled'
    BY <1>6 DEF IInv, AckAhead, Numbered, Addressed, Settled, Requests, Answered
  <2>. QED  BY <2>1, <2>2 DEF IInv
<1>. QED  BY <1>1, <1>2, <1>3, <1>4, <1>5, <1>6 DEF Next, GatewayMust

LEMMA SessionInvariant == Spec => []IInv
  BY InitIInv, NextIInv, PTL DEF Spec

\* The fields of both ends and every packet on the wire are of their types
\* (session.go, ipcp.go, and the conforming peer they talk to).
THEOREM SessionTyped == Spec => []TypeOK
<1>1. IInv => TypeOK
  BY DEF IInv
<1>. QED  BY <1>1, SessionInvariant, PTL

\* At most one of our requests of a protocol is unanswered, whoever the gateway
\* is: taking an answer without looking at its identifier is sound
\* (session.go:169-171, ipcp.go:41-57).
THEOREM AnswersAreUnambiguous == Spec => []OneRequestOutstanding
<1>1. IInv => OneRequestOutstanding
  BY DEF IInv
<1>. QED  BY <1>1, SessionInvariant, PTL

\* The IPCP request reaches the gateway after everything that opens LCP there, so
\* that it never has to be repeated (session.go:125).
THEOREM IpcpIsHeard == Spec => []GatewayNeverDiscards
<1>1. ASSUME IInv PROVE GatewayNeverDiscards
  <2>. SUFFICES ASSUME toGateway # <<>>, Head(toGateway).proto = "IPCP",
                       Head(toGateway).code = "Request"
                PROVE  LcpOpen
    BY DEF GatewayNeverDiscards
  <2>1. 1 \in Requests("IPCP") /\ DOMAIN toGateway = 1..Len(toGateway)
    BY <1>1, TailMoves DEF IInv, TypeOK, Requests
  <2>2. ~\E j \in DOMAIN toGateway : j < 1
    BY <1>1, <2>1 DEF IInv, TypeOK
  <2>3. gateway.lcpAcked
    BY <1>1, <2>1, <2>2 DEF IInv, AckAhead
  <2>4. gateway.lcpGranted
    BY <1>1, <2>1 DEF IInv, Opened, Granted
  <2>. QED  BY <2>3, <2>4 DEF LcpOpen
<1>. QED  BY <1>1, SessionInvariant, PTL

\* When Negotiate returns without an error both protocols are open in both
\* directions, and its addresses are those the gateway granted (session.go:86).
THEOREM OpenMeansAgreed == Spec => []NegotiatedIsAgreed
<1>1. ASSUME IInv PROVE NegotiatedIsAgreed
  <2>. SUFFICES ASSUME status = "open"
                PROVE  /\ session.lcpLocalDone /\ session.lcpRemoteDone
                       /\ session.ipcpLocalDone /\ session.ipcpRemoteDone
                       /\ session.negotiated["IP"] = "assigned" /\ session.remoteIP = "assigned"
                       /\ gateway.ipcpGranted /\ session.negotiated = gateway.granted
    BY DEF NegotiatedIsAgreed
  <2>1. /\ session.ipcpLocalDone /\ session.ipcpRemoteDone /\ session.remoteIP = "assigned"
        /\ session.ipcpRequestSent /\ session.negotiated = Agreed
        /\ gateway.granted = Agreed /\ gateway.ipcpGranted
    BY <1>1 DEF IInv, Settled
  <2>2. session.lcpLocalDone /\ session.lcpRemoteDone
    BY <1>1, <2>1 DEF IInv, Opened
  <2>3. Agreed["IP"] = "assigned"
    BY DEF Agreed, Addresses
  <2>. QED  BY <2>1, <2>2, <2>3
<1>. QED  BY <1>1, SessionInvariant, PTL

-----------------------------------------------------------------------------
(* What is written to the tunnel is what is read from it: forti/frame.go. *)

Byte == 0..255
Word == {n \in Nat : n <= 65535}

LEMMA HighAndLow ==
  ASSUME NEW n \in Int, 0 <= n, n <= 65535
  PROVE  /\ n \div 256 \in Byte /\ n % 256 \in Byte
         /\ 256 * (n \div 256) + (n % 256) = n
         /\ (n \div 256) % 256 = n \div 256
BY DEF Byte

\* A number in two bytes, the high one first.
LEMMA TwoBytes ==
    ASSUME NEW n \in Word
    PROVE  \E h, l \in Byte : U16(n) = <<h, l>> /\ 256 * h + l = n
<1>1. n \in Int /\ 0 <= n /\ n <= 65535
  BY DEF Word
<1>2. /\ n \div 256 \in Byte /\ n % 256 \in Byte
      /\ 256 * (n \div 256) + (n % 256) = n
      /\ (n \div 256) % 256 = n \div 256
  BY <1>1, HighAndLow
<1>3. U16(n) = <<n \div 256, n % 256>>
  BY <1>2 DEF U16
<1> DEFINE h == n \div 256
           l == n % 256
<1>4. h \in Byte /\ l \in Byte /\ U16(n) = <<h, l>> /\ 256 * h + l = n
  BY <1>2, <1>3
<1> HIDE DEF h, l
<1>5. QED
  BY <1>4

LEMMA AreWords == /\ \A k \in Int : 0 <= k /\ k <= 8198 => k \in Word
                  /\ frameMagic \in Word
BY DEF Word, frameMagic

\* Concatenation of bytes.
LEMMA Concat ==
    ASSUME NEW p \in Seq(Byte), NEW s \in Seq(Byte)
    PROVE  /\ p \o s \in Seq(Byte) /\ Len(p \o s) = Len(p) + Len(s)
           /\ \A i \in 1..Len(p) : (p \o s)[i] = p[i]
           /\ \A i \in 1..Len(s) : (p \o s)[Len(p) + i] = s[i]
OBVIOUS

LEMMA Associates ==
    ASSUME NEW p \in Seq(Byte), NEW q \in Seq(Byte), NEW s \in Seq(Byte)
    PROVE  (p \o q) \o s = p \o (q \o s)
BY ConcatAssociative

LEMMA TwoTyped ==
    ASSUME NEW n \in Word
    PROVE  U16(n) \in Seq(Byte) /\ Len(U16(n)) = 2 /\ 256 * U16(n)[1] + U16(n)[2] = n
<1>1. PICK h, l \in Byte : U16(n) = <<h, l>> /\ 256 * h + l = n
  BY TwoBytes
<1>2. QED
  BY <1>1

\* x is two bytes, and then s.
Begins(x, two, s) ==
    /\ x \in Seq(Byte) /\ Len(x) = Len(s) + 2
    /\ x[1] = two[1] /\ x[2] = two[2]
    /\ \A i \in 1..Len(s) : x[i + 2] = s[i]

LEMMA InFront ==
    ASSUME NEW two \in Seq(Byte), Len(two) = 2, NEW s \in Seq(Byte)
    PROVE  Begins(two \o s, two, s)
<1> DEFINE x == two \o s
<1>1. /\ x \in Seq(Byte) /\ Len(x) = Len(two) + Len(s)
      /\ \A i \in 1..Len(two) : x[i] = two[i]
      /\ \A i \in 1..Len(s) : x[Len(two) + i] = s[i]
  BY Concat, Zenon
<1> HIDE DEF x
<1>2. x[1] = two[1] /\ x[2] = two[2]
  BY <1>1
<1>3. \A i \in 1..Len(s) : x[i + 2] = s[i]
  BY <1>1
<1>4. Begins(x, two, s)
  BY <1>1, <1>2, <1>3 DEF Begins
<1>5. QED
  BY <1>4 DEF x

\* A sequence found at an offset is what SubSeq cuts out there.
LEMMA CutsOut ==
    ASSUME NEW s \in Seq(Byte), NEW t \in Seq(Byte), NEW k \in Nat,
           k + Len(t) <= Len(s), \A i \in 1..Len(t) : s[k + i] = t[i]
    PROVE  SubSeq(s, k + 1, k + Len(t)) = t
<1>1. DOMAIN SubSeq(s, k + 1, k + Len(t)) = 1..Len(t)
  OBVIOUS
<1>2. \A i \in 1..Len(t) : SubSeq(s, k + 1, k + Len(t))[i] = s[k + i]
  OBVIOUS
<1>3. SubSeq(s, k + 1, k + Len(t)) \in Seq(Byte) /\ Len(SubSeq(s, k + 1, k + Len(t))) = Len(t)
  OBVIOUS
<1>4. QED
  BY <1>2, <1>3, SeqEqual

\* The six bytes of a frame's header, and its payload behind them.
LEMMA FrameIs ==
    ASSUME NEW payload \in Seq(Byte), Len(payload) <= maxFrameLen, NEW f \in WriteFrame(payload)
    PROVE  /\ f \in Seq(Byte) /\ Len(f) = 6 + Len(payload)
           /\ ReadU16(f, 1) = 6 + Len(payload)
           /\ ReadU16(f, 3) = frameMagic
           /\ ReadU16(f, 5) = Len(payload)
           /\ \A i \in 1..Len(payload) : f[6 + i] = payload[i]
<1> DEFINE n == Len(payload)
<1>1. n \in Nat /\ n = Len(payload)
  OBVIOUS
<1>2. f = ((U16(6 + n) \o U16(frameMagic)) \o U16(n)) \o payload
  BY DEF WriteFrame, frameHeaderSize
<1> HIDE DEF n
<1>3. n \in Word /\ 6 + n \in Word /\ frameMagic \in Word
  <2>1. n \in Int /\ 0 <= n /\ n <= 8192
    BY <1>1 DEF maxFrameLen
  <2>2. 6 + n \in Int /\ 0 <= 6 + n /\ 6 + n <= 8198
    BY <2>1
  <2>3. QED
    BY <2>1, <2>2, AreWords
<1>4. /\ U16(n) \in Seq(Byte) /\ U16(6 + n) \in Seq(Byte) /\ U16(frameMagic) \in Seq(Byte)
      /\ Len(U16(n)) = 2 /\ Len(U16(6 + n)) = 2 /\ Len(U16(frameMagic)) = 2
  BY <1>3, TwoTyped, Zenon
<1> DEFINE t == U16(n) \o payload
<1>5. Begins(t, U16(n), payload)
  BY <1>4, InFront, Zenon
<1>6. t \in Seq(Byte)
  BY <1>5, Zenon DEF Begins
<1> HIDE DEF t
<1> DEFINE u == U16(frameMagic) \o t
<1>7. Begins(u, U16(frameMagic), t)
  BY <1>4, <1>6, InFront, Zenon
<1>8. u \in Seq(Byte)
  BY <1>7, Zenon DEF Begins
<1> HIDE DEF u
<1>9. f = U16(6 + n) \o u
  <2>1. U16(6 + n) \o U16(frameMagic) \in Seq(Byte)
    BY <1>4, Concat, Zenon
  <2>2. ((U16(6 + n) \o U16(frameMagic)) \o U16(n)) \o payload = (U16(6 + n) \o U16(frameMagic)) \o t
    BY <1>4, <2>1, Associates, Zenon DEF t
  <2>3. (U16(6 + n) \o U16(frameMagic)) \o t = U16(6 + n) \o u
    BY <1>4, <1>6, Associates, Zenon DEF u
  <2>4. QED
    BY <1>2, <2>2, <2>3, Zenon
<1>10. Begins(f, U16(6 + n), u)
  BY <1>4, <1>8, <1>9, InFront, Zenon
<1>11. Len(t) = n + 2 /\ Len(u) = n + 4 /\ Len(f) = n + 6
  BY <1>1, <1>5, <1>7, <1>10 DEF Begins
<1>12. f[3] = u[1] /\ f[4] = u[2] /\ f[5] = t[1] /\ f[6] = t[2]
  <2>1. f[1 + 2] = u[1] /\ f[2 + 2] = u[2] /\ f[3 + 2] = u[3] /\ f[4 + 2] = u[4]
    BY <1>1, <1>10, <1>11 DEF Begins
  <2>2. u[1 + 2] = t[1] /\ u[2 + 2] = t[2]
    BY <1>1, <1>7, <1>11 DEF Begins
  <2>3. QED
    BY <2>1, <2>2
<1>13. \A i \in 1..n : f[6 + i] = payload[i]
  <2> SUFFICES ASSUME NEW i \in 1..n PROVE f[6 + i] = payload[i]
    OBVIOUS
  <2>1. i \in Int /\ i \in 1..Len(payload) /\ i + 2 \in 1..Len(t) /\ i + 4 \in 1..Len(u)
    BY <1>1, <1>11
  <2>2. t[i + 2] = payload[i]
    BY <2>1, <1>5 DEF Begins
  <2>3. u[(i + 2) + 2] = t[i + 2]
    BY <2>1, <1>7 DEF Begins
  <2>4. f[(i + 4) + 2] = u[i + 4]
    BY <2>1, <1>10 DEF Begins
  <2>5. QED
    BY <2>1, <2>2, <2>3, <2>4
<1>14. ReadU16(f, 1) = 6 + n /\ ReadU16(f, 3) = frameMagic /\ ReadU16(f, 5) = n
  BY <1>3, <1>5, <1>7, <1>10, <1>12, TwoTyped DEF Begins, ReadU16
<1>15. QED
  BY <1>1, <1>10, <1>11, <1>13, <1>14 DEF Begins

\* The header of a frame is read the same whatever follows it.
LEMMA HeaderIs ==
    ASSUME NEW f \in Seq(Byte), Len(f) >= 6, NEW b \in Seq(Byte), Len(b) >= 6,
           \A i \in 1..6 : b[i] = f[i]
    PROVE  ReadU16(b, 1) = ReadU16(f, 1) /\ ReadU16(b, 3) = ReadU16(f, 3)
           /\ ReadU16(b, 5) = ReadU16(f, 5)
<1>1. b[1] = f[1] /\ b[2] = f[2] /\ b[3] = f[3] /\ b[4] = f[4] /\ b[5] = f[5] /\ b[6] = f[6]
  OBVIOUS
<1>2. QED
  BY <1>1 DEF ReadU16

\* Whatever a frame carries, and whatever follows it on the stream, ReadFrame returns what
\* WriteFrame was given and leaves the rest; only a frame without payload it refuses
\* (frame.go:33-85).
THEOREM FrameReadsBack ==
    ASSUME NEW payload \in Seq(Byte), Len(payload) <= maxFrameLen,
           NEW f \in WriteFrame(payload), NEW rest \in Seq(Byte)
    PROVE  ReadFrame(f \o rest) = IF payload = <<>> THEN {}
                                  ELSE {[payload |-> payload, rest |-> rest]}
<1> DEFINE b == f \o rest
           n == Len(payload)
<1>1. /\ f \in Seq(Byte) /\ Len(f) = 6 + n /\ n \in Nat
      /\ ReadU16(f, 1) = 6 + n /\ ReadU16(f, 3) = frameMagic /\ ReadU16(f, 5) = n
      /\ \A i \in 1..n : f[6 + i] = payload[i]
  BY FrameIs
<1>2. /\ b \in Seq(Byte) /\ Len(b) = Len(f) + Len(rest)
      /\ \A i \in 1..Len(f) : b[i] = f[i]
      /\ \A i \in 1..Len(rest) : b[Len(f) + i] = rest[i]
  BY <1>1, Concat, Zenon
<1>3. n <= maxFrameLen /\ (n = 0 <=> payload = <<>>) /\ n = Len(payload)
  OBVIOUS
<1> HIDE DEF b, n
<1>4. ReadU16(b, 1) = 6 + n /\ ReadU16(b, 3) = frameMagic /\ ReadU16(b, 5) = n
  <2>1. Len(f) >= 6 /\ Len(b) >= 6 /\ \A i \in 1..6 : b[i] = f[i]
    BY <1>1, <1>2
  <2>2. QED
    BY <1>1, <1>2, <2>1, HeaderIs
<1>5. WellFramed(b) <=> n # 0
  BY <1>1, <1>2, <1>3, <1>4 DEF WellFramed, frameHeaderSize
<1>6. SubSeq(b, 6 + 1, 6 + n) = payload
  <2>1. 6 + Len(payload) <= Len(b) /\ \A i \in 1..Len(payload) : b[6 + i] = payload[i]
    BY <1>1, <1>2, <1>3
  <2>2. QED
    BY <1>2, <1>3, <2>1, CutsOut
<1>7. From(b, 6 + n + 1) = rest
  <2>1. SubSeq(b, Len(f) + 1, Len(f) + Len(rest)) = rest
    BY <1>1, <1>2, CutsOut
  <2>2. QED
    BY <1>1, <1>2, <2>1 DEF From
<1>8. ReadFrame(b) = IF n = 0 THEN {} ELSE {[payload |-> payload, rest |-> rest]}
  BY <1>4, <1>5, <1>6, <1>7 DEF ReadFrame, frameHeaderSize
<1>9. QED
  BY <1>3, <1>8 DEF b

\* A stream that breaks off inside a frame, whatever it carries, yields an error for it
\* ("a desynchronised stream is not recoverable", frame.go:46).
THEOREM TornFrameIsAnError ==
    ASSUME NEW payload \in Seq(Byte), Len(payload) <= maxFrameLen,
           NEW f \in WriteFrame(payload), NEW n \in 0 .. Len(f) - 1
    PROVE  ReadFrame(SubSeq(f, 1, n)) = {}
<1> DEFINE b == SubSeq(f, 1, n)
<1>1. /\ f \in Seq(Byte) /\ Len(f) = 6 + Len(payload)
      /\ ReadU16(f, 1) = 6 + Len(payload) /\ ReadU16(f, 3) = frameMagic
      /\ ReadU16(f, 5) = Len(payload)
  BY FrameIs
<1>2. b \in Seq(Byte) /\ Len(b) = n /\ (\A i \in 1..n : b[i] = f[i]) /\ n \in Nat /\ n < Len(f)
  BY <1>1
<1> HIDE DEF b
<1>3. ASSUME n >= 6 PROVE ReadU16(b, 5) = Len(payload)
  <2>1. Len(f) >= 6 /\ Len(b) >= 6 /\ \A i \in 1..6 : b[i] = f[i]
    BY <1>2, <1>3
  <2>2. QED
    BY <1>1, <1>2, <2>1, HeaderIs
<1>4. ~WellFramed(b)
  BY <1>1, <1>2, <1>3 DEF WellFramed, frameHeaderSize
<1>5. QED
  BY <1>4 DEF ReadFrame, b

-----------------------------------------------------------------------------
(* ppp/packet.go: packets *)

WirePackets == [protocol : Word, code : Byte, identifier : Byte, data : Seq(Byte)]

\* Its length fits into the two bytes there are for it.
Fits(p) == 4 + Len(p.data) \in Word

\* A control packet as it stands behind the address and control bytes.
IsBody(body, p) ==
    /\ body \in Seq(Byte) /\ Len(body) = 6 + Len(p.data)
    /\ ReadU16(body, 1) = p.protocol
    /\ body[3] = p.code /\ body[4] = p.identifier
    /\ ReadU16(body, 5) = 4 + Len(p.data)
    /\ \A i \in 1..Len(p.data) : body[6 + i] = p.data[i]

LEMMA BodyOf ==
    ASSUME NEW p \in WirePackets, IsControl(p.protocol), Fits(p)
    PROVE  \E body : IsBody(body, p) /\ Encode(p) = AddressAndControl \o body
<1> DEFINE n == Len(p.data)
           ci == <<p.code, p.identifier>>
           t == U16(4 + n) \o p.data
<1>1. /\ p.protocol \in Word /\ p.code \in Byte /\ p.identifier \in Byte /\ p.data \in Seq(Byte)
      /\ n \in Nat /\ n = Len(p.data)
  BY DEF WirePackets
<1>6. Encode(p) = ((AddressAndControl \o U16(p.protocol)) \o (ci \o U16(4 + n))) \o p.data
  BY Zenon DEF Encode, headerLen
<1>4. ci \in Seq(Byte) /\ Len(ci) = 2 /\ ci[1] = p.code /\ ci[2] = p.identifier
  BY <1>1
<1>2. 4 + n \in Word
  BY DEF Fits
<1> HIDE DEF n, ci, t
<1>3. /\ U16(p.protocol) \in Seq(Byte) /\ Len(U16(p.protocol)) = 2
      /\ U16(4 + n) \in Seq(Byte) /\ Len(U16(4 + n)) = 2
  BY <1>1, <1>2, TwoTyped, Zenon
<1>5. AddressAndControl \in Seq(Byte) /\ Len(AddressAndControl) = 2
  BY DEF AddressAndControl, Byte
<1>7. Begins(t, U16(4 + n), p.data)
  BY <1>1, <1>3, InFront, Zenon DEF t
<1>8. t \in Seq(Byte)
  BY <1>7, Zenon DEF Begins
<1> DEFINE u == ci \o t
<1>9. Begins(u, ci, t)
  BY <1>4, <1>8, InFront, Zenon
<1>10. u \in Seq(Byte)
  BY <1>9, Zenon DEF Begins
<1> HIDE DEF u
<1> DEFINE body == U16(p.protocol) \o u
<1>11. Begins(body, U16(p.protocol), u)
  BY <1>3, <1>10, InFront, Zenon
<1> HIDE DEF body
<1>12. Encode(p) = AddressAndControl \o body
  <2>1. AddressAndControl \o U16(p.protocol) \in Seq(Byte) /\ ci \o U16(4 + n) \in Seq(Byte)
    BY <1>3, <1>4, <1>5, Concat, Zenon
  <2>2. Encode(p) = (AddressAndControl \o U16(p.protocol)) \o ((ci \o U16(4 + n)) \o p.data)
    BY <1>1, <1>6, <2>1, Associates, Zenon
  <2>3. (ci \o U16(4 + n)) \o p.data = u
    BY <1>1, <1>3, <1>4, Associates, Zenon DEF u, t
  <2>4. (AddressAndControl \o U16(p.protocol)) \o u = AddressAndControl \o body
    BY <1>3, <1>5, <1>10, Associates, Zenon DEF body
  <2>5. QED
    BY <2>2, <2>3, <2>4, Zenon
<1>13. Len(t) = n + 2 /\ Len(u) = n + 4 /\ Len(body) = n + 6
  BY <1>1, <1>7, <1>9, <1>11 DEF Begins
<1>14. body[3] = p.code /\ body[4] = p.identifier /\ body[5] = t[1] /\ body[6] = t[2]
  <2>1. body[1 + 2] = u[1] /\ body[2 + 2] = u[2] /\ body[3 + 2] = u[3] /\ body[4 + 2] = u[4]
    BY <1>1, <1>11, <1>13 DEF Begins
  <2>2. u[1] = ci[1] /\ u[2] = ci[2] /\ u[1 + 2] = t[1] /\ u[2 + 2] = t[2]
    BY <1>1, <1>9, <1>13 DEF Begins
  <2>3. QED
    BY <1>4, <2>1, <2>2
<1>15. \A i \in 1..n : body[6 + i] = p.data[i]
  <2> SUFFICES ASSUME NEW i \in 1..n PROVE body[6 + i] = p.data[i]
    OBVIOUS
  <2>1. i \in Int /\ i \in 1..Len(p.data) /\ i + 2 \in 1..Len(t) /\ i + 4 \in 1..Len(u)
    BY <1>1, <1>13
  <2>2. t[i + 2] = p.data[i]
    BY <2>1, <1>7 DEF Begins
  <2>3. u[(i + 2) + 2] = t[i + 2]
    BY <2>1, <1>9 DEF Begins
  <2>4. body[(i + 4) + 2] = u[i + 4]
    BY <2>1, <1>11 DEF Begins
  <2>5. QED
    BY <2>1, <2>2, <2>3, <2>4
<1>16. ReadU16(body, 1) = p.protocol /\ ReadU16(body, 5) = 4 + n
  BY <1>1, <1>2, <1>7, <1>11, <1>14, TwoTyped DEF Begins, ReadU16
<1>17. IsBody(body, p)
  <2>1. body \in Seq(Byte)
    BY <1>11, Zenon DEF Begins
  <2>2. Len(body) = 6 + Len(p.data)
    BY <1>1, <1>13
  <2>3. QED
    BY <1>1, <1>14, <1>15, <1>16, <2>1, <2>2, Zenon DEF IsBody
<1>18. QED
  BY <1>12, <1>17

\* The address and control bytes are taken off, once.
LEMMA Unwraps ==
    ASSUME NEW body \in Seq(Byte)
    PROVE  /\ From(AddressAndControl \o body, 3) = body
           /\ Unaddressed(AddressAndControl \o body) = body
<1> DEFINE x == AddressAndControl \o body
<1>1. AddressAndControl \in Seq(Byte) /\ Len(AddressAndControl) = 2
  BY DEF AddressAndControl, Byte
<1>2. Begins(x, AddressAndControl, body)
  BY <1>1, InFront, Zenon
<1> HIDE DEF x
<1>3. x \in Seq(Byte) /\ Len(x) = 2 + Len(body) /\ \A i \in 1..Len(body) : x[2 + i] = body[i]
  <2>1. \A i \in 1..Len(body) : 2 + i = i + 2
    OBVIOUS
  <2>2. QED
    BY <1>2, <2>1 DEF Begins
<1>4. From(x, 3) = body
  <2>1. 2 \in Nat /\ 2 + Len(body) <= Len(x)
    BY <1>3
  <2>2. SubSeq(x, 2 + 1, 2 + Len(body)) = body
    BY <1>3, <2>1, CutsOut, Zenon
  <2>3. QED
    BY <1>3, <2>2 DEF From
<1>5. IsPrefix(AddressAndControl, x)
  <2>1. SubSeq(AddressAndControl, 1, 2) = AddressAndControl
    <3>1. SubSeq(AddressAndControl, 0 + 1, 0 + Len(AddressAndControl)) = AddressAndControl
      BY <1>1, CutsOut
    <3>2. QED
      BY <1>1, <3>1
  <2>2. SubSeq(x, 0 + 1, 0 + Len(AddressAndControl)) = AddressAndControl
    <3>1. 0 + Len(AddressAndControl) <= Len(x)
      BY <1>1, <1>3
    <3>2. \A i \in 1..Len(AddressAndControl) : x[0 + i] = AddressAndControl[i]
      BY <1>1, <1>2 DEF Begins
    <3>3. QED
      BY <1>1, <1>3, <3>1, <3>2, CutsOut
  <2>3. QED
    BY <1>1, <1>3, <2>1, <2>2 DEF IsPrefix
<1>6. QED
  BY <1>4, <1>5 DEF Unaddressed, x

\* A body, with bytes behind it that its length does not count, gives its packet.
LEMMA BodyReads ==
    ASSUME NEW p \in WirePackets, IsControl(p.protocol), NEW body, IsBody(body, p),
           NEW pad \in Seq(Byte)
    PROVE  /\ body \o pad \in Seq(Byte) /\ Len(body \o pad) >= 6
           /\ ReadU16(body \o pad, 1) = p.protocol
           /\ DecodeControl(p.protocol, From(body \o pad, 3)) = {p}
<1> DEFINE x == body \o pad
           n == Len(p.data)
           y == From(x, 3)
<1>1. p.data \in Seq(Byte) /\ n \in Nat /\ n = Len(p.data)
  BY DEF WirePackets
<1>2. /\ body \in Seq(Byte) /\ Len(body) = 6 + n
      /\ ReadU16(body, 1) = p.protocol /\ ReadU16(body, 5) = 4 + n
      /\ body[3] = p.code /\ body[4] = p.identifier
      /\ \A i \in 1..n : body[6 + i] = p.data[i]
  BY DEF IsBody
<1>3. /\ x \in Seq(Byte) /\ Len(x) = Len(body) + Len(pad)
      /\ \A i \in 1..Len(body) : x[i] = body[i]
  BY <1>2, Concat, Zenon
<1> HIDE DEF x, n
<1>4. Len(pad) \in Nat
  OBVIOUS
<1>5. x[1] = body[1] /\ x[2] = body[2] /\ x[3] = body[3] /\ x[4] = body[4] /\ x[5] = body[5] /\ x[6] = body[6]
  <2>1. \A i \in 1..6 : i \in 1..Len(body)
    BY <1>1, <1>2
  <2>2. \A i \in 1..6 : x[i] = body[i]
    BY <1>3, <2>1
  <2>3. QED
    BY <2>2
<1>6. y \in Seq(Byte) /\ Len(y) = 4 + n + Len(pad) /\ \A i \in 1..Len(y) : y[i] = x[i + 2]
  BY <1>1, <1>2, <1>3, <1>4 DEF From
<1> HIDE DEF y
<1>7. y[1] = p.code /\ y[2] = p.identifier /\ y[3] = body[5] /\ y[4] = body[6]
  <2>1. y[1] = x[1 + 2] /\ y[2] = x[2 + 2] /\ y[3] = x[3 + 2] /\ y[4] = x[4 + 2]
    BY <1>1, <1>4, <1>6
  <2>2. QED
    BY <1>2, <1>5, <2>1
<1>8. Declared(y) = 4 + n
  BY <1>2, <1>7 DEF Declared, ReadU16
<1>9. SubSeq(y, 4 + 1, 4 + n) = p.data
  <2>1. \A i \in 1..n : y[4 + i] = p.data[i]
    <3> SUFFICES ASSUME NEW i \in 1..n PROVE y[4 + i] = p.data[i]
      OBVIOUS
    <3>1. i \in Int /\ 1 <= i /\ i <= n
      BY <1>1
    <3>2. 4 + i \in 1..Len(y)
      BY <1>1, <1>4, <1>6, <3>1
    <3>3. 6 + i \in 1..Len(body) /\ (4 + i) + 2 = 6 + i
      BY <1>1, <1>2, <3>1
    <3>4. y[4 + i] = x[6 + i]
      BY <1>6, <3>2, <3>3
    <3>5. QED
      BY <1>2, <1>3, <3>3, <3>4
  <2>2. 4 + Len(p.data) <= Len(y)
    BY <1>1, <1>4, <1>6
  <2>3. QED
    BY <1>1, <1>6, <2>1, <2>2, CutsOut
<1>10. p = [protocol |-> p.protocol, code |-> p.code, identifier |-> p.identifier, data |-> p.data]
  BY DEF WirePackets
<1>11. Declared(y) \in 4 .. Len(y) /\ ~(Len(y) < 4)
  BY <1>1, <1>4, <1>6, <1>8
<1>12. DecodeControl(p.protocol, y) = {p}
  BY <1>7, <1>8, <1>9, <1>10, <1>11, Zenon DEF DecodeControl, headerLen
<1>13. Len(x) >= 6 /\ ReadU16(x, 1) = p.protocol
  BY <1>1, <1>2, <1>3, <1>4, <1>5 DEF ReadU16
<1>14. QED
  BY <1>3, <1>12, <1>13, Zenon DEF x, y

LEMMA PacketIsBody ==
    ASSUME NEW p \in WirePackets, IsControl(p.protocol), NEW x \in Seq(Byte), Len(x) >= 6,
           NEW frame, Unaddressed(frame) = x,
           ReadU16(x, 1) = p.protocol
    PROVE  Decode(frame) = DecodeControl(p.protocol, From(x, 3))
<1>1. ~(Len(x) < 2)
  OBVIOUS
<1>2. QED
  BY <1>1, Zenon DEF Decode

\* Where they are left out, nothing is taken off.
LEMMA NotAddressed ==
    ASSUME NEW x \in Seq(Byte), Len(x) >= 6, NEW protocol, ReadU16(x, 1) = protocol,
           protocol # ReadU16(AddressAndControl, 1)
    PROVE  Unaddressed(x) = x
<1>1. AddressAndControl \in Seq(Byte) /\ Len(AddressAndControl) = 2
  BY DEF AddressAndControl, Byte
<1>2. ~IsPrefix(AddressAndControl, x)
  <2> SUFFICES ASSUME SubSeq(AddressAndControl, 1, 2) = SubSeq(x, 1, 2) PROVE FALSE
    BY <1>1 DEF IsPrefix
  <2>1. SubSeq(x, 1, 2)[1] = x[1] /\ SubSeq(x, 1, 2)[2] = x[2]
    OBVIOUS
  <2>2. SubSeq(AddressAndControl, 1, 2)[1] = AddressAndControl[1]
        /\ SubSeq(AddressAndControl, 1, 2)[2] = AddressAndControl[2]
    BY <1>1
  <2>3. ReadU16(AddressAndControl, 1) = ReadU16(x, 1)
    BY <2>1, <2>2 DEF ReadU16
  <2>4. QED
    BY <2>3
<1>3. QED
  BY <1>2, Zenon DEF Unaddressed

\* Every LCP and IPCP packet comes back as it was built, whatever padding the frame ends in:
\* data that the length counts, and none that it does not.  So it does when the peer leaves
\* the address and control bytes out, unless its protocol is what these two bytes spell
\* (packet.go:47-112).
THEOREM PacketReadsBack ==
    ASSUME NEW p \in WirePackets, IsControl(p.protocol), Fits(p), NEW pad \in Seq(Byte)
    PROVE  /\ Decode(Encode(p) \o pad) = {p}
           /\ p.protocol # ReadU16(AddressAndControl, 1) => Decode(From(Encode(p), 3) \o pad) = {p}
<1>1. PICK body : IsBody(body, p) /\ Encode(p) = AddressAndControl \o body
  BY BodyOf, Zenon
<1>2. body \in Seq(Byte)
  BY <1>1, Zenon DEF IsBody
<1> DEFINE x == body \o pad
<1>3. /\ x \in Seq(Byte) /\ Len(x) >= 6 /\ ReadU16(x, 1) = p.protocol
      /\ DecodeControl(p.protocol, From(x, 3)) = {p}
  BY <1>1, BodyReads, Zenon
<1>4. AddressAndControl \in Seq(Byte) /\ Len(AddressAndControl) = 2
  BY DEF AddressAndControl, Byte
<1>5. Encode(p) \o pad = AddressAndControl \o x
  <2>1. (AddressAndControl \o body) \o pad = AddressAndControl \o (body \o pad)
    BY <1>2, <1>4, Associates, Zenon
  <2>2. QED
    BY <1>1, <2>1
<1>6. From(Encode(p), 3) = body
  BY <1>1, <1>2, Unwraps, Zenon
<1> HIDE DEF x
<1>7. Decode(AddressAndControl \o x) = {p}
  <2>1. Unaddressed(AddressAndControl \o x) = x
    BY <1>3, Unwraps, Zenon
  <2>2. QED
    BY <1>3, <2>1, PacketIsBody, Zenon
<1>8. ASSUME p.protocol # ReadU16(AddressAndControl, 1) PROVE Decode(x) = {p}
  <2>2. Unaddressed(x) = x
    BY <1>3, <1>8, NotAddressed, Zenon
  <2>3. QED
    BY <1>3, <2>2, PacketIsBody, Zenon
<1>9. QED
  BY <1>5, <1>6, <1>7, <1>8, Zenon DEF x

\* A control packet of which bytes are missing at its end is an error, never a shorter packet
\* (packet.go:74-89).
THEOREM TornPacketIsAnError ==
    ASSUME NEW p \in WirePackets, IsControl(p.protocol), Fits(p),
           NEW n \in 0 .. Len(Encode(p)) - 1
    PROVE  Decode(SubSeq(Encode(p), 1, n)) = {}
<1> DEFINE frame == SubSeq(Encode(p), 1, n)
<1>1. PICK body : IsBody(body, p) /\ Encode(p) = AddressAndControl \o body
  BY BodyOf, Zenon
<1>2. /\ p.data \in Seq(Byte) /\ Len(p.data) \in Nat
      /\ body \in Seq(Byte) /\ Len(body) = 6 + Len(p.data)
      /\ ReadU16(body, 1) = p.protocol /\ ReadU16(body, 5) = 4 + Len(p.data)
  BY <1>1 DEF IsBody, WirePackets
<1>3. AddressAndControl \in Seq(Byte) /\ Len(AddressAndControl) = 2
  BY DEF AddressAndControl, Byte
<1>4. Begins(Encode(p), AddressAndControl, body)
  BY <1>1, <1>2, <1>3, InFront, Zenon
<1>5. n \in Int /\ 0 <= n /\ n < Len(body) + 2
  BY <1>2, <1>4 DEF Begins
<1>6. frame \in Seq(Byte) /\ Len(frame) = n /\ \A i \in 1..n : frame[i] = Encode(p)[i]
  BY <1>2, <1>4, <1>5 DEF Begins
<1> HIDE DEF frame
<1>7. CASE n < 2
  <2>1. ~IsPrefix(AddressAndControl, frame)
    BY <1>3, <1>6, <1>7 DEF IsPrefix
  <2>2. Unaddressed(frame) = frame /\ Len(frame) < 2
    BY <1>6, <1>7, <2>1 DEF Unaddressed
  <2>3. QED
    BY <2>2, Zenon DEF Decode, frame
<1>8. CASE n >= 2
  <2> DEFINE b == SubSeq(body, 1, n - 2)
  <2>1. b \in Seq(Byte) /\ Len(b) = n - 2 /\ \A i \in 1..(n - 2) : b[i] = body[i]
    BY <1>2, <1>5, <1>8
  <2> HIDE DEF b
  <2>2. frame = AddressAndControl \o b
    <3>1. Begins(AddressAndControl \o b, AddressAndControl, b)
      BY <1>3, <2>1, InFront, Zenon
    <3> DEFINE z == AddressAndControl \o b
    <3> HIDE DEF z
    <3>2. z \in Seq(Byte) /\ Len(z) = n
      BY <1>5, <2>1, <3>1 DEF Begins, z
    <3>3. z[1] = frame[1] /\ z[2] = frame[2]
      <4>1. 1 \in 1..n /\ 2 \in 1..n
        BY <1>5, <1>8
      <4>2. QED
        BY <1>4, <1>6, <3>1, <4>1 DEF Begins, z
    <3>4. \A i \in 1..(n - 2) : z[i + 2] = frame[i + 2]
      <4> SUFFICES ASSUME NEW i \in 1..(n - 2) PROVE z[i + 2] = frame[i + 2]
        OBVIOUS
      <4>1. i \in 1..Len(b) /\ i \in 1..Len(body) /\ i + 2 \in 1..n
        BY <1>2, <1>5, <1>8, <2>1
      <4>2. z[i + 2] = b[i]
        BY <3>1, <4>1 DEF Begins, z
      <4>3. Encode(p)[i + 2] = body[i]
        BY <1>4, <4>1 DEF Begins
      <4>4. QED
        BY <1>6, <2>1, <4>1, <4>2, <4>3
    <3>5. \A i \in 1..n : z[i] = frame[i]
      <4> SUFFICES ASSUME NEW i \in 1..n PROVE z[i] = frame[i]
        OBVIOUS
      <4>1. CASE i = 1 \/ i = 2
        BY <3>3, <4>1
      <4>2. CASE i > 2
        <5>1. i - 2 \in 1..(n - 2) /\ (i - 2) + 2 = i
          BY <1>5, <4>2
        <5>2. QED
          BY <3>4, <5>1
      <4>3. QED
        BY <1>5, <4>1, <4>2
    <3>6. z = frame
      BY <1>6, <3>2, <3>5, SeqEqual
    <3>7. QED
      BY <3>6 DEF z
  <2>3. Unaddressed(frame) = b
    BY <2>1, <2>2, Unwraps, Zenon
  <2>4. CASE n < 4
    <3>1. Len(b) < 2
      BY <1>5, <2>1, <2>4
    <3>2. QED
      BY <2>3, <3>1, Zenon DEF Decode, frame
  <2>5. CASE n >= 4
    <3> DEFINE y == From(b, 3)
    <3>1. y \in Seq(Byte) /\ Len(y) = n - 4 /\ \A i \in 1..(n - 4) : y[i] = b[i + 2]
      BY <1>5, <2>1, <2>5 DEF From
    <3> HIDE DEF y
    <3>2. ReadU16(b, 1) = p.protocol
      <4>1. 1 \in 1..(n - 2) /\ 2 \in 1..(n - 2)
        BY <1>5, <2>5
      <4>2. b[1] = body[1] /\ b[2] = body[2]
        BY <2>1, <4>1
      <4>3. QED
        BY <1>2, <4>2 DEF ReadU16
    <3>3. Len(y) < 4 \/ Declared(y) \notin 4 .. Len(y)
      <4> SUFFICES ASSUME n >= 8 PROVE Declared(y) \notin 4 .. Len(y)
        BY <1>5, <3>1
      <4>1. 3 \in 1..(n - 4) /\ 4 \in 1..(n - 4) /\ 5 \in 1..(n - 2) /\ 6 \in 1..(n - 2)
        BY <1>5
      <4>2. y[3] = b[3 + 2] /\ y[4] = b[4 + 2]
        BY <3>1, <4>1
      <4>3. b[5] = body[5] /\ b[6] = body[6]
        BY <2>1, <4>1
      <4>4. Declared(y) = 4 + Len(p.data)
        BY <1>2, <4>2, <4>3 DEF Declared, ReadU16
      <4>5. Len(y) < 4 + Len(p.data)
        BY <1>2, <1>5, <3>1
      <4>6. QED
        BY <1>2, <1>5, <3>1, <4>4, <4>5
    <3>4. DecodeControl(p.protocol, y) = {}
      BY <3>3, Zenon DEF DecodeControl, headerLen
    <3>5. Decode(frame) = {}
      BY <2>3, <3>2, <3>4, Zenon DEF Decode, y
    <3>6. QED
      BY <3>5 DEF frame
  <2>6. QED
    BY <1>5, <2>4, <2>5
<1>9. QED
  BY <1>5, <1>7, <1>8

-----------------------------------------------------------------------------
(* ppp/packet.go: options *)

LEMMA HasLeast ==
    ASSUME NEW T, T \subseteq Nat, T # {}
    PROVE  \E x \in T : \A y \in T : x <= y
<1>1. PICK x \in T : \A y \in T : ~ (<<y, x>> \in OpToRel(<, Nat))
  BY NatLessThanWellFounded, WFMin
<1>2. \A y \in T : ~(y < x)
  BY <1>1 DEF OpToRel
<1>3. QED
  BY <1>2

\* A set that has 0, and with a number below n the one that follows, has all up to n.
LEMMA UpTo ==
    ASSUME NEW n \in Nat, NEW T, 0 \in T,
           \A k \in 0..n : k \in T /\ k < n => k + 1 \in T
    PROVE  0..n \subseteq T
<1> DEFINE missing == (0..n) \ T
<1>1. SUFFICES ASSUME missing # {} PROVE FALSE
  OBVIOUS
<1>2. PICK x \in missing : \A y \in missing : x <= y
  <2>1. missing \subseteq Nat
    OBVIOUS
  <2> HIDE DEF missing
  <2>2. QED
    BY <1>1, <2>1, HasLeast
<1>3. x # 0 /\ x - 1 \in 0..n /\ x - 1 < n
  BY <1>2
<1>4. x - 1 \in T
  BY <1>2, <1>3
<1>5. (x - 1) + 1 \in T
  BY <1>3, <1>4
<1>6. QED
  BY <1>2, <1>5

\* Their length fits into one byte.
WireOptions == [type : Byte, value : {v \in Seq(Byte) : Len(v) <= 253}]

Rendered(option) == <<option.type, (2 + Len(option.value)) % 256>> \o option.value

LEMMA RenderedIs ==
    ASSUME NEW x \in WireOptions
    PROVE  /\ x.type \in Byte /\ x.value \in Seq(Byte) /\ Len(x.value) \in Nat
           /\ Rendered(x) \in Seq(Byte) /\ Len(Rendered(x)) = 2 + Len(x.value)
           /\ Rendered(x)[1] = x.type /\ Rendered(x)[2] = 2 + Len(x.value)
           /\ \A i \in 1..Len(x.value) : Rendered(x)[2 + i] = x.value[i]
<1> DEFINE n == Len(x.value)
           two == <<x.type, (2 + n) % 256>>
<1>1. x.type \in Byte /\ x.value \in Seq(Byte) /\ n \in Nat /\ n <= 253
  BY DEF WireOptions
<1>2. Rendered(x) = two \o x.value /\ n = Len(x.value)
  BY DEF Rendered
<1> HIDE DEF n
<1>3. (2 + n) % 256 = 2 + n /\ 2 + n \in Byte
  BY <1>1 DEF Byte
<1>4. two \in Seq(Byte) /\ Len(two) = 2 /\ two[1] = x.type /\ two[2] = 2 + n
  BY <1>1, <1>3
<1> HIDE DEF two
<1>5. Begins(two \o x.value, two, x.value)
  BY <1>1, <1>4, InFront, Zenon
<1>6. \A i \in 1..n : Rendered(x)[2 + i] = x.value[i]
  <2>1. \A i \in 1..n : i + 2 = 2 + i
    BY <1>1
  <2>2. QED
    BY <1>2, <1>5, <2>1 DEF Begins
<1>7. QED
  BY <1>1, <1>2, <1>4, <1>5, <1>6 DEF Begins

\* The pieces up to so many, one behind the other.
Joins(f, s) == f[1] = s[1] /\ \A i \in 2..Len(s) : f[i] = f[i - 1] \o s[i]

\* There is such a function, so that FlattenSeq computes one.
LEMMA JoinsExist ==
    ASSUME NEW s, Len(s) \in Nat
    PROVE  \E f : f = [i \in 1..Len(s) |-> IF i = 1 THEN s[i] ELSE f[i - 1] \o s[i]]
<1> DEFINE L == Len(s)
           Fills(k, f) == f = [i \in 1..k |-> IF i = 1 THEN s[i] ELSE f[i - 1] \o s[i]]
           T == {k \in 0..L : \E f : Fills(k, f)}
<1>1. L \in Nat
  OBVIOUS
<1>2. 0 \in T
  <2> DEFINE f == [i \in 1..0 |-> s[i]]
  <2>1. f = [i \in 1..0 |-> IF i = 1 THEN s[i] ELSE f[i - 1] \o s[i]]
    OBVIOUS
  <2>2. Fills(0, f)
    BY <2>1
  <2> HIDE DEF f
  <2>3. \E g : Fills(0, g)
    BY <2>2
  <2>4. 0 \in 0..L
    BY <1>1
  <2>5. QED
    BY <2>3, <2>4, Zenon
<1>3. ASSUME NEW k \in 0..L, k \in T, k < L PROVE k + 1 \in T
  <2>1. PICK f : Fills(k, f)
    BY <1>3
  <2> DEFINE piece(i) == IF i = 1 THEN s[i] ELSE f[i - 1] \o s[i]
             g == [i \in 1..k + 1 |-> IF i = k + 1 THEN piece(i) ELSE f[i]]
  <2>2. k \in Nat /\ k + 1 \in 0..L
    BY <1>1, <1>3
  <2>3. ASSUME NEW i \in 1..k + 1
        PROVE  g[i] = IF i = 1 THEN s[i] ELSE g[i - 1] \o s[i]
    <3>1. i # 1 => g[i - 1] = f[i - 1]
      BY <2>2
    <3>2. CASE i = k + 1
      BY <3>1, <3>2
    <3>3. CASE i # k + 1
      <4>1. i \in 1..k
        BY <2>2, <3>3
      <4>2. g[i] = f[i]
        BY <2>2, <4>1
      <4>3. f[i] = IF i = 1 THEN s[i] ELSE f[i - 1] \o s[i]
        BY <2>1, <4>1
      <4>4. QED
        BY <3>1, <4>2, <4>3
    <3>4. QED
      BY <3>2, <3>3
  <2>4. Fills(k + 1, g)
    BY <2>3
  <2>5. QED
    BY <2>2, <2>4
<1>4. 0..L \subseteq T
  <2> HIDE DEF T, L
  <2>1. \A k \in 0..L : k \in T /\ k < L => k + 1 \in T
    BY <1>3
  <2>2. QED
    BY <1>1, <1>2, <2>1, UpTo
<1>5. L \in T
  <2>1. L \in 0..L
    BY <1>1
  <2>2. QED
    BY <1>4, <2>1, Zenon
<1>6. QED
  BY <1>5

LEMMA FlattenIsLast ==
    ASSUME NEW s, Len(s) \in Nat, Len(s) # 0
    PROVE  \E f : Joins(f, s) /\ FlattenSeq(s) = f[Len(s)]
<1> DEFINE flatten == CHOOSE f : f = [i \in 1..Len(s) |->
                                        IF i = 1 THEN s[i] ELSE f[i - 1] \o s[i]]
<1>1. flatten = [i \in 1..Len(s) |-> IF i = 1 THEN s[i] ELSE flatten[i - 1] \o s[i]]
  BY JoinsExist
<1>2. FlattenSeq(s) = flatten[Len(s)]
  BY DEF FlattenSeq
<1> HIDE DEF flatten
<1>3. Joins(flatten, s)
  <2>1. 1 \in 1..Len(s) /\ \A i \in 2..Len(s) : i \in 1..Len(s) /\ i # 1
    OBVIOUS
  <2>2. flatten[1] = s[1]
    BY <1>1, <2>1
  <2>3. \A i \in 2..Len(s) : flatten[i] = flatten[i - 1] \o s[i]
    BY <1>1, <2>1
  <2>4. QED
    BY <2>2, <2>3 DEF Joins
<1>4. QED
  BY <1>2, <1>3

LEMMA FlattenFront ==
    ASSUME NEW r \in Seq(Byte), NEW s \in Seq(Seq(Byte)), NEW s2 \in Seq(Seq(Byte)),
           Len(s2) = Len(s) + 1, s2[1] = r, \A i \in 1..Len(s) : s2[i + 1] = s[i]
    PROVE  FlattenSeq(s) \in Seq(Byte) /\ FlattenSeq(s2) = r \o FlattenSeq(s)
<1> DEFINE m == Len(s)
<1>1. m \in Nat /\ Len(s) = m /\ Len(s2) = m + 1
  OBVIOUS
<1>2. \A i \in 1..m : s[i] \in Seq(Byte) /\ s2[i + 1] = s[i]
  OBVIOUS
<1> HIDE DEF m
<1>3. PICK f2 : Joins(f2, s2) /\ FlattenSeq(s2) = f2[m + 1]
  <2>1. Len(s2) \in Nat /\ Len(s2) # 0
    BY <1>1
  <2>2. QED
    BY <1>1, <2>1, FlattenIsLast
<1>4. f2[1] = r /\ \A i \in 1..m : f2[i + 1] = f2[i] \o s[i]
  <2>1. f2[1] = r
    BY <1>3 DEF Joins
  <2>2. ASSUME NEW i \in 1..m PROVE f2[i + 1] = f2[i] \o s[i]
    <3>1. i + 1 \in 2..Len(s2) /\ (i + 1) - 1 = i
      BY <1>1
    <3>2. f2[i + 1] = f2[(i + 1) - 1] \o s2[i + 1]
      BY <1>3, <3>1, Zenon DEF Joins
    <3>3. QED
      BY <1>2, <3>1, <3>2
  <2>3. QED
    BY <2>1, <2>2
<1>5. CASE m = 0
  <2>1. s = <<>>
    BY <1>1, <1>5
  <2>2. FlattenSeq(s) = <<>>
    BY <2>1 DEF FlattenSeq
  <2>3. r \o <<>> = r
    OBVIOUS
  <2>4. FlattenSeq(s2) = r
    BY <1>3, <1>4, <1>5
  <2>5. QED
    BY <2>2, <2>3, <2>4
<1>6. CASE m # 0
  <2>1. PICK f : Joins(f, s) /\ FlattenSeq(s) = f[m]
    BY <1>1, <1>6, FlattenIsLast
  <2> DEFINE Good(i) == f[i + 1] \in Seq(Byte) /\ f2[i + 2] = r \o f[i + 1]
             T == {i \in 0..m - 1 : Good(i)}
  <2>2. 0 \in T
    <3>1. 1 \in 1..m /\ 0 \in 0..m - 1
      BY <1>1, <1>6
    <3>2. f[1] = s[1] /\ s[1] \in Seq(Byte)
      BY <1>2, <2>1, <3>1 DEF Joins
    <3>3. f2[1 + 1] = r \o s[1]
      BY <1>4, <3>1
    <3>4. 0 + 1 = 1 /\ 0 + 2 = 2 /\ 1 + 1 = 2
      OBVIOUS
    <3>5. Good(0)
      BY <3>2, <3>3, <3>4, Zenon
    <3>6. QED
      BY <3>1, <3>5
  <2>3. ASSUME NEW i \in 0..m - 1, i \in T, i < m - 1 PROVE i + 1 \in T
    <3>1. i \in Nat /\ i + 1 \in 0..m - 1 /\ i + 2 \in 2..m /\ i + 2 \in 1..m
          /\ (i + 2) - 1 = i + 1 /\ (i + 2) + 1 = i + 3
      BY <1>1, <2>3
    <3>2. f[i + 1] \in Seq(Byte) /\ f2[i + 2] = r \o f[i + 1]
      BY <2>3
    <3>3. f[i + 2] = f[i + 1] \o s[i + 2]
      BY <1>1, <2>1, <3>1 DEF Joins
    <3>4. f2[i + 3] = f2[i + 2] \o s[i + 2]
      BY <1>4, <3>1
    <3>5. s[i + 2] \in Seq(Byte)
      BY <1>2, <3>1
    <3>6. f[i + 2] \in Seq(Byte)
      BY <3>2, <3>3, <3>5, Concat, Zenon
    <3>7. (r \o f[i + 1]) \o s[i + 2] = r \o (f[i + 1] \o s[i + 2])
      BY <3>2, <3>5, Associates, Zenon
    <3>8. f2[i + 3] = r \o f[i + 2]
      BY <3>2, <3>3, <3>4, <3>7, Zenon
    <3>9. (i + 1) + 1 = i + 2 /\ (i + 1) + 2 = i + 3
      BY <3>1
    <3>10. Good(i + 1)
      BY <3>6, <3>8, <3>9, Zenon
    <3>11. QED
      BY <3>1, <3>10
  <2>4. m - 1 \in T
    <3>1. m - 1 \in Nat /\ m - 1 \in 0..m - 1
      BY <1>1, <1>6
    <3>2. \A k \in 0..m - 1 : k \in T /\ k < m - 1 => k + 1 \in T
      BY <2>3
    <3> HIDE DEF T
    <3>3. 0..m - 1 \subseteq T
      BY <2>2, <3>1, <3>2, UpTo
    <3>4. QED
      BY <3>1, <3>3
  <2>5. (m - 1) + 1 = m /\ (m - 1) + 2 = m + 1
    BY <1>1
  <2>6. f[m] \in Seq(Byte) /\ f2[m + 1] = r \o f[m]
    BY <2>4, <2>5
  <2>7. QED
    BY <1>3, <2>1, <2>6
<1>7. QED
  BY <1>5, <1>6

\* An option list is its first option, and then the others.
LEMMA OptionsInFront ==
    ASSUME NEW x \in WireOptions, NEW o \in Seq(WireOptions)
    PROVE  /\ EncodeOptions(o) \in Seq(Byte)
           /\ EncodeOptions(<<x>> \o o) = Rendered(x) \o EncodeOptions(o)
<1> DEFINE o2 == <<x>> \o o
           s == [i \in DOMAIN o |-> Rendered(o[i])]
           s2 == [i \in DOMAIN o2 |-> Rendered(o2[i])]
<1>1. /\ o2 \in Seq(WireOptions) /\ Len(o2) = Len(o) + 1 /\ o2[1] = x
      /\ \A i \in 1..Len(o) : o2[i + 1] = o[i]
  OBVIOUS
<1>2. EncodeOptions(o) = FlattenSeq(s) /\ EncodeOptions(o2) = FlattenSeq(s2)
  BY Zenon DEF EncodeOptions, Rendered
<1>3. Len(o) \in Nat /\ DOMAIN o = 1..Len(o) /\ DOMAIN o2 = 1..Len(o2)
  BY <1>1
<1>4. /\ \A i \in 1..Len(o) : o[i] \in WireOptions
      /\ \A i \in 1..Len(o2) : o2[i] \in WireOptions
  BY <1>1
<1> HIDE DEF o2
<1>5. s \in Seq(Seq(Byte)) /\ Len(s) = Len(o) /\ \A i \in 1..Len(o) : s[i] = Rendered(o[i])
  <2>1. \A i \in 1..Len(o) : Rendered(o[i]) \in Seq(Byte)
    BY <1>4, RenderedIs, Zenon
  <2>2. QED
    BY <1>3, <2>1
<1>6. s2 \in Seq(Seq(Byte)) /\ Len(s2) = Len(o2) /\ \A i \in 1..Len(o2) : s2[i] = Rendered(o2[i])
  <2>1. \A i \in 1..Len(o2) : Rendered(o2[i]) \in Seq(Byte)
    BY <1>4, RenderedIs, Zenon
  <2>2. QED
    BY <1>1, <1>3, <2>1
<1> HIDE DEF s, s2
<1>7. s2[1] = Rendered(x) /\ \A i \in 1..Len(s) : s2[i + 1] = s[i]
  <2>1. 1 \in 1..Len(o2) /\ \A i \in 1..Len(o) : i + 1 \in 1..Len(o2)
    BY <1>1, <1>3
  <2>2. QED
    BY <1>1, <1>5, <1>6, <2>1
<1>8. FlattenSeq(s) \in Seq(Byte) /\ FlattenSeq(s2) = Rendered(x) \o FlattenSeq(s)
  <2>1. Rendered(x) \in Seq(Byte) /\ Len(s2) = Len(s) + 1
    BY <1>1, <1>5, <1>6, RenderedIs
  <2>2. QED
    BY <1>5, <1>6, <1>7, <2>1, FlattenFront, Zenon
<1>9. QED
  BY <1>2, <1>8, Zenon DEF o2

\* What DecodeOptions makes of the bytes from k on, when f is what it makes of those further
\* behind.
Ends(data)     == Len(data) + 1
Torn(data, k)  == k + 1 = Ends(data) \/ data[k + 1] < 2 \/ k + data[k + 1] > Ends(data)
First(data, k) == [type |-> data[k], value |-> SubSeq(data, k + 2, (k + data[k + 1]) - 1)]
Parsed(f, data, k) ==
    IF k = Ends(data) THEN {<<>>}
    ELSE IF Torn(data, k) THEN {}
    ELSE {<<First(data, k)>> \o rest : rest \in f[k + data[k + 1]]}

\* What is not torn goes on behind its option.
LEMMA GoesOn ==
    ASSUME NEW data \in Seq(Byte), NEW k \in 1..Ends(data), k # Ends(data), ~Torn(data, k)
    PROVE  /\ k + 1 \in 1..Len(data) /\ data[k + 1] \in Nat /\ data[k + 1] <= 255 /\ data[k + 1] >= 2
           /\ k + data[k + 1] \in k + 1 .. Ends(data)
<1> DEFINE n == data[k + 1]
           L == Len(data)
<1>1. L \in Nat /\ Ends(data) = L + 1 /\ k \in 1..L + 1
  BY DEF Ends
<1>2. k + 1 # L + 1 /\ ~(n < 2) /\ ~(k + n > L + 1)
  BY <1>1, Zenon DEF Torn
<1>3. k + 1 \in 1..L
  BY <1>1, <1>2
<1>4. n \in Byte
  BY <1>3
<1> HIDE DEF n, L
<1>5. n \in Nat /\ n <= 255
  BY <1>4 DEF Byte
<1>6. k + 1 \in 1..L /\ n \in Nat /\ n <= 255 /\ n >= 2 /\ k + n \in k + 1 .. Ends(data)
  BY <1>1, <1>2, <1>3, <1>5
<1>7. QED
  BY <1>6 DEF n, L

LEMMA ParsedDepends ==
    ASSUME NEW data \in Seq(Byte), NEW k \in 1..Ends(data), NEW f, NEW g,
           \A j \in k + 1 .. Ends(data) : f[j] = g[j]
    PROVE  Parsed(f, data, k) = Parsed(g, data, k)
<1>1. CASE k = Ends(data) \/ Torn(data, k)
  BY <1>1, Zenon DEF Parsed
<1>2. CASE k # Ends(data) /\ ~Torn(data, k)
  <2>1. f[k + data[k + 1]] = g[k + data[k + 1]]
    BY <1>2, GoesOn
  <2>2. QED
    BY <1>2, <2>1, Zenon DEF Parsed
<1>3. QED
  BY <1>1, <1>2

LEMMA ParsesExist ==
    ASSUME NEW data \in Seq(Byte)
    PROVE  \E f : f = [k \in 1..Ends(data) |-> Parsed(f, data, k)]
<1> DEFINE L == Len(data)
           E == Ends(data)
           Fills(j, f) == f = [k \in (E - j)..E |-> Parsed(f, data, k)]
           T == {j \in 0..L : \E f : Fills(j, f)}
<1>1. L \in Nat /\ E = L + 1
  BY DEF Ends
<1>2. 0 \in T
  <2> DEFINE f == [k \in (E - 0)..E |-> {<<>>}]
  <2>1. \A g : \A k \in (E - 0)..E : Parsed(g, data, k) = {<<>>}
    BY <1>1 DEF Parsed
  <2>2. Fills(0, f)
    BY <2>1
  <2> HIDE DEF f
  <2>3. \E g : Fills(0, g)
    BY <2>2
  <2>4. 0 \in 0..L
    BY <1>1
  <2>5. QED
    BY <2>3, <2>4, Zenon
<1>3. ASSUME NEW j \in 0..L, j \in T, j < L PROVE j + 1 \in T
  <2>1. PICK f : Fills(j, f)
    BY <1>3
  <2> DEFINE b == E - (j + 1)
             g == [k \in b..E |-> IF k = b THEN Parsed(f, data, k) ELSE f[k]]
  <2>2. j \in Nat /\ j + 1 \in 0..L /\ b \in 1..E /\ b + 1 = E - j /\ b \in Nat /\ E \in Nat
    BY <1>1, <1>3
  <2> HIDE DEF b, E
  <2>3. \A k \in b + 1 .. E : g[k] = f[k] /\ f[k] = Parsed(f, data, k)
    <3>1. f = [k \in b + 1 .. E |-> Parsed(f, data, k)]
      BY <2>1, <2>2
    <3>2. \A k \in b + 1 .. E : k \in b..E /\ k # b
      BY <2>2
    <3>3. QED
      BY <3>1, <3>2
  <2>4. g[b] = Parsed(f, data, b)
    BY <2>2
  <2>5. ASSUME NEW k \in b..E PROVE g[k] = Parsed(g, data, k)
    <3> HIDE DEF g
    <3>1. \A i \in k + 1 .. Ends(data) : f[i] = g[i]
      BY <2>2, <2>3 DEF E
    <3>2. k \in 1..Ends(data)
      BY <2>2 DEF E
    <3>3. Parsed(f, data, k) = Parsed(g, data, k)
      BY <3>1, <3>2, ParsedDepends
    <3>4. CASE k = b
      BY <2>4, <3>3, <3>4
    <3>5. CASE k # b
      <4>1. k \in b + 1 .. E
        BY <2>2, <3>5
      <4>2. QED
        BY <2>3, <3>3, <4>1
    <3>6. QED
      BY <3>4, <3>5
  <2>6. Fills(j + 1, g)
    BY <2>5 DEF b
  <2> HIDE DEF g
  <2>7. QED
    BY <2>2, <2>6
<1>4. L \in T
  <2>1. \A k \in 0..L : k \in T /\ k < L => k + 1 \in T
    BY <1>3
  <2>2. L \in 0..L
    BY <1>1
  <2> HIDE DEF T, L
  <2>3. 0..L \subseteq T
    BY <1>1, <1>2, <2>1, UpTo
  <2>4. QED
    BY <2>2, <2>3
<1>5. PICK f : Fills(L, f)
  BY <1>4, Zenon
<1>6. E - L = 1
  BY <1>1
<1>7. QED
  BY <1>5, <1>6

LEMMA DecodesFromTheStart ==
    ASSUME NEW data \in Seq(Byte)
    PROVE  \E f : /\ \A k \in 1..Ends(data) : f[k] = Parsed(f, data, k)
                  /\ DecodeOptions(data) = f[1]
<1> DEFINE end == Len(data) + 1
           Step(f, k) ==
               IF k = end THEN {<<>>}
               ELSE IF k + 1 = end \/ data[k + 1] < 2 \/ k + data[k + 1] > end THEN {}
               ELSE {<<[type |-> data[k], value |-> SubSeq(data, k + 2, (k + data[k + 1]) - 1)]>> \o rest :
                         rest \in f[k + data[k + 1]]}
           from == CHOOSE f : f = [k \in 1..end |-> Step(f, k)]
<1>1. DecodeOptions(data) = from[1]
  BY DEF DecodeOptions
<1>2. \A f, k : Step(f, k) = Parsed(f, data, k)
  BY Zenon DEF Parsed, Torn, First, Ends
<1> HIDE DEF Step
<1>3. \A f : [k \in 1..end |-> Step(f, k)] = [k \in 1..Ends(data) |-> Parsed(f, data, k)]
  BY <1>2, Zenon DEF Ends
<1>4. \E f : f = [k \in 1..end |-> Step(f, k)]
  <2>1. PICK f : f = [k \in 1..Ends(data) |-> Parsed(f, data, k)]
    BY ParsesExist, Zenon
  <2>2. f = [k \in 1..end |-> Step(f, k)]
    BY <1>3, <2>1, Zenon
  <2>3. QED
    BY <2>2, Zenon
<1>5. from = [k \in 1..end |-> Step(from, k)]
  BY <1>4, Zenon
<1>6. from = [k \in 1..Ends(data) |-> Parsed(from, data, k)]
  BY <1>3, <1>5, Zenon
<1> HIDE DEF from
<1>7. \A k \in 1..Ends(data) : from[k] = Parsed(from, data, k)
  BY <1>6, Zenon
<1>8. QED
  BY <1>1, <1>7, Zenon

\* A set that has a position if it has all behind it has them all.
LEMMA FromBehind ==
    ASSUME NEW e \in Nat, NEW T, \A k \in 1..e : k + 1 .. e \subseteq T => k \in T
    PROVE  1..e \subseteq T
<1> DEFINE missing == {n \in 0..e - 1 : e - n \notin T}
<1>1. SUFFICES ASSUME missing # {} PROVE FALSE
  <2>1. \A k \in 1..e : e - k \in 0..e - 1 /\ e - (e - k) = k
    OBVIOUS
  <2>2. QED
    BY <2>1
<1>2. PICK x \in missing : \A y \in missing : x <= y
  <2>1. missing \subseteq Nat
    OBVIOUS
  <2> HIDE DEF missing
  <2>2. QED
    BY <1>1, <2>1, HasLeast
<1>3. e - x \in 1..e /\ e - x \notin T
  BY <1>2
<1>4. \A i \in (e - x) + 1 .. e : i \in T
  <2> SUFFICES ASSUME NEW i \in (e - x) + 1 .. e, i \notin T PROVE FALSE
    OBVIOUS
  <2>1. e - i \in 0..e - 1 /\ e - (e - i) = i /\ e - i < x
    BY <1>2
  <2>2. e - i \in missing
    BY <2>1
  <2>3. QED
    BY <1>2, <2>1, <2>2
<1>5. QED
  BY <1>3, <1>4

LEMMA NothingLeft ==
    /\ EncodeOptions(<<>>) = <<>>
    /\ \A data \in Seq(Byte) : From(data, Ends(data)) = <<>> /\ From(data, 1) = data
<1>1. EncodeOptions(<<>>) = <<>>
  <2> DEFINE s == [i \in DOMAIN <<>> |-> Rendered(<<>>[i])]
  <2>1. EncodeOptions(<<>>) = FlattenSeq(s)
    BY Zenon DEF EncodeOptions, Rendered
  <2>2. s = <<>>
    OBVIOUS
  <2>3. FlattenSeq(<<>>) = <<>>
    BY DEF FlattenSeq
  <2>4. QED
    BY <2>1, <2>2, <2>3
<1>2. ASSUME NEW data \in Seq(Byte) PROVE From(data, Ends(data)) = <<>> /\ From(data, 1) = data
  BY DEF From, Ends
<1>3. QED
  BY <1>1, <1>2

LEMMA FromIs ==
    ASSUME NEW data \in Seq(Byte), NEW k \in 1..Ends(data)
    PROVE  /\ From(data, k) \in Seq(Byte) /\ Len(From(data, k)) = Ends(data) - k
           /\ \A i \in 1 .. Ends(data) - k : From(data, k)[i] = data[(k - 1) + i]
BY DEF From, Ends

\* What is not torn at k is an option, and the rest.
LEMMA OptionAt ==
    ASSUME NEW data \in Seq(Byte), NEW k \in 1..Ends(data), k # Ends(data), ~Torn(data, k)
    PROVE  /\ First(data, k) \in WireOptions
           /\ From(data, k) = Rendered(First(data, k)) \o From(data, k + data[k + 1])
<1> DEFINE x == First(data, k)
           n == data[k + 1]
           E == Ends(data)
           y == Rendered(x) \o From(data, k + n)
<1>1. /\ k + 1 \in 1..Len(data) /\ n \in Nat /\ n <= 255 /\ n >= 2 /\ k + n \in k + 1 .. E
      /\ E = Len(data) + 1 /\ Len(data) \in Nat /\ k \in Nat
  BY GoesOn DEF Ends
<1>2. /\ From(data, k) \in Seq(Byte) /\ Len(From(data, k)) = E - k
      /\ \A i \in 1 .. E - k : From(data, k)[i] = data[(k - 1) + i]
  BY FromIs, Zenon
<1>3. k + n \in 1..E
  BY <1>1
<1>4. /\ From(data, k + n) \in Seq(Byte) /\ Len(From(data, k + n)) = E - (k + n)
      /\ \A i \in 1 .. E - (k + n) : From(data, k + n)[i] = data[((k + n) - 1) + i]
  BY <1>3, FromIs, Zenon
<1> DEFINE v == SubSeq(data, k + 2, (k + n) - 1)
<1>5. x = [type |-> data[k], value |-> v]
  BY DEF First
<1> HIDE DEF n, x, E, y
<1>6. /\ data[k] \in Byte /\ v \in Seq(Byte) /\ Len(v) = n - 2
      /\ \A i \in 1..n - 2 : v[i] = data[(k + 1) + i]
  BY <1>1
<1> HIDE DEF v
<1>7. x \in WireOptions /\ x.type = data[k] /\ x.value = v
  <2>1. v \in {w \in Seq(Byte) : Len(w) <= 253}
    BY <1>1, <1>6
  <2>2. x \in WireOptions
    BY <1>5, <1>6, <2>1, Zenon DEF WireOptions
  <2>3. QED
    BY <1>5, <2>2
<1>8. /\ Rendered(x) \in Seq(Byte) /\ Len(Rendered(x)) = n
      /\ Rendered(x)[1] = data[k] /\ Rendered(x)[2] = n
      /\ \A i \in 1..n - 2 : Rendered(x)[2 + i] = data[(k + 1) + i]
  <2>1. /\ Rendered(x) \in Seq(Byte) /\ Len(Rendered(x)) = 2 + Len(v)
        /\ Rendered(x)[1] = data[k] /\ Rendered(x)[2] = 2 + Len(v)
        /\ \A i \in 1..Len(v) : Rendered(x)[2 + i] = v[i]
    BY <1>7, RenderedIs
  <2>2. 2 + Len(v) = n /\ Len(v) = n - 2
    BY <1>1, <1>6
  <2>3. QED
    BY <1>6, <2>1, <2>2
<1>9. \A i \in 1..n : Rendered(x)[i] = data[(k - 1) + i]
  <2> SUFFICES ASSUME NEW i \in 1..n PROVE Rendered(x)[i] = data[(k - 1) + i]
    OBVIOUS
  <2>1. CASE i = 1
    <3>1. (k - 1) + 1 = k
      BY <1>1
    <3>2. QED
      BY <1>8, <2>1, <3>1
  <2>2. CASE i = 2
    <3>1. (k - 1) + 2 = k + 1
      BY <1>1
    <3>2. QED
      BY <1>8, <2>2, <3>1 DEF n
  <2>3. CASE i > 2
    <3>1. i - 2 \in 1..n - 2 /\ 2 + (i - 2) = i /\ (k + 1) + (i - 2) = (k - 1) + i
      BY <1>1, <2>3
    <3>2. QED
      BY <1>8, <3>1
  <2>4. QED
    BY <1>1, <2>1, <2>2, <2>3
<1>10. /\ y \in Seq(Byte) /\ Len(y) = Len(Rendered(x)) + Len(From(data, k + n))
       /\ \A i \in 1..Len(Rendered(x)) : y[i] = Rendered(x)[i]
       /\ \A i \in 1..Len(From(data, k + n)) : y[Len(Rendered(x)) + i] = From(data, k + n)[i]
  BY <1>4, <1>8, Concat, Zenon DEF y
<1>11. Len(y) = E - k
  BY <1>1, <1>4, <1>8, <1>10
<1>12. \A i \in 1 .. E - k : y[i] = data[(k - 1) + i]
  <2> SUFFICES ASSUME NEW i \in 1 .. E - k PROVE y[i] = data[(k - 1) + i]
    OBVIOUS
  <2>1. CASE i <= n
    BY <1>1, <1>8, <1>9, <1>10, <2>1
  <2>2. CASE i > n
    <3>1. i - n \in 1 .. E - (k + n) /\ n + (i - n) = i /\ ((k + n) - 1) + (i - n) = (k - 1) + i
      BY <1>1, <2>2
    <3>2. y[n + (i - n)] = From(data, k + n)[i - n]
      BY <1>4, <1>8, <1>10, <3>1
    <3>3. QED
      BY <1>4, <3>1, <3>2
  <2>3. QED
    BY <1>1, <2>1, <2>2
<1>13. From(data, k) = y
  <2>1. \A i \in 1..Len(y) : From(data, k)[i] = y[i]
    BY <1>2, <1>11, <1>12
  <2>2. QED
    BY <1>2, <1>10, <1>11, <2>1, SeqEqual
<1>14. QED
  BY <1>7, <1>13 DEF x, y, n

\* And an option that is written there is what it gives.
GivesOption(data, k, x, t) ==
    /\ k # Ends(data) /\ ~Torn(data, k)
    /\ First(data, k) = x /\ From(data, k + data[k + 1]) = t

LEMMA OptionThere ==
    ASSUME NEW data \in Seq(Byte), NEW k \in 1..Ends(data),
           NEW x \in WireOptions, NEW t \in Seq(Byte), From(data, k) = Rendered(x) \o t
    PROVE  GivesOption(data, k, x, t)
<1> DEFINE r == Rendered(x)
           v == x.value
           m == Len(v)
           E == Ends(data)
           z == r \o t
<1>1. /\ x.type \in Byte /\ v \in Seq(Byte) /\ m \in Nat /\ m = Len(v)
      /\ r \in Seq(Byte) /\ Len(r) = 2 + m
      /\ r[1] = x.type /\ r[2] = 2 + m
      /\ \A i \in 1..m : r[2 + i] = v[i]
  BY RenderedIs
<1>2. /\ z \in Seq(Byte) /\ Len(z) = Len(r) + Len(t)
      /\ \A i \in 1..Len(r) : z[i] = r[i]
      /\ \A i \in 1..Len(t) : z[Len(r) + i] = t[i]
  BY <1>1, Concat, Zenon
<1>3. Len(z) = E - k /\ \A i \in 1 .. E - k : z[i] = data[(k - 1) + i]
  BY FromIs
<1>4. E = Len(data) + 1 /\ Len(data) \in Nat /\ k \in Nat /\ 1 <= k /\ k <= E /\ Len(t) \in Nat
  BY DEF Ends
<1>5. x = [type |-> x.type, value |-> v]
  BY DEF WireOptions
<1> HIDE DEF r, v, m, E, z
<1>6. E = (k + 2 + m) + Len(t)
  <2>1. E - k = (2 + m) + Len(t)
    <3>1. Len(z) = E - k /\ Len(z) = Len(r) + Len(t) /\ Len(r) = 2 + m
      BY <1>1, <1>2, <1>3, Zenon
    <3>2. QED
      BY <3>1
  <2>2. E \in Nat
    BY <1>4
  <2>3. QED
    BY <1>1, <1>4, <2>1, <2>2
<1>7. data[k] = x.type /\ data[k + 1] = 2 + m
  <2>1. 1 \in 1 .. E - k /\ 2 \in 1 .. E - k /\ 1 \in 1..Len(r) /\ 2 \in 1..Len(r)
        /\ (k - 1) + 1 = k /\ (k - 1) + 2 = k + 1
    BY <1>1, <1>4, <1>6
  <2>2. z[1] = data[k] /\ z[2] = data[k + 1] /\ z[1] = r[1] /\ z[2] = r[2]
    BY <1>2, <1>3, <2>1
  <2>3. QED
    BY <1>1, <2>2
<1>8. k # E /\ ~Torn(data, k)
  <2>1. k # E /\ k + 1 # E /\ ~(2 + m < 2) /\ ~(k + (2 + m) > E)
    BY <1>1, <1>4, <1>6
  <2>2. QED
    BY <1>7, <2>1, Zenon DEF Torn, E
<1>9. SubSeq(data, (k + 1) + 1, (k + 1) + m) = v
  <2>1. \A i \in 1..m : data[(k + 1) + i] = v[i]
    <3> SUFFICES ASSUME NEW i \in 1..m PROVE data[(k + 1) + i] = v[i]
      OBVIOUS
    <3>1. 2 + i \in 1 .. E - k /\ 2 + i \in 1..Len(r) /\ (k - 1) + (2 + i) = (k + 1) + i
      BY <1>1, <1>4, <1>6
    <3>2. z[2 + i] = data[(k + 1) + i] /\ z[2 + i] = r[2 + i]
      BY <1>2, <1>3, <3>1
    <3>3. QED
      BY <1>1, <3>2
  <2>2. (k + 1) + m <= Len(data) /\ k + 1 \in Nat
    BY <1>1, <1>4, <1>6
  <2>3. QED
    BY <1>1, <2>1, <2>2, CutsOut
<1>10. First(data, k) = x
  <2>1. (k + 1) + 1 = k + 2 /\ (k + 1) + m = (k + (2 + m)) - 1
    BY <1>1, <1>4
  <2>2. SubSeq(data, k + 2, (k + data[k + 1]) - 1) = v
    BY <1>7, <1>9, <2>1
  <2>3. QED
    BY <1>5, <1>7, <2>2, Zenon DEF First
<1>11. From(data, k + data[k + 1]) = t
  <2> DEFINE p == k + 1 + m
  <2>1. p \in Nat /\ p + 1 = k + (2 + m) /\ p + Len(t) = Len(data)
    BY <1>1, <1>4, <1>6
  <2>2. \A i \in 1..Len(t) : data[p + i] = t[i]
    <3> SUFFICES ASSUME NEW i \in 1..Len(t) PROVE data[p + i] = t[i]
      OBVIOUS
    <3>1. (2 + m) + i \in 1 .. E - k /\ (k - 1) + ((2 + m) + i) = p + i
      BY <1>1, <1>4, <1>6
    <3>2. z[(2 + m) + i] = data[(k - 1) + ((2 + m) + i)]
      BY <1>3, <3>1
    <3>3. z[(2 + m) + i] = t[i]
      BY <1>1, <1>2
    <3>4. QED
      BY <3>1, <3>2, <3>3
  <2> HIDE DEF p
  <2>3. SubSeq(data, p + 1, p + Len(t)) = t
    BY <2>1, <2>2, CutsOut
  <2>4. SubSeq(data, k + (2 + m), Len(data)) = t
    BY <2>1, <2>3
  <2>5. QED
    BY <1>7, <2>4 DEF From
<1>12. QED
  BY <1>8, <1>10, <1>11 DEF E, GivesOption

\* Whatever list of options a packet carries, its bytes give it back (packet.go:120-160).
THEOREM OptionsReadBack ==
    ASSUME NEW options \in Seq(WireOptions)
    PROVE  DecodeOptions(EncodeOptions(options)) = {options}
<1> DEFINE data == EncodeOptions(options)
           E == Ends(data)
<1>1. data \in Seq(Byte)
  <2>1. PICK x : x = [type |-> 0, value |-> <<>>]
    OBVIOUS
  <2>2. x \in WireOptions
    BY <2>1 DEF WireOptions, Byte
  <2>3. QED
    BY <2>2, OptionsInFront, Zenon
<1> HIDE DEF data
<1>2. PICK f : /\ \A k \in 1..Ends(data) : f[k] = Parsed(f, data, k)
               /\ DecodeOptions(data) = f[1]
  BY <1>1, DecodesFromTheStart, Zenon
<1> DEFINE Reads(k) == \A o \in Seq(WireOptions) : From(data, k) = EncodeOptions(o) => f[k] = {o}
           T == {k \in 1..E : Reads(k)}
<1>3. E \in Nat /\ E >= 1 /\ E = Ends(data)
  BY <1>1 DEF Ends
<1> HIDE DEF E
<1>4. ASSUME NEW k \in 1..E, k + 1 .. E \subseteq T PROVE k \in T
  <2>1. k \in 1..Ends(data) /\ f[k] = Parsed(f, data, k)
    BY <1>2, <1>3
  <2>2. ASSUME NEW o \in Seq(WireOptions), From(data, k) = EncodeOptions(o) PROVE f[k] = {o}
    <3>1. CASE o = <<>>
      <4>1. Len(From(data, k)) = 0
        BY <2>2, <3>1, NothingLeft
      <4>2. k = Ends(data)
        BY <1>1, <1>3, <2>1, <4>1, FromIs
      <4>3. QED
        BY <2>1, <3>1, <4>2, Zenon DEF Parsed
    <3>2. CASE o # <<>>
      <4> DEFINE x == Head(o)
                 rest == Tail(o)
      <4>1. x \in WireOptions /\ rest \in Seq(WireOptions) /\ o = <<x>> \o rest
        BY <3>2
      <4> HIDE DEF x, rest
      <4>2. /\ EncodeOptions(rest) \in Seq(Byte)
            /\ From(data, k) = Rendered(x) \o EncodeOptions(rest)
        BY <2>2, <4>1, OptionsInFront
      <4>3. /\ k # Ends(data) /\ ~Torn(data, k)
            /\ First(data, k) = x /\ From(data, k + data[k + 1]) = EncodeOptions(rest)
        <5>1. GivesOption(data, k, x, EncodeOptions(rest))
          BY <1>1, <2>1, <4>1, <4>2, OptionThere, Zenon
        <5>2. QED
          BY <5>1, Zenon DEF GivesOption
      <4>4. k + data[k + 1] \in T
        BY <1>1, <1>3, <1>4, <2>1, <4>3, GoesOn
      <4>5. f[k + data[k + 1]] = {rest}
        BY <4>1, <4>3, <4>4
      <4>6. f[k] = {<<x>> \o l : l \in f[k + data[k + 1]]}
        BY <2>1, <4>3, Zenon DEF Parsed
      <4>7. QED
        BY <4>1, <4>5, <4>6, Zenon
    <3>3. QED
      BY <3>1, <3>2
  <2>3. QED
    BY <2>2
<1>5. 1 \in T
  <2>1. \A k \in 1..E : k + 1 .. E \subseteq T => k \in T
    BY <1>4
  <2>2. 1 \in 1..E
    BY <1>3
  <2> HIDE DEF T
  <2>3. QED
    BY <1>3, <2>1, <2>2, FromBehind
<1>6. From(data, 1) = EncodeOptions(options)
  BY <1>1, NothingLeft DEF data
<1>7. f[1] = {options}
  BY <1>5, <1>6
<1>8. QED
  BY <1>2, <1>7 DEF data

\* A list of options that was read is written back byte for byte, as an acknowledgement and a
\* rejection have to: an option "echoed back in a Configure-Ack or Configure-Reject came
\* through DecodeOptions", so its length fits into its byte (packet.go:150-154).
THEOREM OptionsEchoed ==
    ASSUME NEW data \in Seq(Byte), NEW options \in DecodeOptions(data)
    PROVE  options \in Seq(WireOptions) /\ EncodeOptions(options) = data
<1> DEFINE E == Ends(data)
<1>1. PICK f : /\ \A k \in 1..Ends(data) : f[k] = Parsed(f, data, k)
               /\ DecodeOptions(data) = f[1]
  BY DecodesFromTheStart, Zenon
<1> DEFINE Echoes(k) == \A o \in f[k] : o \in Seq(WireOptions) /\ EncodeOptions(o) = From(data, k)
           T == {k \in 1..E : Echoes(k)}
<1>2. E \in Nat /\ E >= 1 /\ E = Ends(data)
  BY DEF Ends
<1> HIDE DEF E
<1>3. ASSUME NEW k \in 1..E, k + 1 .. E \subseteq T PROVE k \in T
  <2>1. k \in 1..Ends(data) /\ f[k] = Parsed(f, data, k)
    BY <1>1, <1>2
  <2>2. ASSUME NEW o \in f[k] PROVE o \in Seq(WireOptions) /\ EncodeOptions(o) = From(data, k)
    <3>1. CASE k = Ends(data)
      <4>1. o = <<>>
        BY <2>1, <2>2, <3>1, Zenon DEF Parsed
      <4>2. QED
        BY <3>1, <4>1, NothingLeft
    <3>2. CASE k # Ends(data)
      <4>1. ~Torn(data, k)
        BY <2>1, <2>2, <3>2, Zenon DEF Parsed
      <4> DEFINE x == First(data, k)
                 next == k + data[k + 1]
      <4>2. x \in WireOptions /\ From(data, k) = Rendered(x) \o From(data, next)
        BY <2>1, <3>2, <4>1, OptionAt, Zenon
      <4>3. next \in T
        BY <1>2, <1>3, <2>1, <3>2, <4>1, GoesOn
      <4>4. PICK rest \in f[next] : o = <<x>> \o rest
        BY <2>1, <2>2, <3>2, <4>1, Zenon DEF Parsed
      <4>5. rest \in Seq(WireOptions) /\ EncodeOptions(rest) = From(data, next)
        BY <4>3, <4>4
      <4> HIDE DEF x, next
      <4>6. EncodeOptions(o) = Rendered(x) \o EncodeOptions(rest)
        BY <4>2, <4>4, <4>5, OptionsInFront
      <4>7. o \in Seq(WireOptions)
        BY <4>2, <4>4, <4>5
      <4>8. QED
        BY <4>2, <4>5, <4>6, <4>7
    <3>3. QED
      BY <3>1, <3>2
  <2>3. QED
    BY <2>2
<1>4. 1 \in T
  <2>1. \A k \in 1..E : k + 1 .. E \subseteq T => k \in T
    BY <1>3
  <2>2. 1 \in 1..E
    BY <1>2
  <2> HIDE DEF T
  <2>3. QED
    BY <1>2, <2>1, <2>2, FromBehind
<1>5. QED
  BY <1>1, <1>4, NothingLeft

-----------------------------------------------------------------------------
(* What is on the tunnel while a session negotiates *)

\* What the options of a configure packet can be: names alone in LCP, addresses in IPCP.
LcpNames       == {"MRU", "ACCM", "Auth", "Magic"}
LcpOptions     == {Named(names) : names \in SUBSET LcpNames}
AddressOptions == UNION {[names -> {"unset", "assigned"}] : names \in SUBSET Addresses}

\* The packets of either end whose bytes say all that is in them, and those that a gateway
\* has spoilt.
Spoken == {p \in Packets :
              /\ p.code \in Configures /\ p.proto = "LCP"  => p.opts \in LcpOptions
              /\ p.code \in Configures /\ p.proto = "IPCP" => p.opts \in AddressOptions
              /\ p.code \notin Configures \/ p.proto = "IPv6CP" => p.opts = NoOptions}

Spoilt == {p \in Packets : /\ p.code = "Request" /\ p.proto \in {"LCP", "IPCP"}
                           /\ p.opts = Named({"Broken"})}

\* What is on the tunnel at any time: the client never sends what the peer cannot read.
InFlight == toGateway \in Seq(Spoken) /\ toClient \in Seq(Spoken \union Spoilt)

-----------------------------------------------------------------------------
\* Options are names alone in LCP, and in IPCP addresses.
LEMMA LcpOptionsAre ==
    ASSUME NEW names \in SUBSET LcpNames
    PROVE  /\ Named(names) \in LcpOptions /\ Named(names) \in Options
           /\ DOMAIN Named(names) = names
<1>1. names \in SUBSET OptionNames
  BY DEF LcpNames, OptionNames, LcpOffer
<1>2. QED
  BY <1>1, NamedTyped DEF LcpOptions

LEMMA AddressOptionsAre ==
    ASSUME NEW f, f = [o \in DOMAIN f |-> f[o]], DOMAIN f \subseteq Addresses,
           \A o \in DOMAIN f : f[o] \in {"unset", "assigned"}
    PROVE  f \in AddressOptions /\ f \in Options
<1>1. f \in [DOMAIN f -> {"unset", "assigned"}]
  BY Zenon
<1>2. f \in AddressOptions
  BY <1>1, Zenon DEF AddressOptions
<1>3. f \in Options
  <2>1. DOMAIN f \subseteq OptionNames
    BY Zenon DEF OptionNames
  <2>2. \A o \in DOMAIN f : f[o] \in Values \union {"-"}
    BY DEF Values
  <2>3. QED
    BY <2>1, <2>2, OptionsTyped, Zenon
<1>4. QED
  BY <1>2, <1>3

LEMMA AddressesGiven ==
    ASSUME NEW f \in AddressOptions
    PROVE  /\ f = [o \in DOMAIN f |-> f[o]] /\ DOMAIN f \subseteq Addresses
           /\ \A o \in DOMAIN f : f[o] \in {"unset", "assigned"}
<1>1. PICK names \in SUBSET Addresses : f \in [names -> {"unset", "assigned"}]
  BY Zenon DEF AddressOptions
<1>2. QED
  BY <1>1

\* The packets that are put together here.
LEMMA SaysLcp ==
    ASSUME NEW code \in Configures, NEW id \in 0..IdSpace - 1, NEW names \in SUBSET LcpNames
    PROVE  Packet("LCP", code, id, Named(names)) \in Spoken
<1> DEFINE p == Packet("LCP", code, id, Named(names))
<1>1. Named(names) \in LcpOptions /\ Named(names) \in Options
  BY LcpOptionsAre
<1>2. p \in Packets /\ p.proto = "LCP" /\ p.code = code /\ p.opts = Named(names)
  BY <1>1, PacketTyped DEF Configures
<1> HIDE DEF p
<1>3. p \in Spoken
  BY <1>1, <1>2 DEF Spoken
<1>4. QED
  BY <1>3 DEF p

LEMMA SaysIpcp ==
    ASSUME NEW code \in Configures, NEW id \in 0..IdSpace - 1, NEW f \in AddressOptions
    PROVE  Packet("IPCP", code, id, f) \in Spoken
<1> DEFINE p == Packet("IPCP", code, id, f)
<1>1. f \in Options
  BY AddressesGiven, AddressOptionsAre, Zenon
<1>2. p \in Packets /\ p.proto = "IPCP" /\ p.code = code /\ p.opts = f
  BY <1>1, PacketTyped DEF Configures
<1> HIDE DEF p
<1>3. p \in Spoken
  BY <1>2 DEF Spoken
<1>4. QED
  BY <1>3 DEF p

LEMMA SaysNothingElse ==
    ASSUME NEW proto \in {"LCP", "IPCP", "IPv6CP"}, NEW id \in 0..IdSpace - 1,
           NEW code \in {"Request", "Echo-Request", "Echo-Reply", "Terminate-Request",
                         "Terminate-Ack", "Other"},
           code # "Request" \/ proto = "IPv6CP"
    PROVE  Packet(proto, code, id, NoOptions) \in Spoken
<1> DEFINE p == Packet(proto, code, id, NoOptions)
<1>1. NoOptions \in Options
  BY NamedTyped DEF NoOptions
<1>2. p \in Packets /\ p.proto = proto /\ p.code = code /\ p.opts = NoOptions
  BY <1>1, PacketTyped
<1> HIDE DEF p
<1>3. p \in Spoken
  BY <1>2 DEF Spoken, Configures
<1>4. QED
  BY <1>3 DEF p

\* Only a spoilt packet is not readable, and it is a request.
LEMMA ReadableAreSpoken ==
    ASSUME NEW p \in Spoken \union Spoilt
    PROVE  /\ p \in Packets /\ p.id \in 0..IdSpace - 1
           /\ Readable(p) \/ p.code # "Request" => p \in Spoken
<1>1. p \in Packets
  BY DEF Spoken, Spoilt
<1>2. p.id \in 0..IdSpace - 1
  BY <1>1 DEF Packets
<1>3. DOMAIN Named({"Broken"}) = {"Broken"}
  BY DEF Named
<1>4. ASSUME p \in Spoilt PROVE ~Readable(p) /\ p.code = "Request"
  BY <1>3, <1>4 DEF Spoilt, Readable
<1>5. QED
  BY <1>1, <1>2, <1>4

-----------------------------------------------------------------------------
\* A request for the addresses asks for those that a session knows, or for any.
LEMMA AsksForAddresses ==
    ASSUME NEW s \in SessionType, \A o \in Addresses : s.requested[o] \in {"nil", "assigned"}
    PROVE  IpcpRequest(s) \in Spoken
<1> DEFINE f == [o \in Addresses |-> IF s.requested[o] = "nil" THEN "unset" ELSE s.requested[o]]
<1>1. f = [o \in DOMAIN f |-> f[o]] /\ DOMAIN f = Addresses
      /\ \A o \in DOMAIN f : f[o] \in {"unset", "assigned"}
  OBVIOUS
<1>2. IpcpRequest(s) = Packet("IPCP", "Request", NextId(s.identifier), f)
  BY DEF IpcpRequest
<1> HIDE DEF f
<1>3. f \in AddressOptions
  BY <1>1, AddressOptionsAre
<1>4. NextId(s.identifier) \in 0..IdSpace - 1
  BY NextIdTyped, PppBounds DEF SessionType
<1>5. QED
  BY <1>2, <1>3, <1>4, SaysIpcp DEF Configures

\* Negotiate's loop: what goes behind the replies is a request for the addresses.
LEMMA SaysOn ==
    ASSUME IInv, InFlight, NEW s \in SessionType, NEW replies \in Seq(Spoken), Continue(s, replies),
           \A o \in Addresses : s.requested[o] \in {"nil", "assigned"}
    PROVE  toGateway' \in Seq(Spoken)
<1>1. IpcpRequest(s) \in Spoken
  BY AsksForAddresses
<1>2. toGateway' = (toGateway \o replies) \o (IF OpensIPCP(s) THEN <<IpcpRequest(s)>> ELSE <<>>)
  BY DEF Continue
<1>3. toGateway \in Seq(Spoken)
  BY DEF InFlight
<1>4. QED
  BY <1>1, <1>2, <1>3

\* What the client takes from the tunnel, and what it knows by then.
LEMMA Received ==
    ASSUME InFlight, toClient # <<>>
    PROVE  /\ Head(toClient) \in Spoken \union Spoilt /\ toClient[1] = Head(toClient)
           /\ 1 \in DOMAIN toClient
           /\ toClient' = Tail(toClient) => toClient' \in Seq(Spoken \union Spoilt)
  BY TailMoves DEF InFlight

LEMMA SessionKnows ==
    ASSUME IInv
    PROVE  /\ session \in SessionType /\ session.identifier \in 0..IdSpace - 1
           /\ \A o \in Addresses : session.requested[o] \in {"nil", "assigned"}
           /\ NextId(session.identifier) \in 0..IdSpace - 1
<1>1. session \in SessionType /\ session.identifier \in 0..IdSpace - 1
  BY DEF IInv, TypeOK, SessionType
<1>2. NextId(session.identifier) \in 0..IdSpace - 1
  BY <1>1, NextIdTyped, PppBounds
<1>3. QED
  BY <1>1, <1>2 DEF IInv, Addressed

\* Whatever the client sends is a packet that a peer can read.
LEMMA ClientSpeaks ==
    ASSUME IInv, InFlight, Client
    PROVE  InFlight'
<1> DEFINE h == Head(toClient)
<1>1. /\ toClient # <<>> /\ toClient' = Tail(toClient)
  BY DEF Client, Receive, AnswerLcpRequest, LcpAcknowledged, LcpRefused, EchoRequested,
         LcpTerminated, AnswerIpcpRequest, IpcpAcknowledged, IpcpSuggested, IpcpRejected,
         IpcpTerminated, Ignored, Unparsable
<1>2. /\ h \in Spoken \union Spoilt /\ h \in Packets /\ h.id \in 0..IdSpace - 1
      /\ Readable(h) \/ h.code # "Request" => h \in Spoken
      /\ toClient' \in Seq(Spoken \union Spoilt)
  BY <1>1, Received, ReadableAreSpoken
<1>3. /\ session \in SessionType /\ session.identifier \in 0..IdSpace - 1
      /\ \A o \in Addresses : session.requested[o] \in {"nil", "assigned"}
      /\ NextId(session.identifier) \in 0..IdSpace - 1
  BY SessionKnows
<1>4. SUFFICES toGateway' \in Seq(Spoken)
  BY <1>2 DEF InFlight
<1>5. <<>> \in Seq(Spoken) /\ toGateway \in Seq(Spoken)
  BY DEF InFlight
<1> HIDE DEF h
<1>6. ASSUME NEW p \in Spoken, NEW s \in SessionType, Continue(s, <<p>>),
             \A o \in Addresses : s.requested[o] \in {"nil", "assigned"}
      PROVE  toGateway' \in Seq(Spoken)
  <2>1. <<p>> \in Seq(Spoken)
    OBVIOUS
  <2>2. QED
    BY <1>6, <2>1, SaysOn
<1>7. CASE AnswerLcpRequest
  <2> DEFINE rejected == DOMAIN h.opts \ Acceptable
             s == [session EXCEPT !.lcpRemoteDone = TRUE]
  <2>1. h.proto = "LCP" /\ h.code = "Request" /\ Readable(h)
    BY <1>7 DEF AnswerLcpRequest, Receive, h
  <2>2. PICK names \in SUBSET LcpNames : h.opts = Named(names)
    BY <1>2, <2>1 DEF Spoken, Configures, LcpOptions
  <2>3. DOMAIN h.opts = names /\ rejected \in SUBSET LcpNames
    BY <2>2, LcpOptionsAre
  <2>4. CASE rejected # {}
    <3>1. Continue(session, <<Packet("LCP", "Reject", h.id, Named(rejected))>>)
      BY <1>7, <2>4 DEF AnswerLcpRequest, h
    <3>2. Packet("LCP", "Reject", h.id, Named(rejected)) \in Spoken
      BY <1>2, <2>3, SaysLcp DEF Configures
    <3>3. QED
      BY <1>3, <1>6, <3>1, <3>2, Zenon
  <2>5. CASE rejected = {}
    <3>1. Continue(s, <<Packet("LCP", "Ack", h.id, h.opts)>>)
      BY <1>7, <2>5 DEF AnswerLcpRequest, h
    <3>2. Packet("LCP", "Ack", h.id, h.opts) \in Spoken
      BY <1>2, <2>2, SaysLcp DEF Configures
    <3>3. s \in SessionType /\ s.requested = session.requested
      BY <1>3 DEF SessionType
    <3>4. QED
      BY <1>3, <1>6, <3>1, <3>2, <3>3, Zenon
  <2>6. QED
    BY <2>4, <2>5
<1>8. CASE LcpAcknowledged
  <2> DEFINE s == [session EXCEPT !.lcpLocalDone = TRUE]
  <2>1. Continue(s, <<>>)
    BY <1>8 DEF LcpAcknowledged
  <2>2. s \in SessionType /\ s.requested = session.requested
    BY <1>3 DEF SessionType
  <2>3. QED
    BY <1>3, <1>5, <2>1, <2>2, SaysOn
<1>9. ASSUME NEW code \in {"Nak", "Reject"}, LcpRefused(code) PROVE toGateway' \in Seq(Spoken)
  <2> DEFINE id == NextId(session.identifier)
             names == LcpOffer \ DOMAIN h.opts
             s == [session EXCEPT !.identifier = id]
  <2>1. Continue(s, <<LcpRequest(id, names)>>)
    BY <1>9 DEF LcpRefused, h
  <2>2. s \in SessionType /\ s.requested = session.requested
    BY <1>3 DEF SessionType
  <2>3. LcpRequest(id, names) \in Spoken
    <3>1. names \in SUBSET LcpNames
      BY DEF LcpNames, LcpOffer
    <3>2. QED
      BY <1>3, <3>1, SaysLcp DEF LcpRequest, Configures
  <2>4. QED
    BY <1>3, <1>6, <2>1, <2>2, <2>3, Zenon
<1>10. CASE EchoRequested
  <2>1. Continue(session, <<Packet("LCP", "Echo-Reply", h.id, NoOptions)>>)
    BY <1>10 DEF EchoRequested, h
  <2>2. Packet("LCP", "Echo-Reply", h.id, NoOptions) \in Spoken
    BY <1>2, SaysNothingElse
  <2>3. QED
    BY <1>3, <1>6, <2>1, <2>2, Zenon
<1>11. CASE LcpTerminated
  <2>1. toGateway' = Append(toGateway, Packet("LCP", "Terminate-Ack", h.id, NoOptions))
    BY <1>11 DEF LcpTerminated, h
  <2>2. Packet("LCP", "Terminate-Ack", h.id, NoOptions) \in Spoken
    BY <1>2, SaysNothingElse
  <2>3. QED
    BY <1>5, <2>1, <2>2
<1>12. CASE AnswerIpcpRequest
  <2> DEFINE s == [session EXCEPT !.ipcpRemoteDone = TRUE,
                                  !.remoteIP = IF "IP" \in DOMAIN h.opts THEN h.opts["IP"] ELSE @]
  <2>1. h.proto = "IPCP" /\ h.code = "Request" /\ Readable(h)
    BY <1>12 DEF AnswerIpcpRequest, Receive, h
  <2>2. h.opts \in AddressOptions
    BY <1>2, <2>1 DEF Spoken, Configures
  <2>3. Continue(s, <<Packet("IPCP", "Ack", h.id, h.opts)>>)
    BY <1>12 DEF AnswerIpcpRequest, h
  <2>4. Packet("IPCP", "Ack", h.id, h.opts) \in Spoken
    BY <1>2, <2>2, SaysIpcp DEF Configures
  <2>5. s \in SessionType /\ s.requested = session.requested
    <3>1. "IP" \in DOMAIN h.opts => h.opts["IP"] \in Values
      BY <2>2, AddressesGiven DEF Values
    <3>2. QED
      BY <1>3, <3>1 DEF SessionType
  <2>6. QED
    BY <1>3, <1>6, <2>3, <2>4, <2>5, Zenon
<1>13. CASE IpcpAcknowledged
  <2> DEFINE adopted == Adopt(h.opts, session.negotiated)
             s == [session EXCEPT !.negotiated = adopted, !.ipcpLocalDone = TRUE]
  <2>1. h.proto = "IPCP" /\ h.code = "Ack"
    BY <1>13 DEF IpcpAcknowledged, Receive, h
  <2>2. Continue(s, <<>>)
    BY <1>13 DEF IpcpAcknowledged, h
  <2>3. h.opts \in AddressOptions
    BY <1>2, <2>1 DEF Spoken, Configures
  <2>4. adopted \in [Addresses -> Values]
    BY <1>3, <2>3, AddressesGiven DEF Adopt, SessionType, Values
  <2> HIDE DEF adopted
  <2>5. s \in SessionType /\ s.requested = session.requested
    BY <1>3, <2>4 DEF SessionType
  <2>6. QED
    BY <1>3, <1>5, <2>2, <2>5, SaysOn
<1>14. ASSUME NEW requested \in [Addresses -> {"nil", "assigned"}],
              AskAgain([session EXCEPT !.requested = requested])
       PROVE  toGateway' \in Seq(Spoken)
  <2> DEFINE s == [session EXCEPT !.requested = requested]
             t == [s EXCEPT !.identifier = NextId(@), !.ipcpRequestSent = TRUE]
  <2>1. s \in SessionType /\ s.requested = requested /\ s.identifier = session.identifier
    BY <1>3 DEF SessionType, Values
  <2>2. Continue(t, <<IpcpRequest(s)>>)
    BY <1>14 DEF AskAgain
  <2> HIDE DEF s
  <2>3. t \in SessionType /\ t.requested = requested
    BY <1>3, <2>1 DEF SessionType
  <2>4. IpcpRequest(s) \in Spoken
    BY <2>1, AsksForAddresses
  <2>5. QED
    BY <1>6, <2>2, <2>3, <2>4
<1>15. CASE IpcpSuggested
  <2> DEFINE adopted == Adopt(h.opts, session.requested)
  <2>1. h.proto = "IPCP" /\ h.code = "Nak"
    BY <1>15 DEF IpcpSuggested, Receive, h
  <2>2. AskAgain([session EXCEPT !.requested = adopted])
    BY <1>15 DEF IpcpSuggested, h
  <2>3. \A o \in DOMAIN h.opts : h.opts[o] = "assigned"
    BY <1>1, <2>1, Received DEF IInv, Addressed, Is, h
  <2>4. adopted \in [Addresses -> {"nil", "assigned"}]
    BY <1>3, <2>3 DEF Adopt
  <2>5. QED
    BY <1>14, <2>2, <2>4
<1>16. CASE IpcpRejected
  <2> DEFINE refused == DOMAIN h.opts
             kept == [o \in Addresses |-> IF o \in refused THEN "nil" ELSE session.requested[o]]
  <2>1. CASE "IP" \in refused
    BY <1>5, <1>16, <2>1 DEF IpcpRejected, h
  <2>2. CASE "IP" \notin refused
    <3>1. AskAgain([session EXCEPT !.requested = kept])
      BY <1>16, <2>2 DEF IpcpRejected, h
    <3>2. kept \in [Addresses -> {"nil", "assigned"}]
      BY <1>3
    <3>3. QED
      BY <1>14, <3>1, <3>2
  <2>3. QED
    BY <2>1, <2>2
<1>17. CASE IpcpTerminated
  <2>1. Continue(session, <<Packet("IPCP", "Terminate-Ack", h.id, NoOptions)>>)
    BY <1>17 DEF IpcpTerminated, h
  <2>2. Packet("IPCP", "Terminate-Ack", h.id, NoOptions) \in Spoken
    BY <1>2, SaysNothingElse
  <2>3. QED
    BY <1>3, <1>6, <2>1, <2>2, Zenon
<1>18. CASE Ignored
  BY <1>3, <1>5, <1>18, SaysOn DEF Ignored
<1>19. ASSUME NEW proto \in {"LCP", "IPCP"}, Unparsable(proto) PROVE toGateway' \in Seq(Spoken)
  BY <1>5, <1>19 DEF Unparsable
<1>20. QED
  BY <1>7, <1>8, <1>9, <1>10, <1>11, <1>12, <1>13, <1>15, <1>16, <1>17, <1>18, <1>19 DEF Client

\* What the gateway sends of its own accord, or as an answer.
LEMMA Delivered ==
    ASSUME InFlight, NEW g, NEW p \in Spoken \union Spoilt, ToClient(g, <<p>>)
    PROVE  toClient' \in Seq(Spoken \union Spoilt)
<1>1. toClient' = toClient \o <<p>> /\ toClient \in Seq(Spoken \union Spoilt)
  BY DEF ToClient, InFlight
<1>2. QED
  BY <1>1

LEMMA GatewayAsks ==
    ASSUME NEW g \in GatewayType
    PROVE  GatewayRequest(g, "LCP") \in Spoken /\ GatewayRequest(g, "IPCP") \in Spoken
<1> DEFINE f == [o \in {"IP"} |-> "assigned"]
<1>1. g.id \in 0..IdSpace - 1 /\ g.offer \in SUBSET LcpNames
  BY DEF GatewayType, LcpNames
<1>2. /\ GatewayRequest(g, "LCP") = Packet("LCP", "Request", g.id, Named(g.offer))
      /\ GatewayRequest(g, "IPCP") = Packet("IPCP", "Request", g.id, f)
  BY DEF GatewayRequest
<1>3. f \in AddressOptions
  <2>1. /\ f = [o \in DOMAIN f |-> f[o]] /\ DOMAIN f \subseteq Addresses
        /\ \A o \in DOMAIN f : f[o] \in {"unset", "assigned"}
    BY DEF Addresses
  <2> HIDE DEF f
  <2>2. QED
    BY <2>1, AddressOptionsAre
<1> HIDE DEF f
<1>4. QED
  BY <1>1, <1>2, <1>3, SaysLcp, SaysIpcp DEF Configures

\* An answer speaks of the options that were asked for.
LEMMA AnswersSpeak ==
    ASSUME NEW p \in Spoken, p.code = "Request", NEW rejects, NEW naks, NEW suggestion,
           \/ p.proto = "LCP" /\ suggestion = "-"
           \/ p.proto = "IPCP" /\ suggestion = "assigned"
    PROVE  Answering(p, rejects, naks, suggestion) \in Spoken
<1> DEFINE names == DOMAIN p.opts
           refused == [o \in names \intersect rejects |-> p.opts[o]]
           suggested == [o \in names \intersect naks |-> suggestion]
<1>1. p \in Packets /\ p.id \in 0..IdSpace - 1
  BY ReadableAreSpoken
<1>2. \/ Answering(p, rejects, naks, suggestion) = Packet(p.proto, "Reject", p.id, refused)
      \/ Answering(p, rejects, naks, suggestion) = Packet(p.proto, "Nak", p.id, suggested)
      \/ Answering(p, rejects, naks, suggestion) = Packet(p.proto, "Ack", p.id, p.opts)
  BY DEF Answering
<1>3. {"Reject", "Nak", "Ack"} \subseteq Configures
  BY DEF Configures
<1>4. CASE p.proto = "LCP"
  <2>1. PICK s \in SUBSET LcpNames : p.opts = Named(s)
    BY <1>4 DEF Spoken, Configures, LcpOptions
  <2>2. names = s /\ \A o \in s : p.opts[o] = "-"
    BY <2>1 DEF Named
  <2>3. refused = Named(s \intersect rejects)
    BY <2>2 DEF Named
  <2>4. suggested = Named(s \intersect naks)
    BY <1>4, <2>2 DEF Named
  <2>5. s \intersect rejects \in SUBSET LcpNames /\ s \intersect naks \in SUBSET LcpNames
    OBVIOUS
  <2> HIDE DEF refused, suggested, names
  <2>6. QED
    BY <1>1, <1>2, <1>3, <1>4, <2>1, <2>3, <2>4, <2>5, SaysLcp
<1>5. CASE p.proto = "IPCP"
  <2>1. p.opts \in AddressOptions
    BY <1>5 DEF Spoken, Configures
  <2>2. names \subseteq Addresses /\ \A o \in names : p.opts[o] \in {"unset", "assigned"}
    BY <2>1, AddressesGiven
  <2>3. /\ refused = [o \in DOMAIN refused |-> refused[o]] /\ DOMAIN refused \subseteq Addresses
        /\ \A o \in DOMAIN refused : refused[o] \in {"unset", "assigned"}
    BY <2>2
  <2>4. /\ suggested = [o \in DOMAIN suggested |-> suggested[o]] /\ DOMAIN suggested \subseteq Addresses
        /\ \A o \in DOMAIN suggested : suggested[o] \in {"unset", "assigned"}
    BY <1>5, <2>2
  <2> HIDE DEF refused, suggested, names
  <2>5. refused \in AddressOptions /\ suggested \in AddressOptions
    BY <2>3, <2>4, AddressOptionsAre
  <2>6. QED
    BY <1>1, <1>2, <1>3, <1>5, <2>1, <2>5, SaysIpcp
<1>6. QED
  BY <1>4, <1>5

\* The gateway's packets are readable, but for those it spoils.
LEMMA GatewaySpeaks ==
    ASSUME IInv, InFlight, GatewayMust \/ GatewayMay
    PROVE  InFlight'
<1>1. gateway \in GatewayType /\ gateway.id \in 0..IdSpace - 1
      /\ NextId(gateway.id) \in 0..IdSpace - 1
  <2>1. gateway \in GatewayType /\ gateway.id \in 0..IdSpace - 1
    BY DEF IInv, TypeOK, GatewayType
  <2>2. QED
    BY <2>1, NextIdTyped, PppBounds
<1>2. toGateway \in Seq(Spoken) /\ toClient \in Seq(Spoken \union Spoilt)
  BY DEF InFlight
<1>3. ASSUME NEW p \in Spoken \union Spoilt, NEW g, ToClient(g, <<p>>), UNCHANGED toGateway
      PROVE  InFlight'
  <2>1. toClient' \in Seq(Spoken \union Spoilt)
    BY <1>3, Delivered
  <2>2. QED
    BY <1>2, <1>3, <2>1 DEF InFlight
<1>4. ASSUME NEW p \in Spoken \union Spoilt, NEW g, Unasked(g, p) PROVE InFlight'
  BY <1>3, <1>4 DEF Unasked
<1>5. CASE GatewayReads
  <2> DEFINE h == Head(toGateway)
  <2>1. h \in Spoken /\ toGateway' \in Seq(Spoken)
    BY <1>2, <1>5, TailMoves DEF GatewayReads
  <2>2. GatewayHears(h)
    BY <1>5 DEF GatewayReads
  <2> HIDE DEF h
  <2>3. SUFFICES toClient' \in Seq(Spoken \union Spoilt)
    BY <2>1 DEF InFlight
  <2>4. ASSUME NEW g, ToClient(g, <<>>) PROVE toClient' \in Seq(Spoken \union Spoilt)
    BY <1>2, <2>4 DEF ToClient
  <2>5. CASE h.code = "Request" /\ h.proto = "LCP"
    <3> DEFINE answer == Answering(h, policy.rejects, policy.naks, "-")
    <3>1. answer \in Spoken
      BY <2>1, <2>5, AnswersSpeak
    <3>2. ToClient([gateway EXCEPT !.lcpGranted = (answer.code = "Ack")], <<answer>>)
      BY <2>2, <2>5, Zenon DEF GatewayHears, GatewayAnswersLcp
    <3> HIDE DEF answer
    <3>3. QED
      BY <3>1, <3>2, Delivered
  <2>6. CASE h.code = "Request" /\ h.proto = "IPCP"
    <3> DEFINE wrong == {o \in DOMAIN h.opts : h.opts[o] = "unset"}
               answer == Answering(h, policy.rejectsDNS, wrong, "assigned")
    <3>1. answer \in Spoken
      BY <2>1, <2>6, AnswersSpeak
    <3>2. GatewayAnswersIpcp(h)
      BY <2>2, <2>6 DEF GatewayHears
    <3>3. CASE LcpOpen
      <4>1. PICK g : ToClient(g, <<answer>>)
        BY <3>2, <3>3, Zenon DEF GatewayAnswersIpcp
      <4> HIDE DEF answer
      <4>2. QED
        BY <3>1, <4>1, Delivered
    <3>4. CASE ~LcpOpen
      BY <2>4, <3>2, <3>4 DEF GatewayAnswersIpcp
    <3>5. QED
      BY <3>3, <3>4
  <2>7. CASE h.code = "Reject"
    <3> DEFINE g == [gateway EXCEPT !.offer = @ \ DOMAIN h.opts, !.id = NextId(@)]
    <3>1. GatewayRejectedLcp(h)
      BY <2>2, <2>7 DEF GatewayHears
    <3>2. g \in GatewayType
      BY <1>1 DEF GatewayType
    <3>3. CASE h.id = gateway.id /\ ~gateway.lcpAcked
      <4>1. ToClient(g, <<GatewayRequest(g, "LCP")>>)
        BY <3>1, <3>3 DEF GatewayRejectedLcp, GatewayRequests
      <4> HIDE DEF g
      <4>2. QED
        BY <3>2, <4>1, GatewayAsks, Delivered
    <3>4. CASE ~(h.id = gateway.id /\ ~gateway.lcpAcked)
      BY <2>4, <3>1, <3>4 DEF GatewayRejectedLcp
    <3>5. QED
      BY <3>3, <3>4
  <2>8. CASE h.code \notin {"Request", "Reject"} \/ (h.code = "Request" /\ h.proto = "IPv6CP")
    <3>1. \E g : ToClient(g, <<>>)
      BY <2>2, <2>8 DEF GatewayHears
    <3>2. QED
      BY <2>4, <3>1
  <2>9. h.proto \in {"LCP", "IPCP", "IPv6CP"}
    BY <2>1 DEF Spoken, Packets
  <2>10. QED
    BY <2>5, <2>6, <2>7, <2>8, <2>9
<1>6. CASE GatewayStartsLcp
  <2> DEFINE g == [gateway EXCEPT !.lcpSent = TRUE, !.offer = policy.offers]
  <2>1. ToClient(g, <<GatewayRequest(g, "LCP")>>) /\ UNCHANGED toGateway
    BY <1>6 DEF GatewayStartsLcp, GatewayRequests
  <2>2. g \in GatewayType
    BY <1>1, PolicyTyped DEF GatewayType
  <2> HIDE DEF g
  <2>3. QED
    BY <1>3, <2>1, <2>2, GatewayAsks
<1>7. CASE GatewayStartsIpcp
  <2> DEFINE g == [gateway EXCEPT !.ipcpSent = TRUE, !.id = NextId(@)]
  <2>1. ToClient(g, <<GatewayRequest(g, "IPCP")>>) /\ UNCHANGED toGateway
    BY <1>7 DEF GatewayStartsIpcp, GatewayRequests
  <2>2. g \in GatewayType
    BY <1>1 DEF GatewayType
  <2> HIDE DEF g
  <2>3. QED
    BY <1>3, <2>1, <2>2, GatewayAsks
<1>8. CASE GatewayResendsLcp \/ GatewayResendsIpcp
  BY <1>1, <1>4, <1>8, GatewayAsks DEF GatewayResendsLcp, GatewayResendsIpcp
<1>9. CASE GatewayEchoes
  <2>1. Packet("LCP", "Echo-Request", gateway.id, NoOptions) \in Spoken
    BY <1>1, SaysNothingElse
  <2>2. QED
    BY <1>4, <1>9, <2>1 DEF GatewayEchoes
<1>10. CASE GatewayTerminatesLcp
  <2>1. Packet("LCP", "Terminate-Request", gateway.id, NoOptions) \in Spoken
    BY <1>1, SaysNothingElse
  <2>2. QED
    BY <1>4, <1>10, <2>1 DEF GatewayTerminatesLcp
<1>11. CASE GatewayTerminatesIpcp
  <2>1. Packet("IPCP", "Terminate-Request", gateway.id, NoOptions) \in Spoken
    BY <1>1, SaysNothingElse
  <2>2. QED
    BY <1>4, <1>11, <2>1 DEF GatewayTerminatesIpcp
<1>12. CASE GatewayNoise
  <2>1. /\ Packet("LCP", "Other", gateway.id, NoOptions) \in Spoken
        /\ Packet("IPCP", "Other", gateway.id, NoOptions) \in Spoken
        /\ Packet("IPv6CP", "Request", gateway.id, NoOptions) \in Spoken
    BY <1>1, SaysNothingElse
  <2>2. QED
    BY <1>4, <1>12, <2>1 DEF GatewayNoise
<1>13. CASE GatewayGarbles
  <2>1. PICK proto \in {"LCP", "IPCP"} :
            Unasked(gateway, Packet(proto, "Request", gateway.id, Named({"Broken"})))
    BY <1>13 DEF GatewayGarbles
  <2> DEFINE p == Packet(proto, "Request", gateway.id, Named({"Broken"}))
  <2>2. p \in Packets /\ p.proto = proto /\ p.code = "Request" /\ p.opts = Named({"Broken"})
    <3>1. Named({"Broken"}) \in Options
      BY NamedTyped DEF OptionNames
    <3>2. QED
      BY <1>1, <3>1, PacketTyped
  <2> HIDE DEF p
  <2>3. p \in Spoilt
    BY <2>2 DEF Spoilt
  <2>4. QED
    BY <1>4, <2>1, <2>3 DEF p
<1>14. QED
  BY <1>5, <1>6, <1>7, <1>8, <1>9, <1>10, <1>11, <1>12, <1>13 DEF GatewayMust, GatewayMay

\* At any time the tunnel carries, towards the gateway, packets that a peer can read, and towards
\* the client such packets and requests that the gateway has spoilt: whatever the client echoes
\* in an answer, it never passes on what it could not parse (session.go, ipcp.go).
THEOREM InFlightInvariant == Spec => [](IInv /\ InFlight)
<1>1. Init => InFlight
  <2> SUFFICES ASSUME Init PROVE InFlight
    OBVIOUS
  <2>1. toGateway = <<LcpRequest(NextId(0), LcpOffer)>> /\ toClient = <<>>
    BY DEF Init
  <2>2. LcpRequest(NextId(0), LcpOffer) \in Spoken
    <3>1. NextId(0) \in 0..IdSpace - 1
      BY NextIdTyped
    <3>2. LcpOffer \in SUBSET LcpNames
      BY DEF LcpOffer, LcpNames
    <3>3. QED
      BY <3>1, <3>2, SaysLcp DEF LcpRequest, Configures
  <2> HIDE DEF InFlight
  <2>3. QED
    BY <2>1, <2>2 DEF InFlight
<1>2. IInv /\ InFlight /\ [Next]_vars => InFlight'
  <2> SUFFICES ASSUME IInv, InFlight, [Next]_vars PROVE InFlight'
    OBVIOUS
  <2>1. CASE Client
    BY <2>1, ClientSpeaks
  <2>2. CASE GatewayMust \/ GatewayMay
    BY <2>2, GatewaySpeaks
  <2>3. CASE LinkFails \/ UNCHANGED vars
    BY <2>3 DEF LinkFails, InFlight, vars
  <2>4. QED
    BY <2>1, <2>2, <2>3 DEF Next
<1>3. QED
  BY <1>1, <1>2, SessionInvariant, PTL DEF Spec

-----------------------------------------------------------------------------
(* Names and numbers *)

LEMMA CodesAre ==
    /\ DOMAIN CodeOf = Codes
    /\ \A c \in Codes : CodeOf[c] \in Byte
    /\ \A c, d \in Codes : CodeOf[c] = CodeOf[d] => c = d
<1>1. /\ DOMAIN CodeOf = Codes
      /\ CodeOf["Request"] = 1 /\ CodeOf["Ack"] = 2 /\ CodeOf["Nak"] = 3 /\ CodeOf["Reject"] = 4
      /\ CodeOf["Terminate-Request"] = 5 /\ CodeOf["Terminate-Ack"] = 6
      /\ CodeOf["Echo-Request"] = 9 /\ CodeOf["Echo-Reply"] = 10 /\ CodeOf["Other"] = 11
  BY DEF CodeOf, Codes
<1>2. QED
  BY <1>1 DEF Codes, Byte

\* Different names have different numbers.
LEMMA TypesAre ==
    ASSUME NEW proto \in {"LCP", "IPCP"}
    PROVE  /\ proto \in DOMAIN TypeOf
           /\ DOMAIN TypeOf[proto] = IF proto = "LCP" THEN LcpNames ELSE Addresses
           /\ \A n \in DOMAIN TypeOf[proto] : TypeOf[proto][n] \in Byte
           /\ \A n, m \in DOMAIN TypeOf[proto] : TypeOf[proto][n] = TypeOf[proto][m] => n = m
<1>1. CASE proto = "LCP"
  BY <1>1 DEF TypeOf, LcpNames, Byte
<1>2. CASE proto = "IPCP"
  BY <1>2 DEF TypeOf, Addresses, Byte
<1>3. QED
  BY <1>1, <1>2

LEMMA ProtocolsAre ==
    /\ DOMAIN ProtocolOf = {"LCP", "IPCP", "IPv6CP"}
    /\ \A p \in DOMAIN ProtocolOf : /\ ProtocolOf[p] \in Word /\ IsControl(ProtocolOf[p])
                                    /\ ProtocolOf[p] # ReadU16(AddressAndControl, 1)
    /\ \A p, q \in DOMAIN ProtocolOf : ProtocolOf[p] = ProtocolOf[q] => p = q
<1>1. ReadU16(AddressAndControl, 1) = 65283
  BY DEF ReadU16, AddressAndControl
<1>2. QED
  BY <1>1 DEF ProtocolOf, Word, IsControl

\* So a number gives back its name.
LEMMA NamesRead ==
    ASSUME NEW numbers, NEW name \in DOMAIN numbers,
           \A n, m \in DOMAIN numbers : numbers[n] = numbers[m] => n = m
    PROVE  NameOf(numbers, numbers[name]) = name
  BY DEF NameOf

-----------------------------------------------------------------------------
(* The options of a packet *)

\* The options that are written are short ones.
ShortOptions == [type : Byte, value : {v \in Seq(Byte) : Len(v) <= 4}]

Written(p, name) == [type |-> TypeOf[p.proto][name], value |-> ValueOf(name, p.opts[name])]

LEMMA ValuesAre ==
    ASSUME NEW name, NEW value
    PROVE  ValueOf(name, value) \in {v \in Seq(Byte) : Len(v) <= 4}
<1>1. U16(defaultMRU) \in Seq(Byte) /\ Len(U16(defaultMRU)) = 2
  <2>1. defaultMRU \in Word
    BY DEF defaultMRU, Word
  <2>2. QED
    BY <2>1, TwoTyped
<1>2. \A a, b, c, d \in Byte : <<a, b, c, d>> \in Seq(Byte) /\ Len(<<a, b, c, d>>) = 4
  OBVIOUS
<1>3. Magic \in Seq(Byte) /\ Len(Magic) = 4 /\ Address \in Seq(Byte) /\ Len(Address) = 4
  <2>1. \A k \in {222, 173, 190, 239, 10, 0, 1} : k \in Byte
    BY DEF Byte
  <2>2. QED
    BY <1>2, <2>1 DEF Magic, Address
<1>4. <<0, 0, 0, 0>> \in Seq(Byte) /\ Len(<<0, 0, 0, 0>>) = 4
  <2>1. 0 \in Byte
    BY DEF Byte
  <2>2. QED
    BY <1>2, <2>1
<1>5. <<192, 35>> \in Seq(Byte) /\ Len(<<192, 35>>) = 2
  BY DEF Byte
<1>6. ValueOf(name, value) \in {U16(defaultMRU), Magic, Address, <<0, 0, 0, 0>>, <<192, 35>>}
  BY Zenon DEF ValueOf
<1> DEFINE v == ValueOf(name, value)
<1>7. v \in Seq(Byte) /\ (Len(v) = 2 \/ Len(v) = 4)
  BY <1>1, <1>3, <1>4, <1>5, <1>6, Zenon
<1> HIDE DEF v
<1>8. v \in {w \in Seq(Byte) : Len(w) <= 4}
  <2>1. Len(v) <= 4
    <3>1. CASE Len(v) = 2
      BY <3>1
    <3>2. CASE Len(v) = 4
      BY <3>2
    <3>3. QED
      BY <1>7, <3>1, <3>2
  <2>2. QED
    BY <1>7, <2>1, Zenon
<1>9. QED
  BY <1>8 DEF v

LEMMA WrittenIs ==
    ASSUME NEW p, p.proto \in {"LCP", "IPCP"}, NEW name \in DOMAIN TypeOf[p.proto]
    PROVE  Written(p, name) \in ShortOptions
  BY TypesAre, ValuesAre, Zenon DEF Written, ShortOptions

\* l has what p has of these options, and no others; and no more than k of them.
Lists(l, p, names, k) ==
    /\ l \in Seq(ShortOptions) /\ Len(l) <= k
    /\ \A i \in DOMAIN l : \E n \in names \intersect DOMAIN p.opts : l[i] = Written(p, n)
    /\ \A n \in names \intersect DOMAIN p.opts : \E i \in DOMAIN l : l[i] = Written(p, n)

\* An option at most, and two such lists in one.
LEMMA ListsOne ==
    ASSUME NEW p, p.proto \in {"LCP", "IPCP"}, NEW name \in DOMAIN TypeOf[p.proto]
    PROVE  Lists(OptionOf(p, name), p, {name}, 1)
<1> DEFINE w == Written(p, name)
<1>1. w \in ShortOptions
  BY WrittenIs
<1>2. OptionOf(p, name) = IF name \in DOMAIN p.opts THEN <<w>> ELSE <<>>
  BY DEF OptionOf, Written
<1> HIDE DEF w
<1>3. CASE name \in DOMAIN p.opts
  <2>1. <<w>> \in Seq(ShortOptions) /\ Len(<<w>>) <= 1 /\ DOMAIN <<w>> = {1} /\ <<w>>[1] = w
    BY <1>1
  <2>2. QED
    BY <1>2, <1>3, <2>1 DEF Lists, w
<1>4. CASE name \notin DOMAIN p.opts
  BY <1>2, <1>4 DEF Lists
<1>5. QED
  BY <1>3, <1>4

LEMMA ListsBoth ==
    ASSUME NEW p, NEW l, NEW m, NEW ns, NEW ms, NEW k \in Nat, NEW j \in Nat,
           Lists(l, p, ns, k), Lists(m, p, ms, j), NEW t, t = k + j
    PROVE  Lists(l \o m, p, ns \union ms, t)
<1>1. l \in Seq(ShortOptions) /\ m \in Seq(ShortOptions)
  BY DEF Lists
<1>2. /\ l \o m \in Seq(ShortOptions) /\ Len(l \o m) = Len(l) + Len(m)
      /\ \A i \in DOMAIN l : i \in DOMAIN (l \o m) /\ (l \o m)[i] = l[i]
      /\ \A i \in DOMAIN m : Len(l) + i \in DOMAIN (l \o m) /\ (l \o m)[Len(l) + i] = m[i]
      /\ \A i \in DOMAIN (l \o m) : \/ i \in DOMAIN l
                                    \/ i - Len(l) \in DOMAIN m /\ (l \o m)[i] = m[i - Len(l)]
  BY <1>1
<1>3. Len(l \o m) <= t
  BY <1>1, <1>2 DEF Lists
<1>4. \A i \in DOMAIN (l \o m) :
          \E n \in (ns \union ms) \intersect DOMAIN p.opts : (l \o m)[i] = Written(p, n)
  BY <1>2 DEF Lists
<1>5. \A n \in (ns \union ms) \intersect DOMAIN p.opts :
          \E i \in DOMAIN (l \o m) : (l \o m)[i] = Written(p, n)
  BY <1>2 DEF Lists
<1>6. QED
  BY <1>2, <1>3, <1>4, <1>5 DEF Lists

\* A packet's options are listed, all of them and no others.
LEMMA OptionListIs ==
    ASSUME NEW p, p.proto \in {"LCP", "IPCP"}
    PROVE  Lists(OptionList(p), p, DOMAIN TypeOf[p.proto], 4)
<1>0. 1 \in Nat /\ 2 \in Nat /\ 3 \in Nat /\ 2 = 1 + 1 /\ 3 = 2 + 1 /\ 4 = 3 + 1
  OBVIOUS
<1>1. CASE p.proto = "LCP"
  <2>1. DOMAIN TypeOf[p.proto] = {"MRU", "ACCM", "Auth", "Magic"}
    BY <1>1, TypesAre DEF LcpNames
  <2>2. /\ Lists(OptionOf(p, "MRU"), p, {"MRU"}, 1) /\ Lists(OptionOf(p, "ACCM"), p, {"ACCM"}, 1)
        /\ Lists(OptionOf(p, "Auth"), p, {"Auth"}, 1) /\ Lists(OptionOf(p, "Magic"), p, {"Magic"}, 1)
    BY <2>1, ListsOne
  <2>3. Lists(OptionOf(p, "MRU") \o OptionOf(p, "ACCM"), p, {"MRU"} \union {"ACCM"}, 2)
    BY <1>0, <2>2, ListsBoth, Zenon
  <2>4. Lists(OptionOf(p, "MRU") \o OptionOf(p, "ACCM") \o OptionOf(p, "Auth"), p,
              {"MRU"} \union {"ACCM"} \union {"Auth"}, 3)
    BY <1>0, <2>2, <2>3, ListsBoth, Zenon
  <2>5. Lists(OptionList(p), p, {"MRU"} \union {"ACCM"} \union {"Auth"} \union {"Magic"}, 4)
    BY <1>0, <1>1, <2>2, <2>4, ListsBoth, Zenon DEF OptionList
  <2>6. {"MRU"} \union {"ACCM"} \union {"Auth"} \union {"Magic"} = DOMAIN TypeOf[p.proto]
    BY <2>1
  <2>7. QED
    BY <2>5, <2>6
<1>2. CASE p.proto = "IPCP"
  <2>1. DOMAIN TypeOf[p.proto] = {"IP", "DNS1", "DNS2"}
    BY <1>2, TypesAre DEF Addresses
  <2>2. /\ Lists(OptionOf(p, "IP"), p, {"IP"}, 1) /\ Lists(OptionOf(p, "DNS1"), p, {"DNS1"}, 1)
        /\ Lists(OptionOf(p, "DNS2"), p, {"DNS2"}, 1)
    BY <2>1, ListsOne
  <2>3. Lists(OptionOf(p, "IP") \o OptionOf(p, "DNS1"), p, {"IP"} \union {"DNS1"}, 2)
    BY <1>0, <2>2, ListsBoth, Zenon
  <2>4. Lists(OptionList(p), p, {"IP"} \union {"DNS1"} \union {"DNS2"}, 3)
    BY <1>0, <1>2, <2>2, <2>3, ListsBoth, Zenon DEF OptionList
  <2>5. {"IP"} \union {"DNS1"} \union {"DNS2"} = DOMAIN TypeOf[p.proto]
    BY <2>1
  <2>6. QED
    BY <2>4, <2>5 DEF Lists
<1>3. QED
  BY <1>1, <1>2

\* Few short options are few bytes.
LEMMA ShortAreOptions ==
    /\ ShortOptions \subseteq WireOptions
    /\ \A x \in ShortOptions : Len(Rendered(x)) \in 0..6
<1>1. ASSUME NEW x \in ShortOptions PROVE x \in WireOptions /\ Len(x.value) \in 0..4
  <2>1. /\ x.type \in Byte /\ x.value \in Seq(Byte) /\ Len(x.value) <= 4
        /\ x = [type |-> x.type, value |-> x.value]
    BY DEF ShortOptions
  <2> DEFINE n == Len(x.value)
  <2>2. n \in 0..4 /\ n <= 253
    <3>1. n \in Nat /\ n <= 4
      BY <2>1, LenProperties
    <3> HIDE DEF n
    <3>2. QED
      BY <3>1
  <2>3. x.value \in {v \in Seq(Byte) : Len(v) <= 253}
    BY <2>1, <2>2, Zenon
  <2>4. x \in WireOptions
    BY <2>1, <2>3, Zenon DEF WireOptions
  <2>5. QED
    BY <2>2, <2>4
<1>2. ASSUME NEW x \in ShortOptions PROVE Len(Rendered(x)) \in 0..6
  <2> DEFINE n == Len(x.value)
  <2>1. n \in 0..4 /\ Len(Rendered(x)) = 2 + n
    BY <1>1, RenderedIs
  <2> HIDE DEF n
  <2>2. QED
    BY <2>1
<1>3. QED
  BY <1>1, <1>2

\* An option takes six bytes at most.
LEMMA OneShorter ==
    ASSUME NEW o \in Seq(ShortOptions), o # <<>>
    PROVE  /\ Tail(o) \in Seq(ShortOptions) /\ Len(Tail(o)) = Len(o) - 1
           /\ EncodeOptions(o) \in Seq(Byte) /\ EncodeOptions(Tail(o)) \in Seq(Byte)
           /\ Len(EncodeOptions(o)) <= 6 + Len(EncodeOptions(Tail(o)))
<1>1. Head(o) \in ShortOptions /\ Tail(o) \in Seq(ShortOptions) /\ Len(Tail(o)) = Len(o) - 1
      /\ o = <<Head(o)>> \o Tail(o)
  OBVIOUS
<1>2. Head(o) \in WireOptions /\ Tail(o) \in Seq(WireOptions) /\ Len(Rendered(Head(o))) \in 0..6
  <2>1. ShortOptions \subseteq WireOptions
    BY ShortAreOptions
  <2>2. QED
    BY <1>1, <2>1, ShortAreOptions
<1>3. EncodeOptions(Tail(o)) \in Seq(Byte)
      /\ EncodeOptions(o) = Rendered(Head(o)) \o EncodeOptions(Tail(o))
  BY <1>1, <1>2, OptionsInFront
<1>4. Rendered(Head(o)) \in Seq(Byte)
  BY <1>2, RenderedIs
<1>5. EncodeOptions(o) \in Seq(Byte)
      /\ Len(EncodeOptions(o)) = Len(Rendered(Head(o))) + Len(EncodeOptions(Tail(o)))
  BY <1>3, <1>4, Concat
<1> DEFINE long == Len(EncodeOptions(o))
           rest == Len(EncodeOptions(Tail(o)))
           first == Len(Rendered(Head(o)))
<1>6. long = first + rest /\ first \in 0..6 /\ rest \in Nat
  BY <1>2, <1>3, <1>5
<1> HIDE DEF long, rest, first
<1>7. long <= 6 + rest
  BY <1>6
<1>8. QED
  BY <1>1, <1>3, <1>5, <1>7 DEF long, rest

LEMMA NotLong ==
    ASSUME NEW o \in Seq(ShortOptions), Len(o) <= 4
    PROVE  EncodeOptions(o) \in Seq(Byte) /\ Len(EncodeOptions(o)) <= 24
<1> DEFINE Bounded(q, k) == EncodeOptions(q) \in Seq(Byte) /\ Len(EncodeOptions(q)) <= k
<1>1. ASSUME NEW q \in Seq(ShortOptions), Len(q) <= 0 PROVE Bounded(q, 0)
  <2>1. q = <<>>
    BY <1>1
  <2>2. EncodeOptions(q) = <<>>
    BY <2>1, NothingLeft
  <2>3. QED
    BY <2>2
<1>2. ASSUME NEW k \in Nat, NEW b \in Nat,
             \A q \in Seq(ShortOptions) : Len(q) <= k => Bounded(q, b),
             NEW q \in Seq(ShortOptions), Len(q) <= k + 1
      PROVE  Bounded(q, b + 6)
  <2>1. CASE q = <<>>
    <3>1. EncodeOptions(q) = <<>>
      BY <2>1, NothingLeft
    <3>2. QED
      BY <1>2, <3>1
  <2>2. CASE q # <<>>
    <3>1. /\ Tail(q) \in Seq(ShortOptions) /\ Len(Tail(q)) = Len(q) - 1
          /\ EncodeOptions(q) \in Seq(Byte) /\ EncodeOptions(Tail(q)) \in Seq(Byte)
          /\ Len(EncodeOptions(q)) <= 6 + Len(EncodeOptions(Tail(q)))
      BY <1>2, <2>2, OneShorter
    <3>2. Len(Tail(q)) <= k
      BY <1>2, <3>1
    <3>3. Len(EncodeOptions(Tail(q))) <= b
      BY <1>2, <3>1, <3>2
    <3>4. Len(EncodeOptions(q)) \in Nat /\ Len(EncodeOptions(Tail(q))) \in Nat
      BY <3>1
    <3>5. QED
      BY <1>2, <3>1, <3>3, <3>4
  <2>3. QED
    BY <2>1, <2>2
<1> HIDE DEF Bounded
<1>3. \A q \in Seq(ShortOptions) : Len(q) <= 0 => Bounded(q, 0)
  BY <1>1
<1>4. \A q \in Seq(ShortOptions) : Len(q) <= 0 + 1 => Bounded(q, 0 + 6)
  BY <1>2, <1>3
<1>5. \A q \in Seq(ShortOptions) : Len(q) <= 1 => Bounded(q, 6)
  BY <1>4
<1>6. \A q \in Seq(ShortOptions) : Len(q) <= 1 + 1 => Bounded(q, 6 + 6)
  BY <1>2, <1>5
<1>7. \A q \in Seq(ShortOptions) : Len(q) <= 2 => Bounded(q, 12)
  BY <1>6
<1>8. \A q \in Seq(ShortOptions) : Len(q) <= 2 + 1 => Bounded(q, 12 + 6)
  BY <1>2, <1>7
<1>9. \A q \in Seq(ShortOptions) : Len(q) <= 3 => Bounded(q, 18)
  BY <1>8
<1>10. \A q \in Seq(ShortOptions) : Len(q) <= 3 + 1 => Bounded(q, 18 + 6)
  BY <1>2, <1>9
<1>11. Bounded(o, 24)
  BY <1>10
<1>12. QED
  BY <1>11 DEF Bounded

\* An option's value gives back what it says in the model.
LEMMA ValuesRead ==
    ASSUME NEW p \in Spoken, p.code \in Configures, p.proto \in {"LCP", "IPCP"},
           NEW name \in DOMAIN p.opts
    PROVE  /\ name \in DOMAIN TypeOf[p.proto]
           /\ ReadValue(p.proto, ValueOf(name, p.opts[name])) = p.opts[name]
<1>1. CASE p.proto = "LCP"
  <2>1. PICK names \in SUBSET LcpNames : p.opts = Named(names)
    BY <1>1 DEF Spoken, LcpOptions
  <2>2. DOMAIN p.opts = names /\ p.opts[name] = "-"
    BY <2>1 DEF Named
  <2>3. QED
    BY <1>1, <2>2, TypesAre DEF ReadValue
<1>2. CASE p.proto = "IPCP"
  <2>1. p.opts \in AddressOptions
    BY <1>2 DEF Spoken
  <2>2. name \in Addresses /\ p.opts[name] \in {"unset", "assigned"}
    BY <2>1, AddressesGiven
  <2>3. ValueOf(name, p.opts[name]) = IF p.opts[name] = "unset" THEN <<0, 0, 0, 0>> ELSE Address
    BY <2>2 DEF ValueOf, Addresses
  <2>4. Address # <<0, 0, 0, 0>>
    BY DEF Address
  <2>5. name \in DOMAIN TypeOf[p.proto]
    BY <1>2, <2>2, TypesAre
  <2>6. QED
    BY <1>2, <2>2, <2>3, <2>4, <2>5 DEF ReadValue
<1>3. QED
  BY <1>1, <1>2

\* f says what the list has of the options with these numbers.
Says(f, proto, types, l) ==
    /\ f = [n \in DOMAIN f |-> f[n]]
    /\ \A i \in DOMAIN l : NameOf(types, l[i].type) \in DOMAIN f
    /\ \A n \in DOMAIN f : \E i \in DOMAIN l : n = NameOf(types, l[i].type)
    /\ \A n \in DOMAIN f :
          (\E i \in DOMAIN l : l[i].type = types[n]) =>
              \E i \in DOMAIN l : /\ l[i].type = types[n]
                                  /\ f[n] = ReadValue(proto, l[i].value)

\* What occurs in a list, occurs in it for the last time.
LEMMA HasLast ==
    ASSUME NEW S, NEW l \in Seq(S), NEW type, \E i \in DOMAIN l : l[i].type = type
    PROVE  LastOf(type, l) \in DOMAIN l /\ l[LastOf(type, l)].type = type
<1> DEFINE L == Len(l)
           T == {n \in 0..L : L - n \in DOMAIN l /\ l[L - n].type = type}
<1>1. L \in Nat /\ DOMAIN l = 1..L
  OBVIOUS
<1>2. \A i \in DOMAIN l : L - i \in 0..L /\ L - (L - i) = i
  BY <1>1
<1>3. T \subseteq Nat /\ T # {}
  <2>1. PICK i \in DOMAIN l : l[i].type = type
    OBVIOUS
  <2>2. L - i \in T
    BY <1>2, <2>1
  <2>3. QED
    BY <2>2
<1>4. PICK n \in T : \A m \in T : n <= m
  <2> HIDE DEF T
  <2>1. QED
    BY <1>3, HasLeast
<1>5. L - n \in DOMAIN l /\ l[L - n].type = type /\ n \in 0..L
  BY <1>4
<1>6. ASSUME NEW j \in DOMAIN l, l[j].type = type PROVE j <= L - n
  <2>1. L - j \in T
    BY <1>2, <1>6
  <2>2. n <= L - j
    BY <1>4, <2>1
  <2>3. j \in 1..L
    BY <1>1
  <2> HIDE DEF T, L
  <2>4. QED
    BY <1>1, <1>5, <2>2, <2>3
<1>7. \E i \in DOMAIN l : l[i].type = type /\ \A j \in DOMAIN l : l[j].type = type => j <= i
  BY <1>5, <1>6
<1>8. QED
  BY <1>7, Zenon DEF LastOf

\* What the handlers read is what a list says.
LEMMA ListSays ==
    ASSUME NEW proto, NEW S, NEW l \in Seq(S)
    PROVE  Says(ReadList(proto, l), proto, TypeOf[proto], l)
<1> DEFINE types == TypeOf[proto]
           names == {NameOf(types, l[i].type) : i \in DOMAIN l}
           At(n) == LastOf(types[n], l)
           f == [n \in names |-> ReadValue(proto, l[At(n)].value)]
<1>1. ReadList(proto, l) = f
  BY DEF ReadList
<1>2. ASSUME NEW n, \E i \in DOMAIN l : l[i].type = types[n]
      PROVE  At(n) \in DOMAIN l /\ l[At(n)].type = types[n]
  BY <1>2, HasLast, Zenon
<1> HIDE DEF types, At
<1>3. f = [n \in DOMAIN f |-> f[n]] /\ DOMAIN f = names
      /\ \A n \in DOMAIN f : f[n] = ReadValue(proto, l[At(n)].value)
  OBVIOUS
<1> HIDE DEF f
<1>4. \A n \in DOMAIN f : (\E i \in DOMAIN l : l[i].type = types[n]) =>
          \E i \in DOMAIN l : l[i].type = types[n] /\ f[n] = ReadValue(proto, l[i].value)
  BY <1>2, <1>3
<1>5. Says(f, proto, types, l)
  BY <1>3, <1>4 DEF Says
<1>6. QED
  BY <1>1, <1>5, Zenon DEF types

\* The options of a packet come back by their names.
LEMMA NamesAndValues ==
    ASSUME NEW p \in Spoken, p.code \in Configures, p.proto \in {"LCP", "IPCP"}
    PROVE  /\ EncodeOptions(OptionList(p)) \in Seq(Byte)
           /\ Len(EncodeOptions(OptionList(p))) <= 24
           /\ ReadOptions(p.proto, EncodeOptions(OptionList(p))) = p.opts
<1> DEFINE list == OptionList(p)
           types == TypeOf[p.proto]
           data == EncodeOptions(list)
<1>1. /\ list \in Seq(ShortOptions) /\ Len(list) <= 4
      /\ \A i \in DOMAIN list : \E n \in DOMAIN types \intersect DOMAIN p.opts : list[i] = Written(p, n)
      /\ \A n \in DOMAIN types \intersect DOMAIN p.opts : \E i \in DOMAIN list : list[i] = Written(p, n)
  <2>1. Lists(list, p, DOMAIN types, 4)
    BY OptionListIs
  <2>2. QED
    BY <2>1, Zenon DEF Lists
<1>2. /\ \A n \in DOMAIN p.opts : n \in DOMAIN types
      /\ \A n \in DOMAIN p.opts : ReadValue(p.proto, ValueOf(n, p.opts[n])) = p.opts[n]
  BY ValuesRead
<1>3. \A n, m \in DOMAIN types : types[n] = types[m] => n = m
  BY TypesAre
<1> HIDE DEF list, types
<1>4. DecodeOptions(data) = {list}
  <2>1. list \in Seq(WireOptions)
    BY <1>1, ShortAreOptions
  <2>2. QED
    BY <2>1, OptionsReadBack
<1>5. ASSUME NEW n \in DOMAIN p.opts
      PROVE  Written(p, n).type = types[n] /\ Written(p, n).value = ValueOf(n, p.opts[n])
  BY DEF Written, types
<1>6. \A n \in DOMAIN types : NameOf(types, types[n]) = n
  BY <1>3, NamesRead, Zenon
<1> DEFINE f == ReadList(p.proto, list)
<1>7. Says(f, p.proto, types, list)
  BY <1>1, ListSays, Zenon DEF types
<1> HIDE DEF f
<1>8. DOMAIN f = DOMAIN p.opts
  <2>1. \A i \in DOMAIN list : NameOf(types, list[i].type) \in DOMAIN p.opts
    BY <1>1, <1>5, <1>6
  <2>2. ASSUME NEW n \in DOMAIN p.opts PROVE n \in DOMAIN f
    <3>1. PICK i \in DOMAIN list : list[i] = Written(p, n)
      BY <1>1, <1>2
    <3>2. NameOf(types, list[i].type) = n
      BY <1>2, <1>5, <1>6, <3>1
    <3>3. QED
      BY <1>7, <3>2 DEF Says
  <2>3. QED
    BY <1>7, <2>1, <2>2 DEF Says
<1>9. ASSUME NEW n \in DOMAIN p.opts PROVE f[n] = p.opts[n]
  <2>1. \E i \in DOMAIN list : list[i].type = types[n]
    BY <1>1, <1>2, <1>5
  <2>2. PICK i \in DOMAIN list : list[i].type = types[n] /\ f[n] = ReadValue(p.proto, list[i].value)
    BY <1>7, <1>8, <2>1 DEF Says
  <2>3. PICK m \in DOMAIN p.opts : list[i] = Written(p, m)
    BY <1>1, <2>2
  <2>4. m = n
    BY <1>2, <1>3, <1>5, <2>2, <2>3
  <2>5. QED
    BY <1>2, <1>5, <2>2, <2>3, <2>4
<1>10. p.opts = [name \in DOMAIN p.opts |-> p.opts[name]]
  <2>1. p.opts \in Options
    BY DEF Spoken, Packets
  <2>2. QED
    BY <2>1, OptionsAre
<1>11. f = p.opts
  BY <1>7, <1>8, <1>9, <1>10 DEF Says
<1>12. data \in Seq(Byte) /\ Len(data) <= 24
  BY <1>1, NotLong
<1>13. ReadOptions(p.proto, data) = f
  <2>1. (CHOOSE l \in {list} : TRUE) = list /\ {list} # {}
    OBVIOUS
  <2> HIDE DEF data
  <2>2. QED
    BY <1>4, <2>1, Zenon DEF ReadOptions, f
<1>14. QED
  BY <1>11, <1>12, <1>13 DEF list, f

-----------------------------------------------------------------------------
(* The packets of the session as bytes *)

\* What the gateway puts into a request that it spoils is no option list.
LEMMA SpoiltIsAnError == <<3, 0>> \in Seq(Byte) /\ DecodeOptions(<<3, 0>>) = {}
<1> DEFINE data == <<3, 0>>
<1>1. data \in Seq(Byte) /\ Len(data) = 2 /\ data[2] = 0
  BY DEF Byte
<1> HIDE DEF data
<1>2. PICK f : /\ \A k \in 1..Ends(data) : f[k] = Parsed(f, data, k)
               /\ DecodeOptions(data) = f[1]
  BY <1>1, DecodesFromTheStart, Zenon
<1>3. Ends(data) = 3 /\ 1 \in 1..Ends(data) /\ 1 # Ends(data) /\ Torn(data, 1)
  BY <1>1 DEF Ends, Torn
<1>4. DecodeOptions(data) = {}
  BY <1>2, <1>3, Zenon DEF Parsed
<1>5. QED
  BY <1>1, <1>4 DEF data

\* Only the gateway spoils packets.
LEMMA SpokenIsReadable ==
    ASSUME NEW p \in Spoken
    PROVE  Readable(p)
<1>1. CASE p.code \in Configures /\ p.proto = "LCP"
  <2>1. PICK names \in SUBSET LcpNames : p.opts = Named(names)
    BY <1>1 DEF Spoken, LcpOptions
  <2>2. DOMAIN p.opts \subseteq LcpNames
    BY <2>1, LcpOptionsAre
  <2>3. QED
    BY <2>2 DEF Readable, LcpNames
<1>2. CASE p.code \in Configures /\ p.proto = "IPCP"
  <2>1. p.opts \in AddressOptions
    BY <1>2 DEF Spoken
  <2>2. DOMAIN p.opts \subseteq Addresses
    BY <2>1, AddressesGiven
  <2>3. QED
    BY <2>2 DEF Readable, Addresses
<1>3. CASE p.code \notin Configures \/ p.proto = "IPv6CP"
  <2>1. p.opts = NoOptions
    BY <1>3 DEF Spoken
  <2>2. DOMAIN p.opts = {}
    BY <2>1 DEF NoOptions, Named
  <2>3. QED
    BY <2>2 DEF Readable
<1>4. p.proto \in {"LCP", "IPCP", "IPv6CP"}
  BY DEF Spoken, Packets
<1>5. QED
  BY <1>1, <1>2, <1>3, <1>4

\* What the handlers read in a packet's data.
OptionsRead(p, data) == IF p.code \in Configures /\ p.proto \in DOMAIN TypeOf
                  THEN ReadOptions(p.proto, data) ELSE NoOptions

\* They read in it what the packet says.
LEMMA DataIs ==
    ASSUME NEW p \in Spoken \union Spoilt
    PROVE  Data(p) \in Seq(Byte) /\ Len(Data(p)) <= 24 /\ OptionsRead(p, Data(p)) = p.opts
<1>0. DOMAIN TypeOf = {"LCP", "IPCP"}
  BY DEF TypeOf
<1>1. CASE p \in Spoilt
  <2>1. /\ p.code = "Request" /\ p.proto \in {"LCP", "IPCP"} /\ p.opts = Named({"Broken"})
        /\ "Broken" \in DOMAIN p.opts
    <3>1. p.opts = Named({"Broken"}) /\ DOMAIN Named({"Broken"}) = {"Broken"}
      BY <1>1 DEF Spoilt, Named
    <3>2. QED
      BY <1>1, <3>1 DEF Spoilt
  <2>2. Data(p) = <<3, 0>>
    BY <2>1, Zenon DEF Data, Readable
  <2>3. ReadOptions(p.proto, <<3, 0>>) = Named({"Broken"})
    BY SpoiltIsAnError, Zenon DEF ReadOptions
  <2>4. OptionsRead(p, Data(p)) = p.opts
    BY <1>0, <2>1, <2>2, <2>3 DEF OptionsRead, Configures
  <2>5. QED
    BY <2>2, <2>4, SpoiltIsAnError
<1>2. CASE p \in Spoken /\ p.code \in Configures /\ p.proto \in {"LCP", "IPCP"}
  <2>1. Readable(p)
    BY <1>2, SpokenIsReadable
  <2>2. Data(p) = EncodeOptions(OptionList(p))
    <3>1. p.code # "Echo-Reply"
      BY <1>2 DEF Configures
    <3>2. QED
      BY <1>0, <1>2, <2>1, <3>1, Zenon DEF Data
  <2>3. QED
    BY <1>0, <1>2, <2>2, NamesAndValues, Zenon DEF OptionsRead
<1>3. CASE p \in Spoken /\ ~(p.code \in Configures /\ p.proto \in {"LCP", "IPCP"})
  <2>1. Readable(p)
    BY <1>3, SpokenIsReadable
  <2>2. p.opts = NoOptions
    BY <1>3 DEF Spoken, Packets
  <2>3. Data(p) = Magic \/ Data(p) = <<>>
    BY <1>0, <1>3, <2>1, Zenon DEF Data
  <2>4. Data(p) \in Seq(Byte) /\ Len(Data(p)) <= 24
    <3>1. Magic \in Seq(Byte) /\ Len(Magic) = 4
      BY DEF Magic, Byte
    <3>2. <<>> \in Seq(Byte) /\ Len(<<>>) = 0
      OBVIOUS
    <3>3. Data(p) \in Seq(Byte) /\ Len(Data(p)) \in {0, 4}
      BY <2>3, <3>1, <3>2, Zenon
    <3>4. \A n \in {0, 4} : n <= 24
      OBVIOUS
    <3>5. QED
      BY <3>3, <3>4, Zenon
  <2>5. QED
    BY <1>0, <1>3, <2>2, <2>4 DEF OptionsRead
<1>4. QED
  BY <1>1, <1>2, <1>3

\* A packet with numbers for its names.
WireOf(p) == [protocol |-> ProtocolOf[p.proto], code |-> CodeOf[p.code],
              identifier |-> p.id, data |-> Data(p)]

LEMMA WireIs ==
    ASSUME NEW p \in Spoken \union Spoilt
    PROVE  /\ WireOf(p) \in WirePackets /\ IsControl(WireOf(p).protocol) /\ Fits(WireOf(p))
           /\ WireOf(p).protocol # ReadU16(AddressAndControl, 1)
           /\ Bytes(p) = Encode(WireOf(p))
<1>1. p \in Packets /\ p.id \in 0..IdSpace - 1
  BY ReadableAreSpoken
<1>2. p.proto \in DOMAIN ProtocolOf /\ p.code \in DOMAIN CodeOf
  BY <1>1, ProtocolsAre, CodesAre DEF Packets, Codes
<1>3. p.id \in Byte
  BY <1>1, PppBounds DEF Byte
<1>4. Data(p) \in Seq(Byte) /\ Len(Data(p)) <= 24
  BY DataIs
<1>5. CodeOf[p.code] \in Byte
  BY <1>2, CodesAre
<1>6. ProtocolOf[p.proto] \in Word /\ IsControl(ProtocolOf[p.proto])
      /\ ProtocolOf[p.proto] # ReadU16(AddressAndControl, 1)
  BY <1>2, ProtocolsAre
<1>7. WireOf(p) \in WirePackets
  BY <1>3, <1>4, <1>5, <1>6 DEF WireOf, WirePackets
<1>8. 4 + Len(Data(p)) \in Word
  BY <1>4 DEF Word
<1>9. Fits(WireOf(p))
  BY <1>8, Zenon DEF Fits, WireOf
<1>10. QED
  BY <1>6, <1>7, <1>9, Zenon DEF WireOf, Bytes

\* Its numbers give back its names.
LEMMA NamedAgain ==
    ASSUME NEW p \in Spoken \union Spoilt, NEW b, Decode(b) = {WireOf(p)}
    PROVE  Read(b) = {p}
<1>1. p \in Packets
  BY ReadableAreSpoken
<1>2. p.proto \in DOMAIN ProtocolOf /\ p.code \in DOMAIN CodeOf
  BY <1>1, ProtocolsAre, CodesAre DEF Packets, Codes
<1>3. NameOf(ProtocolOf, ProtocolOf[p.proto]) = p.proto
  BY <1>2, ProtocolsAre, NamesRead, Zenon
<1>4. NameOf(CodeOf, CodeOf[p.code]) = p.code
  <2>1. \A c, d \in DOMAIN CodeOf : CodeOf[c] = CodeOf[d] => c = d
    BY CodesAre
  <2>2. QED
    BY <1>2, <2>1, NamesRead, Zenon
<1>5. Packet(p.proto, p.code, p.id, p.opts) = p
  BY <1>1 DEF Packet, Packets
<1>6. OptionsRead(p, Data(p)) = p.opts
  BY DataIs
<1> DEFINE Of(q) ==
        LET proto == NameOf(ProtocolOf, q.protocol)
            code  == NameOf(CodeOf, q.code)
        IN  Packet(proto, code, q.identifier,
                   IF code \in Configures /\ proto \in DOMAIN TypeOf
                   THEN ReadOptions(proto, q.data) ELSE NoOptions)
           w == WireOf(p)
<1>7. w.protocol = ProtocolOf[p.proto] /\ w.code = CodeOf[p.code] /\ w.identifier = p.id
      /\ w.data = Data(p)
  BY DEF WireOf
<1>8. Read(b) = {Of(q) : q \in Decode(b)}
  BY Zenon DEF Read
<1> HIDE DEF w
<1>9. Of(w) = p
  BY <1>3, <1>4, <1>5, <1>6, <1>7, Zenon DEF OptionsRead
<1> HIDE DEF Of
<1>10. QED
  BY <1>8, <1>9 DEF w

\* A packet without its address and control bytes, and padded, as a gateway may send it.
Padding      == <<0, 255>>
Shortened(b) == From(b, 3) \o Padding

\* The bytes of a packet, either way, around its body.
LEMMA BodyOfBytes ==
    ASSUME NEW p \in Spoken \union Spoilt
    PROVE  \E body : /\ IsBody(body, WireOf(p)) /\ body \in Seq(Byte) /\ Len(body) \in 6..30
                     /\ Bytes(p) = AddressAndControl \o body
                     /\ Shortened(Bytes(p)) = body \o Padding
<1> DEFINE w == WireOf(p)
<1>1. /\ w \in WirePackets /\ IsControl(w.protocol) /\ Fits(w)
      /\ Bytes(p) = Encode(w)
  BY WireIs
<1>2. Len(w.data) \in 0..24
  <2>1. w.data = Data(p)
    BY DEF WireOf
  <2>2. Data(p) \in Seq(Byte) /\ Len(Data(p)) <= 24
    BY DataIs
  <2> DEFINE n == Len(Data(p))
  <2>3. n \in Nat
    BY <2>2
  <2> HIDE DEF n
  <2>4. n <= 24 => n \in 0..24
    BY <2>3
  <2>5. QED
    BY <2>1, <2>2, <2>4 DEF n
<1> HIDE DEF w
<1>3. PICK body : IsBody(body, w) /\ Encode(w) = AddressAndControl \o body
  BY <1>1, BodyOf, Zenon
<1>4. body \in Seq(Byte) /\ Len(body) = 6 + Len(w.data)
  BY <1>3, Zenon DEF IsBody
<1>5. Len(body) \in 6..30
  <2>1. \A n \in 0..24 : 6 + n \in 6..30
    OBVIOUS
  <2>2. QED
    BY <1>2, <1>4, <2>1, Zenon
<1>6. From(Bytes(p), 3) = body
  BY <1>1, <1>3, <1>4, Unwraps, Zenon
<1>7. QED
  BY <1>1, <1>3, <1>4, <1>5, <1>6, Zenon DEF Shortened, w

LEMMA PaddingIs == Padding \in Seq(Byte) /\ Len(Padding) = 2
  BY DEF Padding, Byte

LEMMA InAFrame == \A n \in 6..30 : 2 + n \in 1..maxFrameLen /\ n + 2 \in 1..maxFrameLen
  BY DEF maxFrameLen

\* Either way it fits into a frame, and gives its packet.
LEMMA SentReads ==
    ASSUME NEW p \in Spoken \union Spoilt, NEW b \in {Bytes(p), Shortened(Bytes(p))}
    PROVE  /\ b \in Seq(Byte) /\ Len(b) \in 1..maxFrameLen
           /\ Decode(b) = {WireOf(p)}
<1>1. PICK body : /\ IsBody(body, WireOf(p)) /\ body \in Seq(Byte) /\ Len(body) \in 6..30
                  /\ Bytes(p) = AddressAndControl \o body
                  /\ Shortened(Bytes(p)) = body \o Padding
  BY BodyOfBytes, Zenon
<1>2. AddressAndControl \in Seq(Byte) /\ Len(AddressAndControl) = 2
  BY DEF AddressAndControl, Byte
<1> DEFINE w == WireOf(p)
<1>3. /\ w \in WirePackets /\ IsControl(w.protocol) /\ Fits(w)
      /\ w.protocol # ReadU16(AddressAndControl, 1) /\ Bytes(p) = Encode(w)
  BY WireIs
<1> HIDE DEF w
<1>4. CASE b = Bytes(p)
  <2>1. b \in Seq(Byte) /\ Len(b) = 2 + Len(body)
    <3>1. AddressAndControl \o body \in Seq(Byte)
          /\ Len(AddressAndControl \o body) = Len(AddressAndControl) + Len(body)
      BY <1>1, <1>2, Concat
    <3>2. QED
      BY <1>1, <1>2, <1>4, <3>1, Zenon
  <2>2. Len(b) \in 1..maxFrameLen
    BY <1>1, <2>1, InAFrame, Zenon
  <2>3. Decode(Encode(w) \o <<>>) = {w}
    <3>1. <<>> \in Seq(Byte)
      OBVIOUS
    <3>2. QED
      BY <1>3, <3>1, PacketReadsBack, Zenon
  <2>4. b \o <<>> = b
    BY <2>1
  <2>5. QED
    BY <1>3, <1>4, <2>1, <2>2, <2>3, <2>4, Zenon DEF w
<1>5. CASE b = Shortened(Bytes(p))
  <2>1. b \in Seq(Byte) /\ Len(b) = Len(body) + 2
    <3>1. body \o Padding \in Seq(Byte) /\ Len(body \o Padding) = Len(body) + Len(Padding)
      BY <1>1, PaddingIs, Concat
    <3>2. QED
      BY <1>1, <1>5, PaddingIs, <3>1, Zenon
  <2>2. Len(b) \in 1..maxFrameLen
    BY <1>1, <2>1, InAFrame, Zenon
  <2>3. Decode(From(Encode(w), 3) \o Padding) = {w}
    BY <1>3, PaddingIs, PacketReadsBack, Zenon
  <2>4. QED
    BY <1>3, <1>5, <2>1, <2>2, <2>3, Zenon DEF w, Shortened
<1>6. QED
  BY <1>4, <1>5

\* The diagnosis names the packet alike.
LEMMA Diagnosed ==
    ASSUME NEW p \in Spoken \union Spoilt, NEW d \in DecodePacket(Shortened(Bytes(p)))
    PROVE  /\ d.hasCode /\ d.protocol = WireOf(p).protocol
           /\ d.code = WireOf(p).code /\ d.identifier = WireOf(p).identifier
<1> DEFINE w == WireOf(p)
<1>1. PICK body : /\ IsBody(body, w) /\ body \in Seq(Byte) /\ Len(body) \in 6..30
                  /\ Shortened(Bytes(p)) = body \o Padding
  BY BodyOfBytes, Zenon
<1>2. /\ w \in WirePackets /\ IsControl(w.protocol) /\ w.protocol # ReadU16(AddressAndControl, 1)
  BY WireIs
<1> HIDE DEF w
<1> DEFINE x == body \o Padding
<1>3. x \in Seq(Byte) /\ Len(x) >= 6 /\ ReadU16(x, 1) = w.protocol
  BY <1>1, <1>2, PaddingIs, BodyReads, Zenon
<1>4. x[3] = w.code /\ x[4] = w.identifier
  <2>1. body[3] = w.code /\ body[4] = w.identifier
    BY <1>1, Zenon DEF IsBody
  <2>2. x[3] = body[3] /\ x[4] = body[4]
    BY <1>1
  <2>3. QED
    BY <2>1, <2>2, Zenon
<1> HIDE DEF x
<1>5. Unaddressed(x) = x
  BY <1>2, <1>3, NotAddressed, Zenon
<1>6. ~(Len(x) < 2) /\ Len(x) >= 4
  BY <1>3
<1>7. DecodePacket(x) = {[protocol |-> w.protocol, hasCode |-> TRUE, code |-> w.code,
                          identifier |-> w.identifier]}
  BY <1>2, <1>3, <1>4, <1>5, <1>6 DEF DecodePacket
<1>8. d = [protocol |-> w.protocol, hasCode |-> TRUE, code |-> w.code, identifier |-> w.identifier]
  BY <1>1, <1>7 DEF x
<1>9. QED
  BY <1>8 DEF w

\* The diagnosis writes the session's first request byte for byte.
LEMMA SameRequest ==
    ASSUME NEW id \in 0..IdSpace - 1
    PROVE  NewLCPConfigureRequest(id, Magic) = Bytes(LcpRequest(id, LcpOffer))
<1> DEFINE p == LcpRequest(id, LcpOffer)
           mru == [type |-> 1, value |-> U16(defaultMRU)]
           magic == [type |-> 5, value |-> Magic]
           options == <<1, 4>> \o U16(defaultMRU) \o <<5, 6>> \o Magic
<1>1. /\ p.proto = "LCP" /\ p.code = "Request" /\ p.id = id /\ p.opts = Named(LcpOffer)
      /\ DOMAIN p.opts = {"MRU", "Magic"}
  BY DEF LcpRequest, Packet, Named, LcpOffer
<1>2. p \in Spoken
  <2>1. LcpOffer \in SUBSET LcpNames /\ "Request" \in Configures
    BY DEF LcpOffer, LcpNames, Configures
  <2>2. QED
    BY <2>1, SaysLcp DEF LcpRequest
<1> HIDE DEF p
<1>3. U16(defaultMRU) \in Seq(Byte) /\ Len(U16(defaultMRU)) = 2
  <2>1. defaultMRU \in Word
    BY DEF defaultMRU, Word
  <2>2. QED
    BY <2>1, TwoTyped
<1>4. Magic \in Seq(Byte) /\ Len(Magic) = 4
  BY DEF Magic, Byte
<1>5. mru \in WireOptions /\ magic \in WireOptions
  <2>1. Len(U16(defaultMRU)) <= 253 /\ Len(Magic) <= 253
    BY <1>3, <1>4
  <2>2. U16(defaultMRU) \in {u \in Seq(Byte) : Len(u) <= 253}
        /\ Magic \in {u \in Seq(Byte) : Len(u) <= 253}
    BY <1>3, <1>4, <2>1, Zenon
  <2>3. 1 \in Byte /\ 5 \in Byte
    BY DEF Byte
  <2>4. QED
    BY <2>2, <2>3, Zenon DEF WireOptions
<1>6. OptionList(p) = <<mru>> \o <<magic>>
  <2>1. /\ OptionOf(p, "MRU") = <<[type |-> 1, value |-> ValueOf("MRU", p.opts["MRU"])]>>
        /\ OptionOf(p, "Magic") = <<[type |-> 5, value |-> ValueOf("Magic", p.opts["Magic"])]>>
        /\ OptionOf(p, "ACCM") = <<>> /\ OptionOf(p, "Auth") = <<>>
    BY <1>1 DEF OptionOf, TypeOf
  <2>2. \A v : ValueOf("MRU", v) = U16(defaultMRU) /\ ValueOf("Magic", v) = Magic
    BY DEF ValueOf
  <2>3. OptionOf(p, "MRU") = <<mru>> /\ OptionOf(p, "Magic") = <<magic>>
    BY <2>1, <2>2, Zenon
  <2>4. OptionList(p) = ((<<mru>> \o <<>>) \o <<>>) \o <<magic>>
    BY <1>1, <2>1, <2>3, Zenon DEF OptionList
  <2> HIDE DEF mru, magic
  <2>5. <<mru>> \o <<>> = <<mru>>
    OBVIOUS
  <2>6. QED
    BY <2>4, <2>5, Zenon
<1>7. Rendered(mru) = <<1, 4>> \o U16(defaultMRU) /\ Rendered(magic) = <<5, 6>> \o Magic
  <2>1. (2 + 2) % 256 = 4 /\ (2 + 4) % 256 = 6
    OBVIOUS
  <2>2. mru.type = 1 /\ mru.value = U16(defaultMRU) /\ magic.type = 5 /\ magic.value = Magic
    OBVIOUS
  <2> HIDE DEF mru, magic
  <2>3. QED
    BY <1>3, <1>4, <2>1, <2>2, Zenon DEF Rendered
<1> HIDE DEF mru, magic
<1>8. <<1, 4>> \in Seq(Byte) /\ <<5, 6>> \in Seq(Byte)
  BY DEF Byte
<1>9. EncodeOptions(OptionList(p)) = options /\ options \in Seq(Byte)
  <2>1. <<>> \in Seq(WireOptions) /\ <<magic>> \in Seq(WireOptions) /\ <<magic>> \o <<>> = <<magic>>
    BY <1>5
  <2>2. EncodeOptions(<<magic>>) = Rendered(magic) \o <<>>
    BY <1>5, <2>1, OptionsInFront, NothingLeft, Zenon
  <2>3. Rendered(magic) \in Seq(Byte) /\ Rendered(mru) \in Seq(Byte)
    BY <1>5, RenderedIs, Zenon
  <2>4. Rendered(magic) \o <<>> = Rendered(magic)
    BY <2>3
  <2>5. EncodeOptions(OptionList(p)) = Rendered(mru) \o Rendered(magic)
    BY <1>5, <1>6, <2>1, <2>2, <2>4, OptionsInFront, Zenon
  <2>6. (Rendered(mru) \o <<5, 6>>) \o Magic = Rendered(mru) \o (<<5, 6>> \o Magic)
    BY <1>4, <1>8, <2>3, Associates, Zenon
  <2>7. EncodeOptions(OptionList(p)) = options
    BY <1>7, <2>5, <2>6, Zenon
  <2>8. Rendered(mru) \o Rendered(magic) \in Seq(Byte)
    BY <2>3, Concat, Zenon
  <2>9. QED
    BY <2>5, <2>7, <2>8, Zenon
<1>10. Data(p) = options
  <2>1. Readable(p)
    BY <1>2, SpokenIsReadable
  <2>2. "LCP" \in DOMAIN TypeOf /\ "Request" \in Configures /\ "Request" # "Echo-Reply"
    BY DEF TypeOf, Configures
  <2>3. QED
    BY <1>1, <1>9, <2>1, <2>2, Zenon DEF Data
<1>11. /\ ProtocolOf["LCP"] = ProtocolLCP /\ CodeOf["Request"] = 1 /\ IsControl(ProtocolLCP)
       /\ ProtocolLCP \in Word
  BY DEF ProtocolOf, CodeOf, Codes, ProtocolLCP, IsControl, Word
<1>12. /\ WireOf(p) = [protocol |-> ProtocolLCP, code |-> 1, identifier |-> id, data |-> options]
       /\ Bytes(p) = Encode(WireOf(p)) /\ 4 + Len(options) \in Word
  <2> HIDE DEF options
  <2>1. WireOf(p) = [protocol |-> ProtocolLCP, code |-> 1, identifier |-> id, data |-> options]
    BY <1>1, <1>10, <1>11, Zenon DEF WireOf
  <2>2. Fits(WireOf(p)) /\ Bytes(p) = Encode(WireOf(p))
    BY <1>2, WireIs, Zenon
  <2>3. WireOf(p).data = options
    BY <2>1
  <2>4. QED
    BY <2>1, <2>2, <2>3, Zenon DEF Fits
<1> DEFINE front == AddressAndControl \o U16(ProtocolLCP)
           ci == <<1, id>>
           len == U16(4 + Len(options))
<1>13. NewLCPConfigureRequest(id, Magic) = ((front \o ci) \o len) \o options
  BY DEF NewLCPConfigureRequest, AddressAndControl
<1> HIDE DEF options
<1>14. Bytes(p) = (front \o (ci \o len)) \o options
  BY <1>11, <1>12 DEF Encode, headerLen
<1>15. front \in Seq(Byte) /\ ci \in Seq(Byte) /\ len \in Seq(Byte)
  <2>1. AddressAndControl \in Seq(Byte)
    BY DEF AddressAndControl, Byte
  <2>2. id \in Byte /\ 1 \in Byte
    BY PppBounds DEF Byte
  <2>3. U16(ProtocolLCP) \in Seq(Byte)
    BY <1>11, TwoTyped, Zenon
  <2>4. len \in Seq(Byte)
    BY <1>12, TwoTyped, Zenon
  <2>5. front \in Seq(Byte)
    BY <2>1, <2>3, Concat, Zenon
  <2>6. ci \in Seq(Byte)
    BY <2>2
  <2> HIDE DEF front, ci, len
  <2>7. QED
    BY <2>4, <2>5, <2>6, Zenon
<1> HIDE DEF front, ci, len
<1>16. (front \o ci) \o len = front \o (ci \o len)
  BY <1>15, Associates, Zenon
<1>17. QED
  BY <1>13, <1>14, <1>16, Zenon DEF p

-----------------------------------------------------------------------------
(* The stream *)

\* What fits into a frame that is read again: FrameReadsBack.
Payloads == {x \in Seq(Byte) : Len(x) \in 1..maxFrameLen}

Framed(x) == CHOOSE b \in WriteFrame(x) : TRUE

\* Its frame.
LEMMA FramedIs ==
    ASSUME NEW x \in Payloads
    PROVE  /\ x \in Seq(Byte) /\ x # <<>> /\ Len(x) <= maxFrameLen
           /\ Framed(x) \in WriteFrame(x) /\ Framed(x) \in Seq(Byte)
           /\ Len(Framed(x)) \in Nat /\ Len(Framed(x)) >= 6
<1>1. x \in Seq(Byte) /\ Len(x) \in 1..maxFrameLen
  BY DEF Payloads
<1> DEFINE n == Len(x)
<1>2. n \in 1..maxFrameLen
  BY <1>1
<1> HIDE DEF n
<1>3. n \in Nat /\ n <= maxFrameLen /\ n # 0 /\ ~(n > maxFrameLen)
  BY <1>2 DEF maxFrameLen
<1>4. x # <<>>
  BY <1>3 DEF n
<1>5. Framed(x) \in WriteFrame(x)
  <2>1. \E b : b \in WriteFrame(x)
    BY <1>3, Zenon DEF WriteFrame, n
  <2>2. QED
    BY <2>1, Zenon DEF Framed
<1>6. Framed(x) \in Seq(Byte) /\ Len(Framed(x)) = 6 + n
  BY <1>1, <1>3, <1>5, FrameIs, Zenon DEF n
<1>7. 6 + n \in Nat /\ 6 + n >= 6
  BY <1>3
<1>8. QED
  BY <1>1, <1>3, <1>4, <1>5, <1>6, <1>7, Zenon DEF n

\* A stream is its first frame, and then the others.
LEMMA StreamInFront ==
    ASSUME NEW x \in Payloads, NEW o \in Seq(Payloads)
    PROVE  /\ Stream(o) \in Seq(Byte)
           /\ Stream(<<x>> \o o) = Framed(x) \o Stream(o)
<1> DEFINE o2 == <<x>> \o o
           s == [i \in DOMAIN o |-> Framed(o[i])]
           s2 == [i \in DOMAIN o2 |-> Framed(o2[i])]
<1>1. /\ o2 \in Seq(Payloads) /\ Len(o2) = Len(o) + 1 /\ o2[1] = x
      /\ \A i \in 1..Len(o) : o2[i + 1] = o[i]
  OBVIOUS
<1>2. Stream(o) = FlattenSeq(s) /\ Stream(o2) = FlattenSeq(s2)
  BY Zenon DEF Stream, Framed
<1>3. Len(o) \in Nat /\ DOMAIN o = 1..Len(o) /\ DOMAIN o2 = 1..Len(o2)
  BY <1>1
<1>4. /\ \A i \in 1..Len(o) : o[i] \in Payloads
      /\ \A i \in 1..Len(o2) : o2[i] \in Payloads
  BY <1>1
<1> HIDE DEF o2
<1>5. s \in Seq(Seq(Byte)) /\ Len(s) = Len(o) /\ \A i \in 1..Len(o) : s[i] = Framed(o[i])
  <2>1. \A i \in 1..Len(o) : Framed(o[i]) \in Seq(Byte)
    BY <1>4, FramedIs, Zenon
  <2>2. QED
    BY <1>3, <2>1
<1>6. s2 \in Seq(Seq(Byte)) /\ Len(s2) = Len(o2) /\ \A i \in 1..Len(o2) : s2[i] = Framed(o2[i])
  <2>1. \A i \in 1..Len(o2) : Framed(o2[i]) \in Seq(Byte)
    BY <1>4, FramedIs, Zenon
  <2>2. QED
    BY <1>1, <1>3, <2>1
<1> HIDE DEF s, s2
<1>7. s2[1] = Framed(x) /\ \A i \in 1..Len(s) : s2[i + 1] = s[i]
  <2>1. 1 \in 1..Len(o2) /\ \A i \in 1..Len(o) : i + 1 \in 1..Len(o2)
    BY <1>1, <1>3
  <2>2. QED
    BY <1>1, <1>5, <1>6, <2>1
<1>8. FlattenSeq(s) \in Seq(Byte) /\ FlattenSeq(s2) = Framed(x) \o FlattenSeq(s)
  <2>1. Framed(x) \in Seq(Byte) /\ Len(s2) = Len(s) + 1
    BY <1>1, <1>5, <1>6, FramedIs
  <2>2. QED
    BY <1>5, <1>6, <1>7, <2>1, FlattenFront, Zenon
<1>9. QED
  BY <1>2, <1>8, Zenon DEF o2

LEMMA EmptyStream == Stream(<<>>) = <<>>
<1> DEFINE s == [i \in DOMAIN <<>> |-> Framed(<<>>[i])]
<1>1. Stream(<<>>) = FlattenSeq(s)
  BY Zenon DEF Stream, Framed
<1>2. s = <<>>
  OBVIOUS
<1>3. FlattenSeq(<<>>) = <<>>
  BY DEF FlattenSeq
<1>4. QED
  BY <1>1, <1>2, <1>3

LEMMA StreamTyped == ASSUME NEW o \in Seq(Payloads) PROVE Stream(o) \in Seq(Byte)
<1> DEFINE x == <<0>>
<1>1. x \in Seq(Byte) /\ Len(x) = 1
  BY DEF Byte
<1>2. 1 \in 1..maxFrameLen
  BY DEF maxFrameLen
<1> HIDE DEF x
<1>3. x \in Payloads
  BY <1>1, <1>2, Zenon DEF Payloads
<1>4. QED
  BY <1>3, StreamInFront, Zenon

\* What is read leaves a shorter stream.
LEMMA RestShorter ==
    ASSUME NEW b \in Seq(Byte), NEW f \in ReadFrame(b)
    PROVE  f.rest \in Seq(Byte) /\ Len(f.rest) \in 0 .. Len(b) - 1
<1> DEFINE size == ReadU16(b, 5)
           L == Len(b)
<1>1. WellFramed(b) /\ f = [payload |-> SubSeq(b, 6 + 1, 6 + size), rest |-> From(b, (6 + size) + 1)]
  BY DEF ReadFrame, frameHeaderSize
<1>2. L >= 6 /\ L >= 6 + size /\ L \in Nat
  BY <1>1 DEF WellFramed, frameHeaderSize
<1>3. size \in Nat
  <2>1. 5 \in 1..Len(b) /\ 5 + 1 \in 1..Len(b)
    BY <1>2
  <2>2. b[5] \in Byte /\ b[5 + 1] \in Byte
    BY <2>1
  <2>3. \A h, l \in Byte : 256 * h + l \in Nat
    BY DEF Byte
  <2>4. size = 256 * b[5] + b[5 + 1]
    BY DEF ReadU16
  <2>5. QED
    BY <2>2, <2>3, <2>4
<1> HIDE DEF size
<1>4. (6 + size) + 1 \in 1..Ends(b) /\ Ends(b) - ((6 + size) + 1) \in 0 .. L - 1
  BY <1>2, <1>3 DEF Ends
<1>5. f.rest = From(b, (6 + size) + 1)
  BY <1>1
<1>6. QED
  BY <1>4, <1>5, FromIs

\* What ReadPackets makes of the last n bytes, when f is what it makes of fewer.
Taken(f, stream, n) ==
    LET frames == ReadFrame(From(stream, Len(stream) - n + 1))
    IN  IF frames = {} THEN <<>>
        ELSE LET g == CHOOSE g \in frames : TRUE
             IN  <<g.payload>> \o f[Len(g.rest)]

\* It is only the fewer that count.
LEMMA TakenDepends ==
    ASSUME NEW stream \in Seq(Byte), NEW n \in 0..Len(stream), NEW f, NEW g,
           \A m \in 0 .. n - 1 : f[m] = g[m]
    PROVE  Taken(f, stream, n) = Taken(g, stream, n)
<1> DEFINE L == Len(stream)
           b == From(stream, L - n + 1)
           h == CHOOSE h \in ReadFrame(b) : TRUE
<1>1. L - n + 1 \in 1..Ends(stream) /\ Ends(stream) - (L - n + 1) = n
  BY DEF Ends
<1>2. b \in Seq(Byte) /\ Len(b) = n
  BY <1>1, FromIs
<1>3. CASE ReadFrame(b) = {}
  BY <1>3, Zenon DEF Taken
<1>4. CASE ReadFrame(b) # {}
  <2>1. h \in ReadFrame(b)
    BY <1>4
  <2> HIDE DEF h, b
  <2>2. Len(h.rest) \in 0 .. n - 1
    BY <1>2, <2>1, RestShorter
  <2>3. f[Len(h.rest)] = g[Len(h.rest)]
    BY <2>2
  <2>4. QED
    BY <1>4, <2>3, Zenon DEF Taken, h, b
<1>5. QED
  BY <1>3, <1>4

\* There is such a function, so that ReadPackets computes one.
LEMMA TakesExist ==
    ASSUME NEW stream \in Seq(Byte)
    PROVE  \E f : f = [n \in 0..Len(stream) |-> Taken(f, stream, n)]
<1> DEFINE L == Len(stream)
           Fills(j, f) == f = [n \in 0..j |-> Taken(f, stream, n)]
           T == {j \in 0..L : \E f : Fills(j, f)}
<1>1. L \in Nat
  OBVIOUS
<1>2. 0 \in T
  <2> DEFINE f == [n \in 0..0 |-> Taken(<<>>, stream, n)]
  <2>1. ASSUME NEW n \in 0..0 PROVE Taken(f, stream, n) = Taken(<<>>, stream, n)
    <3>1. n \in 0..Len(stream) /\ \A m \in 0 .. n - 1 : f[m] = <<>>[m]
      BY <1>1
    <3> HIDE DEF f
    <3>2. QED
      BY <3>1, TakenDepends, Zenon
  <2>2. Fills(0, f)
    BY <2>1
  <2> HIDE DEF f
  <2>3. \E g : Fills(0, g)
    BY <2>2
  <2>4. 0 \in 0..L
    BY <1>1
  <2>5. QED
    BY <2>3, <2>4, Zenon
<1>3. ASSUME NEW j \in 0..L, j \in T, j < L PROVE j + 1 \in T
  <2>1. PICK f : Fills(j, f)
    BY <1>3
  <2> DEFINE g == [n \in 0..j + 1 |-> IF n = j + 1 THEN Taken(f, stream, n) ELSE f[n]]
  <2>2. j \in Nat /\ j + 1 \in 0..L
    BY <1>1, <1>3
  <2>3. \A n \in 0..j : g[n] = f[n] /\ f[n] = Taken(f, stream, n)
    <3>1. \A n \in 0..j : n \in 0..j + 1 /\ n # j + 1
      BY <2>2
    <3>2. QED
      BY <2>1, <3>1
  <2>4. g[j + 1] = Taken(f, stream, j + 1)
    BY <2>2
  <2>5. ASSUME NEW n \in 0..j + 1 PROVE g[n] = Taken(g, stream, n)
    <3> HIDE DEF g
    <3>1. \A m \in 0 .. n - 1 : f[m] = g[m]
      BY <2>2, <2>3
    <3>2. n \in 0..Len(stream)
      BY <1>1, <2>2
    <3>3. Taken(f, stream, n) = Taken(g, stream, n)
      BY <3>1, <3>2, TakenDepends, Zenon
    <3>4. CASE n = j + 1
      BY <2>4, <3>3, <3>4
    <3>5. CASE n # j + 1
      <4>1. n \in 0..j
        BY <2>2, <3>5
      <4>2. QED
        BY <2>3, <3>3, <4>1
    <3>6. QED
      BY <3>4, <3>5
  <2>6. Fills(j + 1, g)
    BY <2>5
  <2> HIDE DEF g
  <2>7. QED
    BY <2>2, <2>6
<1>4. L \in T
  <2>1. \A k \in 0..L : k \in T /\ k < L => k + 1 \in T
    BY <1>3
  <2>2. L \in 0..L
    BY <1>1
  <2> HIDE DEF T, L
  <2>3. 0..L \subseteq T
    BY <1>1, <1>2, <2>1, UpTo
  <2>4. QED
    BY <2>2, <2>3
<1>5. PICK f : Fills(L, f)
  BY <1>4, Zenon
<1>6. QED
  BY <1>5

LEMMA TakesAll ==
    ASSUME NEW stream \in Seq(Byte)
    PROVE  \E f : /\ \A n \in 0..Len(stream) : f[n] = Taken(f, stream, n)
                  /\ ReadPackets(stream) = f[Len(stream)]
<1> DEFINE after == CHOOSE f : f = [n \in 0..Len(stream) |-> Taken(f, stream, n)]
<1>1. ReadPackets(stream) = after[Len(stream)]
  BY Zenon DEF ReadPackets, Taken
<1>2. after = [n \in 0..Len(stream) |-> Taken(after, stream, n)]
  BY TakesExist, Zenon
<1> HIDE DEF after
<1>3. \A n \in 0..Len(stream) : after[n] = Taken(after, stream, n)
  BY <1>2, Zenon
<1>4. QED
  BY <1>1, <1>3, Zenon

\* Behind its first part, a stream goes on with its second.
LEMMA GoesOnWith ==
    ASSUME NEW stream \in Seq(Byte), NEW k \in 1..Ends(stream),
           NEW r \in Seq(Byte), NEW s \in Seq(Byte), From(stream, k) = r \o s
    PROVE  /\ Ends(stream) - Len(s) \in k + Len(r) .. Ends(stream)
           /\ From(stream, Ends(stream) - Len(s)) = s
<1> DEFINE E == Ends(stream)
           L == Len(stream)
           a == Len(r)
           c == Len(s)
           b == From(stream, k)
           j == E - c
<1>1. L \in Nat /\ E = L + 1 /\ a \in Nat /\ c \in Nat
  BY DEF Ends
<1>2. /\ b \in Seq(Byte) /\ Len(b) = E - k
      /\ \A i \in 1 .. E - k : b[i] = stream[(k - 1) + i]
  BY FromIs
<1>3. Len(b) = a + c /\ \A i \in 1..c : b[a + i] = s[i]
  BY Concat
<1>4. s \in Seq(Byte) /\ Len(s) = c
  OBVIOUS
<1> HIDE DEF L, a, c, b
<1>5. k \in 1..E /\ E - k = a + c /\ E \in Nat /\ k \in Nat
  BY <1>1, <1>2, <1>3
<1> HIDE DEF E
<1>6. j \in Nat /\ j \in 1..E /\ j = k + a /\ E - j = c /\ j \in k + a .. E
  BY <1>1, <1>5
<1>7. From(stream, j) \in Seq(Byte) /\ Len(From(stream, j)) = c
      /\ \A i \in 1..c : From(stream, j)[i] = stream[(j - 1) + i]
  <2>1. j \in 1..Ends(stream) /\ Ends(stream) - j = c
    BY <1>6 DEF E
  <2> HIDE DEF j
  <2>2. QED
    BY <2>1, FromIs
<1>8. \A i \in 1..c : From(stream, j)[i] = s[i]
  <2> SUFFICES ASSUME NEW i \in 1..c PROVE From(stream, j)[i] = s[i]
    OBVIOUS
  <2>1. a + i \in 1 .. E - k /\ (k - 1) + (a + i) = (j - 1) + i
    BY <1>1, <1>5, <1>6
  <2>2. b[a + i] = stream[(k - 1) + (a + i)]
    BY <1>2, <2>1
  <2> HIDE DEF j
  <2>3. QED
    BY <1>3, <1>7, <2>1, <2>2
<1> HIDE DEF j
<1>9. From(stream, j) = s
  BY <1>4, <1>7, <1>8, SeqEqual
<1>10. QED
  BY <1>6, <1>9 DEF j, E, a, c

LEMMA NoFrame == ReadFrame(<<>>) = {}
  BY DEF ReadFrame, WellFramed, frameHeaderSize

\* Whatever packets are written to the stream one after the other, ReadPacket returns them
\* one by one: no frame loses the place of the next (frame.go:33-85).
THEOREM StreamReadsBack ==
    ASSUME NEW packets \in Seq(Payloads)
    PROVE  ReadPackets(Stream(packets)) = packets
<1> DEFINE stream == Stream(packets)
           E == Ends(stream)
           L == Len(stream)
<1>1. stream \in Seq(Byte)
  BY StreamTyped
<1> HIDE DEF stream
<1>2. PICK after : /\ \A n \in 0..L : after[n] = Taken(after, stream, n)
                   /\ ReadPackets(stream) = after[L]
  BY <1>1, TakesAll, Zenon
<1>3. L \in Nat /\ E = L + 1 /\ E \in Nat /\ E = Ends(stream)
  BY <1>1 DEF Ends
<1> DEFINE Returns(k) == \A o \in Seq(Payloads) : From(stream, k) = Stream(o) => after[E - k] = o
           T == {k \in 1..E : Returns(k)}
<1> HIDE DEF E
<1>4. ASSUME NEW k \in 1..E, k + 1 .. E \subseteq T PROVE k \in T
  <2> DEFINE n == E - k
             b == From(stream, k)
  <2>1. n \in 0..L /\ L - n + 1 = k /\ k \in 1..Ends(stream)
    BY <1>3
  <2>2. after[n] = LET frames == ReadFrame(b)
                   IN  IF frames = {} THEN <<>>
                       ELSE LET g == CHOOSE g \in frames : TRUE
                            IN  <<g.payload>> \o after[Len(g.rest)]
    BY <1>2, <2>1 DEF Taken
  <2>3. ASSUME NEW o \in Seq(Payloads), b = Stream(o) PROVE after[n] = o
    <3>1. CASE o = <<>>
      <4>1. ReadFrame(b) = {}
        BY <2>3, <3>1, EmptyStream, NoFrame
      <4>2. QED
        BY <2>2, <3>1, <4>1
    <3>2. CASE o # <<>>
      <4> DEFINE x == Head(o)
                 rest == Tail(o)
                 m == Len(Stream(rest))
      <4>1. x \in Payloads /\ rest \in Seq(Payloads) /\ o = <<x>> \o rest
        BY <3>2
      <4> HIDE DEF x, rest
      <4>2. Stream(rest) \in Seq(Byte) /\ b = Framed(x) \o Stream(rest)
        BY <2>3, <4>1, StreamInFront, Zenon
      <4>3. /\ x \in Seq(Byte) /\ x # <<>> /\ Len(x) <= maxFrameLen
            /\ Framed(x) \in WriteFrame(x) /\ Framed(x) \in Seq(Byte)
            /\ Len(Framed(x)) \in Nat /\ Len(Framed(x)) >= 6
        BY <4>1, FramedIs, Zenon
      <4>4. ReadFrame(b) = {[payload |-> x, rest |-> Stream(rest)]}
        BY <4>2, <4>3, FrameReadsBack, Zenon
      <4>5. after[n] = <<x>> \o after[m]
        <5>1. PICK g : g = [payload |-> x, rest |-> Stream(rest)]
          OBVIOUS
        <5>2. (CHOOSE h \in {g} : TRUE) = g /\ {g} # {} /\ ReadFrame(b) = {g}
          BY <4>4, <5>1
        <5> HIDE DEF b, n
        <5>3. after[n] = <<g.payload>> \o after[Len(g.rest)]
          BY <2>2, <5>2, Zenon
        <5>4. QED
          BY <5>1, <5>3
      <4>6. E - m \in k + Len(Framed(x)) .. E /\ From(stream, E - m) = Stream(rest)
        <5>1. /\ Ends(stream) - m \in k + Len(Framed(x)) .. Ends(stream)
              /\ From(stream, Ends(stream) - m) = Stream(rest)
          BY <1>1, <2>1, <4>2, <4>3, GoesOnWith, Zenon
        <5> HIDE DEF m
        <5>2. QED
          BY <1>3, <5>1
      <4>7. m \in Nat
        BY <4>2
      <4> HIDE DEF m
      <4>8. E - m \in k + 1 .. E /\ E - (E - m) = m
        BY <1>3, <4>3, <4>6, <4>7
      <4>9. after[m] = rest
        <5>1. E - m \in T
          BY <1>4, <4>8
        <5>2. Returns(E - m)
          BY <5>1
        <5>3. after[E - (E - m)] = rest
          BY <4>1, <4>6, <5>2, Zenon
        <5>4. QED
          BY <4>8, <5>3
      <4>10. QED
        BY <4>1, <4>5, <4>9
    <3>3. QED
      BY <3>1, <3>2
  <2>4. QED
    BY <2>3
<1>5. 1 \in T
  <2>1. \A k \in 1..E : k + 1 .. E \subseteq T => k \in T
    BY <1>4
  <2>2. 1 \in 1..E
    BY <1>3
  <2> HIDE DEF T
  <2>3. QED
    BY <1>3, <2>1, <2>2, FromBehind
<1>6. From(stream, 1) = Stream(packets)
  BY <1>1, NothingLeft DEF stream
<1>7. after[E - 1] = packets /\ E - 1 = L
  BY <1>3, <1>5, <1>6
<1>8. QED
  BY <1>2, <1>7 DEF stream

-----------------------------------------------------------------------------
(* forti/tunnel.go: the response in front of the stream *)

\* A frame has its magic number where a response has a letter, ...
LEMMA NoResponse ==
    ASSUME NEW x \in Payloads, NEW rest \in Seq(Byte)
    PROVE  consumeHTTPResponse(Framed(x) \o rest) = {Framed(x) \o rest}
<1> DEFINE f == Framed(x)
           b == f \o rest
<1>1. f \in Seq(Byte) /\ Len(f) \in Nat /\ Len(f) >= 6
  BY FramedIs, Zenon
<1>2. ReadU16(f, 3) = frameMagic
  <2>1. f \in WriteFrame(x) /\ x \in Seq(Byte) /\ Len(x) <= maxFrameLen
    BY FramedIs, Zenon
  <2>2. QED
    BY <2>1, FrameIs, Zenon
<1> HIDE DEF f
<1>3. b \in Seq(Byte) /\ Len(b) = Len(f) + Len(rest) /\ \A i \in 1..Len(f) : b[i] = f[i]
  BY <1>1, Concat, Zenon
<1> HIDE DEF b
<1>4. b[3] = f[3] /\ f[3] \in 0..255 /\ f[4] \in 0..255
  <2>1. 3 \in 1..Len(f) /\ 4 \in 1..Len(f)
    BY <1>1
  <2>2. b[3] = f[3]
    BY <1>3, <2>1
  <2>3. f[3] \in Byte /\ f[4] \in Byte
    BY <1>1, <2>1, ElementOfSeq
  <2>4. QED
    BY <2>2, <2>3 DEF Byte
<1>5. 256 * f[3] + f[4] = 20560
  BY <1>2 DEF ReadU16, frameMagic
<1>6. f[3] # 84
  <2> DEFINE p == f[3]
             q == f[4]
  <2>1. p \in 0..255 /\ q \in 0..255 /\ 256 * p + q = 20560
    BY <1>4, <1>5
  <2> HIDE DEF p, q
  <2>2. p # 84
    BY <2>1
  <2>3. QED
    BY <2>2 DEF p
<1>7. ResponseStart[3] = 84
  BY DEF ResponseStart
<1>8. ~HasResponse(b)
  BY <1>4, <1>6, <1>7 DEF HasResponse
<1>9. ~(Len(b) < 5)
  BY <1>1, <1>3
<1>10. consumeHTTPResponse(b) = {b}
  BY <1>8, <1>9, Zenon DEF consumeHTTPResponse
<1>11. QED
  BY <1>10, Zenon DEF b, f

\* ... the lines of a head are the same whatever follows it, ...
LEMMA LinesAgree ==
    ASSUME NEW h \in Seq(Byte), NEW b \in Seq(Byte), Len(h) <= Len(b),
           \A i \in 1..Len(h) : b[i] = h[i]
    PROVE  \A k \in 1..Len(h) : k \in EmptyLines(b) <=> k \in EmptyLines(h)
<1> DEFINE l == Len(h)
           EndsAt(c, k) == /\ c[k] = LF
                           /\ \E j \in 0 .. k - 1 : /\ j = 0 \/ c[j] = LF
                                                   /\ \A i \in j + 1 .. k - 1 : c[i] = CR
<1>1. l \in Nat /\ Len(b) \in Nat /\ l <= Len(b) /\ \A i \in 1..l : b[i] = h[i]
  OBVIOUS
<1>2. DOMAIN h = 1..l /\ DOMAIN b = 1..Len(b)
  OBVIOUS
<1>3. /\ EmptyLines(h) = {k \in DOMAIN h : EndsAt(h, k)}
      /\ EmptyLines(b) = {k \in DOMAIN b : EndsAt(b, k)}
  BY Zenon DEF EmptyLines
<1> HIDE DEF l
<1>4. ASSUME NEW k \in 1..l PROVE EndsAt(b, k) <=> EndsAt(h, k)
  <2>1. b[k] = h[k]
    BY <1>1
  <2>2. ASSUME NEW j \in 0 .. k - 1
        PROVE  (j = 0 \/ b[j] = LF) <=> (j = 0 \/ h[j] = LF)
    <3>1. j = 0 \/ j \in 1..l
      BY <1>1
    <3>2. QED
      BY <1>1, <3>1
  <2>3. ASSUME NEW j \in 0 .. k - 1
        PROVE  (\A i \in j + 1 .. k - 1 : b[i] = CR) <=> (\A i \in j + 1 .. k - 1 : h[i] = CR)
    <3>1. \A i \in j + 1 .. k - 1 : i \in 1..l
      BY <1>1
    <3>2. \A i \in j + 1 .. k - 1 : b[i] = h[i]
      BY <1>1, <3>1, Zenon
    <3>3. QED
      BY <3>2, Zenon
  <2>4. QED
    BY <2>1, <2>2, <2>3, Zenon
<1>5. \A k \in 1..l : k \in DOMAIN h /\ k \in DOMAIN b
  BY <1>1, <1>2
<1> HIDE DEF EndsAt
<1>6. QED
  BY <1>3, <1>4, <1>5, Zenon DEF l

\* ... and so is its status, which stands in the first of them.
LEMMA StatusAgrees ==
    ASSUME NEW h \in Seq(Byte), NEW b \in Seq(Byte), Len(h) <= Len(b), Len(h) >= 1,
           h[Len(h)] = LF, \A i \in 1..Len(h) : b[i] = h[i]
    PROVE  StatusIsOK(b) <=> StatusIsOK(h)
<1> DEFINE l == Len(h)
           Stands(c, i) == /\ i + 3 \in DOMAIN c
                           /\ \A j \in 1..4 : c[i + j - 1] = StatusOK[j]
                           /\ \A j \in 1 .. i + 3 : c[j] # LF
<1>1. /\ l \in Nat /\ l >= 1 /\ Len(b) \in Nat /\ l <= Len(b) /\ b[l] = LF
      /\ \A i \in 1..l : b[i] = h[i]
  OBVIOUS
<1>2. DOMAIN h = 1..l /\ DOMAIN b = 1..Len(b)
  OBVIOUS
<1>3. /\ StatusIsOK(h) <=> \E i \in DOMAIN h : Stands(h, i)
      /\ StatusIsOK(b) <=> \E i \in DOMAIN b : Stands(b, i)
  BY Zenon DEF StatusIsOK
<1> HIDE DEF l
<1>4. ASSUME NEW i \in DOMAIN h, Stands(h, i) PROVE i \in DOMAIN b /\ Stands(b, i)
  <2>1. i \in DOMAIN b /\ i + 3 \in DOMAIN b /\ i \in Nat /\ i >= 1 /\ i + 3 <= l
    BY <1>1, <1>2, <1>4
  <2>2. \A j \in 1..4 : i + j - 1 \in 1..l
    BY <1>1, <2>1
  <2>3. \A j \in 1 .. i + 3 : j \in 1..l
    BY <1>1, <2>1
  <2>4. \A j \in 1..4 : b[i + j - 1] = StatusOK[j]
    BY <1>1, <1>4, <2>2, Zenon
  <2>5. \A j \in 1 .. i + 3 : b[j] # LF
    BY <1>1, <1>4, <2>3, Zenon
  <2>6. QED
    BY <2>1, <2>4, <2>5, Zenon
<1>5. ASSUME NEW i \in DOMAIN b, Stands(b, i) PROVE i \in DOMAIN h /\ Stands(h, i)
  <2>1. i \in Nat /\ i >= 1 /\ \A j \in 1 .. i + 3 : b[j] # LF
    BY <1>1, <1>2, <1>5
  <2>2. ~(l \in 1 .. i + 3)
    BY <1>1, <2>1, Zenon
  <2>3. i + 3 < l
    BY <1>1, <2>1, <2>2
  <2>4. i \in DOMAIN h /\ i + 3 \in DOMAIN h
    BY <1>1, <1>2, <2>1, <2>3
  <2>5. \A j \in 1..4 : i + j - 1 \in 1..l
    BY <1>1, <2>1, <2>3
  <2>6. \A j \in 1 .. i + 3 : j \in 1..l
    BY <1>1, <2>1, <2>3
  <2>7. \A j \in 1..4 : h[i + j - 1] = StatusOK[j]
    BY <1>1, <1>5, <2>5, Zenon
  <2>8. \A j \in 1 .. i + 3 : h[j] # LF
    BY <1>1, <2>1, <2>6, Zenon
  <2>9. QED
    BY <2>4, <2>7, <2>8, Zenon
<1> HIDE DEF Stands
<1>6. QED
  BY <1>3, <1>4, <1>5, Zenon

\* Whatever head a gateway sends in front of its frames, and if it sends none: what
\* consumeHTTPResponse leaves on the stream starts with the first frame, and with any
\* status but 200 it is an error (tunnel.go:103-137).
THEOREM ResponseTakenOff ==
    /\ \A h, rest \in Seq(Byte) :
          HasResponse(h) /\ EmptyLines(h) = {Len(h)} =>
              consumeHTTPResponse(h \o rest) = IF StatusIsOK(h) THEN {rest} ELSE {}
    /\ \A x \in Payloads, rest \in Seq(Byte) :
          consumeHTTPResponse(Framed(x) \o rest) = {Framed(x) \o rest}
<1>1. ASSUME NEW h \in Seq(Byte), NEW rest \in Seq(Byte),
             HasResponse(h), EmptyLines(h) = {Len(h)}
      PROVE  consumeHTTPResponse(h \o rest) = IF StatusIsOK(h) THEN {rest} ELSE {}
  <2> DEFINE b == h \o rest
             l == Len(h)
  <2>1. /\ b \in Seq(Byte) /\ Len(b) = Len(h) + Len(rest)
        /\ \A i \in 1..Len(h) : b[i] = h[i]
        /\ \A i \in 1..Len(rest) : b[Len(h) + i] = rest[i]
    BY Concat, Zenon
  <2>2. l \in Nat /\ l >= 5 /\ Len(rest) \in Nat /\ \A i \in 1..5 : h[i] = ResponseStart[i]
    BY <1>1 DEF HasResponse
  <2>3. l \in EmptyLines(h) /\ \A k \in EmptyLines(h) : k = l
    BY <1>1
  <2>4. h[Len(h)] = LF
    BY <2>3, Zenon DEF EmptyLines
  <2> HIDE DEF b, l
  <2>5. HasResponse(b) /\ ~(Len(b) < 5)
    <3>1. Len(b) >= 5 /\ \A i \in 1..5 : b[i] = ResponseStart[i]
      BY <2>1, <2>2 DEF l
    <3>2. QED
      BY <2>1, <2>2, <3>1 DEF HasResponse
  <2>6. Len(h) <= Len(b) /\ Len(h) >= 1
    BY <2>1, <2>2 DEF l
  <2>7. \A k \in 1..Len(h) : k \in EmptyLines(b) <=> k \in EmptyLines(h)
    BY <2>1, <2>6, LinesAgree, Zenon
  <2>8. StatusIsOK(b) <=> StatusIsOK(h)
    BY <2>1, <2>4, <2>6, StatusAgrees, Zenon
  <2>9. l \in EmptyLines(b) /\ \A k \in EmptyLines(b) : l <= k
    <3>1. l \in 1..l
      BY <2>2
    <3>2. l \in EmptyLines(b)
      BY <2>3, <2>7, <3>1, Zenon DEF l
    <3>3. \A k \in EmptyLines(b) : k \in 1..Len(b)
      <4>1. DOMAIN b = 1..Len(b)
        BY <2>1
      <4>2. QED
        BY <4>1, Zenon DEF EmptyLines
    <3>4. \A k \in EmptyLines(b) : k \in 1..l => k = l
      BY <2>3, <2>7, Zenon DEF l
    <3>5. Len(b) \in Nat
      BY <2>1
    <3>6. \A k \in EmptyLines(b) : l <= k
      BY <2>2, <3>3, <3>4, <3>5
    <3>7. QED
      BY <3>2, <3>6
  <2>10. Min(EmptyLines(b)) = l
    <3>1. EmptyLines(b) \subseteq Nat
      <4>1. DOMAIN b \subseteq Nat
        BY <2>1
      <4>2. QED
        BY <4>1, Zenon DEF EmptyLines
    <3>2. \A k \in EmptyLines(b) : (\A j \in EmptyLines(b) : k <= j) => k = l
      BY <2>2, <2>9, <3>1
    <3>3. QED
      BY <2>9, <3>2 DEF Min
  <2>11. From(b, l + 1) = rest
    <3>1. l + Len(rest) <= Len(b) /\ \A i \in 1..Len(rest) : b[l + i] = rest[i]
      BY <2>1, <2>2 DEF l
    <3>2. SubSeq(b, l + 1, l + Len(rest)) = rest
      BY <2>1, <2>2, <3>1, CutsOut
    <3>3. QED
      BY <2>1, <3>2 DEF From, l
  <2>12. consumeHTTPResponse(b) = IF StatusIsOK(h) THEN {From(b, l + 1)} ELSE {}
    BY <2>5, <2>8, <2>9, <2>10 DEF consumeHTTPResponse
  <2>13. QED
    BY <2>11, <2>12, Zenon DEF b
<1>2. QED
  BY <1>1, NoResponse, Zenon

-----------------------------------------------------------------------------
(* What is in flight *)

\* Such packets are read as they were sent.
LEMMA AreRead ==
    ASSUME NEW packets \in Seq(Spoken \union Spoilt)
    PROVE  ReadsWhatWasSent(packets)
<1> DEFINE sent  == [i \in DOMAIN packets |-> Bytes(packets[i])]
           short == [i \in DOMAIN sent |-> From(sent[i], 3) \o <<0, 255>>]
           cut   == [i \in DOMAIN packets |-> Shortened(Bytes(packets[i]))]
<1>1. /\ DOMAIN packets = 1..Len(packets) /\ Len(packets) \in Nat
      /\ \A i \in DOMAIN packets : packets[i] \in Spoken \union Spoilt
  <2> DEFINE S == Spoken \union Spoilt
  <2> HIDE DEF S
  <2>1. packets \in Seq(S)
    BY DEF S
  <2>2. DOMAIN packets = 1..Len(packets) /\ Len(packets) \in Nat
        /\ \A i \in DOMAIN packets : packets[i] \in S
    BY <2>1
  <2>3. QED
    BY <2>2 DEF S
<1>2. short = cut
  BY Zenon DEF Shortened, Padding
<1>3. /\ \A i \in DOMAIN packets : sent[i] = Bytes(packets[i])
      /\ \A i \in DOMAIN packets : short[i] = Shortened(Bytes(packets[i]))
      /\ DOMAIN sent = DOMAIN packets
  BY <1>2
<1>4. ASSUME NEW i \in DOMAIN packets
      PROVE  /\ Bytes(packets[i]) \in Payloads /\ Shortened(Bytes(packets[i])) \in Payloads
             /\ Decode(Bytes(packets[i])) = {WireOf(packets[i])}
             /\ Decode(Shortened(Bytes(packets[i]))) = {WireOf(packets[i])}
  BY <1>1, SentReads, Zenon DEF Payloads
<1>5. sent \in Seq(Payloads) /\ short \in Seq(Payloads)
  <2> HIDE DEF short
  <2>1. sent \in Seq(Payloads) /\ cut \in Seq(Payloads)
    BY <1>1, <1>4
  <2>2. QED
    BY <1>2, <2>1
<1> HIDE DEF sent, short, cut
<1>6. ReadPackets(Stream(sent)) = sent /\ ReadPackets(Stream(short)) = short
  BY <1>5, StreamReadsBack, Zenon
<1>7. ASSUME NEW i \in DOMAIN packets
      PROVE  /\ Read(sent[i]) = {packets[i]} /\ Read(short[i]) = {packets[i]}
             /\ \A q \in Decode(sent[i]), d \in DecodePacket(short[i]) :
                   /\ d.hasCode /\ d.protocol = q.protocol
                   /\ d.code = q.code /\ d.identifier = q.identifier
             /\ packets[i] = LcpRequest(packets[i].id, LcpOffer)
                   => NewLCPConfigureRequest(packets[i].id, Magic) = sent[i]
  <2>1. Read(sent[i]) = {packets[i]} /\ Read(short[i]) = {packets[i]}
    BY <1>1, <1>3, <1>4, NamedAgain, Zenon
  <2>2. ASSUME NEW q \in Decode(sent[i]), NEW d \in DecodePacket(short[i])
        PROVE  /\ d.hasCode /\ d.protocol = q.protocol
               /\ d.code = q.code /\ d.identifier = q.identifier
    <3>1. q = WireOf(packets[i])
      BY <1>3, <1>4
    <3>2. d \in DecodePacket(Shortened(Bytes(packets[i])))
      BY <1>3
    <3>3. QED
      BY <1>1, <3>1, <3>2, Diagnosed, Zenon
  <2>3. ASSUME packets[i] = LcpRequest(packets[i].id, LcpOffer)
        PROVE  NewLCPConfigureRequest(packets[i].id, Magic) = sent[i]
    <3>1. packets[i].id \in 0..IdSpace - 1
      BY <1>1, ReadableAreSpoken, Zenon
    <3>2. QED
      BY <1>3, <2>3, <3>1, SameRequest, Zenon
  <2>4. QED
    BY <2>1, <2>2, <2>3
<1>8. QED
  BY <1>3, <1>6, <1>7, Zenon DEF ReadsWhatWasSent, sent, short

\* Where the stream breaks off, they are not read at all.
LEMMA AreTorn ==
    ASSUME NEW packets \in Seq(Spoken \union Spoilt)
    PROVE  TornIsAnError(packets)
<1> SUFFICES ASSUME packets # <<>> PROVE TornIsAnError(packets)
  BY Zenon DEF TornIsAnError
<1> DEFINE h == Head(packets)
           b == Bytes(h)
<1>1. h \in Spoken \union Spoilt
  <2> DEFINE S == Spoken \union Spoilt
  <2> HIDE DEF S
  <2>1. packets \in Seq(S)
    BY DEF S
  <2>2. Head(packets) \in S
    BY <2>1
  <2>3. QED
    BY <2>2 DEF S
<1> HIDE DEF h
<1>2. b \in Payloads
  BY <1>1, SentReads, Zenon DEF Payloads
<1>3. \A n \in 0 .. Len(Framed(b)) - 1 : ReadFrame(SubSeq(Framed(b), 1, n)) = {}
  BY <1>2, FramedIs, TornFrameIsAnError, Zenon
<1>4. \A n \in 0 .. Len(b) - 1 : Decode(SubSeq(b, 1, n)) = {}
  BY <1>1, WireIs, TornPacketIsAnError, Zenon
<1>5. QED
  BY <1>3, <1>4, Zenon DEF TornIsAnError, Framed, h

\* And the client finds the first of them, behind a response or at the start.
LEMMA AreFound ==
    ASSUME NEW packets \in Seq(Spoken \union Spoilt)
    PROVE  ResponseComesOff(packets)
<1> DEFINE sent == [i \in DOMAIN packets |-> Bytes(packets[i])]
<1>1. /\ DOMAIN packets = 1..Len(packets) /\ Len(packets) \in Nat
      /\ \A i \in DOMAIN packets : packets[i] \in Spoken \union Spoilt
      /\ packets # <<>> => Len(packets) # 0
  <2> DEFINE S == Spoken \union Spoilt
  <2> HIDE DEF S
  <2>1. packets \in Seq(S)
    BY DEF S
  <2>2. /\ DOMAIN packets = 1..Len(packets) /\ Len(packets) \in Nat
        /\ \A i \in DOMAIN packets : packets[i] \in S
        /\ packets # <<>> => Len(packets) # 0
    BY <2>1
  <2>3. QED
    BY <2>2 DEF S
<1>2. \A i \in DOMAIN packets : Bytes(packets[i]) \in Payloads
  BY <1>1, SentReads, Zenon DEF Payloads
<1>3. sent \in Seq(Payloads) /\ (packets # <<>> => Len(sent) # 0)
  BY <1>1, <1>2
<1> HIDE DEF sent
<1>4. Stream(sent) \in Seq(Byte)
  BY <1>3, StreamTyped, Zenon
<1>5. ASSUME packets # <<>> PROVE consumeHTTPResponse(Stream(sent)) = {Stream(sent)}
  <2> DEFINE x == Head(sent)
             o == Tail(sent)
  <2>1. x \in Payloads /\ o \in Seq(Payloads) /\ sent = <<x>> \o o
    BY <1>3, <1>5
  <2> HIDE DEF x, o
  <2>2. Stream(o) \in Seq(Byte) /\ Stream(sent) = Framed(x) \o Stream(o)
    BY <2>1, StreamInFront, Zenon
  <2>3. QED
    BY <2>1, <2>2, NoResponse, Zenon
<1>6. ASSUME NEW h \in Responses
      PROVE  consumeHTTPResponse(h \o Stream(sent)) = IF StatusIsOK(h) THEN {Stream(sent)} ELSE {}
  <2>1. h \in Seq(Byte) /\ HasResponse(h) /\ EmptyLines(h) = {Len(h)}
    BY ResponsesAreHeads, Zenon DEF Byte
  <2>2. QED
    BY <1>4, <2>1, ResponseTakenOff, Zenon
<1>7. QED
  BY <1>5, <1>6, Zenon DEF ResponseComesOff, sent

\* At any time both ends read from the stream what the other one wrote to it, packet by packet
\* and option by option, or an error where it breaks off; a gateway may leave the address
\* bytes out and pad its packets, and the diagnosis agrees (frame.go:33-85, packet.go:47-160,
\* forti/ppp.go and lcp.go); and it may start with a response (tunnel.go:103-137).
THEOREM WireFaithful == Spec => []WireIsFaithful
<1>1. ASSUME InFlight PROVE WireIsFaithful
  <2>1. toGateway \in Seq(Spoken \union Spoilt) /\ toClient \in Seq(Spoken \union Spoilt)
    BY <1>1 DEF InFlight
  <2>2. ReadsWhatWasSent(toGateway) /\ TornIsAnError(toGateway)
    BY <2>1, AreRead, AreTorn, Zenon
  <2>3. ReadsWhatWasSent(toClient) /\ TornIsAnError(toClient)
    BY <2>1, AreRead, AreTorn, Zenon
  <2>4. ResponseComesOff(toClient)
    BY <2>1, AreFound, Zenon
  <2>5. QED
    BY <2>2, <2>3, <2>4 DEF WireIsFaithful
<1>2. QED
  BY <1>1, InFlightInvariant, PTL
=============================================================================
