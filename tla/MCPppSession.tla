---------------------------- MODULE MCPppSession ----------------------------
(* PppSession, with its packets on the wire, against small sets of gateways. *)
EXTENDS PppWire

Gateway(offers, rejects, naks, rejectsDNS) ==
    [offers |-> offers, rejects |-> rejects, naks |-> naks, rejectsDNS |-> rejectsDNS]

Refusals == {{}, {"MRU"}, {"Magic"}, {"MRU", "Magic"}}
Offers   == {{}, {"MRU", "ACCM", "Magic"}, {"MRU", "Auth"}}

\* Gateways that refuse LCP options in one way, and no DNS option.
OneWay == {Gateway(o, r, {}, {}) : o \in Offers, r \in Refusals}
          \union {Gateway(o, {}, n, {}) : o \in Offers, n \in Refusals}

\* Gateways that reject one LCP option and suggest another value for the other.
TwoWays == {Gateway({"MRU"}, {"Magic"}, {"MRU"}, {})}

\* Gateways that hand out no second DNS server.
NoSecondDNS == {Gateway({"MRU"}, {}, {}, {"DNS2"})}

\* "HTTP/1.1 200 OK" with a field and lines that end in CRLF, the same without a field
\* and with bare line feeds, and "HTTP/1.1 403 No" with a field that has a 200 in it.
MCResponses ==
    {<<72, 84, 84, 80, 47, 49, 46, 49, 32, 50, 48, 48, 32, 79, 75, 13, 10>>
         \o <<88, 58, 32, 49, 13, 10>> \o <<13, 10>>,
     <<72, 84, 84, 80, 47, 49, 46, 49, 32, 50, 48, 48, 32, 79, 75, 10>> \o <<10>>,
     <<72, 84, 84, 80, 47, 49, 46, 49, 32, 52, 48, 51, 32, 78, 111, 13, 10>>
         \o <<88, 58, 32, 50, 48, 48, 13, 10>> \o <<13, 10>>}

AllWays == OneWay \union TwoWays \union NoSecondDNS
=============================================================================
