---------------------------- MODULE TunnelConfig -----------------------------
(***************************************************************************)
(* internal/forti/session.go, GetConfig: which networks go through the     *)
(* tunnel, out of the document the gateway publishes and the routes svpnd  *)
(* was started with (internal/service/vpn/connection.go).  An address with *)
(* its mask is a way of writing a network, and there are several.          *)
(***************************************************************************)
EXTENDS Naturals, SequencesExt

CONSTANTS Nets,       \* the networks there are routes for
          Documents,  \* what the gateway may answer
          Flags,      \* what --route may have been given
          Nil         \* nothing

\* One entry of either list: a network, and how it is written; or one whose address or
\* mask is not IPv4.
Spelled(net, host) == [net |-> net, host |-> host]
Unusable           == [net |-> Nil, host |-> 0]
Entries            == [net : Nets, host : Nat] \union {Unusable}

\* A document is not there, or does not parse; or has the list under one name or the other.
Unread               == [read |-> FALSE, include |-> <<>>, info |-> <<>>]
Listed(include, info) == [read |-> TRUE, include |-> include, info |-> info]

ASSUME DocumentsListNets ==
    \A document \in Documents : document.include \in Seq(Entries) /\ document.info \in Seq(Entries)
ASSUME FlagsListNets == Flags \subseteq Seq(Nets) \union {Nil}

\* parseNetwork: the address under its mask.
ParseNetwork(entry) == entry.net

\* Mutant of Keep: repeats what was seen.
Keep_Repeats(list, e) == IF e = Unusable THEN list ELSE Append(list, ParseNetwork(e))

\* An entry that cannot be used costs no other, and a network that was seen is left
\* out.
Keep(list, e) ==
    IF e = Unusable \/ Contains(list, ParseNetwork(e)) THEN list ELSE Append(list, ParseNetwork(e))

\* The loop over both lists.
Collect(entries) ==
    LET after[n \in 0..Len(entries)] == IF n = 0 THEN <<>> ELSE Keep(after[n - 1], entries[n])
    IN  after[Len(entries)]

\* GetConfig: both names are read; a document that is not there, or not understood,
\* publishes nothing.
GetConfig(document) ==
    IF document.read THEN Collect(document.include \o document.info) ELSE <<>>

\* "The gateway is the authority on what belongs to the VPN", unless --route says
\* otherwise.
RoutesOf(flags, document) == IF flags = Nil THEN GetConfig(document) ELSE flags
=============================================================================
