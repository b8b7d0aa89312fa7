----------------------------- MODULE MCNetConfig ----------------------------
(* NetConfig on the halves of the Internet, one of which holds the gateway, and a *)
(* network of the company; the gateway writes each of them in two ways.           *)
EXTENDS NetConfig

CONSTANTS low, high, corp

BothHalves == <<low, high>>

SomeEntries == {Spelled(n, host) : n \in {low, high, corp}, host \in {0, 1}} \union {Unusable}
SomeAnswers == {Unread} \union {Listed(include, info) : include \in SeqOf(SomeEntries, 2),
                                                       info \in SeqOf(SomeEntries, 1)}
SomeFlags   == {Nil, <<>>, <<corp>>, <<corp, high>>, <<corp, corp>>}
=============================================================================
