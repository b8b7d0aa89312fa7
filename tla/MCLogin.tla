------------------------------ MODULE MCLogin -------------------------------
(* A few logins on one desktop; the gateway clears the cookie, before or after it issues it. *)
EXTENDS Login

SomeReplies == {<<>>, <<"other">>, <<"clear", "new">>, <<"old", "new", "clear">>}
=============================================================================
