---------------------------- MODULE MCConnection ----------------------------
(* A connection with its data path, closed by a few goroutines. *)
EXTENDS DataPath

MCGreetings == {<<>>, <<"200", "blank">>, <<"200", "field", "blank">>,
                <<"refusal", "field", "blank">>}
=============================================================================
