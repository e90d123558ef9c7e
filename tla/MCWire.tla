------------------------------- MODULE MCWire -------------------------------
(* Wire with short buffers, for TLC. *)
EXTENDS Wire

MCMessages == {<<1>>, <<1, 2>>, <<1, 2, 1>>}
MCAnswers == {<<>>, <<1>>, <<1, 2>>}

=============================================================================
