----------------------------- MODULE MCUpstream -----------------------------
(* Heads of one and two lines and output without a blank line, around a     *)
(* buffer of six units.                                                     *)
EXTENDS Upstream

MCHeads == {<<"h", "n", "n">>, <<"h", "n", "h", "n", "n">>, <<"h", "n">>, <<>>}

MCBody == <<"b1", "b2", "b3", "b4">>
=============================================================================
