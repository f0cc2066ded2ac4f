--------------------------- MODULE MCGuacdChannel ---------------------------
(* GuacdChannel for TLC: a read with nothing before what ends the session,  *)
(* and one with instructions before and after a sync.                       *)
EXTENDS GuacdChannel

MCReads == {<<>>, <<"draw", "sync", "draw">>}
=============================================================================
