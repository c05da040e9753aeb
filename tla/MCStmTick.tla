----------------------------- MODULE MCStmTick -----------------------------
(* A millisecond is 4 ticks; a lap is 15 and a half, and no whole number of *)
(* them in the code either.                                                 *)
EXTENDS StmTick
=============================================================================
