------------------------------- MODULE MCUart -------------------------------
(* Lines of up to three characters and a FIFO of three places (16 in the    *)
(* hardware): the third is used only when a handler prints twice between    *)
(* two steps of the main loop.                                              *)
EXTENDS Uart
=============================================================================
