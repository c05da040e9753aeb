---------------------------- MODULE MCCanConsole ----------------------------
(* Three messages fit the FIFO (15 in the code), enough for one that is being *)
(* read, one that is announced and one that is backlog.  A message of up to   *)
(* two bytes is printed by up to four calls, of up to three characters each.  *)
EXTENDS CanConsole
=============================================================================
