------------------------------ MODULE MCTcpEcho ------------------------------
(* Two connections share two pbufs.  Segments of one and two bytes of two   *)
(* kinds against a storage of two: one segment may fill it, two of them or  *)
(* a second one may not fit, and order and duplicates show.                 *)
EXTENDS TcpEcho
=============================================================================
