---------------------------- MODULE MCLwipTimers ----------------------------
(* Small periods with the order of the real ones (100, 250, 500, 1000) and *)
(* no common factor that would keep the expiries aligned.                  *)
EXTENDS LwipTimers

MCPeriod == [link |-> 1, tcp_fast |-> 2, tcp_slow |-> 3, arp |-> 4]
MCModes == {"10half", "100full"}
=============================================================================
