------------------------------- MODULE MCDoIP -------------------------------
(* Connections and pbufs are interchangeable; only the run without liveness *)
(* may make use of it.                                                      *)
EXTENDS DoIP, TLC

Symmetry == Permutations(Conns) \cup Permutations(Pbufs)
=============================================================================
