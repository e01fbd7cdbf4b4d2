---------------------------- MODULE MCProxyImage ----------------------------
(* Two supervisors and one library: either can be started before or after  *)
(* a file is replaced, removed or overwritten, and both can build the same *)
(* tag at the same time.                                                   *)
EXTENDS ProxyImage, TLC

CONSTANTS a, b, exe, lib, f1, f2, c1, c2

MCSymmetry == Permutations(Supervisors) \cup Permutations(Contents) \cup Permutations(Files)
=============================================================================
