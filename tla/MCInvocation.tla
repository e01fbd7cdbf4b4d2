---------------------------- MODULE MCInvocation ----------------------------
(* Invocation with two secrets of one provider and one of another: a       *)
(* provider can be resolved while the other one is still to do, and two    *)
(* secrets of one listing can differ in every declaration.                 *)
EXTENDS Invocation

CONSTANTS s1, s2, s3, p1, p2

MCProviderOf == [s \in Secrets |-> IF s = s3 THEN p2 ELSE p1]
=============================================================================
