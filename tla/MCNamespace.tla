----------------------------- MODULE MCNamespace -----------------------------
(* Instances of Namespace for TLC.                                           *)
EXTENDS Namespace, TLC

CONSTANTS a, b, c, d

NameSymmetry == Permutations(Names)
=============================================================================
