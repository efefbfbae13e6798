------------------------------ MODULE MCZoneFile ------------------------------
(* An instance of ZoneFile for TLC.                                          *)
EXTENDS ZoneFile, TLC

CONSTANTS z1, z2, z3

ThreeZones == {z1, z2, z3}
ZoneSymmetry == Permutations(Zones)

AllKinds == {"direct", "buffered", "sparse"}
=============================================================================
