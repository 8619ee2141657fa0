------------------------------ MODULE MCRegions ------------------------------
(* Regions with a few region IDs and sizes.                                  *)
EXTENDS Regions, TLC

RgidSymmetry == Permutations(Rgids)
=============================================================================
