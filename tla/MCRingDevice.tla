---------------------------- MODULE MCRingDevice ----------------------------
(* Instances of RingDevice for TLC.                                        *)
EXTENDS RingDevice, TLC

Symmetry == Permutations(Readers) \cup Permutations(Writers)
=============================================================================
