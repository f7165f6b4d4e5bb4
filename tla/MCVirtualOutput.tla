-------------------------- MODULE MCVirtualOutput --------------------------
(***************************************************************************)
(* Instances of VirtualOutput.tla for TLC.                                 *)
(***************************************************************************)
EXTENDS VirtualOutput, TLC

CONSTANTS a, b, p

Interchangeable == Permutations(Sessions)
============================================================================
