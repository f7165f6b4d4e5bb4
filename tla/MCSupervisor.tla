---------------------------- MODULE MCSupervisor ----------------------------
(***************************************************************************)
(* Instances of Supervisor.tla for TLC.                                    *)
(***************************************************************************)
EXTENDS Supervisor, TLC

CONSTANTS s1, s2, sfx

(* Tablets of one maker: the last four characters of every serial agree.   *)
SameSuffix == [s \in Serials |-> sfx]

(* So devices are interchangeable.                                         *)
Interchangeable == Permutations(Serials)
============================================================================
