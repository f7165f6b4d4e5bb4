-------------------------- MODULE MCCaptureSession -------------------------
(***************************************************************************)
(* Instances of CaptureSession.tla for TLC.                                *)
(***************************************************************************)
EXTENDS CaptureSession

CONSTANTS tiled, linear, compressed

(* The encoder reads tiled buffers best, linear ones too, and no others.   *)
Readable == <<tiled, linear>>

XR24(mods) == [fourcc |-> "XR24", mods |-> mods]
AR24(mods) == [fourcc |-> "AR24", mods |-> mods]

(* XR24 that can be read, tiled for preference; XR24 that cannot and AR24  *)
(* that can; nothing that can.                                             *)
FormatLists ==
  {<<AR24({tiled}), XR24({linear, tiled, compressed})>>,
   <<XR24({compressed}), AR24({linear})>>, <<XR24({compressed})>>}
============================================================================
