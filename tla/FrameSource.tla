----------------------------- MODULE FrameSource -----------------------------
(***************************************************************************)
(* What a session may rely on in either capture backend (the FrameSource   *)
(* trait, crates/capture/src/source.rs): a geometry is told only once it   *)
(* has been negotiated, everyone who asks is told the same, every frame    *)
(* that next_frame gives out is of that geometry, and after an error there *)
(* are no more.  The compositor may void the promise by giving the output  *)
(* another size when the backend cannot prevent that.                      *)
(***************************************************************************)
CONSTANT Geometries

VARIABLES
  phase,   \* "opening", "open", "void", or "over"
  told,    \* the geometries that the accessors have told
  frame    \* the geometries that go with the latest frame: its size, its stride

vars == <<phase, told, frame>>

Init == phase = "opening" /\ told = {} /\ frame = {}

(* wait_for_format has returned; width, height.                            *)
Tell ==
  /\ phase \in {"opening", "open"}
  /\ phase' = "open"
  /\ \E g \in Geometries : told \subseteq {g} /\ told' = {g}
  /\ UNCHANGED frame

(* next_frame returns.                                                     *)
Deliver ==
  /\ phase = "open"
  /\ frame' = told
  /\ UNCHANGED <<phase, told>>

Void ==
  /\ phase # "over"
  /\ phase' = "void"

End ==
  /\ phase' = "over"
  /\ UNCHANGED <<told, frame>>

Next == Tell \/ Deliver \/ Void \/ End

Spec == Init /\ [][Next]_vars
============================================================================
