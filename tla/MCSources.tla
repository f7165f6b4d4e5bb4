------------------------------ MODULE MCSources ------------------------------
(***************************************************************************)
(* The two capture backends behind open_source for TLC: a session drives   *)
(* one or the other, for which both promise the same (FrameSource.tla).    *)
(***************************************************************************)
EXTENDS MCCaptureSession

CONSTANTS Unset, MaxFormats, MaxQueued

ASSUME UnsetAssumption == Unset \notin Sizes
ASSUME PlasmaBoundsAssumption == MaxFormats \in Nat /\ MaxQueued \in Nat \ {0}

VARIABLES
  backend,   \* the one the session has
  answers, known, step, node, painted, formats, slot, frames, error, told, handed, resized

plasmaVars ==
  <<answers, known, step, node, painted, formats, slot, frames, error, told, handed, resized>>
allVars == <<backend, vars, plasmaVars>>

Plasma == INSTANCE PlasmaCapture WITH Geometry <- Sizes

(* The backend that is not used stays in one of its initial states.        *)
SourcesInit ==
  /\ Init /\ Plasma!Init
  /\ backend \in {"ext", "plasma"}
  /\ backend = "plasma" =>
       /\ offered = CHOOSE o \in [size : Sizes, formats : Offers] : TRUE
       /\ wire = CHOOSE batch \in Batches(offered) : TRUE

ExtStep == backend = "ext" /\ Next /\ UNCHANGED <<backend, plasmaVars>>
PlasmaStep == backend = "plasma" /\ Plasma!Next /\ UNCHANGED <<backend, vars>>

SourcesNext == ExtStep \/ PlasmaStep

(* Each backend runs under the fairness of its own module.                 *)
SourcesSpec ==
  /\ SourcesInit /\ [][SourcesNext]_allVars
  /\ WF_vars(backend = "ext" /\ Client) /\ WF_vars(backend = "ext" /\ Repaint)
  /\ WF_plasmaVars(backend = "plasma" /\ Plasma!Thread)
  /\ WF_plasmaVars(backend = "plasma" /\ Plasma!Announcing)
  /\ WF_plasmaVars(backend = "plasma" /\ Plasma!Painting)

SourcesTypeOK == TypeOK /\ Plasma!TypeOK

(* Either backend keeps the promise of FrameSource.                        *)
SourcesPromise == SourceSpec /\ Plasma!SourceSpec

(* With either, next_frame never hangs while the output is repainted.      *)
NextFrameReturns ==
  /\ backend = "ext" => NeverStuck
  /\ backend = "plasma" => Plasma!NeverStuck
============================================================================
