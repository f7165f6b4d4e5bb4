---------------------------- MODULE SessionLife ----------------------------
(***************************************************************************)
(* What a session thread promises to the supervisor that started it and to *)
(* the machine it runs on ("Everything the daemon creates is RAII-scoped", *)
(* docs/05-daemon.md): it takes the virtual output first and the forward   *)
(* after it, its outcome is good only if it was asked to stop, and it is   *)
(* reaped with nothing left in its hands.                                  *)
(*                                                                         *)
(* Implemented by every session thread of Supervisor.tla, which keeps only *)
(* the two resources, and by session::run in Session.tla.                  *)
(***************************************************************************)
VARIABLES
  phase,   \* "idle", "running", then the outcome "ok" or "err"
  holds,   \* the resources the session has a guard for
  asked    \* its shutdown flag

vars == <<phase, holds, asked>>

Resources == {"output", "forward"}
Decided == {"ok", "err"}

Init ==
  /\ phase \in {"idle", "running"}
  /\ holds = {}
  /\ asked = FALSE

Ask == asked' = TRUE /\ UNCHANGED <<phase, holds>>

Begin ==
  /\ phase = "idle"
  /\ phase' = "running"
  /\ asked' = FALSE
  /\ UNCHANGED holds

Take ==
  /\ phase = "running"
  /\ \E r \in Resources \ holds :
       /\ r = "forward" => "output" \in holds
       /\ holds' = holds \cup {r}
  /\ UNCHANGED <<phase, asked>>

Decide ==
  /\ phase = "running"
  /\ \/ phase' = "err"
     \/ phase' = "ok" /\ asked /\ holds = Resources
  /\ holds' \in SUBSET holds
  /\ UNCHANGED asked

Give ==
  /\ phase \in Decided
  /\ holds' \in SUBSET holds
  /\ UNCHANGED <<phase, asked>>

Reaped ==
  /\ phase \in Decided
  /\ holds = {}
  /\ phase' = "idle"
  /\ asked' = FALSE
  /\ UNCHANGED holds

Next == Ask \/ Begin \/ Take \/ Decide \/ Give \/ Reaped

Spec == Init /\ [][Next]_vars
============================================================================
