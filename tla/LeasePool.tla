----------------------------- MODULE LeasePool -----------------------------
(***************************************************************************)
(* What the daemon promises about the resources of its streaming sessions. *)
(* A session of a device runs on a lease: one host-side adb forward port   *)
(* and one virtual output name.  A lease is taken when the session thread  *)
(* is spawned and given back when that thread is over, and while two       *)
(* sessions run their ports and their names differ.  This is the sentence  *)
(* above spawn_session: "the registry and the allocators can never         *)
(* disagree: a session is running iff its name and port are spoken for".   *)
(* Supervisor.tla implements this module.                                  *)
(***************************************************************************)
CONSTANTS
  Serials,   \* the devices, by adb serial
  Ports,     \* host-side forward ports
  Names,     \* virtual output names
  NoLease    \* what a device without a running session holds

VARIABLE lease   \* the port and name each device's session runs on

(* A lease whose port and name no other device holds. *)
Unshared(s, p, n) ==
  \A t \in Serials \ {s} : lease[t] # NoLease => lease[t].port # p /\ lease[t].name # n

Init == lease = [s \in Serials |-> NoLease]

Acquire(s) ==
  /\ lease[s] = NoLease
  /\ \E p \in Ports, n \in Names :
       /\ Unshared(s, p, n)
       /\ lease' = [lease EXCEPT ![s] = [port |-> p, name |-> n]]

Release(s) ==
  /\ lease[s] # NoLease
  /\ lease' = [lease EXCEPT ![s] = NoLease]

Next == \E s \in Serials : Acquire(s) \/ Release(s)

Spec == Init /\ [][Next]_lease

----------------------------------------------------------------------------
TypeOK == lease \in [Serials -> [port : Ports, name : Names] \cup {NoLease}]

(* No two running sessions share a port or an output name. *)
Exclusive ==
  \A s, t \in Serials :
    (s # t /\ lease[s] # NoLease /\ lease[t] # NoLease) =>
      lease[s].port # lease[t].port /\ lease[s].name # lease[t].name
============================================================================
