---------------------------- MODULE MCStateStore ----------------------------
(* Instances of StateStore for TLC: see the MCStateStore*.cfg files. *)
EXTENDS StateStore, TLC

CONSTANTS c1, g1, k1, p1, t1

\* A project with a heartbeat, and a task that does not exist yet.
Start == p1 :> ("updatedAt" :> 0 @@ "status" :> MISSING) @@ t1 :> MISSING
=============================================================================
