---------------------------- MODULE LauncherLease ----------------------------
(***************************************************************************)
(* What the pool promises about launchers, whoever acts and however their  *)
(* steps interleave: a launcher is held for one model at a time, and while *)
(* it is, no other model gets it.  It is up for another model only when it *)
(* is free, or when its own model's health check or scale-down is ending   *)
(* the hold.                                                               *)
(*                                                                         *)
(* README.md:721 ("There is no preemption, by explicit design ... it       *)
(* becomes reallocatable only when its own model's scale-down or           *)
(* health-check frees it") and the two invariants in the comment on        *)
(* planAllocations (pipeline_pool_manager.ts:92), for the request path and *)
(* the background loop together.                                           *)
(***************************************************************************)
CONSTANTS Models, Launchers, NoModel

VARIABLE lease

Free == [holder |-> NoModel, ending |-> FALSE]
Held(m) == [holder |-> m, ending |-> FALSE]
Ending(m) == [holder |-> m, ending |-> TRUE]

Leases == {Free} \cup {Held(m) : m \in Models} \cup {Ending(m) : m \in Models}

TypeOK == lease \in [Launchers -> Leases]

Init == lease = [l \in Launchers |-> Free]

\* What a launcher's lease x may be followed by.
Follows(x, y) ==
  \/ y = x
  \/ x = Free /\ \E m \in Models : y = Held(m)
  \/ \E m \in Models : x = Held(m) /\ y \in {Ending(m), Free}
  \/ \E m \in Models : x = Ending(m) /\ (y = Free \/ \E n \in Models : y = Held(n))

\* One step of the coordinator may end one launcher's hold and take another's.
Next ==
  /\ lease' \in [Launchers -> Leases]
  /\ \A l \in Launchers : Follows(lease[l], lease'[l])

Spec == Init /\ [][Next]_lease

=============================================================================
