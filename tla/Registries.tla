------------------------------ MODULE Registries ------------------------------
(***************************************************************************)
(* What time, heartbeats and reputation reports do to the coordinator's    *)
(* soft state: NodeRegistry (coordinator/src/registry.ts), LauncherRegistry*)
(* (launcher_registry.ts) and ReputationTracker (reputation_tracker.ts).   *)
(* Time is not counted here: a registration may expire at any moment, and  *)
(* a heartbeat is then what keeps it from doing so.                        *)
(***************************************************************************)
EXTENDS PoolState

LOCAL others == <<entry, cold, tick, req, agent, commands, reply>>

\* A driver's registration is past the timeout: no heartbeat revives it.
DriverExpires(l) ==
  /\ "expire" \in Faults
  /\ servesModel[l] # NoModel
  /\ servesModel' = [servesModel EXCEPT ![l] = NoModel]
  /\ UNCHANGED <<others, up, ejected, listed>>

\* A compute node stops pinging or drops below the trust threshold.
NodeLeaves(n) ==
  /\ "node" \in Faults
  /\ n \in up
  /\ up' = up \ {n}
  /\ UNCHANGED <<others, servesModel, ejected, listed>>

\* A compute node registers, or is trusted again.
NodeJoins(n) ==
  /\ n \notin up
  /\ up' = up \cup {n}
  /\ UNCHANGED <<others, servesModel, ejected, listed>>

\* Disagreements take a driver's nodeId below the trust threshold.  The nodeId
\* is the hash of its endpoint: every later driver of the launcher has it too.
DriverEjected(l) ==
  /\ "eject" \in Faults
  /\ l \notin ejected
  /\ ejected' = ejected \cup {l}
  /\ UNCHANGED <<others, servesModel, up, listed>>

\* Agreements bring it back.
DriverRestored(l) ==
  /\ l \in ejected
  /\ ejected' = ejected \ {l}
  /\ UNCHANGED <<others, servesModel, up, listed>>

\* A launcher's registration is past the timeout.  Its agent runs on.
LauncherLapses(l) ==
  /\ "lapse" \in Faults
  /\ l \in listed
  /\ listed' = listed \ {l}
  /\ UNCHANGED <<others, servesModel, up, ejected>>

\* It registers again: register() mints a new launcherId, so every launcherId
\* the coordinator noted for this endpoint is an old one from now on.
LauncherRegisters(l) ==
  /\ l \notin listed
  /\ listed' = listed \cup {l}
  /\ entry' = [p \in PipelineIds |->
                 IF entry[p] # NoEntry /\ entry[p].launcher = l
                 THEN [entry[p] EXCEPT !.curId = FALSE] ELSE entry[p]]
  /\ tick' = [tick EXCEPT !.plan =
                {[c EXCEPT !.curId = c.curId /\ c.launcher # l] : c \in @}]
  /\ UNCHANGED <<cold, req, servesModel, up, ejected, agent, commands, reply>>

=============================================================================
