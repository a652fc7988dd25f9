----------------------------- MODULE LauncherHost -----------------------------
(***************************************************************************)
(* A swarm-launcher (core/src/launcher_main.cpp): one child agent at most, *)
(* and an HTTP server that handles one request at a time, so the calls     *)
(* made to a launcher run one after the other in the order they arrived.   *)
(* A caller that gave up does not take its call back: the launcher still   *)
(* runs it (its by field is NoProc).                                       *)
(***************************************************************************)
EXTENDS PoolState

LOCAL coordinator == <<entry, cold, tick, req, servesModel, up, ejected, listed>>

\* The call at the head is done: its caller, if it is still there, is answered.
Answered(l, result) ==
  /\ commands[l] # <<>>
  /\ commands' = [commands EXCEPT ![l] = Tail(@)]
  /\ reply' = LET c == Head(commands[l]).by
              IN IF c = NoProc THEN reply ELSE [reply EXCEPT ![c] = result]
  /\ UNCHANGED coordinator

\* POST /pipeline, spawned and healthy: the old agent is gone, the new one runs.
PostSpawns(l) ==
  /\ commands[l] # <<>> /\ Head(commands[l]).op = "POST"
  /\ agent' = [agent EXCEPT ![l] = Head(commands[l]).model]
  /\ Answered(l, "ok")

\* POST /pipeline, 500: the old agent was reset before the spawn that failed or
\* never became healthy.
PostFailsToSpawn(l) ==
  /\ "spawn" \in Faults
  /\ commands[l] # <<>> /\ Head(commands[l]).op = "POST"
  /\ agent' = [agent EXCEPT ![l] = NoModel]
  /\ Answered(l, "failed")

\* POST /pipeline, 404 (no such model file): refused before the old agent is
\* touched.
PostRefused(l) ==
  /\ "refuse" \in Faults
  /\ commands[l] # <<>> /\ Head(commands[l]).op = "POST"
  /\ UNCHANGED agent
  /\ Answered(l, "failed")

\* DELETE /pipeline: reset, and 204 whether or not an agent was running.
DeleteStops(l) ==
  /\ commands[l] # <<>> /\ Head(commands[l]).op = "DELETE"
  /\ agent' = [agent EXCEPT ![l] = NoModel]
  /\ Answered(l, "ok")

\* The call never gets there: connection refused or reset.
CallLost(l) ==
  /\ "lost" \in Faults
  /\ commands[l] # <<>>
  /\ UNCHANGED agent
  /\ Answered(l, "failed")

\* An agent process dies by itself; the launcher does not notice.
AgentDies(l) ==
  /\ "die" \in Faults
  /\ agent[l] # NoModel
  /\ agent' = [agent EXCEPT ![l] = NoModel]
  /\ UNCHANGED <<coordinator, commands, reply>>

HandleCall(l) ==
  PostSpawns(l) \/ PostFailsToSpawn(l) \/ PostRefused(l) \/ DeleteStops(l)

=============================================================================
