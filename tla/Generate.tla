------------------------------- MODULE Generate -------------------------------
(***************************************************************************)
(* The routing of inference requests (coordinator/src/server.ts), from the *)
(* safety gate's yes to the answer: POST /generate, which tries the warm   *)
(* pool, then a cold start, then the registry, and POST                    *)
(* /v1/chat/completions, which only reads the registry.                    *)
(*                                                                         *)
(* A request is bound to the agent it connects to when it is forwarded: an *)
(* agent killed later resets the connection, it does not hand it on.       *)
(***************************************************************************)
EXTENDS ColdStart

\* Mutant: entries in any state.
UsableInAnyState(m) == {p \in GetPool(entry, m) : entry[p].launcher \in ActiveDrivers(servesModel)}

\* Warm entries whose driver is still listed.  /generate takes the least
\* recently used; which one that is, is left open.
Usable(m) ==
  {p \in GetPool(entry, m) :
     entry[p].state = "warm" /\ entry[p].launcher \in ActiveDrivers(servesModel)}

\* /generate finds a usable entry: stamps lastUsedAt, heartbeats the driver and
\* forwards to it.
GenerateFromPool(r, m) ==
  /\ req[r] = NoRequest
  /\ \E p \in Usable(m) :
       /\ req' = [req EXCEPT ![r] = Forwarded(m, entry[p].launcher, "pool")]
       /\ tick' = [tick EXCEPT !.idle = @ \ {p}]
  /\ UNCHANGED <<entry, cold, servesModel, up, ejected, listed,
                 agent, commands, reply>>

\* /generate finds none and calls ensurePipelineReady, which joins the cold
\* start in flight, starts one, or returns at once.
GenerateFromCold(r, m) ==
  /\ req[r] = NoRequest
  /\ Usable(m) = {}
  /\ LET waits == req' = [req EXCEPT ![r] = [NoRequest EXCEPT !.phase = "waiting",
                                                              !.model = m]]
     IN \/ /\ cold[m] # NoColdStart
           /\ waits
           /\ UNCHANGED <<entry, cold, commands>>
        \/ /\ cold[m] = NoColdStart
           /\ ColdStartBegins(m)
           /\ waits
        \/ /\ cold[m] = NoColdStart
           /\ ColdStartReturns(m)
           /\ \E to \in FromRegistry(m, servesModel) : req' = [req EXCEPT ![r] = to]
           /\ UNCHANGED <<entry, cold, commands>>
  /\ UNCHANGED <<tick, servesModel, up, ejected, listed, agent, reply>>

\* /v1/chat/completions goes straight to the registry.
ChatFromRegistry(r, m) ==
  /\ req[r] = NoRequest
  /\ \E l \in SelectNode(m, servesModel) : req' = [req EXCEPT ![r] = Forwarded(m, l, "chat")]
  /\ UNCHANGED <<entry, cold, tick, servesModel, up, ejected, listed,
                 agent, commands, reply>>

\* The node answered with a completion.
Completed(r) ==
  /\ req[r].phase = "forwarded" /\ req[r].got # NoModel
  /\ req' = [req EXCEPT ![r] = NoRequest]
  /\ UNCHANGED <<entry, cold, tick, servesModel, up, ejected, listed,
                 agent, commands, reply>>

\* The forward failed, possibly long after it was made.  /generate marks every
\* entry of the model that names this driver; chat completions mark none.
ForwardFailed(r) ==
  /\ req[r].phase = "forwarded"
  /\ LET m == req[r].model
         named == {p \in GetPool(entry, m) :
                     entry[p].state # "assembling" /\ entry[p].launcher = req[r].node}
     IN entry' = IF req[r].route = "chat" THEN entry ELSE MarkEntryFailed(entry, named)
  /\ req' = [req EXCEPT ![r] = NoRequest]
  /\ UNCHANGED <<cold, tick, servesModel, up, ejected, listed,
                 agent, commands, reply>>

=============================================================================
