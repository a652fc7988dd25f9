------------------------------ MODULE ColdStart ------------------------------
(***************************************************************************)
(* ensurePipelineReady and assemblePipeline (coordinator/src/server.ts):   *)
(* the pipeline a request assembles when its model's pool has nothing      *)
(* usable.  coldStartsInFlight allows one per model.                       *)
(***************************************************************************)
EXTENDS PoolState

\* A request as it is forwarded to launcher l's driver.
Forwarded(m, l, route) ==
  [phase |-> "forwarded", model |-> m, node |-> l, got |-> agent[l], route |-> route]

\* What ensurePipelineReady leaves a request with: a node registered for its
\* model, or a 503.
FromRegistry(m, registered) ==
  IF SelectNode(m, registered) = {} THEN {NoRequest}
  ELSE {Forwarded(m, l, "registry") : l \in SelectNode(m, registered)}

\* The requests that awaited the model's cold start go on as soon as it is over.
Resume(m, registered) ==
  LET waiting == {r \in Requests : req[r].phase = "waiting" /\ req[r].model = m}
  IN \E f \in [waiting -> FromRegistry(m, registered)] :
       req' = [r \in Requests |-> IF r \in waiting THEN f[r] ELSE req[r]]

-----------------------------------------------------------------------------
PoolHead(m) == {p \in GetPool(entry, m) : entry[p].pos = 0}

\* The first entry is warm and its driver is still listed: nothing to assemble.
WarmHead(m) ==
  \E p \in PoolHead(m) : entry[p].state = "warm" /\ entry[p].launcher \in ActiveDrivers(servesModel)

\* Another assembly is in flight, or the pool is usable, or it is at its ceiling
\* without the entry this call would replace.
NothingToAssemble(m) ==
  \/ \E p \in GetPool(entry, m) : entry[p].state = "assembling"
  \/ WarmHead(m)
  \/ Cardinality(GetPool(entry, m) \ PoolHead(m)) >= MaxPipelines[m]

\* Mutant: any launcher listed for the model.
ListedForColdStart(m) == ListForModel(m)

\* The launchers this call may commit to: tracked's own counts as free.
FreeForColdStart(m) == ListForModel(m) \ ClaimedLaunchers(entry, PoolHead(m))

\* The returns before anything is reserved: no launcher, too few nodes, or a
\* driver that would be reputation-ejected from its first moment.
ColdStartReturns(m) ==
  \/ NothingToAssemble(m)
  \/ FreeForColdStart(m) = {}
  \/ SelectPipeline(m, servesModel) = {}
  \/ \E l \in FreeForColdStart(m) : l \in ejected

\* The launcher is reserved and the POST sent, with no await in between.
ColdStartBegins(m) ==
  /\ ~NothingToAssemble(m)
  /\ FreshIds(entry, {}) # {}
  /\ \E l \in FreeForColdStart(m) \ ejected, S \in SelectPipeline(m, servesModel) :
       LET p == NewId(entry, {}) IN
       /\ entry' = AddEntry(entry, p, m, l, TRUE, S, "assembling")
       /\ commands' = Send(commands, l, "POST", m, m)
       /\ cold' = [cold EXCEPT ![m] =
            IF PoolHead(m) = {}
            THEN [NoColdStart EXCEPT !.phase = "posting", !.resv = p]
            ELSE LET t == CHOOSE t \in PoolHead(m) : TRUE
                 IN [phase |-> "posting", resv |-> p, tracked |-> t,
                     old |-> entry[t].launcher,
                     sameId |-> entry[t].launcher = l /\ entry[t].curId]]

\* The reservation and the tracked entry go, the warm entry comes.  The pass has
\* no more use for the age of an entry it does not hold.
Replaced(m) ==
  LET c == cold[m]
      r == entry[c.resv]
  IN /\ \E kept \in {RemoveEntry(RemoveEntry(entry, c.tracked, HeldIds), c.resv, HeldIds)} :
          /\ FreshIds(kept, {m}) # {}
          /\ entry' = AddEntry(kept, NewId(kept, {m}), m, r.launcher, r.curId, r.compute,
                               "warm")
     /\ tick' = [tick EXCEPT !.idle = @ \ ({c.tracked} \ HeldIds)]

\* POST /pipeline answered 200.  The driver is registered; when the replaced
\* entry was on a launcher with another launcherId, that launcher is told to
\* stop first.
ColdStartAssembled(m) ==
  LET c == cold[m]
      l == entry[c.resv].launcher
  IN /\ c.phase = "posting" /\ reply[m] = "ok"
     /\ servesModel' = [servesModel EXCEPT ![l] = m]
     /\ reply' = [reply EXCEPT ![m] = "none"]
     /\ IF c.tracked # NoId /\ ~c.sameId
        THEN /\ commands' = Send(commands, c.old, "DELETE", m, m)
             /\ cold' = [cold EXCEPT ![m].phase = "stopping"]
             /\ UNCHANGED <<entry, tick, req>>
        ELSE /\ Replaced(m)
             /\ cold' = [cold EXCEPT ![m] = NoColdStart]
             /\ Resume(m, servesModel')
             /\ UNCHANGED commands
     /\ UNCHANGED <<up, ejected, listed, agent>>

\* The old launcher answered, or did not: either way the swap is made.
ColdStartStopped(m) ==
  /\ cold[m].phase = "stopping"
  /\ commands' \in OnAnswer(m, {"ok", "failed"}) \cup OnTimeout(m)
  /\ reply' = [reply EXCEPT ![m] = "none"]
  /\ Replaced(m)
  /\ cold' = [cold EXCEPT ![m] = NoColdStart]
  /\ Resume(m, servesModel)
  /\ UNCHANGED <<servesModel, up, ejected, listed, agent>>

\* Mutant: the requests that waited are forgotten.
ColdStartFailedSilently(m) ==
  /\ cold[m].phase = "posting"
  /\ commands' \in OnAnswer(m, {"failed"}) \cup OnTimeout(m)
  /\ reply' = [reply EXCEPT ![m] = "none"]
  /\ entry' = MarkEntryFailed(RemoveEntry(entry, cold[m].resv, HeldIds), {cold[m].tracked})
  /\ cold' = [cold EXCEPT ![m] = NoColdStart]
  /\ UNCHANGED <<tick, req, servesModel, up, ejected, listed, agent>>

\* POST /pipeline failed: the reservation goes, the tracked entry is failed.
ColdStartFailed(m) ==
  /\ cold[m].phase = "posting"
  /\ commands' \in OnAnswer(m, {"failed"}) \cup OnTimeout(m)
  /\ reply' = [reply EXCEPT ![m] = "none"]
  /\ entry' = MarkEntryFailed(RemoveEntry(entry, cold[m].resv, HeldIds),
                              {cold[m].tracked})
  /\ cold' = [cold EXCEPT ![m] = NoColdStart]
  /\ Resume(m, servesModel)
  /\ UNCHANGED <<tick, servesModel, up, ejected, listed, agent>>

=============================================================================
