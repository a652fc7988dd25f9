----------------------------- MODULE PoolManager -----------------------------
(***************************************************************************)
(* PipelinePoolManager (coordinator/src/pipeline_pool_manager.ts): one     *)
(* pass at a time (ticking) of health check and scale-down, then           *)
(* allocation.  A pass suspends at every launcher call it awaits; all of   *)
(* it that runs between two awaits is one step.                            *)
(***************************************************************************)
EXTENDS PoolState

DriverAndCompute(e, p) == {e[p].launcher} \cup e[p].compute

\* Mutant: a failed entry is left to expire.
DoomedUnlessFailed(e, p, active, idle) ==
  /\ e[p].state # "assembling"
  /\ ~(DriverAndCompute(e, p) \subseteq active) \/ (e[p].state = "warm" /\ p \in idle)

\* The three reasons to tear an entry down, against the activeNodeIds and the
\* clock the pass read when it began.
Doomed(e, p, active, idle) ==
  /\ e[p].state # "assembling"
  /\ \/ ~(DriverAndCompute(e, p) \subseteq active)
     \/ e[p].state = "failed"
     \/ e[p].state = "warm" /\ p \in idle

\* [...getPool(m)], less the reservations: the loop skips an entry that is
\* assembling, and a reservation is that until it is dropped.
CopyOf(e, m) ==
  {[id |-> p, rank |-> e[p].pos] : p \in {q \in GetPool(e, m) : e[q].state # "assembling"}}

\* The entry the loop over a copied array stops at.
FirstDoomed(e, copy, active, idle) ==
  {c \in copy : /\ Doomed(e, c.id, active, idle)
                /\ \A d \in copy : d.rank < c.rank => ~Doomed(e, d.id, active, idle)}

\* An entry that is in no pool and no longer in the pass's copy is gone.
Forget(e, held) ==
  [p \in PipelineIds |-> IF p \notin Pooled(e) /\ p \notin held THEN NoEntry ELSE e[p]]

-----------------------------------------------------------------------------
(***************************************************************************)
(* allocate.  What planAllocations promises of its answer: claims on       *)
(* listed launchers nothing claims yet, no launcher twice, no model past   *)
(* its deficit, and no deficit left while a launcher it could take is      *)
(* free.  PoolAllocation checks the algorithm against this.                *)
(***************************************************************************)
Planned(e, plan, m, desired) ==
  LET deficit == desired - Cardinality(GetPool(e, m))
      claims == {c \in plan : c.model = m}
      free == ListForModel(m) \ ClaimedLaunchers(e, {})
  IN /\ \A c \in claims : c.launcher \in free
     /\ claims = {} \/ Cardinality(claims) <= deficit
     /\ Cardinality(claims) >= deficit \/ free \subseteq {c.launcher : c \in plan}

\* desiredPipelineCount is anything from 1 to maxPipelines, as demand has it.
IsPlan(e, plan) ==
  /\ \A c, d \in plan : c.launcher = d.launcher => c = d
  /\ \A m \in Models : \E desired \in 1 .. MaxPipelines[m] : Planned(e, plan, m, desired)

\* Mutant: the plan is trusted.
GivenUpUnchecked(e, c, registered) ==
  SelectPipeline(c.model, registered) = {} \/ c.launcher \in ejected

\* tryAssemble gives up before it reserves: too few active nodes, an ejected
\* driver, or a launcher somebody claimed since the plan was made.
GivenUp(e, c, registered) ==
  \/ SelectPipeline(c.model, registered) = {}
  \/ c.launcher \in ejected
  \/ c.launcher \in ClaimedLaunchers(e, {})

\* allocate's loop from where it stands: on to the next claim that reserves its
\* launcher and sends the POST, or to the end of the pass.  A model of a claim
\* that was given up is dropped for the rest of the pass.
CarryOut(e, plan, queues, registered) ==
  LET failing == {c.model : c \in {d \in plan : GivenUp(e, d, registered)}}
  IN \/ \E c \in plan, dropped \in SUBSET failing :
          /\ c.model \notin dropped /\ ~GivenUp(e, c, registered)
          /\ FreshIds(e, {Manager}) # {}
          /\ \E S \in SelectPipeline(c.model, registered) :
               LET p == NewId(e, {Manager}) IN
               /\ entry' = AddEntry(e, p, c.model, c.launcher, c.curId, S, "assembling")
               /\ tick' = [IdleTick EXCEPT
                             !.phase = "posting", !.id = p,
                             !.plan = {d \in plan \ {c} : d.model \notin dropped}]
          /\ commands' = Send(queues, c.launcher, "POST", c.model, Manager)
     \/ /\ {c.model : c \in plan} \subseteq failing
        /\ entry' = e /\ tick' = IdleTick /\ commands' = queues

NewClaims == {[model |-> m, launcher |-> l, curId |-> TRUE] : m \in Models, l \in listed}

Allocate(e, queues) ==
  \E plan \in SUBSET NewClaims : IsPlan(e, plan) /\ CarryOut(e, plan, queues, servesModel)

\* Mutant: the warm entry is added beside the reservation.
TryAssembleEndsReserved ==
  /\ tick.phase = "posting" /\ reply[Manager] = "ok"
  /\ LET r == entry[tick.id]
     IN /\ servesModel' = [servesModel EXCEPT ![r.launcher] = r.model]
        /\ FreshIds(entry, {Manager}) # {}
        /\ CarryOut(AddEntry(entry, NewId(entry, {Manager}), r.model, r.launcher,
                             r.curId, r.compute, "warm"),
                    tick.plan, commands, servesModel')
  /\ reply' = [reply EXCEPT ![Manager] = "none"]
  /\ UNCHANGED <<cold, req, up, ejected, listed, agent>>

\* POST /pipeline answered 200: the driver is registered, the reservation is
\* swapped for the warm entry, and the loop goes on.
TryAssembleEnds ==
  /\ tick.phase = "posting" /\ reply[Manager] = "ok"
  /\ LET r == entry[tick.id]
         kept == RemoveEntry(entry, tick.id, {})
     IN /\ servesModel' = [servesModel EXCEPT ![r.launcher] = r.model]
        /\ FreshIds(kept, {Manager}) # {}
        /\ CarryOut(AddEntry(kept, NewId(kept, {Manager}), r.model, r.launcher,
                             r.curId, r.compute, "warm"),
                    tick.plan, commands, servesModel')
  /\ reply' = [reply EXCEPT ![Manager] = "none"]
  /\ UNCHANGED <<cold, req, up, ejected, listed, agent>>

\* Mutant: the reservation stays.
TryAssembleFailsReserved ==
  /\ tick.phase = "posting"
  /\ \E queues \in OnAnswer(Manager, {"failed"}) \cup OnTimeout(Manager) :
       CarryOut(entry, {c \in tick.plan : c.model # entry[tick.id].model}, queues, servesModel)
  /\ reply' = [reply EXCEPT ![Manager] = "none"]
  /\ UNCHANGED <<cold, req, servesModel, up, ejected, listed, agent>>

\* POST /pipeline failed: the reservation goes, and the model's claims with it.
TryAssembleFails ==
  /\ tick.phase = "posting"
  /\ \E queues \in OnAnswer(Manager, {"failed"}) \cup OnTimeout(Manager),
        e \in {RemoveEntry(entry, tick.id, {})} :
       CarryOut(e, {c \in tick.plan : c.model # entry[tick.id].model}, queues, servesModel)
  /\ reply' = [reply EXCEPT ![Manager] = "none"]
  /\ UNCHANGED <<cold, req, servesModel, up, ejected, listed, agent>>

-----------------------------------------------------------------------------
\* tearDown of an entry: its launcher is told to stop.  todo and copy are what
\* the loops have left, queues the calls waiting at the launchers.
TearDown(e, c, queues, active, idle, todo, copy) ==
  LET later == {d \in copy : d.rank > c.rank}
      ahead == {d.id : d \in later} \cup {p \in Pooled(e) : e[p].model \in todo}
  IN
  /\ entry' = Forget(e, {d.id : d \in later})
  /\ commands' = Send(queues, e[c.id].launcher, "DELETE", e[c.id].model, Manager)
  /\ tick' = [phase |-> "stopping", active |-> active, idle |-> idle \cap ahead,
              todo |-> todo, rest |-> later, id |-> c.id, plan |-> {}]

\* The two loops of healthCheckAndScaleDown from where they stand: on to the
\* next entry to tear down, or out of them and on to allocate.
HealthCheckAndScaleDown(e, queues, active, idle, todo, rest) ==
  LET first(copy) == FirstDoomed(e, copy, active, idle)
      stops == {m \in todo : first(CopyOf(e, m)) # {}}
      after(m) == {n \in todo : CatalogIndex[n] > CatalogIndex[m]}
  IN \/ \E c \in first(rest) : TearDown(e, c, queues, active, idle, todo, rest)
     \/ /\ first(rest) = {}
        /\ \E m \in stops :
             /\ \A n \in stops : CatalogIndex[m] <= CatalogIndex[n]
             /\ \E c \in first(CopyOf(e, m)) :
                  TearDown(e, c, queues, active, idle, after(m), CopyOf(e, m))
     \/ /\ first(rest) = {} /\ stops = {}
        /\ Allocate(Forget(e, {}), queues)

\* Entries that can be past the idle grace: warm, and none of the requests in
\* flight stamped them (a request is over well within the grace).
MaybeIdle ==
  {p \in Pooled(entry) :
     /\ entry[p].state = "warm"
     /\ \A r \in Requests : req[r].route = "pool" => req[r].node # entry[p].launcher}

\* A pass begins: pooled drivers are heartbeated, the active nodes and the clock
\* are read once.
TickBegins ==
  /\ tick.phase = "idle"
  /\ \E idle \in SUBSET MaybeIdle :
       HealthCheckAndScaleDown(entry, commands, ListActive(servesModel), idle, Models, {})
  /\ UNCHANGED <<cold, req, servesModel, up, ejected, listed, agent, reply>>

\* The launcher answered its DELETE or did not: the entry goes either way, and
\* the loop goes on with the copy and the active set it had.
TearDownEnds ==
  /\ tick.phase = "stopping"
  /\ \E queues \in OnAnswer(Manager, {"ok", "failed"}) \cup OnTimeout(Manager),
        e \in {RemoveEntry(entry, tick.id, HeldIds)} :
       HealthCheckAndScaleDown(e, queues, tick.active, tick.idle, tick.todo, tick.rest)
  /\ reply' = [reply EXCEPT ![Manager] = "none"]
  /\ UNCHANGED <<cold, req, servesModel, up, ejected, listed, agent>>

=============================================================================
