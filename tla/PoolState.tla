------------------------------ MODULE PoolState ------------------------------
(***************************************************************************)
(* The state the coordinator's pipeline pool is made of, and the operators *)
(* on it that several handlers share.  The coordinator is one Node.js      *)
(* event loop: what runs between two awaits is one step here, and every    *)
(* await is a point where any other handler may run.                       *)
(*                                                                         *)
(*   coordinator/src/pipeline_tracker.ts   entry                           *)
(*   coordinator/src/registry.ts           servesModel, up                 *)
(*   coordinator/src/reputation_tracker.ts ejected                         *)
(*   coordinator/src/launcher_registry.ts  listed                          *)
(*   coordinator/src/server.ts             cold, req                       *)
(*   coordinator/src/pipeline_pool_manager.ts  tick                        *)
(*   core/src/launcher_main.cpp            agent, commands, reply          *)
(*                                                                         *)
(* The cold starts, the background reconciliation, the requests and the    *)
(* launchers are modules of their own over this state; PipelinePool puts   *)
(* them together.                                                          *)
(***************************************************************************)
EXTENDS Integers, Sequences, FiniteSets

CONSTANTS
  Models,            \* catalog ids with requiredNodeCount > 1
  Launchers,         \* launcher endpoints; the driver a launcher spawns listens
                     \* on a fixed port of it, so this also names the driver node
  Nodes,             \* compute nodes that register and ping for themselves
  Serves,            \* [Launchers -> SUBSET Models]: LauncherInfo.servesModels
  CatalogIndex,      \* [Models -> Nat]: a model's place in the catalog
  RequiredNodeCount, \* [Models -> Nat]
  MaxPipelines,      \* [Models -> Nat]
  PipelineIds,       \* the randomUUIDs of pool entries
  Requests,          \* inference requests served at the same time
  MaxOrphans,        \* bound: see OnTimeout
  Faults,            \* bound: the kinds of fault the environment may have
  Manager,           \* the background loop, as a caller of launchers
  NoProc, NoModel, NoLauncher, NoId, NoEntry

NodeIds == Launchers \cup Nodes
Callers == Models \cup {Manager}

(***************************************************************************)
(* multiPipelineModelIds() lists exactly the models that need more than    *)
(* one node, and maxPipelines() never answers less than one.  What exists  *)
(* at one time, entries and registrations, is finite.                      *)
(***************************************************************************)
ASSUME CatalogAssumption ==
  /\ RequiredNodeCount \in [Models -> Nat]
  /\ \A m \in Models : RequiredNodeCount[m] > 1
  /\ MaxPipelines \in [Models -> Nat]
  /\ \A m \in Models : MaxPipelines[m] >= 1
  /\ CatalogIndex \in [Models -> Nat]
  /\ Serves \in [Launchers -> SUBSET Models]
  /\ IsFiniteSet(PipelineIds) /\ IsFiniteSet(Launchers)

(***************************************************************************)
(* The sentinels are none of the values they stand in for.                 *)
(***************************************************************************)
ASSUME SentinelAssumption ==
  /\ Manager \notin Models /\ NoProc \notin Callers
  /\ NoModel \notin Models /\ NoLauncher \notin Launchers
  /\ NoId \notin PipelineIds
  /\ Launchers \cap Nodes = {}

VARIABLES
  entry,        \* pool entries by pipelineId
  cold,         \* the cold start in flight for each model (coldStartsInFlight)
  tick,         \* the background loop's pass, if one is running
  req,          \* inference requests
  servesModel,  \* model each launcher's driver is actively registered for
  up,           \* compute nodes that are active and trusted
  ejected,      \* launchers whose driver's nodeId is below the trust threshold
  listed,       \* launchers with an unexpired registration
  agent,        \* model whose weights each launcher's agent is serving
  commands,     \* calls waiting at each launcher, oldest first
  reply         \* the answer each caller has yet to process

vars == <<entry, cold, tick, req, servesModel, up, ejected, listed,
          agent, commands, reply>>

-----------------------------------------------------------------------------
(***************************************************************************)
(* pipeline_tracker.ts.  A model's pool is an array: pos is an entry's     *)
(* index in it, so pool[0] is the entry at 0.  An entry spliced out of its *)
(* array while the background loop still holds a copy of that array keeps  *)
(* its fields, with pos = -1, until the loop lets go of it.                *)
(*                                                                         *)
(* launcherId only ever meets an equality test, so an entry records        *)
(* whether its launcherId is still the one its launcher is registered      *)
(* under (curId).  The driver of an entry is its launcher's; a reservation *)
(* has none, and its compute field is the selection its assembly awaits    *)
(* with.                                                                   *)
(***************************************************************************)
PooledPipeline ==
  [model : Models, launcher : Launchers, curId : BOOLEAN,
   compute : SUBSET NodeIds,
   state : {"warm", "assembling", "failed"},
   pos : Nat \cup {-1}]

ASSUME EntryAssumption == NoEntry \notin PooledPipeline

Pooled(e) == {p \in PipelineIds : e[p] # NoEntry /\ e[p].pos >= 0}

GetPool(e, m) == {p \in Pooled(e) : e[p].model = m}

\* addEntry pushes at the end of the model's array.
AddEntry(e, p, m, l, cur, compute, state) ==
  [q \in PipelineIds |->
     IF q = p THEN [model |-> m, launcher |-> l, curId |-> cur, compute |-> compute,
                    state |-> state, pos |-> Cardinality(GetPool(e, m))]
     ELSE e[q]]

\* removeEntry splices: the entries behind it move up.  A pipelineId that is
\* not there any more is ignored.
RemoveEntry(e, p, held) ==
  IF p \notin Pooled(e) THEN e
  ELSE [q \in PipelineIds |->
          IF q = p THEN IF p \in held THEN [e[p] EXCEPT !.pos = -1] ELSE NoEntry
          ELSE IF q \in GetPool(e, e[p].model) /\ e[q].pos > e[p].pos
               THEN [e[q] EXCEPT !.pos = e[q].pos - 1]
               ELSE e[q]]

\* markEntryFailed, for every entry of a set that is still in its pool.
MarkEntryFailed(e, S) ==
  [q \in PipelineIds |-> IF q \in S \cap Pooled(e)
                         THEN [e[q] EXCEPT !.state = "failed"]
                         ELSE e[q]]

-----------------------------------------------------------------------------
(***************************************************************************)
(* The background loop's pass.                                             *)
(***************************************************************************)
Rank == [id : PipelineIds, rank : Int]
Claim == [model : Models, launcher : Launchers, curId : BOOLEAN]

Tick ==
  [phase : {"idle", "stopping", "posting"},
   active : SUBSET NodeIds,      \* activeNodeIds, read once per pass
   idle : SUBSET PipelineIds,    \* entries past the idle grace at the pass's now
   todo : SUBSET Models,         \* models whose pool is not copied yet
   rest : SUBSET Rank,           \* what is left of the current model's copy
   id : PipelineIds \cup {NoId}, \* the entry being torn down, or the reservation
   plan : SUBSET Claim]          \* claims not carried out yet

IdleTick == [phase |-> "idle", active |-> {}, idle |-> {}, todo |-> {},
             rest |-> {}, id |-> NoId, plan |-> {}]

\* Entries the pass still holds in its copy of an array.
HeldIds == {c.id : c \in tick.rest}

(***************************************************************************)
(* A cold start of a model: what assemblePipeline's frame keeps across its *)
(* awaits.  resv is the reservation, tracked the entry it replaces.        *)
(***************************************************************************)
ColdStartState ==
  [phase : {"idle", "posting", "stopping"},
   resv : PipelineIds \cup {NoId},
   tracked : PipelineIds \cup {NoId},
   old : Launchers \cup {NoLauncher},  \* tracked.launcherEndpoint
   sameId : BOOLEAN]      \* tracked.launcherId === launcher.launcherId

NoColdStart == [phase |-> "idle", resv |-> NoId, tracked |-> NoId,
                old |-> NoLauncher, sameId |-> FALSE]

(***************************************************************************)
(* An inference request.  got is what the agent it was connected to is     *)
(* serving, NoModel when nothing answers there.                            *)
(***************************************************************************)
RequestState ==
  [phase : {"idle", "waiting", "forwarded"},
   model : Models \cup {NoModel},
   node : Launchers \cup {NoLauncher},
   got : Models \cup {NoModel},
   route : {"none", "pool", "registry", "chat"}]

NoRequest == [phase |-> "idle", model |-> NoModel, node |-> NoLauncher,
              got |-> NoModel, route |-> "none"]

Command == [op : {"POST", "DELETE"}, model : Models, by : Callers \cup {NoProc}]

-----------------------------------------------------------------------------
\* The pipelineIds no entry of heap e has and no frame but those of the callers in
\* done still refers to.
FreshIds(e, done) ==
  {p \in PipelineIds :
     /\ e[p] = NoEntry
     /\ Manager \in done \/ p \notin tick.idle \cup {tick.id}
     /\ \A m \in Models \ done : p # cold[m].tracked}

\* randomUUID: one of them.  PipelineIds bounds how many are in use at once.
NewId(e, done) == CHOOSE p \in FreshIds(e, done) : TRUE

\* registry.listActive(reputation): the drivers by their launcher's name.
\* registered is servesModel, or what a step has made of it.
ActiveDrivers(registered) == {l \in Launchers \ ejected : registered[l] # NoModel}
ListActive(registered) == ActiveDrivers(registered) \cup up

\* selectNode: an active, trusted node registered for the model, the best of them
\* by reputation; which one that is, is left open.
SelectNode(m, registered) == {l \in Launchers \ ejected : registered[l] = m}

\* selectPipeline's computeContributors: any requiredNodeCount - 1 of the active
\* nodes, whichever way they rank, and none unless there are requiredNodeCount.
SelectPipeline(m, registered) ==
  LET nodes == ListActive(registered)
  IN IF Cardinality(nodes) < RequiredNodeCount[m] THEN {}
     ELSE {S \in SUBSET nodes : Cardinality(S) = RequiredNodeCount[m] - 1}

\* listForModel
ListForModel(m) == {l \in Launchers : l \in listed /\ m \in Serves[l]}

\* Mutant: only warm entries claim their launcher.
WarmLaunchers(e, exclude) ==
  {e[p].launcher : p \in {q \in Pooled(e) \ exclude : e[q].state = "warm"}}

\* claimedLauncherIds: entries count whatever their state, except the one entry
\* the caller is about to replace.  An entry is matched by launcherId or by
\* endpoint, and the endpoint decides.
ClaimedLaunchers(e, exclude) == {e[p].launcher : p \in Pooled(e) \ exclude}

-----------------------------------------------------------------------------
(***************************************************************************)
(* Calls to launchers.  An awaited call ends for its caller c with an      *)
(* answer, or with AbortSignal.timeout, which leaves the call at the       *)
(* launcher.  An answer that is there but not yet processed can lose to    *)
(* the timer.                                                              *)
(***************************************************************************)

\* A call to a launcher joins the calls waiting there.
Send(queues, l, op, m, by) ==
  [queues EXCEPT ![l] = Append(queues[l], [op |-> op, model |-> m, by |-> by])]

\* The calls still waiting once caller c has processed an answer of this kind.
OnAnswer(c, results) == IF reply[c] \in results THEN {commands} ELSE {}

\* The calls still waiting once caller c has given up.  MaxOrphans bounds the
\* abandoned calls one launcher has still to run.
Orphaned(c, l) ==
  [i \in DOMAIN commands[l] |->
     IF commands[l][i].by = c THEN [commands[l][i] EXCEPT !.by = NoProc]
     ELSE commands[l][i]]

OnTimeout(c) ==
  LET after == [l \in Launchers |-> Orphaned(c, l)]
      orphans(l) == {i \in DOMAIN after[l] : after[l][i].by = NoProc}
  IN IF \A l \in Launchers : Cardinality(orphans(l)) <= MaxOrphans THEN {after} ELSE {}

=============================================================================
