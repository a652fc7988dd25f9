---------------------------- MODULE PoolAllocation ----------------------------
(***************************************************************************)
(* desiredPipelineCount and planAllocations                                *)
(* (coordinator/src/pipeline_pool_manager.ts): who claims which launcher   *)
(* in a pass.  PoolManager takes any plan that satisfies its IsPlan; this  *)
(* module is the loop that computes one.                                   *)
(*                                                                         *)
(* A launcher is claimed under its id and under its endpoint.  The two can *)
(* disagree in what is claimed when the loop begins: a launcher that       *)
(* registered again has a new id, and only its endpoint is in the pool.    *)
(***************************************************************************)
EXTENDS Integers, Sequences, FiniteSets

CONSTANTS
  Catalog,             \* the models of the pool, in the order of the catalog
  Listed,              \* the registered launchers, in the order of the registry
  MaxPipelines,        \* per model
  RequiredNodeCount,   \* per model
  RequestsPerPipeline,
  MaxDemand            \* bound: requests in the demand window

Models == {Catalog[i] : i \in 1 .. Len(Catalog)}
Launchers == {Listed[i] : i \in 1 .. Len(Listed)}
Names == Launchers \X {"id", "endpoint"}
NoModel == "none"

ASSUME AllocationAssumption ==
  /\ \A i, j \in 1 .. Len(Catalog) : i # j => Catalog[i] # Catalog[j]
  /\ \A i, j \in 1 .. Len(Listed) : i # j => Listed[i] # Listed[j]
  /\ \A m \in Models : MaxPipelines[m] \in Nat /\ RequiredNodeCount[m] \in Nat
  /\ RequestsPerPipeline \in Nat \ {0} /\ MaxDemand \in Nat
  /\ NoModel \notin Models

VARIABLES
  demand,      \* snapshot.demand
  current,     \* snapshot.currentCount
  hosts,       \* the models each launcher serves
  backing,     \* claimedLauncherIds, as given
  claimed,     \* the loop's own copy of it
  claims,      \* the plan so far
  todo,        \* under-provisioned models the outer loop has not reached
  visiting,    \* the model it is at, or NoModel
  rest,        \* what the inner loop has left of the model's launchers
  deficit

vars == <<demand, current, hosts, backing, claimed, claims, todo, visiting, rest, deficit>>

-----------------------------------------------------------------------------
Least(x, y) == IF x <= y THEN x ELSE y
Most(x, y) == IF x <= y THEN y ELSE x

\* Math.ceil(d / n)
Ceil(d, n) == (d + n - 1) \div n

DesiredPipelineCount(d, max, required) ==
  IF required <= 1 THEN 0 ELSE Most(1, Least(Ceil(d, RequestsPerPipeline), max))

Desired(m) == DesiredPipelineCount(demand[m], MaxPipelines[m], RequiredNodeCount[m])

\* Mutant: the pipelines a model has already are not counted.
DeficitFromNothing(m) == Desired(m)

Deficit(m) == Desired(m) - current[m]

ListForModel(m) == {l \in Launchers : m \in hosts[l]}

\* Mutant: only the id is looked up.
IsLauncherClaimedById(l) == <<l, "id">> \in claimed

IsLauncherClaimed(l) == <<l, "id">> \in claimed \/ <<l, "endpoint">> \in claimed

\* Mutant: a launcher just handed out stays free.
ClaimedAsBefore(l) == claimed

ClaimedWith(l) == claimed \cup {<<l, "id">>, <<l, "endpoint">>}

Place(l) == CHOOSE i \in 1 .. Len(Listed) : Listed[i] = l

\* The inner loop takes the model's launchers in the order of the registry.
NextLauncher(l) == l \in rest /\ \A k \in rest \ {l} : Place(l) < Place(k)

Position(m) == CHOOSE i \in 1 .. Len(Catalog) : Catalog[i] = m

\* Mutant: the order of the catalog.
BeforeInCatalog(m, n) == Position(m) < Position(n)

\* The order of the sort: by demand, and stable.
Before(m, n) ==
  \/ demand[m] > demand[n]
  \/ demand[m] = demand[n] /\ Position(m) < Position(n)

-----------------------------------------------------------------------------
\* Pools as long as PipelinePool finds them: one entry over their ceiling
\* (CeilingOverrunByOne), and one that a cold start is replacing.
Counts ==
  {f \in [Models -> 0 .. Len(Listed)] : \A m \in Models : f[m] <= MaxPipelines[m] + 2}

Init ==
  /\ demand \in [Models -> 0 .. MaxDemand]
  /\ current \in Counts
  /\ hosts \in [Launchers -> SUBSET Models \ {{}}]
  /\ backing \in {b \in SUBSET Names : \A l \in Launchers :
                    <<l, "id">> \in b => <<l, "endpoint">> \in b}
  /\ claimed = backing
  /\ claims = {}
  /\ todo = {m \in Models : Desired(m) > current[m]}
  /\ visiting = NoModel /\ rest = {} /\ deficit = 0

\* The outer loop turns to the next model.
Visit ==
  /\ visiting = NoModel
  /\ \E m \in todo :
       /\ \A n \in todo \ {m} : Before(m, n)
       /\ visiting' = m
       /\ todo' = todo \ {m}
       /\ deficit' = Deficit(m)
       /\ rest' = ListForModel(m)
  /\ UNCHANGED <<demand, current, hosts, backing, claimed, claims>>

\* The inner loop: a launcher that is free.
Claim ==
  /\ visiting # NoModel /\ deficit > 0
  /\ \E l \in rest :
       /\ NextLauncher(l) /\ ~IsLauncherClaimed(l)
       /\ claimed' = ClaimedWith(l)
       /\ claims' = claims \cup {[model |-> visiting, launcher |-> l]}
       /\ rest' = rest \ {l}
  /\ deficit' = deficit - 1
  /\ UNCHANGED <<demand, current, hosts, backing, todo, visiting>>

\* The inner loop: a launcher that is taken.
Skip ==
  /\ visiting # NoModel /\ deficit > 0
  /\ \E l \in rest :
       /\ NextLauncher(l) /\ IsLauncherClaimed(l)
       /\ rest' = rest \ {l}
  /\ UNCHANGED <<demand, current, hosts, backing, claimed, claims, todo, visiting, deficit>>

\* The inner loop ends: the model has what it wanted, or there is no more.
Leave ==
  /\ visiting # NoModel
  /\ deficit <= 0 \/ rest = {}
  /\ visiting' = NoModel /\ rest' = {} /\ deficit' = 0
  /\ UNCHANGED <<demand, current, hosts, backing, claimed, claims, todo>>

Next == Visit \/ Claim \/ Skip \/ Leave

Spec == Init /\ [][Next]_vars

-----------------------------------------------------------------------------
Done == todo = {} /\ visiting = NoModel
ClaimsOf(m) == {c \in claims : c.model = m}
Free(l) == <<l, "id">> \notin backing /\ <<l, "endpoint">> \notin backing
Short(m) == current[m] + Cardinality(ClaimsOf(m)) < Desired(m)

(***************************************************************************)
(* No preemption: a launcher that backs a pipeline, under its id or under  *)
(* its endpoint, is handed to nobody.  (pipeline_pool_manager.ts:91-95.)   *)
(***************************************************************************)
NoPreemption == \A c \in claims : Free(c.launcher)

(***************************************************************************)
(* No double claim: no launcher is handed out twice.                       *)
(* (pipeline_pool_manager.ts:96-98.)                                       *)
(***************************************************************************)
NoDoubleClaim == \A c, d \in claims : c.launcher = d.launcher => c = d

(***************************************************************************)
(* What PoolManager takes a plan to be, for the desired counts it allows:  *)
(* no model past what it wants, and none short of it while a launcher that *)
(* hosts it stays free.  (pipeline_pool_manager.ts:71-82, 106-135.)        *)
(***************************************************************************)
Planned ==
  /\ \A m \in Models : ClaimsOf(m) # {} =>
       /\ RequiredNodeCount[m] > 1
       /\ \A c \in ClaimsOf(m) : m \in hosts[c.launcher]
       /\ current[m] + Cardinality(ClaimsOf(m)) <= Most(1, MaxPipelines[m])
       /\ current[m] + Cardinality(ClaimsOf(m)) <= Desired(m)
  /\ Done => \A m \in Models : Short(m) =>
       {l \in Launchers : m \in hosts[l] /\ Free(l)} \subseteq {c.launcher : c \in claims}

(***************************************************************************)
(* The busiest model has first refusal: when a model is left short, no     *)
(* model with less demand got a launcher it could have used.               *)
(* (pipeline_pool_manager.ts:100-104.)                                     *)
(***************************************************************************)
BusiestFirst ==
  Done => \A m, n \in Models :
            Short(m) /\ demand[n] < demand[m]
              => \A c \in ClaimsOf(n) : m \notin hosts[c.launcher]

=============================================================================
