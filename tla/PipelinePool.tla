----------------------------- MODULE PipelinePool -----------------------------
(***************************************************************************)
(* The coordinator's pipeline pool with everything that acts on it: the    *)
(* requests and the cold starts they trigger, the background loop, the     *)
(* launchers that host the agents, and the soft-state registries.          *)
(***************************************************************************)
EXTENDS Generate, PoolManager, LauncherHost, Registries

Init ==
  /\ entry = [p \in PipelineIds |-> NoEntry]
  /\ cold = [m \in Models |-> NoColdStart]
  /\ tick = IdleTick
  /\ req = [r \in Requests |-> NoRequest]
  /\ servesModel = [l \in Launchers |-> NoModel]
  /\ up = Nodes
  /\ ejected = {}
  /\ listed = Launchers
  /\ agent = [l \in Launchers |-> NoModel]
  /\ commands = [l \in Launchers |-> <<>>]
  /\ reply = [c \in Callers |-> "none"]

ColdStartSteps(m) ==
  ColdStartAssembled(m) \/ ColdStartStopped(m) \/ ColdStartFailed(m)

RunOnce == TickBegins \/ TearDownEnds \/ TryAssembleEnds \/ TryAssembleFails

Routing(r) ==
  \/ \E m \in Models :
       GenerateFromPool(r, m) \/ GenerateFromCold(r, m) \/ ChatFromRegistry(r, m)
  \/ Completed(r) \/ ForwardFailed(r)

Environment ==
  \/ \E l \in Launchers :
       \/ CallLost(l) \/ AgentDies(l) \/ DriverExpires(l)
       \/ DriverEjected(l) \/ DriverRestored(l)
       \/ LauncherLapses(l) \/ LauncherRegisters(l)
  \/ \E n \in Nodes : NodeLeaves(n) \/ NodeJoins(n)

Next ==
  \/ \E m \in Models : ColdStartSteps(m)
  \/ RunOnce
  \/ \E r \in Requests : Routing(r)
  \/ \E l \in Launchers : HandleCall(l)
  \/ Environment

Spec == Init /\ [][Next]_vars

(***************************************************************************)
(* The background loop is a timer that never stops; a resumed await runs   *)
(* sooner or later, for its answer or for its timeout; a launcher works    *)
(* off its calls, each of which ends (waitForAgentHealthy gives up); a     *)
(* forward ends.  Nothing is assumed of requests, of registrations or of   *)
(* faults.                                                                 *)
(***************************************************************************)
Fairness ==
  /\ WF_vars(RunOnce)
  /\ \A m \in Models : WF_vars(ColdStartSteps(m))
  /\ \A l \in Launchers : WF_vars(HandleCall(l))
  /\ \A r \in Requests : WF_vars(Completed(r) \/ ForwardFailed(r))

FairSpec == Spec /\ Fairness

-----------------------------------------------------------------------------
(***************************************************************************)
(* Every variable holds what the code can put there.                       *)
(***************************************************************************)
TypeOK ==
  /\ entry \in [PipelineIds -> PooledPipeline \cup {NoEntry}]
  /\ cold \in [Models -> ColdStartState]
  /\ tick \in Tick
  /\ req \in [Requests -> RequestState]
  /\ servesModel \in [Launchers -> Models \cup {NoModel}]
  /\ up \in SUBSET Nodes
  /\ ejected \in SUBSET Launchers
  /\ listed \in SUBSET Launchers
  /\ agent \in [Launchers -> Models \cup {NoModel}]
  /\ commands \in [Launchers -> Seq(Command)]
  /\ reply \in [Callers -> {"none", "ok", "failed"}]

-----------------------------------------------------------------------------
On(l) == {p \in Pooled(entry) : entry[p].launcher = l}

Reservations == {p \in Pooled(entry) : entry[p].state = "assembling"}

(***************************************************************************)
(* A launcher runs one agent, so it never backs entries of two models, nor *)
(* two entries of one model: the only sharing is a cold start's            *)
(* reservation on the launcher of the entry it is about to replace.        *)
(* (claimedLauncherIds and the checks at commit time in server.ts and      *)
(* pipeline_pool_manager.ts.)                                              *)
(***************************************************************************)
LauncherExclusive ==
  \A l \in Launchers : \A p, q \in On(l) :
    p # q => \E m \in Models : {p, q} = {cold[m].resv, cold[m].tracked}

(***************************************************************************)
(* Every reservation belongs to exactly one assembly in flight, which has  *)
(* the model and removes it; a reservation nobody owns would keep its      *)
(* launcher claimed and its model from ever assembling again.              *)
(***************************************************************************)
ReservationsOwned ==
  LET cold_(p) == {m \in Models : cold[m].phase # "idle" /\ cold[m].resv = p}
      tick_(p) == {c \in {Manager} : tick.phase = "posting" /\ tick.id = p}
  IN /\ \A p \in Reservations : Cardinality(cold_(p) \cup tick_(p)) = 1
     /\ \A m \in Models : cold[m].phase # "idle" =>
          cold[m].resv \in Reservations /\ entry[cold[m].resv].model = m
     /\ tick.phase = "posting" => tick.id \in Reservations

(***************************************************************************)
(* What a warm entry's launcher is running is the entry's model, or        *)
(* nothing: no late, abandoned or reordered call puts other weights there. *)
(* (The corruption the comments on claimedLauncherIds and on both          *)
(* reservations describe.)                                                 *)
(***************************************************************************)
WarmServesOwnModel ==
  \A p \in Pooled(entry) :
    entry[p].state = "warm" => agent[entry[p].launcher] \in {entry[p].model, NoModel}

(***************************************************************************)
(* A /generate request routed through the pool is answered with its own    *)
(* model's weights or fails.                                               *)
(***************************************************************************)
PoolRouteServesModel ==
  \A r \in Requests : req[r].route = "pool" => req[r].got \in {req[r].model, NoModel}

(***************************************************************************)
(* The pool implements LauncherLease.  A launcher is held for the model of *)
(* the entries on it; the hold is ending while the background loop awaits  *)
(* the teardown of the only one.                                           *)
(***************************************************************************)
LeaseOf(l) ==
  IF On(l) = {} THEN [holder |-> NoModel, ending |-> FALSE]
  ELSE [holder |-> CHOOSE m \in Models : \E p \in On(l) : entry[p].model = m,
        ending |-> tick.phase = "stopping" /\ On(l) = {tick.id}]

Lease == INSTANCE LauncherLease WITH lease <- [l \in Launchers |-> LeaseOf(l)]
LeaseSpec == Lease!Spec

(***************************************************************************)
(* Two assemblies never race for one launcher: at most one POST somebody   *)
(* still awaits is on its way to it or running there, so none replaces the *)
(* weights another is waiting for.  (The re-check at commit time,          *)
(* pipeline_pool_manager.ts:520, and the reservation that has no await     *)
(* before it, server.ts:373.)                                              *)
(***************************************************************************)
AssembliesNeverRace ==
  \A l \in Launchers : \A i, j \in DOMAIN commands[l] :
    /\ commands[l][i].op = "POST" /\ commands[l][i].by # NoProc
    /\ commands[l][j].op = "POST" /\ commands[l][j].by # NoProc
    => i = j

(***************************************************************************)
(* A model's pool, the entry its cold start replaces aside, with the       *)
(* claims the pass has yet to carry out, is past maxPipelines by one entry *)
(* at most.  Every place that adds an entry consults the ceiling for       *)
(* itself: the plan when it is made (pipeline_pool_manager.ts:439), a cold *)
(* start when it begins (server.ts:325); none when its entry is added.     *)
(* The one is the entry of a cold start that found the pool empty while    *)
(* the pass was still carrying out a plan that filled it.                  *)
(***************************************************************************)
Standing(e, m) == GetPool(e, m) \ {cold[m].tracked}
ClaimsFor(plan, m) == {c \in plan : c.model = m}

CeilingOverrunByOne ==
  \A m \in Models :
    Cardinality(Standing(entry, m)) + Cardinality(ClaimsFor(tick.plan, m)) <= MaxPipelines[m] + 1

-----------------------------------------------------------------------------
(***************************************************************************)
(* A failed entry does not stay in its pool: a pass tears it down or a     *)
(* cold start replaces it, however passes, cold starts and lost calls      *)
(* interleave.  (pipeline_pool_manager.ts:360-399, server.ts:440-449.)     *)
(***************************************************************************)
FailedReaped ==
  \A p \in PipelineIds :
    (p \in Pooled(entry) /\ entry[p].state = "failed")
      ~> ~(p \in Pooled(entry) /\ entry[p].state = "failed")

(***************************************************************************)
(* A request that joined a cold start is not left waiting: every cold      *)
(* start ends and resumes all who awaited it.  (ensurePipelineReady's      *)
(* finally, server.ts:223.)                                                *)
(***************************************************************************)
WaitingResumed ==
  \A r \in Requests : req[r].phase = "waiting" ~> req[r].phase # "waiting"

(***************************************************************************)
(* A reservation is never the last word: its launcher ends up with a warm  *)
(* entry or free.  (Both catch blocks and both swaps.)                     *)
(***************************************************************************)
ReservationsEnd ==
  \A l \in Launchers :
    (\E p \in On(l) : entry[p].state = "assembling")
      ~> ~(\E p \in On(l) : entry[p].state = "assembling")

=============================================================================
