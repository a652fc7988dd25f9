------------------------------- MODULE PoolClock -------------------------------
(***************************************************************************)
(* The background loop of PipelinePoolManager on a clock.  PipelinePool    *)
(* lets a driver's registration expire at any moment; here registrations   *)
(* and use have ages, launcher calls take time, and the timer fires on     *)
(* its interval and skips while a pass runs.  The question is whether a    *)
(* pass, which awaits its calls one after the other, comes round often     *)
(* enough: only its heartbeats keep the drivers of idle pipelines          *)
(* registered, and only it takes failed and idle pipelines down.           *)
(*                                                                         *)
(* Each model has at most one pipeline, on a launcher of its own: who gets *)
(* a launcher is PipelinePool's subject.  Models are 1..ModelCount, in the *)
(* order of the catalog.  Times are ages in ticks, saturated where no      *)
(* comparison tells them apart any more.                                   *)
(***************************************************************************)
EXTENDS Integers, FiniteSets

CONSTANTS
  ModelCount,
  Interval,    \* DEFAULT_INTERVAL_MS
  MaxLate,     \* how late the timer may fire
  NodeTimeout, \* NodeRegistry's timeoutMs
  IdleGrace,   \* DEFAULT_IDLE_GRACE_MS
  SlowestCall, \* the longest a launcher takes for a call
  MaxFaults    \* bound: agents that die, compute nodes that lapse

Models == 1..ModelCount

\* What a pass may still spend when a pipeline enters the pool: to stop and to
\* assemble one of each other model, behind a stop of the one it replaced.
\* Heartbeats are this and an interval apart at most.  Whatever a pass missed
\* is done when the next has stopped its last pipeline.
OnePass == (2 * ModelCount - 1) * SlowestCall
HeartbeatGap == OnePass + Interval + MaxLate
Response == HeartbeatGap + ModelCount * SlowestCall

ASSUME CallsAreShort ==
  /\ ModelCount \in Nat \ {0} /\ MaxFaults \in Nat
  /\ SlowestCall \in Nat /\ IdleGrace \in Nat
  /\ Interval \in Nat \ {0} /\ MaxLate \in Nat /\ NodeTimeout \in Nat
  /\ HeartbeatGap <= NodeTimeout

VARIABLES
  entry,   \* the pipeline of each model
  starting, \* models whose cold start awaits its launcher, with its reservation
  seen,    \* age of its driver's registration, expired above NodeTimeout
  used,    \* age of its lastUsedAt
  failing, \* how long it has been marked failed
  alive,   \* whether its agent runs
  sound,   \* whether its compute nodes are registered and all are trusted
  timer,   \* since setInterval last fired
  pass,    \* the frame of runOnce
  excused, \* models whose pipeline was new or unsound since the pass began
  faults

vars ==
  <<entry, starting, seen, used, failing, alive, sound, timer, pass, excused, faults>>

Idle == [phase |-> "idle", at |-> 0, age |-> 0, active |-> {}, idle |-> {}, todo |-> {}]

Older(age, limit) == IF age > limit THEN age ELSE age + 1
Oldest == IdleGrace + Response

Init ==
  /\ entry = [m \in Models |-> "none"]
  /\ starting = {}
  /\ seen = [m \in Models |-> NodeTimeout + 1]
  /\ used = [m \in Models |-> 0]
  /\ failing = [m \in Models |-> 0]
  /\ alive = [m \in Models |-> FALSE]
  /\ sound = [m \in Models |-> TRUE]
  /\ timer = 0
  /\ pass = Idle
  /\ excused = {}
  /\ faults = 0

--------------------------------------------------------------------------------
(* Time. *)

\* Mutant: the interval ties with the timeout, as it once did.
PeriodOfTimeout == NodeTimeout

Period == Interval

\* The timer fires, and a call that took its time ends, before it is too late.
TimePasses ==
  /\ timer < Period + MaxLate
  /\ pass.phase # "idle" => pass.age < SlowestCall
  /\ seen' = [m \in Models |-> Older(seen[m], NodeTimeout)]
  /\ used' = [m \in Models |-> IF entry[m] = "warm" THEN Older(used[m], Oldest) ELSE 0]
  /\ failing' = [m \in Models |-> IF entry[m] = "failed" THEN Older(failing[m], Response)
                                  ELSE 0]
  /\ timer' = timer + 1
  /\ pass' = IF pass.phase = "idle" THEN pass ELSE [pass EXCEPT !.age = @ + 1]
  /\ UNCHANGED <<entry, starting, alive, sound, excused, faults>>

--------------------------------------------------------------------------------
(* A pass. *)

\* Mutant: a failed pipeline is left to expire.
DoomedUnlessFailed(e, m, active, idle) ==
  e[m] \in {"warm", "failed"} /\ (m \notin active \/ (e[m] = "warm" /\ m \in idle))

Doomed(e, m, active, idle) ==
  /\ e[m] \in {"warm", "failed"}
  /\ m \notin active \/ e[m] = "failed" \/ m \in idle

FirstOf(S) == CHOOSE m \in S : \A n \in S : m <= n

\* allocate from where it stands: models whose launcher or nodes are missing are
\* passed over, one a cold start has reserved or pooled is given up.
Allocate(e, plan) ==
  \E skipped \in SUBSET plan :
    LET rest == {m \in plan \ (skipped \cup starting) : e[m] = "none"}
    IN  IF rest = {} THEN entry' = e /\ pass' = Idle
        ELSE \E m \in rest :
               /\ entry' = [e EXCEPT ![m] = "assembling"]
               /\ pass' = [Idle EXCEPT !.phase = "posting", !.at = m,
                                       !.todo = rest \ {m}]

\* healthCheckAndScaleDown from where it stands, on to the next pipeline to
\* take down, or to allocate.
HealthCheckAndScaleDown(e, active, idle, todo) ==
  LET doomed == {m \in todo : Doomed(e, m, active, idle)}
      m == FirstOf(doomed)
  IN  IF doomed = {} THEN Allocate(e, {n \in Models : e[n] = "none"})
      ELSE /\ entry' = e
           /\ pass' = [phase |-> "stopping", at |-> m, age |-> 0, active |-> active,
                       idle |-> idle, todo |-> {n \in todo : n > m}]

\* registry.heartbeat of each pooled driver: what has expired stays so.
Heard(m) == IF entry[m] \in {"warm", "failed"} /\ seen[m] <= NodeTimeout THEN 0 ELSE seen[m]

ActiveAfterHeartbeats == {m \in Models : seen[m] <= NodeTimeout /\ sound[m]}

\* Mutant: the pass takes its own heartbeat for use.
IdleModelsNone == {}

IdleModels == {m \in Models : entry[m] = "warm" /\ used[m] > IdleGrace}

TimerFires ==
  /\ timer >= Period
  /\ timer' = 0
  /\ IF pass.phase # "idle" THEN UNCHANGED <<entry, seen, pass, excused>>
     ELSE /\ seen' = [m \in Models |-> Heard(m)]
          /\ excused' = {m \in Models : ~sound[m]}
          /\ HealthCheckAndScaleDown(entry, ActiveAfterHeartbeats, IdleModels, Models)
  /\ UNCHANGED <<starting, used, failing, alive, sound, faults>>

\* The DELETE is answered or given up: the pipeline goes.  If a cold start has
\* replaced it meanwhile ("late") the new one stays in the pool; its agent is
\* gone if the DELETE came behind the POST.
TearDownEnds ==
  /\ \/ /\ pass.phase = "stopping"
        /\ alive' = [alive EXCEPT ![pass.at] = FALSE]
        /\ HealthCheckAndScaleDown([entry EXCEPT ![pass.at] = "none"],
                                   pass.active, pass.idle, pass.todo)
     \/ /\ pass.phase = "late"
        /\ alive' \in {alive, [alive EXCEPT ![pass.at] = FALSE]}
        /\ HealthCheckAndScaleDown(entry, pass.active, pass.idle, pass.todo)
  /\ UNCHANGED <<starting, seen, used, failing, sound, timer, excused, faults>>

\* The driver is registered and the pipeline pooled, by a pass or a cold start.
Pools(m, up) ==
  /\ seen' = [seen EXCEPT ![m] = 0]
  /\ used' = [used EXCEPT ![m] = 0]
  /\ failing' = [failing EXCEPT ![m] = 0]
  /\ alive' = [alive EXCEPT ![m] = up]
  /\ excused' = excused \cup {m}

TryAssembleEnds ==
  /\ pass.phase = "posting"
  /\ Pools(pass.at, TRUE)
  /\ Allocate([entry EXCEPT ![pass.at] = "warm"], pass.todo)
  /\ UNCHANGED <<starting, sound, timer, faults>>

WithoutReservation(m) == [entry EXCEPT ![m] = "none"]

TryAssembleFails ==
  /\ pass.phase = "posting"
  /\ Allocate(WithoutReservation(pass.at), pass.todo)
  /\ UNCHANGED <<starting, seen, used, failing, alive, sound, timer, excused, faults>>

--------------------------------------------------------------------------------
(* Requests and faults. *)

\* Routing asks for the driver alone.  Where a pipeline is unsound the driver may
\* be ejected, and the request starts a cold start, or a compute node be missing,
\* and the request tries.
Usable(m) == entry[m] = "warm" /\ seen[m] <= NodeTimeout

\* A request over the warm pool: it stamps the pipeline and heartbeats its driver;
\* a part that is gone fails the forward, and the pipeline is marked.
Generate(m) ==
  /\ Usable(m)
  /\ used' = [used EXCEPT ![m] = 0]
  /\ seen' = [seen EXCEPT ![m] = 0]
  /\ \/ alive[m] /\ entry' = entry
     \/ ~(alive[m] /\ sound[m]) /\ entry' = [entry EXCEPT ![m] = "failed"]
  /\ pass' = [pass EXCEPT !.idle = @ \ {m}]
  /\ UNCHANGED <<starting, failing, alive, sound, timer, excused, faults>>

\* A request finds nothing usable and nobody assembling: it reserves the
\* launcher and posts.  What it found, if anything, is what it will replace.
ColdStartBegins(m) ==
  /\ ~(Usable(m) /\ sound[m]) /\ entry[m] # "assembling" /\ m \notin starting
  /\ starting' = starting \cup {m}
  /\ UNCHANGED <<entry, seen, used, failing, alive, sound, timer, pass, excused, faults>>

\* The driver is registered, what was found is dropped if a pass did not take
\* it down, and the new pipeline is pooled; its agent is gone already if a stop
\* came behind the POST.  A pass that awaits the stop of the dropped one, or had
\* it down as idle, has nothing to remove any more; the compute nodes of the new
\* one need not be among those it took for active.
ColdStartEnds(m) ==
  /\ m \in starting
  /\ starting' = starting \ {m}
  /\ \E up \in BOOLEAN : Pools(m, up)
  /\ entry' = [entry EXCEPT ![m] = "warm"]
  /\ \E active \in {pass.active, pass.active \ {m}} :
       pass' = [pass EXCEPT !.active = active, !.idle = @ \ {m},
                            !.phase = IF pass.phase = "stopping" /\ pass.at = m THEN "late" ELSE @]
  /\ UNCHANGED <<sound, timer, faults>>

\* The launcher refuses or is not reached: what was found is marked failed.
ColdStartFails(m) ==
  /\ m \in starting
  /\ starting' = starting \ {m}
  /\ entry' = IF entry[m] = "warm" THEN [entry EXCEPT ![m] = "failed"] ELSE entry
  /\ UNCHANGED <<seen, used, failing, alive, sound, timer, pass, excused, faults>>

Fault == faults < MaxFaults /\ faults' = faults + 1

AgentDies(m) ==
  /\ alive[m] /\ Fault
  /\ alive' = [alive EXCEPT ![m] = FALSE]
  /\ UNCHANGED <<entry, starting, seen, used, failing, sound, timer, pass, excused>>

\* A compute node stops pinging, or a node of the pipeline is ejected.
PipelineBreaks(m) ==
  /\ sound[m] /\ Fault
  /\ sound' = [sound EXCEPT ![m] = FALSE]
  /\ excused' = excused \cup {m}
  /\ UNCHANGED <<entry, starting, seen, used, failing, alive, timer, pass>>

PipelineMends(m) ==
  /\ ~sound[m]
  /\ sound' = [sound EXCEPT ![m] = TRUE]
  /\ UNCHANGED <<entry, starting, seen, used, failing, alive, timer, pass, excused, faults>>

Next ==
  \/ TimePasses \/ TimerFires
  \/ TearDownEnds \/ TryAssembleEnds \/ TryAssembleFails
  \/ \E m \in Models :
       \/ Generate(m) \/ ColdStartBegins(m) \/ ColdStartEnds(m) \/ ColdStartFails(m)
       \/ AgentDies(m) \/ PipelineBreaks(m) \/ PipelineMends(m)

Spec == Init /\ [][Next]_vars

--------------------------------------------------------------------------------
Stopping(m) == pass.phase = "stopping" /\ pass.at = m

\* Provided calls to launchers are short enough for a pass and an interval to
\* fit into the registry's timeout (CallsAreShort), a pass takes no pipeline down
\* that was in the pool when it began and has been in order since, however long
\* nobody uses it within the grace: a driver is never lost for want of
\* heartbeats.  One that was pooled while the pass ran is excused: the code does
\* take it down (pipeline_pool_manager.ts:357), and a stop meant for the one it
\* replaced may kill its agent.
HealthyStays ==
  [][\A m \in Models : Stopping(m)' /\ ~Stopping(m) =>
       entry[m] = "failed" \/ used[m] > IdleGrace \/ m \in excused']_vars

\* A pipeline a request marked failed is gone within Response, although its
\* driver keeps being heartbeated and looks active.
FailedGoneSoon == \A m \in Models : failing[m] <= Response

\* A pipeline nobody uses is gone within Response of its grace; that is what
\* bounds the life of one whose agent died unnoticed.
IdleGoneSoon == \A m \in Models : used[m] <= IdleGrace + Response

================================================================================
