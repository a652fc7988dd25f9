--------------------------- MODULE PoolClock_proofs ---------------------------
(***************************************************************************)
(* The background loop keeps its times, for any number of models and any   *)
(* lengths of its interval, its calls and the registry's timeout that fit  *)
(* together (CallsAreShort).                                               *)
(*                                                                         *)
(* The argument counts the launcher calls a pass may still make.  Behind   *)
(* the pipeline it stops it stops each one left to visit, and then posts   *)
(* for each model without one; so what a pass has spent while a pipeline   *)
(* waits, with the interval before the next pass, bounds every age of that *)
(* pipeline.  A cold start may replace the one a pass is stopping; it has  *)
(* that call to wait for too.                                              *)
(***************************************************************************)
EXTENDS PoolClock, FiniteSetTheorems, WellFoundedInduction, TLAPS

States == {"none", "assembling", "warm", "failed"}
Passes ==
  [phase : {"idle", "stopping", "late", "posting"}, at : Int, age : Nat,
   active : SUBSET Models, idle : SUBSET Models, todo : SUBSET Models]

\* The time of one call for each of these models.
Calls(S) == Cardinality(S) * SlowestCall

\* What is left of the call in hand.
Remains == SlowestCall - pass.age

\* The pass awaits a stop, whether or not there is still something to remove.
Visiting == pass.phase \in {"stopping", "late"}

\* The time the pass may still spend, on its call in hand and on other models.
Left(m) ==
  IF Visiting THEN Remains + Calls(pass.todo \ {m}) + Calls(Models \ {m})
  ELSE Remains + Calls(pass.todo \ {m})

\* The time since the pass took notice of m's pipeline, at most.
Since(m) ==
  IF pass.phase = "idle" THEN OnePass + timer ELSE OnePass - Left(m)

\* The time until the pass has stopped m's pipeline, at most.
Ahead(m) == Remains + Calls({n \in pass.todo : n <= m})

-----------------------------------------------------------------------------
(* Calls. *)

(***************************************************************************)
(* More models cost more, and one more costs a call more.                  *)
(***************************************************************************)
LEMMA Multiples ==
  ASSUME NEW j \in Nat, NEW k \in Nat, NEW c \in Nat
  PROVE  /\ j * c \in Nat
         /\ j <= k => j * c <= k * c
         /\ j < k => j * c + c <= k * c
<1>1. j * c \in Nat OBVIOUS
<1>2. ASSUME j <= k PROVE j * c <= k * c
  <2>1. PICK d \in Nat : k = j + d BY <1>2
  <2>2. k * c = j * c + d * c BY <2>1
  <2>3. d * c \in Nat OBVIOUS
  <2> QED BY <1>1, <2>2, <2>3
<1>3. ASSUME j < k PROVE j * c + c <= k * c
  <2>1. PICK d \in Nat : k = j + 1 + d BY <1>3
  <2>2. k * c = j * c + c + d * c BY <2>1
  <2>3. d * c \in Nat OBVIOUS
  <2> QED BY <1>1, <2>2, <2>3
<1> QED BY <1>1, <1>2, <1>3

LEMMA Times ==
  /\ ModelCount \in Nat \ {0} /\ SlowestCall \in Nat /\ IdleGrace \in Nat
  /\ Interval \in Nat \ {0} /\ MaxLate \in Nat /\ NodeTimeout \in Nat
  /\ OnePass \in Nat /\ HeartbeatGap = OnePass + Interval + MaxLate
  /\ HeartbeatGap <= NodeTimeout
<1>1. /\ ModelCount \in Nat \ {0} /\ SlowestCall \in Nat /\ IdleGrace \in Nat
      /\ Interval \in Nat \ {0} /\ MaxLate \in Nat /\ NodeTimeout \in Nat
      /\ HeartbeatGap <= NodeTimeout
  BY CallsAreShort
<1>2. 2 * ModelCount - 1 \in Nat BY <1>1
<1>3. OnePass \in Nat BY <1>1, <1>2, Multiples DEF OnePass
<1> QED BY <1>1, <1>3 DEF HeartbeatGap

LEMMA CallsOrder ==
  ASSUME NEW R \in SUBSET Models, NEW S \in SUBSET R
  PROVE  /\ Calls(S) \in Nat /\ Calls(S) <= Calls(R)
         /\ \A x \in R \ S : Calls(S) + SlowestCall <= Calls(R)
<1>1. IsFiniteSet(Models) BY Times, FS_Interval DEF Models
<1>2. IsFiniteSet(R) /\ IsFiniteSet(S) /\ Cardinality(S) <= Cardinality(R)
      /\ (Cardinality(S) = Cardinality(R) => S = R)
  <2>1. IsFiniteSet(R) BY <1>1, FS_Subset
  <2> QED BY <2>1, FS_Subset
<1>3. Cardinality(S) \in Nat /\ Cardinality(R) \in Nat BY <1>2, FS_CardinalityType
<1>4. ASSUME NEW x \in R \ S PROVE Cardinality(S) < Cardinality(R)
  BY <1>2, <1>3
<1> QED BY <1>2, <1>3, <1>4, Times, Multiples DEF Calls

LEMMA CallsTotal ==
  ASSUME NEW m \in Models
  PROVE  /\ OnePass = Calls(Models \ {m}) + Calls(Models \ {m}) + SlowestCall
         /\ Response = HeartbeatGap + Calls(Models)
         /\ Calls(Models \ {m}) \in Nat /\ Calls(Models) \in Nat
         /\ Response \in Nat
<1>1. IsFiniteSet(Models) /\ Cardinality(Models) = ModelCount
  BY Times, FS_Interval DEF Models
<1>2. Cardinality(Models \ {m}) = ModelCount - 1 BY <1>1, FS_RemoveElement
<1>3. (ModelCount - 1) * SlowestCall \in Nat /\ ModelCount * SlowestCall \in Nat
  <2>1. ModelCount - 1 \in Nat BY Times
  <2> QED BY <2>1, Times, Multiples
<1>4. OnePass = (ModelCount - 1) * SlowestCall + (ModelCount - 1) * SlowestCall + SlowestCall
  BY Times DEF OnePass
<1> QED BY <1>1, <1>2, <1>3, <1>4, Times DEF Response, Calls

LEMMA Responses ==
  /\ Response = HeartbeatGap + Calls(Models) /\ Calls(Models) \in Nat
  /\ HeartbeatGap \in Nat /\ Response \in Nat /\ Oldest = IdleGrace + Response /\ Oldest \in Nat
<1>1. 1 \in Models BY Times DEF Models
<1>2. Response = HeartbeatGap + Calls(Models) /\ Calls(Models) \in Nat BY <1>1, CallsTotal
<1>3. HeartbeatGap \in Nat BY Times
<1>4. Response \in Nat BY <1>2, <1>3
<1>5. Oldest = IdleGrace + Response /\ Oldest \in Nat BY <1>4, Times DEF Oldest
<1> QED BY <1>2, <1>3, <1>4, <1>5

-----------------------------------------------------------------------------
(* The two procedures of a pass. *)

(***************************************************************************)
(* A set of numbers that is not empty has a least one.                     *)
(***************************************************************************)
LEMMA LeastOf ==
  ASSUME NEW T, T \subseteq Nat, T # {}
  PROVE  \E m \in T : \A y \in T : m <= y
<1>1. \E R : IsWellFoundedOn(R, Nat) /\ \A x, y \in Nat : x < y => <<x, y>> \in R
  <2>1. \A x, y \in Nat : x < y => <<x, y>> \in OpToRel(<, Nat)
    BY DEF OpToRel
  <2> QED BY <2>1, NatLessThanWellFounded, Zenon
<1>2. PICK R : IsWellFoundedOn(R, Nat) /\ \A x, y \in Nat : x < y => <<x, y>> \in R
  BY <1>1
<1>3. IsWellFoundedOn(R, Nat) BY <1>2
<1>4. \E x \in T : \A y \in T : ~(<<y, x>> \in R) BY <1>3, WFMin, Zenon
<1>5. PICK m \in T : \A y \in T : ~(<<y, m>> \in R) BY <1>4
<1>6. ASSUME NEW y \in T, ~(m <= y) PROVE FALSE
  <2>1. y \in Nat /\ m \in Nat /\ y < m BY <1>6
  <2> QED BY <1>2, <1>5, <2>1
<1> QED BY <1>6

LEMMA FirstOfIsFirst ==
  ASSUME NEW S \in SUBSET Models, S # {}
  PROVE  FirstOf(S) \in S /\ \A n \in S : FirstOf(S) <= n
<1>1. S \subseteq Nat BY DEF Models
<1>2. \E m \in S : \A n \in S : m <= n BY <1>1, LeastOf
<1> QED BY <1>2 DEF FirstOf

(***************************************************************************)
(* allocate ends the pass, or posts for a model that has none and leaves   *)
(* only others to post for.                                                *)
(***************************************************************************)
Ends(e) == entry' = e /\ pass' = Idle

Posts(e, plan, p) ==
  /\ p \in plan /\ e[p] = "none" /\ p \notin starting
  /\ entry' = [e EXCEPT ![p] = "assembling"]
  /\ pass' \in Passes /\ pass'.phase = "posting" /\ pass'.at = p /\ pass'.age = 0
  /\ pass'.todo \subseteq plan \ {p}

LEMMA AllocateEffect ==
  ASSUME NEW e, NEW plan \in SUBSET Models, Allocate(e, plan)
  PROVE  Ends(e) \/ \E p \in plan : Posts(e, plan, p)
<1>1. PICK skipped \in SUBSET plan :
        LET rest == {m \in plan \ (skipped \cup starting) : e[m] = "none"}
        IN  IF rest = {} THEN entry' = e /\ pass' = Idle
            ELSE \E m \in rest :
                   /\ entry' = [e EXCEPT ![m] = "assembling"]
                   /\ pass' = [Idle EXCEPT !.phase = "posting", !.at = m, !.todo = rest \ {m}]
  BY DEF Allocate
<1> DEFINE rest == {m \in plan \ (skipped \cup starting) : e[m] = "none"}
<1>2. CASE rest = {} BY <1>1, <1>2 DEF Ends
<1>3. CASE rest # {}
  <2>1. PICK p \in rest :
          /\ entry' = [e EXCEPT ![p] = "assembling"]
          /\ pass' = [Idle EXCEPT !.phase = "posting", !.at = p, !.todo = rest \ {p}]
    BY <1>1, <1>3
  <2>2. pass' = [phase |-> "posting", at |-> p, age |-> 0, active |-> {}, idle |-> {},
                 todo |-> rest \ {p}]
    BY <2>1 DEF Idle
  <2>3. p \in Int BY DEF Models
  <2>4. pass' \in Passes /\ pass'.phase = "posting" /\ pass'.at = p /\ pass'.age = 0
        /\ pass'.todo = rest \ {p}
    BY <2>2, <2>3 DEF Passes
  <2>5. p \in plan /\ e[p] = "none" /\ p \notin starting /\ rest \ {p} \subseteq plan \ {p} OBVIOUS
  <2> HIDE DEF rest
  <2>6. Posts(e, plan, p) BY <2>1, <2>4, <2>5 DEF Posts
  <2> QED BY <2>5, <2>6
<1> QED BY <1>2, <1>3

(***************************************************************************)
(* healthCheckAndScaleDown stops the first doomed pipeline it meets, or    *)
(* there is none and it goes on to allocate.                               *)
(***************************************************************************)
Stops(e, active, idle, todo, p) ==
  /\ entry' = e
  /\ p \in todo /\ Doomed(e, p, active, idle)
  /\ \A n \in todo : Doomed(e, n, active, idle) => p <= n
  /\ pass' = [phase |-> "stopping", at |-> p, age |-> 0, active |-> active,
              idle |-> idle, todo |-> {n \in todo : n > p}]

LEMMA HealthCheckEffect ==
  ASSUME NEW e, NEW active, NEW idle, NEW todo \in SUBSET Models,
         HealthCheckAndScaleDown(e, active, idle, todo)
  PROVE  \/ \E p \in todo : Stops(e, active, idle, todo, p)
         \/ /\ \A n \in todo : ~Doomed(e, n, active, idle)
            /\ Allocate(e, {n \in Models : e[n] = "none"})
<1> DEFINE doomed == {m \in todo : Doomed(e, m, active, idle)}
<1>1. CASE doomed = {} BY <1>1 DEF HealthCheckAndScaleDown
<1>2. CASE doomed # {}
  <2>1. FirstOf(doomed) \in doomed /\ \A n \in doomed : FirstOf(doomed) <= n
    <3>1. doomed \in SUBSET Models OBVIOUS
    <3> HIDE DEF doomed
    <3> QED BY <1>2, <3>1, FirstOfIsFirst
  <2>2. PICK p : p = FirstOf(doomed) OBVIOUS
  <2>3. /\ entry' = e
        /\ pass' = [phase |-> "stopping", at |-> p, age |-> 0, active |-> active,
                    idle |-> idle, todo |-> {n \in todo : n > p}]
    BY <1>2, <2>2 DEF HealthCheckAndScaleDown
  <2> QED BY <2>1, <2>2, <2>3 DEF Stops
<1> QED BY <1>1, <1>2

-----------------------------------------------------------------------------
(***************************************************************************)
(* The inductive invariant.  A pass stops a pipeline that is pooled and    *)
(* visits only later ones; it posts for its own reservation.               *)
(***************************************************************************)
Types ==
  /\ entry \in [Models -> States] /\ starting \subseteq Models
  /\ seen \in [Models -> Nat] /\ used \in [Models -> Nat] /\ failing \in [Models -> Nat]
  /\ alive \in [Models -> BOOLEAN] /\ sound \in [Models -> BOOLEAN]
  /\ timer \in Nat /\ timer <= Interval + MaxLate
  /\ pass \in Passes /\ excused \subseteq Models /\ faults \in Nat

InPass ==
  /\ pass.age <= SlowestCall
  /\ pass.phase # "idle" => pass.at \in Models /\ pass.at \notin pass.todo
  /\ pass.phase = "stopping" => entry[pass.at] \in {"warm", "failed"}
  /\ \A m \in Models : entry[m] = "assembling" <=> pass.phase = "posting" /\ pass.at = m
  /\ \A m \in starting : entry[m] # "assembling"

\* The pass is about to stop the pipeline, for being idle or for being failed.
DueIdle(m) == Stopping(m) \/ (Visiting /\ m \in pass.todo \cap pass.idle)
DueFailed(m) == Stopping(m) \/ (Visiting /\ m \in pass.todo)

\* The driver of a pipeline was heard no longer ago than the pass allows.
Kept == \A m \in Models : entry[m] = "warm" /\ ~Stopping(m) => seen[m] <= Since(m)

\* A pipeline past its grace is met by the next pass, and stopped by it.
Unused ==
  \A m \in Models : entry[m] = "warm" =>
    IF DueIdle(m) THEN used[m] + Ahead(m) <= IdleGrace + Response
    ELSE used[m] <= IdleGrace + Since(m)

\* So is a failed one.
Marked ==
  \A m \in Models :
    /\ entry[m] = "warm" => failing[m] = 0
    /\ entry[m] = "failed" =>
         IF DueFailed(m) THEN failing[m] + Ahead(m) <= Response
         ELSE failing[m] <= Since(m)

\* What a pass took down when it began still holds of the pipeline it took it of.
Snapshot ==
  Visiting =>
    \A m \in Models : entry[m] = "warm" =>
      m \in excused \/ (m \in pass.active /\ (m \in pass.idle => used[m] > IdleGrace))

CInv == Types /\ InPass /\ Kept /\ Unused /\ Marked /\ Snapshot
          /\ FailedGoneSoon /\ IdleGoneSoon

-----------------------------------------------------------------------------
(* What is left of a pass. *)

(***************************************************************************)
(* A pass never has more left than OnePass, and gets to a pipeline within  *)
(* the calls for all models.                                               *)
(***************************************************************************)
LEMMA Bounds ==
  ASSUME Types, InPass, NEW m \in Models
  PROVE  /\ Since(m) \in Nat /\ Since(m) <= HeartbeatGap
         /\ Ahead(m) \in Nat
         /\ pass.phase # "idle" => Ahead(m) <= Calls(Models)
<1>1. /\ pass.todo \subseteq Models /\ Remains \in Nat /\ Remains <= SlowestCall /\ timer \in Nat
      /\ timer <= Interval + MaxLate
  BY Times DEF Types, InPass, Passes, Remains
<1>2. /\ Calls(pass.todo \ {m}) \in Nat /\ Calls(Models \ {m}) \in Nat /\ Calls(Models) \in Nat
      /\ Calls({n \in pass.todo : n <= m}) \in Nat
  BY <1>1, CallsOrder
<1>3. OnePass = Calls(Models \ {m}) + Calls(Models \ {m}) + SlowestCall BY CallsTotal
<1>4. Calls(pass.todo \ {m}) <= Calls(Models \ {m})
  <2>1. pass.todo \ {m} \in SUBSET (Models \ {m}) /\ Models \ {m} \in SUBSET Models BY <1>1
  <2> QED BY <2>1, CallsOrder
<1>5. Left(m) \in Nat /\ Left(m) <= OnePass
  BY <1>1, <1>2, <1>3, <1>4, Times DEF Left
<1>6. Since(m) \in Nat /\ Since(m) <= HeartbeatGap
  BY <1>1, <1>5, Times DEF Since
<1>7. Ahead(m) \in Nat BY <1>1, <1>2 DEF Ahead
<1>8. ASSUME pass.phase # "idle" PROVE Ahead(m) <= Calls(Models)
  <2>1. /\ {n \in pass.todo : n <= m} \in SUBSET Models
        /\ pass.at \in Models \ {n \in pass.todo : n <= m}
    BY <1>1, <1>8 DEF InPass
  <2>2. Models \in SUBSET Models OBVIOUS
  <2>3. Calls({n \in pass.todo : n <= m}) + SlowestCall <= Calls(Models)
    BY <2>1, <2>2, CallsOrder
  <2> QED BY <1>1, <1>2, <2>3, Times DEF Ahead
<1> QED BY <1>6, <1>7, <1>8

Bounded ==
  \A m \in Models :
    /\ Since(m) \in Nat /\ Since(m) <= HeartbeatGap
    /\ Ahead(m) \in Nat
    /\ pass.phase # "idle" => Ahead(m) <= Calls(Models)

LEMMA BoundsNext == (Types /\ InPass)' => Bounded'
<1>1. Types /\ InPass => Bounded BY Bounds DEF Bounded
<1> QED BY <1>1, PTL

(***************************************************************************)
(* allocate spends on the others a call for each it may post for.          *)
(***************************************************************************)
LEMMA AllocateSince ==
  ASSUME NEW e, NEW plan \in SUBSET Models, Allocate(e, plan), timer' \in Nat,
         NEW m \in Models, e[m] # "none"
  PROVE  Since(m)' >= OnePass - Calls(plan \ {m})
<1>1. Calls(plan \ {m}) \in Nat BY CallsOrder
<1>2. CASE Ends(e)
  <2>1. pass'.phase = "idle" BY <1>2 DEF Ends, Idle
  <2> QED BY <1>1, <2>1, Times DEF Since
<1>3. ASSUME NEW p \in plan, Posts(e, plan, p)
      PROVE  Since(m)' >= OnePass - Calls(plan \ {m})
  <2>1. pass'.phase = "posting" /\ pass'.age = 0 /\ p # m /\ pass'.todo \subseteq plan \ {p}
    BY <1>3 DEF Posts
  <2>2. /\ pass'.todo \ {m} \in SUBSET (plan \ {m}) /\ plan \ {m} \in SUBSET Models
        /\ p \in (plan \ {m}) \ (pass'.todo \ {m})
    BY <2>1
  <2>3. Calls(pass'.todo \ {m}) \in Nat /\ Calls(pass'.todo \ {m}) + SlowestCall <= Calls(plan \ {m})
    BY <2>2, CallsOrder
  <2>4. Left(m)' = SlowestCall + Calls(pass'.todo \ {m})
    BY <2>1, Times DEF Left, Remains, Visiting
  <2> QED BY <1>1, <2>1, <2>3, <2>4, Times DEF Since
<1> QED BY <1>2, <1>3, AllocateEffect

(***************************************************************************)
(* healthCheckAndScaleDown spends on them a call for each it may visit     *)
(* and one for each it may post for, and gets to a doomed one behind the   *)
(* ones before it.                                                         *)
(***************************************************************************)
LEMMA HealthCheckSince ==
  ASSUME NEW e, NEW active, NEW idle, NEW todo \in SUBSET Models,
         HealthCheckAndScaleDown(e, active, idle, todo), timer' \in Nat,
         NEW m \in Models, e[m] # "none", ~Stopping(m)'
  PROVE  Since(m)' >= OnePass - (Calls(todo \ {m}) + Calls(Models \ {m}))
<1>1. Calls(todo \ {m}) \in Nat /\ Calls(Models \ {m}) \in Nat BY CallsOrder
<1>2. ASSUME NEW p \in todo, Stops(e, active, idle, todo, p)
      PROVE  Since(m)' >= OnePass - (Calls(todo \ {m}) + Calls(Models \ {m}))
  <2>1. /\ pass'.phase = "stopping" /\ pass'.age = 0 /\ pass'.at = p
        /\ pass'.todo = {n \in todo : n > p} /\ Visiting'
    BY <1>2 DEF Stops, Visiting
  <2>2. p # m BY <1>2, <2>1 DEF Stopping
  <2>3. /\ pass'.todo \ {m} \in SUBSET (todo \ {m}) /\ todo \ {m} \in SUBSET Models
        /\ p \in (todo \ {m}) \ (pass'.todo \ {m})
    BY <2>1, <2>2 DEF Models
  <2>4. Calls(pass'.todo \ {m}) \in Nat /\ Calls(pass'.todo \ {m}) + SlowestCall <= Calls(todo \ {m})
    BY <2>3, CallsOrder
  <2>5. Left(m)' = SlowestCall + Calls(pass'.todo \ {m}) + Calls(Models \ {m})
    BY <2>1, Times DEF Left, Remains
  <2> QED BY <1>1, <2>1, <2>4, <2>5, Times DEF Since
<1>3. ASSUME Allocate(e, {n \in Models : e[n] = "none"})
      PROVE  Since(m)' >= OnePass - (Calls(todo \ {m}) + Calls(Models \ {m}))
  <2> DEFINE plan == {n \in Models : e[n] = "none"}
  <2>1. plan \in SUBSET Models /\ plan \ {m} \in SUBSET (Models \ {m}) OBVIOUS
  <2>2. Allocate(e, plan) BY <1>3
  <2> HIDE DEF plan
  <2>3. Since(m)' >= OnePass - Calls(plan \ {m}) BY <2>1, <2>2, AllocateSince
  <2>4. Calls(plan \ {m}) \in Nat /\ Calls(plan \ {m}) <= Calls(Models \ {m})
    <3>1. Models \ {m} \in SUBSET Models OBVIOUS
    <3> QED BY <2>1, <3>1, CallsOrder
  <2>5. Since(m)' \in Int
    <3>1. Ends(e) \/ \E p \in plan : Posts(e, plan, p) BY <2>1, <2>2, AllocateEffect
    <3>2. pass' \in Passes BY <3>1, Times DEF Ends, Posts, Passes, Idle
    <3>3. /\ pass'.age \in Nat /\ pass'.todo \subseteq Models BY <3>2 DEF Passes
    <3>4. Calls(pass'.todo \ {m}) \in Nat BY <3>3, CallsOrder
    <3> QED BY <1>1, <3>3, <3>4, Times DEF Since, Left, Remains, Visiting
  <2> QED BY <1>1, <2>3, <2>4, <2>5, Times
<1> QED BY <1>2, <1>3, HealthCheckEffect

LEMMA HealthCheckAhead ==
  ASSUME NEW e, NEW active, NEW idle, NEW todo \in SUBSET Models,
         HealthCheckAndScaleDown(e, active, idle, todo),
         NEW m \in todo, Doomed(e, m, active, idle)
  PROVE  /\ pass'.phase = "stopping" /\ (pass'.at = m \/ m \in pass'.todo)
         /\ pass'.idle = idle
         /\ Ahead(m)' <= Calls({n \in todo : n <= m})
<1>1. PICK p \in todo : Stops(e, active, idle, todo, p) BY HealthCheckEffect
<1>2. /\ pass'.phase = "stopping" /\ pass'.at = p /\ pass'.age = 0 /\ pass'.idle = idle
      /\ pass'.todo = {n \in todo : n > p} /\ p <= m
  BY <1>1 DEF Stops
<1>3. p \in Nat /\ m \in Nat BY DEF Models
<1>4. p = m \/ m \in pass'.todo BY <1>2, <1>3
<1>5. /\ {n \in pass'.todo : n <= m} \in SUBSET {n \in todo : n <= m}
      /\ {n \in todo : n <= m} \in SUBSET Models
      /\ p \in {n \in todo : n <= m} \ {n \in pass'.todo : n <= m}
  <2>1. pass'.todo \subseteq todo /\ p \notin pass'.todo BY <1>2, <1>3
  <2> QED BY <1>2, <2>1
<1>6. Calls({n \in pass'.todo : n <= m}) + SlowestCall <= Calls({n \in todo : n <= m})
  BY <1>5, CallsOrder
<1>7. Calls({n \in pass'.todo : n <= m}) \in Nat BY <1>5, CallsOrder
<1>8. Ahead(m)' = SlowestCall + Calls({n \in pass'.todo : n <= m})
  BY <1>2, Times DEF Ahead, Remains
<1> QED BY <1>2, <1>4, <1>6, <1>7, <1>8, Times
-----------------------------------------------------------------------------
(***************************************************************************)
(* A pass goes on as InPass has it, and what it found pooled it leaves     *)
(* as it was.                                                              *)
(***************************************************************************)
Leaves(e) ==
  /\ entry' \in [Models -> States]
  /\ \A m \in Models : e[m] # "none" => entry'[m] = e[m]
  /\ \A m \in Models : e[m] = "none" => entry'[m] \in {"none", "assembling"}

LEMMA AllocateShape ==
  ASSUME NEW e \in [Models -> States], NEW plan \in SUBSET Models, Allocate(e, plan),
         \A m \in Models : e[m] # "assembling", starting \subseteq Models, UNCHANGED starting
  PROVE  pass' \in Passes /\ InPass' /\ Leaves(e) /\ ~Visiting'
<1>1. CASE Ends(e)
  <2>1. /\ entry' = e /\ pass'.phase = "idle" /\ pass'.age = 0 /\ pass' \in Passes
    BY <1>1 DEF Ends, Idle, Passes
  <2>2. InPass' BY <2>1, Times DEF InPass
  <2> QED BY <2>1, <2>2 DEF Leaves, Visiting
<1>2. ASSUME NEW p \in plan, Posts(e, plan, p)
      PROVE  pass' \in Passes /\ InPass' /\ Leaves(e) /\ ~Visiting'
  <2>1. /\ entry' = [e EXCEPT ![p] = "assembling"] /\ e[p] = "none"
        /\ pass' \in Passes /\ pass'.phase = "posting" /\ pass'.at = p /\ pass'.age = 0
        /\ p \notin pass'.todo /\ p \notin starting
    BY <1>2 DEF Posts
  <2>2. entry' \in [Models -> States] BY <2>1 DEF States
  <2>3. \A m \in Models : entry'[m] = IF m = p THEN "assembling" ELSE e[m] BY <2>1
  <2>4. Leaves(e) BY <2>1, <2>2, <2>3 DEF Leaves
  <2>5. InPass' BY <2>1, <2>3, Times DEF InPass
  <2> QED BY <2>1, <2>4, <2>5 DEF Visiting
<1> QED BY <1>1, <1>2, AllocateEffect

LEMMA HealthCheckShape ==
  ASSUME NEW e \in [Models -> States], NEW active \in SUBSET Models,
         NEW idle \in SUBSET Models, NEW todo \in SUBSET Models,
         HealthCheckAndScaleDown(e, active, idle, todo),
         \A m \in Models : e[m] # "assembling", starting \subseteq Models, UNCHANGED starting
  PROVE  /\ pass' \in Passes /\ InPass' /\ Leaves(e)
         /\ Visiting' =>
              /\ pass'.active = active /\ pass'.idle = idle
              /\ pass'.todo \subseteq todo
              /\ pass'.at \in todo /\ Doomed(e, pass'.at, active, idle)
<1>1. ASSUME NEW p \in todo, Stops(e, active, idle, todo, p)
      PROVE  /\ pass' \in Passes /\ InPass' /\ Leaves(e)
             /\ pass'.active = active /\ pass'.idle = idle
             /\ pass'.todo \subseteq todo
             /\ pass'.at \in todo /\ Doomed(e, pass'.at, active, idle)
  <2>1. /\ entry' = e /\ Doomed(e, p, active, idle)
        /\ pass' = [phase |-> "stopping", at |-> p, age |-> 0, active |-> active,
                    idle |-> idle, todo |-> {n \in todo : n > p}]
    BY <1>1 DEF Stops
  <2>2. p \in Int /\ ~(p > p) BY DEF Models
  <2>3. {n \in todo : n > p} \in SUBSET Models /\ p \notin {n \in todo : n > p} BY <2>2
  <2>4. /\ pass' \in Passes /\ pass'.phase = "stopping" /\ pass'.at = p /\ pass'.age = 0
        /\ pass'.active = active /\ pass'.idle = idle /\ pass'.todo = {n \in todo : n > p}
    BY <2>1, <2>2, <2>3 DEF Passes
  <2>5. InPass' BY <2>1, <2>3, <2>4, Times DEF InPass, Doomed
  <2>6. Leaves(e) BY <2>1 DEF Leaves
  <2> QED BY <2>1, <2>4, <2>5, <2>6
<1>2. ASSUME Allocate(e, {n \in Models : e[n] = "none"})
      PROVE  pass' \in Passes /\ InPass' /\ Leaves(e) /\ ~Visiting'
  BY <1>2, AllocateShape
<1> QED BY <1>1, <1>2, HealthCheckEffect

-----------------------------------------------------------------------------
(* The steps. *)

LEMMA InitClock == Init => CInv
<1> SUFFICES ASSUME Init PROVE CInv OBVIOUS
<1>1. Types
  <2>1. pass \in Passes BY DEF Init, Idle, Passes
  <2> QED BY <2>1, Times DEF Init, Types, States
<1>2. pass.phase = "idle" /\ pass.age = 0 BY DEF Init, Idle
<1>3. InPass /\ Kept /\ Unused /\ Marked /\ Snapshot
  BY <1>2, Times DEF Init, InPass, Kept, Unused, Marked, Snapshot, Visiting
<1>4. FailedGoneSoon /\ IdleGoneSoon
  BY Responses, Times DEF Init, FailedGoneSoon, IdleGoneSoon
<1> QED BY <1>1, <1>3, <1>4 DEF CInv

LEMMA Olds == ASSUME NEW a \in Nat, NEW l \in Nat
              PROVE  Older(a, l) \in Nat /\ Older(a, l) <= a + 1 /\ Older(a, l) >= a
  BY DEF Older

(***************************************************************************)
(* Time: while a call lasts its time is taken from what is left, between   *)
(* passes the interval's is.                                               *)
(***************************************************************************)
LEMMA TimePassesKeeps == CInv /\ TimePasses => CInv'
<1> SUFFICES ASSUME CInv, TimePasses PROVE CInv'
  OBVIOUS
<1> USE DEF CInv
<1>1. Oldest \in Nat /\ Response \in Nat BY Responses
<1>2. /\ timer' = timer + 1 /\ timer' \in Nat /\ timer' <= Interval + MaxLate
      /\ UNCHANGED <<entry, starting, alive, sound, excused, faults>>
  BY Times DEF TimePasses, Types, Period
<1>3. /\ pass' \in Passes /\ pass'.phase = pass.phase /\ pass'.at = pass.at
      /\ pass'.todo = pass.todo /\ pass'.idle = pass.idle /\ pass'.active = pass.active
      /\ pass.phase # "idle" => pass'.age = pass.age + 1 /\ pass'.age <= SlowestCall
      /\ pass.phase = "idle" => pass'.age = pass.age
  <2>1. CASE pass.phase = "idle" BY <2>1 DEF TimePasses, Types
  <2>2. CASE pass.phase # "idle"
    <3>1. pass' = [pass EXCEPT !.age = @ + 1] /\ pass.age < SlowestCall
      BY <2>2 DEF TimePasses
    <3>2. pass \in Passes BY DEF Types
    <3>3. pass.age + 1 \in Nat BY <3>2 DEF Passes
    <3>4. /\ pass' \in Passes /\ pass'.phase = pass.phase /\ pass'.at = pass.at
          /\ pass'.todo = pass.todo /\ pass'.idle = pass.idle /\ pass'.active = pass.active
          /\ pass'.age = pass.age + 1
      BY <3>1, <3>2, <3>3 DEF Passes
    <3> QED BY <2>2, <3>1, <3>2, <3>4, Times DEF Passes
  <2> QED BY <2>1, <2>2
<1>4. /\ seen' = [m \in Models |-> Older(seen[m], NodeTimeout)]
      /\ used' = [m \in Models |-> IF entry[m] = "warm" THEN Older(used[m], Oldest) ELSE 0]
      /\ failing' = [m \in Models |-> IF entry[m] = "failed" THEN Older(failing[m], Response)
                                      ELSE 0]
  BY DEF TimePasses
<1>5. ASSUME NEW m \in Models
      PROVE  /\ seen'[m] \in Nat /\ used'[m] \in Nat /\ failing'[m] \in Nat
             /\ seen'[m] <= seen[m] + 1 /\ used'[m] <= used[m] + 1
             /\ failing'[m] <= failing[m] + 1
             /\ entry[m] # "warm" => used'[m] = 0
             /\ entry[m] # "failed" => failing'[m] = 0
  <2>1. seen[m] \in Nat /\ used[m] \in Nat /\ failing[m] \in Nat BY DEF Types
  <2>2. seen'[m] = Older(seen[m], NodeTimeout) BY <1>4
  <2>3. used'[m] = IF entry[m] = "warm" THEN Older(used[m], Oldest) ELSE 0 BY <1>4
  <2>4. failing'[m] = IF entry[m] = "failed" THEN Older(failing[m], Response) ELSE 0 BY <1>4
  <2>5. Older(seen[m], NodeTimeout) \in Nat /\ Older(seen[m], NodeTimeout) <= seen[m] + 1
    BY <2>1, Olds, Times
  <2>6. Older(used[m], Oldest) \in Nat /\ Older(used[m], Oldest) <= used[m] + 1
    BY <1>1, <2>1, Olds
  <2>7. Older(failing[m], Response) \in Nat /\ Older(failing[m], Response) <= failing[m] + 1
    BY <1>1, <2>1, Olds
  <2> QED BY <2>1, <2>2, <2>3, <2>4, <2>5, <2>6, <2>7
<1>6. Types'
  <2>1. /\ seen' \in [Models -> Nat] /\ used' \in [Models -> Nat] /\ failing' \in [Models -> Nat]
    BY <1>4, <1>5
  <2> QED BY <1>2, <1>3, <2>1 DEF Types
<1>7. InPass' BY <1>2, <1>3 DEF InPass
<1>8. ASSUME NEW m \in Models
      PROVE  /\ Since(m)' = Since(m) + 1
             /\ pass.phase # "idle" => Ahead(m)' = Ahead(m) - 1
  <2>1. /\ pass.todo \subseteq Models /\ pass.age \in Nat /\ timer \in Nat BY DEF Types, Passes
  <2>2. /\ Calls(pass.todo \ {m}) \in Nat /\ Calls(Models \ {m}) \in Nat
        /\ Calls({n \in pass.todo : n <= m}) \in Nat
    BY <2>1, CallsOrder
  <2>3. Since(m)' = Since(m) + 1
    BY <1>2, <1>3, <2>1, <2>2, Times DEF Since, Left, Remains, Visiting
  <2>4. ASSUME pass.phase # "idle" PROVE Ahead(m)' = Ahead(m) - 1
    BY <1>3, <2>1, <2>2, <2>4, Times DEF Ahead, Remains
  <2> QED BY <2>3, <2>4
<1>9. ASSUME NEW m \in Models
      PROVE  /\ Since(m) \in Int /\ Ahead(m) \in Nat /\ Since(m)' \in Int /\ Ahead(m)' \in Nat
             /\ Since(m)' <= HeartbeatGap
             /\ HeartbeatGap <= Response
             /\ seen[m] \in Nat /\ used[m] \in Nat /\ failing[m] \in Nat
  <2>1. Since(m) \in Int /\ Ahead(m) \in Nat BY Bounds
  <2>2. Since(m)' \in Int /\ Ahead(m)' \in Nat /\ Since(m)' <= HeartbeatGap
    BY <1>6, <1>7, BoundsNext DEF Bounded
  <2>3. HeartbeatGap <= Response BY Responses
  <2> QED BY <1>6, <1>7, <2>1, <2>2, <2>3 DEF Types
<1>10. Kept'
  BY <1>2, <1>3, <1>5, <1>8, <1>9 DEF Kept, Stopping
<1>11. Unused'
  BY <1>2, <1>3, <1>5, <1>8, <1>9, Times, <1>1 DEF Unused, DueIdle, Stopping, Visiting
<1>12. Marked'
  BY <1>2, <1>3, <1>5, <1>8, <1>9, Times, <1>1 DEF Marked, DueFailed, Stopping, Visiting
<1>13. Snapshot'
  <2>1. \A m \in Models : entry[m] = "warm" => used'[m] >= used[m]
    <3> TAKE m \in Models
    <3>1. used[m] \in Nat BY DEF Types
    <3> QED BY <1>1, <1>4, <3>1, Olds
  <2> QED BY <1>2, <1>3, <1>5, <1>9, <2>1, Times DEF Snapshot, Visiting
<1>14. FailedGoneSoon'
  BY <1>1, <1>2, <1>5, <1>6, <1>9, <1>12, Times DEF FailedGoneSoon, Marked, Types
<1>15. IdleGoneSoon'
  BY <1>1, <1>2, <1>5, <1>6, <1>9, <1>11, Times DEF IdleGoneSoon, Unused, Types
<1> QED BY <1>6, <1>7, <1>10, <1>11, <1>12, <1>13, <1>14, <1>15
(***************************************************************************)
(* The timer: while a pass runs it is skipped.  Otherwise a new one begins *)
(* an interval after the last: it hears every warm driver, and has all     *)
(* models ahead of it.                                                     *)
(***************************************************************************)
LEMMA TimerSkipsKeeps == CInv /\ TimerFires /\ pass.phase # "idle" => CInv'
<1> SUFFICES ASSUME CInv, TimerFires, pass.phase # "idle" PROVE CInv'
  OBVIOUS
<1> USE DEF CInv
<1>1. timer' = 0 /\ UNCHANGED <<entry, starting, seen, used, failing, alive, sound, pass, excused, faults>>
  BY DEF TimerFires
<1>2. Types' BY <1>1, Times DEF Types
<1>3. InPass' BY <1>1 DEF InPass
<1>4. \A m \in Models : Since(m)' = Since(m) /\ Ahead(m)' = Ahead(m)
  BY <1>1 DEF Since, Left, Ahead, Remains, Visiting
<1>5. Kept' BY <1>1, <1>4 DEF Kept, Stopping
<1>6. Unused' BY <1>1, <1>4 DEF Unused, DueIdle, Stopping, Visiting
<1>7. Marked' BY <1>1, <1>4 DEF Marked, DueFailed, Stopping, Visiting
<1>8. Snapshot' BY <1>1 DEF Snapshot, Visiting
<1>9. FailedGoneSoon' /\ IdleGoneSoon' BY <1>1 DEF FailedGoneSoon, IdleGoneSoon
<1> QED BY <1>2, <1>3, <1>5, <1>6, <1>7, <1>8, <1>9

LEMMA TimerFiresKeeps == CInv /\ TimerFires /\ pass.phase = "idle" => CInv'
<1> SUFFICES ASSUME CInv, TimerFires, pass.phase = "idle" PROVE CInv'
  OBVIOUS
<1> USE DEF CInv
<1>1. /\ timer' = 0 /\ UNCHANGED <<starting, used, failing, alive, sound, faults>>
      /\ seen' = [m \in Models |-> Heard(m)]
      /\ excused' = {m \in Models : ~sound[m]}
      /\ HealthCheckAndScaleDown(entry, ActiveAfterHeartbeats, IdleModels, Models)
  BY DEF TimerFires
<1>2. PICK e : e = entry OBVIOUS
<1>3. PICK active : active = ActiveAfterHeartbeats OBVIOUS
<1>4. PICK idle : idle = IdleModels OBVIOUS
<1>5. /\ e \in [Models -> States] /\ active \in SUBSET Models /\ idle \in SUBSET Models
      /\ Models \in SUBSET Models
      /\ HealthCheckAndScaleDown(e, active, idle, Models)
      /\ \A m \in Models : e[m] # "assembling"
      /\ starting \subseteq Models
  BY <1>1, <1>2, <1>3, <1>4 DEF Types, InPass, ActiveAfterHeartbeats, IdleModels
<1>6. /\ pass' \in Passes /\ InPass' /\ Leaves(e)
      /\ Visiting' => pass'.active = active /\ pass'.idle = idle
  BY <1>1, <1>5, HealthCheckShape
<1>7. \A m \in Models : /\ entry'[m] = "warm" => entry[m] = "warm"
                        /\ entry'[m] = "failed" => entry[m] = "failed"
  BY <1>2, <1>6 DEF Leaves
<1>8. Types'
  <2>1. \A m \in Models : Heard(m) \in Nat BY DEF Heard, Types
  <2>2. seen' \in [Models -> Nat] BY <1>1, <2>1
  <2> QED BY <1>1, <1>6, <2>2, Times DEF Types, Leaves
<1>9. Bounded /\ Bounded' BY <1>6, <1>8, Bounds, BoundsNext DEF Bounded
<1>10. \A m \in Models : Since(m)' >= 0 BY <1>9 DEF Bounded
<1>11. ASSUME NEW m \in Models, Doomed(entry, m, ActiveAfterHeartbeats, IdleModels)
       PROVE  /\ pass'.phase = "stopping" /\ (pass'.at = m \/ m \in pass'.todo)
              /\ Ahead(m)' <= Calls(Models)
  <2>1. Doomed(e, m, active, idle) BY <1>2, <1>3, <1>4, <1>11
  <2>2. pass'.phase = "stopping" /\ (pass'.at = m \/ m \in pass'.todo)
    BY <1>5, <2>1, HealthCheckAhead
  <2> QED BY <1>9, <2>2 DEF Bounded
<1>12. \A m \in Models : Since(m) \in Int /\ Since(m) <= HeartbeatGap /\ HeartbeatGap <= NodeTimeout
                         /\ Since(m)' \in Int /\ Ahead(m)' \in Nat
  BY <1>9, Times DEF Bounded
<1>13. ASSUME NEW m \in Models, entry[m] = "warm"
       PROVE  seen[m] <= NodeTimeout /\ seen'[m] = 0
  <2>1. seen[m] <= Since(m) /\ seen[m] \in Nat BY <1>13 DEF Kept, Stopping, Types
  <2>2. seen[m] <= NodeTimeout BY <1>12, <2>1, Times
  <2> QED BY <1>1, <1>13, <2>2 DEF Heard
<1>14. Kept' BY <1>7, <1>10, <1>13 DEF Kept
<1>15. Unused'
  <2> SUFFICES ASSUME NEW m \in Models, entry'[m] = "warm"
               PROVE  IF DueIdle(m)' THEN used'[m] + Ahead(m)' <= IdleGrace + Response
                      ELSE used'[m] <= IdleGrace + Since(m)'
    BY DEF Unused
  <2>1. entry[m] = "warm" BY <1>7
  <2>2. used[m] \in Nat /\ used'[m] = used[m] BY <1>1 DEF Types
  <2>3. CASE DueIdle(m)'
    <3>1. used[m] <= IdleGrace + Since(m) BY <2>1 DEF Unused, DueIdle, Stopping, Visiting
    <3>2. Ahead(m)' <= Calls(Models) BY <1>9, <2>3 DEF Bounded, DueIdle, Stopping, Visiting
    <3> QED BY <1>12, <2>2, <2>3, <3>1, <3>2, Responses, Times
  <2>4. CASE ~DueIdle(m)'
    <3>1. m \notin IdleModels
      <4> SUFFICES ASSUME m \in IdleModels PROVE FALSE OBVIOUS
      <4>1. Doomed(entry, m, ActiveAfterHeartbeats, IdleModels) BY <2>1 DEF Doomed
      <4>2. pass'.phase = "stopping" /\ (pass'.at = m \/ m \in pass'.todo) BY <1>11, <4>1
      <4> QED BY <1>4, <1>6, <2>4, <4>2 DEF DueIdle, Stopping, Visiting
    <3>2. used[m] <= IdleGrace BY <2>1, <2>2, <3>1, Times DEF IdleModels
    <3>3. Since(m)' >= 0 BY <1>10
    <3> QED BY <1>12, <2>2, <2>4, <3>2, <3>3, Times
  <2> QED BY <2>3, <2>4
<1>16. Marked'
  <2> SUFFICES ASSUME NEW m \in Models
               PROVE  /\ entry'[m] = "warm" => failing'[m] = 0
                      /\ entry'[m] = "failed" =>
                           DueFailed(m)' /\ failing'[m] + Ahead(m)' <= Response
    BY DEF Marked
  <2>1. ASSUME entry'[m] = "failed"
        PROVE  DueFailed(m)' /\ failing'[m] + Ahead(m)' <= Response
    <3>1. entry[m] = "failed" BY <1>7, <2>1
    <3>2. failing[m] <= Since(m) /\ failing[m] \in Nat BY <3>1 DEF Marked, DueFailed, Types, Stopping, Visiting
    <3>3. Doomed(entry, m, ActiveAfterHeartbeats, IdleModels) BY <3>1 DEF Doomed
    <3>4. DueFailed(m)' /\ Ahead(m)' <= Calls(Models) BY <1>11, <3>3 DEF DueFailed, Stopping, Visiting
    <3> QED BY <1>1, <1>12, <3>2, <3>4, Responses
  <2> QED BY <1>1, <1>7, <2>1 DEF Marked
<1>17. Snapshot'
  BY <1>1, <1>3, <1>4, <1>6, <1>7, <1>13 DEF Snapshot, ActiveAfterHeartbeats, IdleModels
<1>18. FailedGoneSoon' /\ IdleGoneSoon' BY <1>1 DEF FailedGoneSoon, IdleGoneSoon
<1> QED BY <1>6, <1>8, <1>14, <1>15, <1>16, <1>17, <1>18
(***************************************************************************)
(* The pipeline stopped last is gone, unless a cold start replaced it; one *)
(* still ahead is so much nearer, and the others have waited for the calls *)
(* made meanwhile.                                                         *)
(***************************************************************************)
LEMMA TearDownEndsKeeps == CInv /\ TearDownEnds => CInv'
<1> SUFFICES ASSUME CInv, TearDownEnds PROVE CInv'
  OBVIOUS
<1> USE DEF CInv
<1>1. /\ Visiting /\ alive' \in [Models -> BOOLEAN]
      /\ UNCHANGED <<starting, seen, used, failing, sound, timer, excused, faults>>
  <2>1. alive \in [Models -> BOOLEAN] BY DEF Types
  <2> QED BY <2>1 DEF TearDownEnds, Visiting
<1>2. PICK e : /\ IF pass.phase = "stopping" THEN e = [entry EXCEPT ![pass.at] = "none"]
                  ELSE e = entry
               /\ HealthCheckAndScaleDown(e, pass.active, pass.idle, pass.todo)
  BY DEF TearDownEnds
<1>3. PICK p : p = pass.at OBVIOUS
<1>4. PICK active : active = pass.active OBVIOUS
<1>5. PICK idle : idle = pass.idle OBVIOUS
<1>6. PICK todo : todo = pass.todo OBVIOUS
<1>7. /\ p \in Models /\ p \notin todo
      /\ active \in SUBSET Models /\ idle \in SUBSET Models /\ todo \in SUBSET Models
      /\ Remains \in Nat /\ timer' \in Nat
  BY <1>1, <1>3, <1>4, <1>5, <1>6, Times DEF Types, InPass, Passes, Remains, Visiting
<1>8. /\ e \in [Models -> States] /\ (pass.phase = "stopping" => e[p] = "none")
      /\ pass.phase # "stopping" => e = entry
      /\ \A m \in Models : m # p => e[m] = entry[m]
      /\ \A m \in Models : e[m] # "assembling"
  <2>1. \A m \in Models : entry[m] # "assembling" BY <1>1 DEF InPass, Visiting
  <2> QED BY <1>2, <1>3, <1>7, <2>1 DEF Types, States
<1>9. HealthCheckAndScaleDown(e, active, idle, todo)
  BY <1>2, <1>4, <1>5, <1>6
<1>10. /\ pass' \in Passes /\ InPass' /\ Leaves(e)
       /\ Visiting' =>
            pass'.active = active /\ pass'.idle = idle /\ pass'.todo \subseteq todo
            /\ pass'.at \in todo
  <2>1. starting \subseteq Models BY DEF Types
  <2> QED BY <1>1, <1>7, <1>8, <1>9, <2>1, HealthCheckShape
<1>11. \A m \in Models :
         /\ entry'[m] = "warm" => entry[m] = "warm" /\ ~Stopping(m) /\ e[m] = "warm"
         /\ entry'[m] = "failed" => entry[m] = "failed" /\ ~Stopping(m) /\ e[m] = "failed"
  BY <1>3, <1>7, <1>8, <1>10 DEF Leaves, Stopping
<1>12. Types' BY <1>1, <1>10 DEF Types, Leaves
<1>13. Bounded /\ Bounded' BY <1>10, <1>12, Bounds, BoundsNext DEF Bounded
<1>14. \A m \in Models : /\ Since(m) \in Int /\ Since(m) <= HeartbeatGap /\ Ahead(m) \in Nat
                         /\ Since(m)' \in Int /\ Ahead(m)' \in Nat
                         /\ seen[m] \in Nat /\ used[m] \in Nat /\ failing[m] \in Nat
  BY <1>13 DEF Bounded, Types
<1>15. ASSUME NEW m \in Models, e[m] # "none", ~Stopping(m)'
       PROVE  Since(m)' >= Since(m)
  <2>1. Since(m)' >= OnePass - (Calls(todo \ {m}) + Calls(Models \ {m}))
    BY <1>7, <1>9, <1>15, HealthCheckSince
  <2>2. Calls(todo \ {m}) \in Nat /\ Calls(Models \ {m}) \in Nat BY <1>7, CallsOrder
  <2>3. Since(m) = OnePass - (Remains + Calls(todo \ {m}) + Calls(Models \ {m}))
    BY <1>1, <1>6 DEF Since, Left, Visiting
  <2> QED BY <1>7, <1>14, <2>1, <2>2, <2>3, Times
<1>16. ASSUME NEW m \in todo, Doomed(e, m, active, idle)
       PROVE  /\ pass'.phase = "stopping" /\ (pass'.at = m \/ m \in pass'.todo)
              /\ Ahead(m)' <= Ahead(m)
  <2>1. /\ pass'.phase = "stopping" /\ (pass'.at = m \/ m \in pass'.todo)
        /\ Ahead(m)' <= Calls({n \in todo : n <= m})
    BY <1>7, <1>9, <1>16, HealthCheckAhead
  <2>2. Calls({n \in todo : n <= m}) \in Nat
    <3>1. {n \in todo : n <= m} \in SUBSET Models BY <1>7
    <3> QED BY <3>1, CallsOrder
  <2>3. Ahead(m) = Remains + Calls({n \in todo : n <= m}) BY <1>6 DEF Ahead
  <2> QED BY <1>7, <1>14, <2>1, <2>2, <2>3
<1>17. Kept'
  <2> SUFFICES ASSUME NEW m \in Models, entry'[m] = "warm", ~Stopping(m)'
               PROVE  seen'[m] <= Since(m)'
    BY DEF Kept
  <2>1. entry[m] = "warm" /\ ~Stopping(m) /\ e[m] = "warm" BY <1>11
  <2>2. Since(m)' >= Since(m) BY <1>15, <2>1
  <2> QED BY <1>1, <1>14, <2>1, <2>2 DEF Kept
<1>18. Unused'
  <2> SUFFICES ASSUME NEW m \in Models, entry'[m] = "warm"
               PROVE  IF DueIdle(m)' THEN used'[m] + Ahead(m)' <= IdleGrace + Response
                      ELSE used'[m] <= IdleGrace + Since(m)'
    BY DEF Unused
  <2>1. entry[m] = "warm" /\ ~Stopping(m) /\ e[m] = "warm" BY <1>11
  <2>2. used'[m] = used[m] BY <1>1
  <2>3. CASE DueIdle(m)
    <3>1. m \in todo /\ m \in idle BY <1>5, <1>6, <2>1, <2>3 DEF DueIdle
    <3>2. Doomed(e, m, active, idle) BY <2>1, <3>1 DEF Doomed
    <3>3. DueIdle(m)' /\ Ahead(m)' <= Ahead(m)
      <4>1. pass'.phase = "stopping" /\ (pass'.at = m \/ m \in pass'.todo)
            /\ Ahead(m)' <= Ahead(m)
        BY <1>16, <3>1, <3>2
      <4> QED BY <1>10, <3>1, <4>1 DEF DueIdle, Stopping, Visiting
    <3>4. used[m] + Ahead(m) <= IdleGrace + Response BY <2>1, <2>3 DEF Unused
    <3> QED BY <1>14, <2>2, <3>3, <3>4, Responses, Times
  <2>4. CASE ~DueIdle(m)
    <3>1. used[m] <= IdleGrace + Since(m) BY <2>1, <2>4 DEF Unused
    <3>2. CASE DueIdle(m)'
      <4>1. Ahead(m)' <= Calls(Models) BY <1>13, <3>2 DEF Bounded, DueIdle, Stopping, Visiting
      <4> QED BY <1>14, <2>2, <3>1, <3>2, <4>1, Responses, Times
    <3>3. CASE ~DueIdle(m)'
      <4>1. Since(m)' >= Since(m) BY <1>15, <2>1, <3>3 DEF DueIdle
      <4> QED BY <1>14, <2>2, <3>1, <3>3, <4>1, Times
    <3> QED BY <3>2, <3>3
  <2> QED BY <2>3, <2>4
<1>19. Marked'
  <2> SUFFICES ASSUME NEW m \in Models, entry'[m] = "failed"
               PROVE  IF DueFailed(m)' THEN failing'[m] + Ahead(m)' <= Response
                      ELSE failing'[m] <= Since(m)'
    BY <1>1, <1>11 DEF Marked
  <2>1. entry[m] = "failed" /\ ~Stopping(m) /\ e[m] = "failed" BY <1>11
  <2>2. failing'[m] = failing[m] BY <1>1
  <2>3. CASE DueFailed(m)
    <3>1. m \in todo BY <1>6, <2>1, <2>3 DEF DueFailed
    <3>2. Doomed(e, m, active, idle) BY <2>1 DEF Doomed
    <3>3. DueFailed(m)' /\ Ahead(m)' <= Ahead(m) BY <1>16, <3>1, <3>2 DEF DueFailed, Stopping, Visiting
    <3>4. failing[m] + Ahead(m) <= Response BY <2>1, <2>3 DEF Marked
    <3> QED BY <1>14, <2>2, <3>3, <3>4, Responses
  <2>4. CASE ~DueFailed(m)
    <3>1. failing[m] <= Since(m) BY <2>1, <2>4 DEF Marked
    <3>2. ~DueFailed(m)' BY <1>1, <1>6, <1>10, <2>4 DEF DueFailed, Stopping, Visiting
    <3>3. Since(m)' >= Since(m) BY <1>15, <2>1, <3>2 DEF DueFailed
    <3> QED BY <1>14, <2>2, <3>1, <3>2, <3>3
  <2> QED BY <2>3, <2>4
<1>20. Snapshot'
  BY <1>1, <1>4, <1>5, <1>10, <1>11 DEF Snapshot
<1>21. FailedGoneSoon' /\ IdleGoneSoon' BY <1>1 DEF FailedGoneSoon, IdleGoneSoon
<1> QED BY <1>10, <1>12, <1>17, <1>18, <1>19, <1>20, <1>21
(***************************************************************************)
(* A post that ends, well or not, lets the pass go on with the rest of its *)
(* plan; a pipeline it pooled is as good as just heard and used.           *)
(***************************************************************************)
Renews(m) == seen'[m] = 0 /\ used'[m] = 0 /\ failing'[m] = 0
Spares(m) == seen'[m] = seen[m] /\ used'[m] = used[m] /\ failing'[m] = failing[m]

LEMMA PostEndsKeeps ==
  ASSUME CInv, pass.phase = "posting", NEW p, p = pass.at,
         NEW e, e = [entry EXCEPT ![p] = "none"] \/ e = [entry EXCEPT ![p] = "warm"],
         Allocate(e, pass.todo),
         seen' \in [Models -> Nat], used' \in [Models -> Nat], failing' \in [Models -> Nat],
         alive' \in [Models -> BOOLEAN], excused' \subseteq Models,
         UNCHANGED <<starting, sound, timer, faults>>,
         \A m \in Models : m # p => Spares(m),
         Spares(p) \/ Renews(p), e[p] = "warm" => Renews(p)
  PROVE  CInv'
<1> USE DEF CInv
<1>1. PICK todo : todo = pass.todo OBVIOUS
<1>2. /\ p \in Models /\ todo \in SUBSET Models /\ Remains \in Nat /\ timer' \in Nat
  BY <1>1, Times DEF Types, InPass, Passes, Remains
<1>3. /\ e \in [Models -> States] /\ e[p] \in {"none", "warm"}
      /\ \A m \in Models : m # p => e[m] = entry[m]
      /\ \A m \in Models : e[m] # "assembling"
  <2>1. \A m \in Models : m # p => entry[m] # "assembling" BY DEF InPass
  <2> QED BY <1>2, <2>1 DEF Types, States
<1>4. Allocate(e, todo) BY <1>1
<1>5. pass' \in Passes /\ InPass' /\ Leaves(e) /\ ~Visiting'
  <2>1. starting \subseteq Models BY DEF Types
  <2> QED BY <1>2, <1>3, <1>4, <2>1, AllocateShape
<1>6. Types' BY <1>5 DEF Types, Leaves
<1>7. Bounded /\ Bounded' BY <1>5, <1>6, Bounds, BoundsNext DEF Bounded
<1>8. \A m \in Models : /\ Since(m) \in Int /\ Since(m)' \in Int
                        /\ seen[m] \in Nat /\ used[m] \in Nat /\ failing[m] \in Nat
  BY <1>7 DEF Bounded, Types
<1>9. ASSUME NEW m \in Models, m # p, entry'[m] \in {"warm", "failed"}
      PROVE  entry[m] = entry'[m] /\ Since(m)' >= Since(m)
  <2>1. entry[m] = entry'[m] /\ e[m] # "none" BY <1>3, <1>5, <1>9 DEF Leaves
  <2>2. Since(m)' >= OnePass - Calls(todo \ {m}) BY <1>2, <1>4, <2>1, AllocateSince
  <2>3. Calls(todo \ {m}) \in Nat BY <1>2, CallsOrder
  <2>4. Since(m) = OnePass - (Remains + Calls(todo \ {m})) BY <1>1 DEF Since, Left, Visiting
  <2> QED BY <1>2, <1>8, <2>1, <2>2, <2>3, <2>4, Times
<1>10. ASSUME entry'[p] \in {"warm", "failed"}
       PROVE  entry'[p] = "warm" /\ Renews(p) /\ Since(p)' >= 0
  <2>1. e[p] = "warm" /\ entry'[p] = "warm" BY <1>2, <1>3, <1>5, <1>10 DEF Leaves
  <2> QED BY <1>2, <1>7, <2>1 DEF Bounded
<1>11. Kept'
  <2> SUFFICES ASSUME NEW m \in Models, entry'[m] = "warm" PROVE seen'[m] <= Since(m)'
    BY DEF Kept
  <2>1. CASE m = p BY <1>10, <2>1 DEF Renews
  <2>2. CASE m # p
    <3>1. seen[m] <= Since(m) BY <1>9, <2>2 DEF Kept, Stopping
    <3> QED BY <1>8, <1>9, <2>2, <3>1 DEF Spares
  <2> QED BY <2>1, <2>2
<1>12. Unused'
  <2> SUFFICES ASSUME NEW m \in Models, entry'[m] = "warm"
               PROVE  used'[m] <= IdleGrace + Since(m)'
    BY <1>5 DEF Unused, DueIdle, Stopping, Visiting
  <2>1. CASE m = p BY <1>8, <1>10, <2>1, Times DEF Renews
  <2>2. CASE m # p
    <3>1. used[m] <= IdleGrace + Since(m) BY <1>9, <2>2 DEF Unused, DueIdle, Stopping, Visiting
    <3> QED BY <1>8, <1>9, <2>2, <3>1, Times DEF Spares
  <2> QED BY <2>1, <2>2
<1>13. Marked'
  <2> SUFFICES ASSUME NEW m \in Models
               PROVE  /\ entry'[m] = "warm" => failing'[m] = 0
                      /\ entry'[m] = "failed" => failing'[m] <= Since(m)'
    BY <1>5 DEF Marked, DueFailed, Stopping, Visiting
  <2>1. CASE m = p BY <1>10, <2>1 DEF Renews
  <2>2. CASE m # p
    <3>1. /\ entry'[m] = "warm" => failing[m] = 0
          /\ entry'[m] = "failed" => failing[m] <= Since(m)
      BY <1>9, <2>2 DEF Marked, DueFailed, Stopping, Visiting
    <3> QED BY <1>8, <1>9, <2>2, <3>1 DEF Spares
  <2> QED BY <2>1, <2>2
<1>14. Snapshot' BY <1>5 DEF Snapshot
<1>15. FailedGoneSoon' /\ IdleGoneSoon'
  <2> SUFFICES ASSUME NEW m \in Models
               PROVE  failing'[m] <= Response /\ used'[m] <= IdleGrace + Response
    BY DEF FailedGoneSoon, IdleGoneSoon
  <2>1. failing[m] <= Response /\ used[m] <= IdleGrace + Response
    BY DEF FailedGoneSoon, IdleGoneSoon
  <2>2. Spares(m) \/ Renews(m) OBVIOUS
  <2> QED BY <2>1, <2>2, Responses, Times DEF Spares, Renews
<1> QED BY <1>5, <1>6, <1>11, <1>12, <1>13, <1>14, <1>15

LEMMA PoolsEffect ==
  ASSUME Types, NEW p \in Models, NEW up \in BOOLEAN, Pools(p, up)
  PROVE  /\ seen' \in [Models -> Nat] /\ used' \in [Models -> Nat] /\ failing' \in [Models -> Nat]
         /\ alive' \in [Models -> BOOLEAN] /\ excused' = excused \cup {p}
         /\ excused' \subseteq Models
         /\ Renews(p) /\ \A m \in Models : m # p => Spares(m)
<1>1. /\ seen' = [seen EXCEPT ![p] = 0] /\ used' = [used EXCEPT ![p] = 0]
      /\ failing' = [failing EXCEPT ![p] = 0] /\ alive' = [alive EXCEPT ![p] = up]
      /\ excused' = excused \cup {p}
  BY DEF Pools
<1>2. \A m \in Models : m # p => Spares(m) BY <1>1 DEF Spares, Types
<1>3. Renews(p) BY <1>1 DEF Renews, Types
<1> QED BY <1>1, <1>2, <1>3 DEF Types

LEMMA TryAssembleKeeps == CInv /\ (TryAssembleEnds \/ TryAssembleFails) => CInv'
<1>1. ASSUME CInv, TryAssembleEnds PROVE CInv'
  <2>1. /\ pass.phase = "posting" /\ Pools(pass.at, TRUE)
        /\ Allocate([entry EXCEPT ![pass.at] = "warm"], pass.todo)
        /\ UNCHANGED <<starting, sound, timer, faults>>
    BY <1>1 DEF TryAssembleEnds
  <2>2. PICK p : p = pass.at OBVIOUS
  <2>3. PICK e : e = [entry EXCEPT ![p] = "warm"] OBVIOUS
  <2>4. p \in Models /\ Types BY <1>1, <2>1, <2>2 DEF CInv, InPass
  <2>5. Pools(p, TRUE) /\ Allocate(e, pass.todo) BY <2>1, <2>2, <2>3
  <2>6. /\ seen' \in [Models -> Nat] /\ used' \in [Models -> Nat] /\ failing' \in [Models -> Nat]
        /\ alive' \in [Models -> BOOLEAN] /\ excused' \subseteq Models
        /\ Renews(p) /\ \A m \in Models : m # p => Spares(m)
    BY <2>4, <2>5, PoolsEffect
  <2> QED BY <1>1, <2>1, <2>2, <2>3, <2>5, <2>6, PostEndsKeeps
<1>2. ASSUME CInv, TryAssembleFails PROVE CInv'
  <2>1. /\ pass.phase = "posting"
        /\ Allocate([entry EXCEPT ![pass.at] = "none"], pass.todo)
        /\ UNCHANGED <<starting, seen, used, failing, alive, sound, timer, excused, faults>>
    BY <1>2 DEF TryAssembleFails, WithoutReservation
  <2>2. PICK p : p = pass.at OBVIOUS
  <2>3. PICK e : e = [entry EXCEPT ![p] = "none"] OBVIOUS
  <2>4. p \in Models /\ Types /\ Allocate(e, pass.todo)
    BY <1>2, <2>1, <2>2, <2>3 DEF CInv, InPass
  <2>5. e[p] = "none" BY <2>3, <2>4 DEF Types
  <2>6. /\ seen' \in [Models -> Nat] /\ used' \in [Models -> Nat] /\ failing' \in [Models -> Nat]
        /\ alive' \in [Models -> BOOLEAN] /\ excused' \subseteq Models
        /\ \A m \in Models : Spares(m)
    BY <2>1, <2>4 DEF Types, Spares
  <2> QED BY <1>2, <2>1, <2>2, <2>3, <2>4, <2>5, <2>6, PostEndsKeeps
<1> QED BY <1>1, <1>2
(***************************************************************************)
(* A request: its pipeline is as good as just heard and used, even if it   *)
(* turns out failed, and a pass that had it down as idle lets it be.       *)
(***************************************************************************)
LEMMA GenerateKeeps == ASSUME NEW m \in Models PROVE CInv /\ Generate(m) => CInv'
<1> SUFFICES ASSUME CInv, Generate(m) PROVE CInv'
  OBVIOUS
<1> USE DEF CInv
<1>1. /\ entry[m] = "warm"
      /\ used' = [used EXCEPT ![m] = 0] /\ seen' = [seen EXCEPT ![m] = 0]
      /\ entry' = entry \/ entry' = [entry EXCEPT ![m] = "failed"]
      /\ pass' = [pass EXCEPT !.idle = @ \ {m}]
      /\ UNCHANGED <<starting, failing, alive, sound, timer, excused, faults>>
  BY DEF Generate, Usable
<1>2. /\ pass' \in Passes /\ pass'.phase = pass.phase /\ pass'.at = pass.at
      /\ pass'.age = pass.age /\ pass'.todo = pass.todo /\ pass'.active = pass.active
      /\ pass'.idle = pass.idle \ {m}
  BY <1>1 DEF Types, Passes
<1>3. /\ entry' \in [Models -> States]
      /\ \A n \in Models : n # m => entry'[n] = entry[n]
      /\ entry'[m] \in {"warm", "failed"}
  BY <1>1 DEF Types, States
<1>4. /\ seen' \in [Models -> Nat] /\ used' \in [Models -> Nat]
      /\ seen'[m] = 0 /\ used'[m] = 0
      /\ \A n \in Models : n # m => seen'[n] = seen[n] /\ used'[n] = used[n]
  BY <1>1 DEF Types
<1>5. Types' BY <1>1, <1>2, <1>3, <1>4 DEF Types
<1>6. InPass'
  <2>1. \A n \in Models : entry'[n] = "assembling" <=> entry[n] = "assembling" BY <1>1, <1>3
  <2>2. pass.phase = "stopping" => entry'[pass.at] \in {"warm", "failed"}
    BY <1>3 DEF InPass
  <2>3. \A n \in starting : n \in Models BY DEF Types
  <2> QED BY <1>1, <1>2, <2>1, <2>2, <2>3 DEF InPass
<1>7. \A n \in Models : Since(n)' = Since(n) /\ Ahead(n)' = Ahead(n)
  BY <1>1, <1>2 DEF Since, Left, Ahead, Remains, Visiting
<1>8. /\ Since(m) \in Nat /\ Ahead(m) \in Nat
      /\ pass.phase # "idle" => Ahead(m) <= Calls(Models)
  BY Bounds
<1>9. Kept' BY <1>2, <1>3, <1>4, <1>7, <1>8 DEF Kept, Stopping
<1>10. Unused'
  <2> SUFFICES ASSUME NEW n \in Models, entry'[n] = "warm"
               PROVE  IF DueIdle(n)' THEN used'[n] + Ahead(n)' <= IdleGrace + Response
                      ELSE used'[n] <= IdleGrace + Since(n)'
    BY DEF Unused
  <2>1. CASE n = m
    <3>1. DueIdle(m)' => Ahead(m) <= Calls(Models)
      BY <1>2, <1>8 DEF DueIdle, Stopping, Visiting
    <3> QED BY <1>4, <1>7, <1>8, <2>1, <3>1, Responses, Times
  <2>2. CASE n # m
    <3>1. DueIdle(n)' <=> DueIdle(n) BY <1>2, <2>2 DEF DueIdle, Stopping, Visiting
    <3> QED BY <1>3, <1>4, <1>7, <2>2, <3>1 DEF Unused
  <2> QED BY <2>1, <2>2
<1>11. Marked'
  <2> SUFFICES ASSUME NEW n \in Models
               PROVE  /\ entry'[n] = "warm" => failing'[n] = 0
                      /\ entry'[n] = "failed" =>
                           IF DueFailed(n)' THEN failing'[n] + Ahead(n)' <= Response
                           ELSE failing'[n] <= Since(n)'
    BY DEF Marked
  <2>1. DueFailed(n)' <=> DueFailed(n) BY <1>2 DEF DueFailed, Stopping, Visiting
  <2>2. CASE n = m
    <3>1. failing'[m] = 0 BY <1>1 DEF Marked
    <3>2. DueFailed(m) => Ahead(m) <= Calls(Models)
      BY <1>8 DEF DueFailed, Stopping, Visiting
    <3> QED BY <1>7, <1>8, <2>1, <2>2, <3>1, <3>2, Responses
  <2>3. CASE n # m BY <1>1, <1>3, <1>7, <2>1, <2>3 DEF Marked
  <2> QED BY <2>2, <2>3
<1>12. Snapshot' BY <1>1, <1>2, <1>3, <1>4 DEF Snapshot, Visiting
<1>13. FailedGoneSoon' /\ IdleGoneSoon'
  BY <1>1, <1>4, Responses, Times DEF FailedGoneSoon, IdleGoneSoon
<1> QED BY <1>5, <1>6, <1>9, <1>10, <1>11, <1>12, <1>13

(***************************************************************************)
(* So is the one a cold start pools.  If a pass awaited the stop of the    *)
(* one it replaced, the pass is late, and has as much left as before.      *)
(***************************************************************************)
LEMMA ColdStartEndsKeeps == ASSUME NEW m \in Models PROVE CInv /\ ColdStartEnds(m) => CInv'
<1> SUFFICES ASSUME CInv, ColdStartEnds(m) PROVE CInv'
  OBVIOUS
<1> USE DEF CInv
<1>1. /\ m \in starting /\ starting' = starting \ {m} /\ \E up \in BOOLEAN : Pools(m, up)
      /\ entry' = [entry EXCEPT ![m] = "warm"]
      /\ UNCHANGED <<sound, timer, faults>>
  BY DEF ColdStartEnds
<1>2. /\ pass' \in Passes /\ pass'.at = pass.at /\ pass'.age = pass.age
      /\ pass'.todo = pass.todo /\ pass'.active \in {pass.active, pass.active \ {m}}
      /\ pass'.idle = pass.idle \ {m}
      /\ pass'.phase = IF pass.phase = "stopping" /\ pass.at = m THEN "late" ELSE pass.phase
  <2>1. PICK active \in {pass.active, pass.active \ {m}} :
          pass' = [pass EXCEPT !.active = active, !.idle = @ \ {m},
                               !.phase = IF pass.phase = "stopping" /\ pass.at = m THEN "late"
                                         ELSE @]
    BY DEF ColdStartEnds
  <2> QED BY <2>1 DEF Types, Passes
<1>3. /\ Visiting' <=> Visiting
      /\ pass'.phase = "idle" <=> pass.phase = "idle"
      /\ pass'.phase = "posting" <=> pass.phase = "posting"
      /\ ~Stopping(m)'
      /\ \A n \in Models : n # m => (Stopping(n)' <=> Stopping(n))
  BY <1>2 DEF Visiting, Stopping
<1>4. /\ seen' \in [Models -> Nat] /\ used' \in [Models -> Nat] /\ failing' \in [Models -> Nat]
      /\ alive' \in [Models -> BOOLEAN] /\ excused' = excused \cup {m}
      /\ excused' \subseteq Models
      /\ Renews(m) /\ \A n \in Models : n # m => Spares(n)
  BY <1>1, PoolsEffect
<1>5. /\ entry' \in [Models -> States] /\ entry'[m] = "warm" /\ entry[m] # "assembling"
      /\ \A n \in Models : n # m => entry'[n] = entry[n]
  BY <1>1 DEF Types, States, InPass
<1>6. Types' BY <1>1, <1>2, <1>4, <1>5 DEF Types
<1>7. InPass'
  <2>1. \A n \in Models : entry'[n] = "assembling" <=> entry[n] = "assembling" BY <1>5
  <2>2. pass'.phase = "stopping" => pass.phase = "stopping" /\ pass.at # m BY <1>2
  <2>3. pass'.phase = "stopping" => entry'[pass.at] \in {"warm", "failed"}
    BY <1>5, <2>2 DEF InPass
  <2>4. \A n \in starting' : entry'[n] # "assembling" BY <1>1, <1>5 DEF InPass, Types
  <2> QED BY <1>2, <1>3, <2>1, <2>3, <2>4 DEF InPass
<1>8. \A n \in Models : Since(n)' = Since(n) /\ Ahead(n)' = Ahead(n)
  BY <1>1, <1>2, <1>3 DEF Since, Left, Ahead, Remains
<1>9. /\ Since(m) \in Nat /\ Ahead(m) \in Nat
      /\ pass.phase # "idle" => Ahead(m) <= Calls(Models)
  BY Bounds
<1>10. Kept' BY <1>3, <1>4, <1>5, <1>8, <1>9 DEF Kept, Renews, Spares
<1>11. ~DueIdle(m)' BY <1>2, <1>3 DEF DueIdle
<1>12. \A n \in Models : n # m => /\ DueIdle(n)' <=> DueIdle(n)
                                  /\ DueFailed(n)' <=> DueFailed(n)
  BY <1>2, <1>3 DEF DueIdle, DueFailed
<1>13. Unused'
  <2> SUFFICES ASSUME NEW n \in Models, entry'[n] = "warm"
               PROVE  IF DueIdle(n)' THEN used'[n] + Ahead(n)' <= IdleGrace + Response
                      ELSE used'[n] <= IdleGrace + Since(n)'
    BY DEF Unused
  <2>1. CASE n = m BY <1>4, <1>8, <1>9, <1>11, <2>1, Times DEF Renews
  <2>2. CASE n # m BY <1>4, <1>5, <1>8, <1>12, <2>2 DEF Unused, Spares
  <2> QED BY <2>1, <2>2
<1>14. Marked'
  <2> SUFFICES ASSUME NEW n \in Models
               PROVE  /\ entry'[n] = "warm" => failing'[n] = 0
                      /\ entry'[n] = "failed" =>
                           IF DueFailed(n)' THEN failing'[n] + Ahead(n)' <= Response
                           ELSE failing'[n] <= Since(n)'
    BY DEF Marked
  <2>1. CASE n = m BY <1>4, <1>5, <2>1 DEF Renews
  <2>2. CASE n # m BY <1>4, <1>5, <1>8, <1>12, <2>2 DEF Marked, Spares
  <2> QED BY <2>1, <2>2
<1>15. Snapshot' BY <1>2, <1>3, <1>4, <1>5 DEF Snapshot, Spares
<1>16. FailedGoneSoon' /\ IdleGoneSoon'
  BY <1>4, Responses, Times DEF FailedGoneSoon, IdleGoneSoon, Renews, Spares
<1> QED BY <1>6, <1>7, <1>10, <1>13, <1>14, <1>15, <1>16

(***************************************************************************)
(* One that fails has marked what it found just now, one that begins only  *)
(* holds its reservation.                                                  *)
(***************************************************************************)
LEMMA ColdStartWaitsKeeps ==
  ASSUME NEW m \in Models
  PROVE  CInv /\ (ColdStartBegins(m) \/ ColdStartFails(m)) => CInv'
<1> SUFFICES ASSUME CInv, ColdStartBegins(m) \/ ColdStartFails(m) PROVE CInv'
  OBVIOUS
<1> USE DEF CInv
<1>1. /\ UNCHANGED <<seen, used, failing, alive, sound, timer, pass, excused, faults>>
      /\ starting' \subseteq Models
      /\ entry[m] # "assembling" /\ \A n \in starting' : n \in starting \/ n = m
      /\ entry' = entry \/ (entry[m] = "warm" /\ entry' = [entry EXCEPT ![m] = "failed"])
  BY DEF ColdStartBegins, ColdStartFails, Types, InPass
<1>2. /\ entry' \in [Models -> States]
      /\ \A n \in Models : \/ entry'[n] = entry[n]
                           \/ entry[n] = "warm" /\ entry'[n] = "failed"
  BY <1>1 DEF Types, States
<1>3. Types' BY <1>1, <1>2 DEF Types
<1>4. InPass'
  <2>1. \A n \in Models : entry'[n] = "assembling" <=> entry[n] = "assembling" BY <1>2
  <2>2. \A n \in starting' : n \in Models /\ entry[n] # "assembling"
    BY <1>1 DEF InPass
  <2>3. \A n \in starting' : entry'[n] # "assembling" BY <2>1, <2>2
  <2>4. pass.phase = "stopping" => entry'[pass.at] \in {"warm", "failed"}
    BY <1>2 DEF InPass
  <2> QED BY <1>1, <2>1, <2>3, <2>4 DEF InPass
<1>5. \A n \in Models : /\ Since(n)' = Since(n) /\ Ahead(n)' = Ahead(n)
                        /\ DueIdle(n)' <=> DueIdle(n)
                        /\ DueFailed(n)' <=> DueFailed(n)
                        /\ Stopping(n)' <=> Stopping(n)
  BY <1>1 DEF Since, Left, Ahead, Remains, Visiting, DueIdle, DueFailed, Stopping
<1>6. Kept' BY <1>1, <1>2, <1>5 DEF Kept
<1>7. Unused' BY <1>1, <1>2, <1>5 DEF Unused
<1>8. Marked'
  <2> SUFFICES ASSUME NEW n \in Models
               PROVE  /\ entry'[n] = "warm" => failing'[n] = 0
                      /\ entry'[n] = "failed" =>
                           IF DueFailed(n)' THEN failing'[n] + Ahead(n)' <= Response
                           ELSE failing'[n] <= Since(n)'
    BY DEF Marked
  <2>1. CASE entry'[n] = entry[n] BY <1>1, <1>5, <2>1 DEF Marked
  <2>2. CASE entry[n] = "warm" /\ entry'[n] = "failed"
    <3>1. failing'[n] = 0 BY <1>1, <2>2 DEF Marked
    <3>2. /\ Since(n) \in Nat /\ Ahead(n) \in Nat
          /\ pass.phase # "idle" => Ahead(n) <= Calls(Models)
      BY Bounds
    <3>3. DueFailed(n) => Ahead(n) <= Calls(Models)
      BY <3>2 DEF DueFailed, Stopping, Visiting
    <3> QED BY <1>5, <2>2, <3>1, <3>2, <3>3, Responses
  <2> QED BY <1>2, <2>1, <2>2
<1>9. Snapshot' BY <1>1, <1>2 DEF Snapshot, Visiting
<1>10. FailedGoneSoon' /\ IdleGoneSoon' BY <1>1 DEF FailedGoneSoon, IdleGoneSoon
<1> QED BY <1>3, <1>4, <1>6, <1>7, <1>8, <1>9, <1>10

(***************************************************************************)
(* Faults excuse a pipeline at most.                                       *)
(***************************************************************************)
LEMMA FaultsKeep ==
  ASSUME CInv, UNCHANGED <<entry, starting, seen, used, failing, timer, pass>>,
         alive' \in [Models -> BOOLEAN], sound' \in [Models -> BOOLEAN],
         excused \subseteq excused', excused' \subseteq Models, faults' \in Nat
  PROVE  CInv'
<1> USE DEF CInv
<1>1. Types' BY DEF Types
<1>2. InPass' BY DEF InPass
<1>3. \A n \in Models : Since(n)' = Since(n) /\ Ahead(n)' = Ahead(n)
  BY DEF Since, Left, Ahead, Remains, Visiting
<1>4. Kept' BY <1>3 DEF Kept, Stopping
<1>5. Unused' BY <1>3 DEF Unused, DueIdle, Stopping, Visiting
<1>6. Marked' BY <1>3 DEF Marked, DueFailed, Stopping, Visiting
<1>7. Snapshot' BY DEF Snapshot, Visiting
<1>8. FailedGoneSoon' /\ IdleGoneSoon' BY DEF FailedGoneSoon, IdleGoneSoon
<1> QED BY <1>1, <1>2, <1>4, <1>5, <1>6, <1>7, <1>8

LEMMA NextKeeps == CInv /\ [Next]_vars => CInv'
<1> SUFFICES ASSUME CInv, [Next]_vars PROVE CInv'
  OBVIOUS
<1>1. CASE TimePasses BY <1>1, TimePassesKeeps
<1>2. CASE TimerFires BY <1>2, TimerFiresKeeps, TimerSkipsKeeps
<1>3. CASE TearDownEnds BY <1>3, TearDownEndsKeeps
<1>4. CASE TryAssembleEnds \/ TryAssembleFails BY <1>4, TryAssembleKeeps
<1>5. ASSUME NEW m \in Models, Generate(m) \/ ColdStartEnds(m) PROVE CInv'
  BY <1>5, GenerateKeeps, ColdStartEndsKeeps
<1>6. ASSUME NEW m \in Models, ColdStartBegins(m) \/ ColdStartFails(m) PROVE CInv'
  BY <1>6, ColdStartWaitsKeeps
<1>7. ASSUME NEW m \in Models, AgentDies(m) \/ PipelineBreaks(m) \/ PipelineMends(m) PROVE CInv'
  <2>1. /\ UNCHANGED <<entry, starting, seen, used, failing, timer, pass>>
        /\ alive' \in [Models -> BOOLEAN] /\ sound' \in [Models -> BOOLEAN]
        /\ excused \subseteq excused' /\ excused' \subseteq Models /\ faults' \in Nat
    <3>1. /\ alive \in [Models -> BOOLEAN] /\ sound \in [Models -> BOOLEAN]
          /\ excused \subseteq Models /\ faults \in Nat
      BY DEF CInv, Types
    <3>2. CASE AgentDies(m) BY <3>1, <3>2 DEF AgentDies, Fault
    <3>3. CASE PipelineBreaks(m) BY <3>1, <3>3 DEF PipelineBreaks, Fault
    <3>4. CASE PipelineMends(m) BY <3>1, <3>4 DEF PipelineMends
    <3> QED BY <1>7, <3>2, <3>3, <3>4
  <2> QED BY <2>1, FaultsKeep
<1>8. CASE UNCHANGED vars
  <2>1. /\ UNCHANGED <<entry, starting, seen, used, failing, timer, pass>>
        /\ alive' \in [Models -> BOOLEAN] /\ sound' \in [Models -> BOOLEAN]
        /\ excused \subseteq excused' /\ excused' \subseteq Models /\ faults' \in Nat
    BY <1>8 DEF vars, CInv, Types
  <2> QED BY <2>1, FaultsKeep
<1> QED BY <1>1, <1>2, <1>3, <1>4, <1>5, <1>6, <1>7, <1>8 DEF Next

-----------------------------------------------------------------------------
(***************************************************************************)
(* The claims: FailedGoneSoon and IdleGoneSoon are conjuncts of the        *)
(* invariant, and HealthyStays is what Kept and Snapshot are for.          *)
(***************************************************************************)
LEMMA ClockInvariant == Spec => []CInv
<1> QED BY InitClock, NextKeeps, PTL DEF Spec

(***************************************************************************)
(* A pipeline marked failed is in the pool no longer than Response.        *)
(***************************************************************************)
THEOREM FailedPipelinesGo == Spec => []FailedGoneSoon
<1>1. CInv => FailedGoneSoon BY DEF CInv
<1> QED BY <1>1, ClockInvariant, PTL

(***************************************************************************)
(* A pipeline nobody uses is in it no longer than Response past its grace. *)
(***************************************************************************)
THEOREM IdlePipelinesGo == Spec => []IdleGoneSoon
<1>1. CInv => IdleGoneSoon BY DEF CInv
<1> QED BY <1>1, ClockInvariant, PTL

Excused(m) == entry[m] = "failed" \/ used[m] > IdleGrace \/ m \in excused'

(***************************************************************************)
(* A pass stops no pipeline that was pooled and in order when it began and *)
(* stayed so, unless it failed or was past its grace: when the pass begins *)
(* Kept says its driver was heard in time, and while it runs Snapshot says *)
(* that what it found still holds.                                         *)
(***************************************************************************)
THEOREM HealthyPipelinesStay == Spec => HealthyStays
<1>1. ASSUME CInv, [Next]_vars, NEW m \in Models, Stopping(m)', ~Stopping(m)
      PROVE  Excused(m)
  <2> USE DEF CInv
  <2>1. CASE TimerFires
    <3>1. pass.phase = "idle" BY <1>1, <2>1 DEF TimerFires, Stopping
    <3>2. /\ excused' = {n \in Models : ~sound[n]}
          /\ HealthCheckAndScaleDown(entry, ActiveAfterHeartbeats, IdleModels, Models)
      BY <2>1, <3>1 DEF TimerFires
    <3>3. \A n \in Models : entry[n] # "assembling" BY <1>1, <3>1 DEF InPass
    <3>4. Doomed(entry, m, ActiveAfterHeartbeats, IdleModels)
      <4>1. PICK e : e = entry OBVIOUS
      <4>2. PICK active : active = ActiveAfterHeartbeats OBVIOUS
      <4>3. PICK idle : idle = IdleModels OBVIOUS
      <4>4. /\ e \in [Models -> States] /\ active \in SUBSET Models /\ idle \in SUBSET Models
            /\ Models \in SUBSET Models /\ HealthCheckAndScaleDown(e, active, idle, Models)
            /\ \A n \in Models : e[n] # "assembling"
            /\ starting \subseteq Models /\ UNCHANGED starting
        BY <1>1, <2>1, <3>2, <3>3, <4>1, <4>2, <4>3
        DEF Types, ActiveAfterHeartbeats, IdleModels, TimerFires
      <4>5. Doomed(e, m, active, idle) BY <1>1, <4>4, HealthCheckShape DEF Stopping, Visiting
      <4> QED BY <4>1, <4>2, <4>3, <4>5
    <3>5. ASSUME entry[m] = "warm" PROVE seen[m] <= NodeTimeout
      <4>1. seen[m] <= Since(m) /\ seen[m] \in Nat BY <1>1, <3>5 DEF Kept, Types
      <4>2. Since(m) \in Int /\ Since(m) <= HeartbeatGap BY <1>1, Bounds
      <4> QED BY <4>1, <4>2, Times
    <3> QED BY <3>2, <3>4, <3>5 DEF Doomed, ActiveAfterHeartbeats, IdleModels, Excused
  <2>2. CASE TearDownEnds
    <3>1. Visiting /\ UNCHANGED <<starting, used, excused>>
      BY <2>2 DEF TearDownEnds, Visiting
    <3>2. PICK e : /\ e = entry \/ (Stopping(pass.at) /\ e = [entry EXCEPT ![pass.at] = "none"])
                   /\ HealthCheckAndScaleDown(e, pass.active, pass.idle, pass.todo)
      BY <2>2 DEF TearDownEnds, Stopping
    <3>3. PICK active : active = pass.active OBVIOUS
    <3>4. PICK idle : idle = pass.idle OBVIOUS
    <3>5. PICK todo : todo = pass.todo OBVIOUS
    <3>6. /\ \A n \in Models : entry[n] # "assembling"
          /\ pass.at \in Models
      BY <1>1, <3>1 DEF InPass, Visiting
    <3>7. /\ e \in [Models -> States] /\ starting \subseteq Models
          /\ active \in SUBSET Models /\ idle \in SUBSET Models /\ todo \in SUBSET Models
          /\ \A n \in Models : e[n] # "assembling"
      BY <1>1, <3>2, <3>3, <3>4, <3>5, <3>6 DEF Types, Passes, States
    <3>8. HealthCheckAndScaleDown(e, active, idle, todo)
      BY <3>2, <3>3, <3>4, <3>5
    <3>9. Doomed(e, m, active, idle)
      BY <1>1, <3>1, <3>7, <3>8, HealthCheckShape DEF Stopping, Visiting
    <3>10. e[m] = entry[m] BY <1>1, <3>2, <3>6 DEF Stopping, Types
    <3> QED BY <1>1, <3>1, <3>3, <3>4, <3>9, <3>10 DEF Doomed, Snapshot, Excused
  <2>3. CASE TryAssembleEnds \/ TryAssembleFails
    <3>1. PICK e : /\ e = [entry EXCEPT ![pass.at] = "none"] \/ e = [entry EXCEPT ![pass.at] = "warm"]
                   /\ Allocate(e, pass.todo) /\ pass.phase = "posting" /\ UNCHANGED starting
      BY <2>3 DEF TryAssembleEnds, TryAssembleFails, WithoutReservation
    <3>2. PICK todo : todo = pass.todo OBVIOUS
    <3>3. \A n \in Models : n # pass.at => entry[n] # "assembling" BY <1>1, <3>1 DEF InPass
    <3>4. /\ e \in [Models -> States] /\ todo \in SUBSET Models /\ starting \subseteq Models
          /\ \A n \in Models : e[n] # "assembling"
      <4>1. pass.at \in Models BY <1>1, <3>1 DEF InPass
      <4> QED BY <1>1, <3>1, <3>2, <3>3, <4>1 DEF Types, Passes, States
    <3>5. ~Visiting' BY <3>1, <3>2, <3>4, AllocateShape
    <3> QED BY <1>1, <3>5 DEF Stopping, Visiting
  <2>4. CASE pass'.phase = pass.phase /\ pass'.at = pass.at BY <1>1, <2>4 DEF Stopping
  <2>5. TimePasses \/ (\E n \in Models : Generate(n)) => pass'.phase = pass.phase /\ pass'.at = pass.at
    BY <1>1 DEF TimePasses, Generate, Types, Passes
  <2>6. ASSUME NEW n \in Models,
               ColdStartBegins(n) \/ ColdStartFails(n) \/ AgentDies(n) \/ PipelineBreaks(n) \/ PipelineMends(n)
        PROVE  pass' = pass
    BY <2>6 DEF ColdStartBegins, ColdStartFails, AgentDies, PipelineBreaks, PipelineMends
  <2>7. ASSUME NEW n \in Models, ColdStartEnds(n)
        PROVE  Stopping(m)' => Stopping(m)
    <3>1. PICK active : pass' = [pass EXCEPT !.active = active, !.idle = @ \ {n},
                                   !.phase = IF pass.phase = "stopping" /\ pass.at = n THEN "late"
                                             ELSE @]
      BY <2>7 DEF ColdStartEnds
    <3> QED BY <1>1, <3>1 DEF Stopping, Types, Passes
  <2> QED BY <1>1, <2>1, <2>2, <2>3, <2>4, <2>5, <2>6, <2>7 DEF Next, vars
<1>2. CInv /\ [Next]_vars =>
        \A m \in Models : Stopping(m)' /\ ~Stopping(m) =>
          entry[m] = "failed" \/ used[m] > IdleGrace \/ m \in excused'
  BY <1>1 DEF Excused
<1>3. CInv /\ [Next]_vars =>
        [\A m \in Models : Stopping(m)' /\ ~Stopping(m) =>
          entry[m] = "failed" \/ used[m] > IdleGrace \/ m \in excused']_vars
  BY <1>2
<1> QED BY <1>3, ClockInvariant, PTL DEF Spec, HealthyStays

=============================================================================
