------------------------ MODULE PoolAllocation_proofs ------------------------
(***************************************************************************)
(* What planAllocations promises, for any catalog, any launchers, any      *)
(* demand and any pools: the two invariants it is written to make          *)
(* checkable, that it fills every model as far as it may and no further,   *)
(* and that the busiest model has first refusal.                           *)
(***************************************************************************)
EXTENDS PoolAllocation, FiniteSetTheorems, TLAPS

(***************************************************************************)
(* The inductive invariant: what backs a pipeline and what was handed out  *)
(* is claimed, and nothing was handed out that backed a pipeline before.   *)
(***************************************************************************)
Spoken ==
  /\ backing \subseteq claimed
  /\ \A c \in claims : <<c.launcher, "id">> \in claimed

IInv == Spoken /\ NoPreemption /\ NoDoubleClaim

(***************************************************************************)
(* No loop hands out a launcher before it starts.                          *)
(***************************************************************************)
LEMMA InitSound == Init => IInv
BY DEF Init, IInv, Spoken, NoPreemption, NoDoubleClaim

(***************************************************************************)
(* Only Claim hands one out, and only one that neither backs a pipeline    *)
(* nor was handed out before.                                              *)
(***************************************************************************)
LEMMA StepSound == IInv /\ [Next]_vars => IInv'
<1> SUFFICES ASSUME IInv, [Next]_vars PROVE IInv'
  OBVIOUS
<1> USE DEF IInv, Spoken, NoPreemption, NoDoubleClaim, Free
<1>1. CASE Visit BY <1>1 DEF Visit
<1>2. CASE Claim
  <2>0. PICK l \in rest :
          /\ ~IsLauncherClaimed(l)
          /\ claimed' = ClaimedWith(l)
          /\ claims' = claims \cup {[model |-> visiting, launcher |-> l]}
    BY <1>2 DEF Claim
  <2> DEFINE c == [model |-> visiting, launcher |-> l]
  <2>1. /\ <<l, "id">> \notin claimed /\ <<l, "endpoint">> \notin claimed
        /\ claimed' = claimed \cup {<<l, "id">>, <<l, "endpoint">>}
        /\ claims' = claims \cup {c}
        /\ UNCHANGED backing
    BY <1>2, <2>0 DEF Claim, IsLauncherClaimed, ClaimedWith
  <2>2. c.launcher = l OBVIOUS
  <2> HIDE DEF c
  <2>3. Spoken' BY <2>1, <2>2
  <2>4. NoPreemption' BY <2>1, <2>2
  <2>5. NoDoubleClaim' BY <2>1, <2>2
  <2> QED BY <2>3, <2>4, <2>5
<1>3. CASE Skip BY <1>3 DEF Skip
<1>4. CASE Leave BY <1>4 DEF Leave
<1>5. CASE UNCHANGED vars BY <1>5 DEF vars
<1> QED BY <1>1, <1>2, <1>3, <1>4, <1>5 DEF Next

(***************************************************************************)
(* No preemption, in any order of any launchers.                           *)
(***************************************************************************)
THEOREM NeverPreempts == Spec => []NoPreemption
<1>1. IInv => NoPreemption BY DEF IInv
<1> QED BY <1>1, InitSound, StepSound, PTL DEF Spec

(***************************************************************************)
(* No launcher is handed out twice.                                        *)
(***************************************************************************)
THEOREM NeverClaimsTwice == Spec => []NoDoubleClaim
<1>1. IInv => NoDoubleClaim BY DEF IInv
<1> QED BY <1>1, InitSound, StepSound, PTL DEF Spec

-----------------------------------------------------------------------------
(***************************************************************************)
(* The plan.  Its invariant says, besides the types: how far each model is *)
(* filled and what the loop still owes the one it visits; that a launcher  *)
(* is claimed for a reason, and that a model the loop has left short has   *)
(* none left; and that the loop came by in the order of demand.            *)
(***************************************************************************)
Counted ==
  /\ demand \in [Models -> Nat] /\ current \in [Models -> Nat]
  /\ hosts \in [Launchers -> SUBSET Models]
  /\ claims \subseteq [model : Models, launcher : Launchers] /\ IsFiniteSet(claims)
  /\ todo \subseteq Models /\ visiting \in Models \cup {NoModel}
  /\ rest \subseteq Launchers /\ deficit \in Nat

Filled ==
  /\ \A m \in todo : current[m] < Desired(m) /\ ClaimsOf(m) = {}
  /\ \A c \in claims : c.model \in hosts[c.launcher] /\ RequiredNodeCount[c.model] > 1
  /\ \A m \in Models : ClaimsOf(m) # {} => current[m] + Cardinality(ClaimsOf(m)) <= Desired(m)
  /\ visiting # NoModel =>
       /\ visiting \notin todo /\ RequiredNodeCount[visiting] > 1
       /\ current[visiting] + Cardinality(ClaimsOf(visiting)) + deficit = Desired(visiting)
       /\ \A l \in rest : visiting \in hosts[l]

Taken(l) == \E c \in claims : c.launcher = l

Exhausted ==
  /\ \A l \in Launchers :
       <<l, "id">> \in claimed \/ <<l, "endpoint">> \in claimed => ~Free(l) \/ Taken(l)
  /\ \A m \in Models \ todo : Short(m) =>
       \A l \in Launchers : m \in hosts[l] /\ Free(l) =>
         Taken(l) \/ (m = visiting /\ l \in rest)

InOrder ==
  /\ visiting # NoModel => \A k \in todo : demand[k] <= demand[visiting]
  /\ \A c \in claims : /\ \A k \in todo : demand[k] <= demand[c.model]
                       /\ visiting # NoModel => demand[visiting] <= demand[c.model]

Refused ==
  \A m \in Models \ todo : m # visiting /\ Short(m) =>
    \A c \in claims : demand[c.model] < demand[m] => m \notin hosts[c.launcher]

PInv == IInv /\ Counted /\ Filled /\ Exhausted /\ InOrder /\ Refused

(***************************************************************************)
(* A pool never wants more than its ceiling, or than one where the ceiling *)
(* is below the floor, and a model of one node wants none.                 *)
(***************************************************************************)
LEMMA DesiredBounds ==
  ASSUME Counted, NEW m \in Models
  PROVE  /\ Desired(m) \in Nat
         /\ Desired(m) <= Most(1, MaxPipelines[m])
         /\ Desired(m) > 0 => RequiredNodeCount[m] > 1
<1> DEFINE n == Ceil(demand[m], RequestsPerPipeline)
           max == MaxPipelines[m]
<1>1. demand[m] \in Nat /\ RequestsPerPipeline \in Nat \ {0}
  BY AllocationAssumption DEF Counted
<1>2. n \in Int BY <1>1 DEF Ceil
<1>3. max \in Nat /\ RequiredNodeCount[m] \in Nat BY AllocationAssumption
<1>4. Desired(m) = IF RequiredNodeCount[m] <= 1 THEN 0 ELSE Most(1, Least(n, max))
  BY DEF Desired, DesiredPipelineCount
<1> HIDE DEF n, max
<1>5. Most(1, max) \in Nat /\ Most(1, max) >= 1 BY <1>3 DEF Most
<1>6. Most(1, Least(n, max)) \in Nat /\ Most(1, Least(n, max)) <= Most(1, max)
  BY <1>2, <1>3 DEF Most, Least
<1> QED BY <1>3, <1>4, <1>5, <1>6 DEF max

(***************************************************************************)
(* The claims on a model are finitely many.                                *)
(***************************************************************************)
LEMMA ClaimsFinite ==
  ASSUME Counted, NEW m
  PROVE  /\ IsFiniteSet(ClaimsOf(m)) /\ Cardinality(ClaimsOf(m)) \in Nat
         /\ Cardinality(ClaimsOf(m)) = 0 <=> ClaimsOf(m) = {}
<1>1. ClaimsOf(m) \in SUBSET claims BY DEF ClaimsOf
<1>2. IsFiniteSet(ClaimsOf(m)) BY <1>1, FS_Subset DEF Counted
<1> QED BY <1>2, FS_CardinalityType, FS_EmptySet

(***************************************************************************)
(* A new claim counts for its model and for no other.                      *)
(***************************************************************************)
LEMMA OneMore ==
  ASSUME Counted, NEW c, c \notin claims, claims' = claims \cup {c}, NEW m
  PROVE  /\ m # c.model => ClaimsOf(m)' = ClaimsOf(m)
         /\ m = c.model => /\ ClaimsOf(m)' # {}
                           /\ Cardinality(ClaimsOf(m)') = Cardinality(ClaimsOf(m)) + 1
<1>1. CASE m # c.model BY <1>1 DEF ClaimsOf
<1>2. CASE m = c.model
  <2>1. ClaimsOf(m)' = ClaimsOf(m) \cup {c} /\ c \notin ClaimsOf(m)
    BY <1>2 DEF ClaimsOf
  <2> QED BY <1>2, <2>1, ClaimsFinite, FS_AddElement
<1> QED BY <1>1, <1>2

(***************************************************************************)
(* The loop starts with nothing planned.                                   *)
(***************************************************************************)
LEMMA InitPlanned == Init => PInv
<1> SUFFICES ASSUME Init PROVE PInv
  OBVIOUS
<1>1. Counted
  <2>1. demand \in [Models -> Nat] BY AllocationAssumption DEF Init
  <2>2. current \in [Models -> Nat] BY DEF Init, Counts
  <2>3. IsFiniteSet({}) BY FS_EmptySet
  <2> QED BY <2>1, <2>2, <2>3 DEF Init, Counted
<1>2. Filled
  <2>1. \A m : ClaimsOf(m) = {} BY DEF Init, ClaimsOf
  <2>2. \A m \in todo : current[m] < Desired(m)
    BY <1>1, DesiredBounds DEF Init, Counted
  <2> QED BY <2>1, <2>2 DEF Init, Filled
<1>3. Exhausted
  <2>1. \A m \in Models \ todo : ~Short(m)
    <3> TAKE m \in Models \ todo
    <3>1. ~(Desired(m) > current[m]) BY DEF Init
    <3>2. ClaimsOf(m) = {} BY DEF Init, ClaimsOf
    <3> QED BY <1>1, <3>1, <3>2, DesiredBounds, FS_EmptySet DEF Short, Counted
  <2> QED BY <2>1 DEF Init, Exhausted, Free
<1>4. InOrder /\ Refused BY DEF Init, InOrder, Refused
<1> QED BY <1>1, <1>2, <1>3, <1>4, InitSound DEF PInv

(***************************************************************************)
(* What no action touches, and what follows from it.                       *)
(***************************************************************************)
Given == <<demand, current, hosts, backing>>

LEMMA GivenStays ==
  ASSUME UNCHANGED Given
  PROVE  /\ \A m : Desired(m)' = Desired(m)
         /\ \A l : Free(l)' = Free(l)
         /\ UNCHANGED claims => /\ \A m : ClaimsOf(m)' = ClaimsOf(m)
                                /\ \A m : Short(m)' = Short(m)
                                /\ \A l : Taken(l)' = Taken(l)
BY DEF Given, Desired, Free, ClaimsOf, Short, Taken

LEMMA VisitPlanned == PInv /\ Visit => Counted' /\ Filled' /\ Exhausted' /\ InOrder' /\ Refused'
<1> SUFFICES ASSUME PInv, Visit
             PROVE  Counted' /\ Filled' /\ Exhausted' /\ InOrder' /\ Refused'
  OBVIOUS
<1>0. Counted /\ Filled /\ Exhausted /\ InOrder /\ Refused BY DEF PInv
<1>1. PICK m \in todo :
        /\ \A n \in todo \ {m} : Before(m, n)
        /\ visiting' = m /\ todo' = todo \ {m}
        /\ deficit' = Deficit(m) /\ rest' = ListForModel(m)
  BY DEF Visit
<1>2. UNCHANGED Given /\ UNCHANGED <<claimed, claims>> /\ visiting = NoModel
  BY DEF Visit, Given
<1>3. /\ m \in Models /\ m # NoModel /\ ClaimsOf(m) = {}
      /\ current[m] \in Nat /\ Desired(m) \in Nat /\ current[m] < Desired(m)
      /\ RequiredNodeCount[m] > 1
  BY <1>0, DesiredBounds, AllocationAssumption DEF Counted, Filled
<1>4. /\ \A n : Desired(n)' = Desired(n) /\ ClaimsOf(n)' = ClaimsOf(n) /\ Short(n)' = Short(n)
      /\ \A l : Free(l)' = Free(l) /\ Taken(l)' = Taken(l)
  BY <1>2, GivenStays
<1>5. Counted'
  <2>1. deficit' \in Nat BY <1>1, <1>3 DEF Deficit
  <2>2. rest' \subseteq Launchers BY <1>1 DEF ListForModel
  <2> QED BY <1>0, <1>1, <1>2, <1>3, <2>1, <2>2 DEF Counted, Given
<1>6. Filled'
  <2>1. current[m] + Cardinality(ClaimsOf(m)) + Deficit(m) = Desired(m)
    BY <1>3, FS_EmptySet DEF Deficit
  <2>2. \A l \in rest' : m \in hosts[l] BY <1>1 DEF ListForModel
  <2>3. visiting' = m /\ m \notin todo' /\ deficit' = Deficit(m) /\ todo' \subseteq todo
    BY <1>1
  <2> QED BY <1>0, <1>2, <1>3, <1>4, <2>1, <2>2, <2>3 DEF Filled, Given
<1>7. Exhausted'
  <2>1. ASSUME NEW n \in Models \ todo', Short(n), NEW l \in Launchers, n \in hosts[l], Free(l)
        PROVE  Taken(l) \/ (n = m /\ l \in rest')
    <3>1. CASE n = m BY <1>1, <2>1, <3>1 DEF ListForModel
    <3>2. CASE n # m
      <4>1. n \in Models \ todo BY <1>1, <2>1, <3>2
      <4>2. n # visiting BY <1>2, <4>1, AllocationAssumption
      <4> QED BY <1>0, <2>1, <4>1, <4>2 DEF Exhausted
    <3> QED BY <3>1, <3>2
  <2> QED BY <1>0, <1>1, <1>2, <1>4, <2>1 DEF Exhausted, Given
<1>8. InOrder'
  <2>1. \A k \in todo' : demand[k] <= demand[m]
    BY <1>0, <1>1, <1>3 DEF Before, Counted
  <2>2. \A c \in claims : demand[m] <= demand[c.model] BY <1>0 DEF InOrder
  <2>3. todo' \subseteq todo /\ visiting' = m BY <1>1
  <2> QED BY <1>0, <1>2, <2>1, <2>2, <2>3 DEF InOrder, Given
<1>9. Refused'
  <2>1. \A n \in Models \ todo' : n # m => n \in Models \ todo /\ n # visiting
    BY <1>1, <1>2, AllocationAssumption
  <2> QED BY <1>0, <1>1, <1>2, <1>4, <2>1 DEF Refused, Given
<1> QED BY <1>5, <1>6, <1>7, <1>8, <1>9

LEMMA ClaimPlanned == PInv /\ Claim => Counted' /\ Filled' /\ Exhausted' /\ InOrder' /\ Refused'
<1> SUFFICES ASSUME PInv, Claim
             PROVE  Counted' /\ Filled' /\ Exhausted' /\ InOrder' /\ Refused'
  OBVIOUS
<1>0. Counted /\ Filled /\ Exhausted /\ InOrder /\ Refused /\ Spoken BY DEF PInv, IInv
<1>1. PICK l \in rest :
        /\ ~IsLauncherClaimed(l)
        /\ claimed' = ClaimedWith(l)
        /\ claims' = claims \cup {[model |-> visiting, launcher |-> l]}
        /\ rest' = rest \ {l}
  BY DEF Claim
<1>2. /\ UNCHANGED Given /\ UNCHANGED <<todo, visiting>> /\ visiting # NoModel
      /\ deficit > 0 /\ deficit' = deficit - 1
  BY DEF Claim, Given
<1> DEFINE c == [model |-> visiting, launcher |-> l]
<1>3. /\ l \in Launchers /\ visiting \in Models /\ visiting \notin todo
      /\ RequiredNodeCount[visiting] > 1 /\ visiting \in hosts[l]
      /\ c.model = visiting /\ c.launcher = l
      /\ c \in [model : Models, launcher : Launchers]
  BY <1>0, <1>1, <1>2 DEF Counted, Filled
<1>4. Free(l) /\ ~Taken(l) /\ c \notin claims
  BY <1>0, <1>1, <1>3 DEF Spoken, Free, Taken, IsLauncherClaimed
<1>5. claims' = claims \cup {c} BY <1>1
<1> HIDE DEF c
<1>6. /\ \A m : Desired(m)' = Desired(m)
      /\ \A k : Free(k)' = Free(k)
      /\ \A k : Taken(k)' <=> Taken(k) \/ k = l
  BY <1>2, <1>3, <1>5, GivenStays DEF Taken
<1>7. /\ \A m : m # visiting => ClaimsOf(m)' = ClaimsOf(m)
      /\ ClaimsOf(visiting)' # {}
      /\ Cardinality(ClaimsOf(visiting)') = Cardinality(ClaimsOf(visiting)) + 1
  <2>1. \A m : /\ m # c.model => ClaimsOf(m)' = ClaimsOf(m)
               /\ m = c.model => /\ ClaimsOf(m)' # {}
                                 /\ Cardinality(ClaimsOf(m)') = Cardinality(ClaimsOf(m)) + 1
    BY <1>0, <1>4, <1>5, OneMore
  <2> QED BY <1>2, <1>3, <2>1
<1>8. \A m : m # visiting => Short(m)' = Short(m)
  BY <1>2, <1>6, <1>7 DEF Short, Given
<1>9. /\ current[visiting] \in Nat /\ deficit \in Nat /\ Desired(visiting) \in Nat
      /\ Cardinality(ClaimsOf(visiting)) \in Nat
      /\ current[visiting] + Cardinality(ClaimsOf(visiting)) + deficit = Desired(visiting)
  BY <1>0, <1>2, <1>3, DesiredBounds, ClaimsFinite DEF Counted, Filled
<1>10. Counted'
  <2>1. IsFiniteSet(claims') BY <1>0, <1>5, FS_AddElement DEF Counted
  <2>2. claims' \subseteq [model : Models, launcher : Launchers]
    BY <1>0, <1>3, <1>5 DEF Counted
  <2> QED BY <1>0, <1>1, <1>2, <1>9, <2>1, <2>2 DEF Counted, Given
<1>11. Filled'
  <2>1. \A m \in todo : current[m] < Desired(m) /\ ClaimsOf(m)' = {}
    BY <1>0, <1>3, <1>7 DEF Filled
  <2>2. \A d \in claims' : d.model \in hosts[d.launcher] /\ RequiredNodeCount[d.model] > 1
    BY <1>0, <1>3, <1>5 DEF Filled
  <2>3. current[visiting] + Cardinality(ClaimsOf(visiting)') + deficit' = Desired(visiting)
    BY <1>2, <1>7, <1>9
  <2>4. \A m \in Models : ClaimsOf(m)' # {} =>
          current[m] + Cardinality(ClaimsOf(m)') <= Desired(m)
    <3> TAKE m \in Models
    <3>1. CASE m = visiting BY <1>2, <1>7, <1>9, <3>1
    <3>2. CASE m # visiting
      <4>1. ClaimsOf(m)' = ClaimsOf(m) BY <1>7, <3>2
      <4> QED BY <1>0, <4>1 DEF Filled
    <3> QED BY <3>1, <3>2
  <2>5. \A k \in rest' : visiting \in hosts[k] BY <1>0, <1>1, <1>2 DEF Filled
  <2> QED BY <1>2, <1>3, <1>6, <2>1, <2>2, <2>3, <2>4, <2>5 DEF Filled, Given
<1>12. Exhausted'
  <2>1. ASSUME NEW k \in Launchers, <<k, "id">> \in claimed' \/ <<k, "endpoint">> \in claimed'
        PROVE  ~Free(k) \/ Taken(k)'
    <3>1. <<k, "id">> \in claimed \/ <<k, "endpoint">> \in claimed \/ k = l
      BY <1>1, <2>1 DEF ClaimedWith
    <3> QED BY <1>0, <1>6, <3>1 DEF Exhausted
  <2>2. ASSUME NEW m \in Models \ todo, Short(m)', NEW k \in Launchers, m \in hosts[k], Free(k)
        PROVE  Taken(k)' \/ (m = visiting /\ k \in rest')
    <3>1. Short(m)
      BY <1>2, <1>6, <1>7, <1>8, <1>9, <2>2 DEF Short, Given
    <3>2. Taken(k) \/ (m = visiting /\ k \in rest) BY <1>0, <2>2, <3>1 DEF Exhausted
    <3> QED BY <1>1, <1>6, <3>2
  <2> QED BY <1>2, <1>6, <2>1, <2>2 DEF Exhausted, Given
<1>13. InOrder' BY <1>0, <1>2, <1>3, <1>5 DEF InOrder, Given, Counted
<1>14. Refused'
  <2>1. ASSUME NEW m \in Models \ todo, m # visiting, Short(m) PROVE m \notin hosts[l]
    <3>1. m \in hosts[l] => Taken(l) \/ m = visiting
      BY <1>0, <1>3, <1>4, <2>1 DEF Exhausted
    <3> QED BY <1>4, <2>1, <3>1
  <2> QED BY <1>0, <1>2, <1>3, <1>5, <1>8, <2>1 DEF Refused, Given
<1> QED BY <1>10, <1>11, <1>12, <1>13, <1>14

LEMMA SkipPlanned == PInv /\ Skip => Counted' /\ Filled' /\ Exhausted' /\ InOrder' /\ Refused'
<1> SUFFICES ASSUME PInv, Skip
             PROVE  Counted' /\ Filled' /\ Exhausted' /\ InOrder' /\ Refused'
  OBVIOUS
<1>0. Counted /\ Filled /\ Exhausted /\ InOrder /\ Refused BY DEF PInv
<1>1. PICK l \in rest : IsLauncherClaimed(l) /\ rest' = rest \ {l}
  BY DEF Skip
<1>2. UNCHANGED Given /\ UNCHANGED <<claimed, claims, todo, visiting, deficit>>
  BY DEF Skip, Given
<1>3. /\ \A n : Desired(n)' = Desired(n) /\ ClaimsOf(n)' = ClaimsOf(n) /\ Short(n)' = Short(n)
      /\ \A k : Free(k)' = Free(k) /\ Taken(k)' = Taken(k)
  BY <1>2, GivenStays
<1>4. Counted' BY <1>0, <1>1, <1>2 DEF Counted, Given
<1>5. Filled' BY <1>0, <1>1, <1>2, <1>3 DEF Filled, Given
<1>6. Exhausted'
  <2>1. ~Free(l) \/ Taken(l)
    BY <1>0, <1>1 DEF Exhausted, IsLauncherClaimed, Counted
  <2> QED BY <1>0, <1>1, <1>2, <1>3, <2>1 DEF Exhausted, Given
<1>7. InOrder' BY <1>0, <1>2 DEF InOrder, Given
<1>8. Refused' BY <1>0, <1>2, <1>3 DEF Refused, Given
<1> QED BY <1>4, <1>5, <1>6, <1>7, <1>8

LEMMA LeavePlanned == PInv /\ Leave => Counted' /\ Filled' /\ Exhausted' /\ InOrder' /\ Refused'
<1> SUFFICES ASSUME PInv, Leave
             PROVE  Counted' /\ Filled' /\ Exhausted' /\ InOrder' /\ Refused'
  OBVIOUS
<1>0. Counted /\ Filled /\ Exhausted /\ InOrder /\ Refused BY DEF PInv
<1>1. /\ visiting # NoModel /\ (deficit <= 0 \/ rest = {})
      /\ visiting' = NoModel /\ rest' = {} /\ deficit' = 0
  BY DEF Leave
<1>2. UNCHANGED Given /\ UNCHANGED <<claimed, claims, todo>> BY DEF Leave, Given
<1>3. /\ \A n : Desired(n)' = Desired(n) /\ ClaimsOf(n)' = ClaimsOf(n) /\ Short(n)' = Short(n)
      /\ \A k : Free(k)' = Free(k) /\ Taken(k)' = Taken(k)
  BY <1>2, GivenStays
<1>4. Counted' BY <1>0, <1>1, <1>2 DEF Counted, Given
<1>5. Filled' BY <1>0, <1>1, <1>2, <1>3 DEF Filled, Given
<1>6. Short(visiting) => rest = {}
  <2>1. visiting \in Models /\ current[visiting] \in Nat /\ deficit \in Nat
    BY <1>0, <1>1 DEF Counted
  <2>2. Cardinality(ClaimsOf(visiting)) \in Nat BY <1>0, ClaimsFinite
  <2>3. current[visiting] + Cardinality(ClaimsOf(visiting)) + deficit = Desired(visiting)
    BY <1>0, <1>1 DEF Filled
  <2> QED BY <1>1, <2>1, <2>2, <2>3 DEF Short
<1>7. Exhausted' BY <1>0, <1>1, <1>2, <1>3, <1>6 DEF Exhausted, Given
<1>8. InOrder' BY <1>0, <1>1, <1>2 DEF InOrder, Given
<1>9. Refused'
  <2>1. ASSUME NEW c \in claims PROVE ~(demand[c.model] < demand[visiting])
    <3>1. demand[visiting] <= demand[c.model] BY <1>0, <1>1 DEF InOrder
    <3>2. demand[visiting] \in Nat /\ demand[c.model] \in Nat
      BY <1>0, <1>1 DEF Counted
    <3> QED BY <3>1, <3>2
  <2> QED BY <1>0, <1>1, <1>2, <1>3, <2>1 DEF Refused, Given
<1> QED BY <1>4, <1>5, <1>7, <1>8, <1>9

(***************************************************************************)
(* The loop keeps the plan.                                                *)
(***************************************************************************)
LEMMA StepPlanned == PInv /\ [Next]_vars => PInv'
<1> SUFFICES ASSUME PInv, [Next]_vars PROVE PInv'
  OBVIOUS
<1>1. IInv' BY StepSound DEF PInv
<1>2. CASE Visit BY <1>1, <1>2, VisitPlanned DEF PInv
<1>3. CASE Claim BY <1>1, <1>3, ClaimPlanned DEF PInv
<1>4. CASE Skip BY <1>1, <1>4, SkipPlanned DEF PInv
<1>5. CASE Leave BY <1>1, <1>5, LeavePlanned DEF PInv
<1>6. CASE UNCHANGED vars
  <2>1. /\ UNCHANGED Given /\ UNCHANGED <<claimed, claims, todo, visiting, rest, deficit>>
    BY <1>6 DEF vars, Given
  <2>2. /\ \A n : Desired(n)' = Desired(n) /\ ClaimsOf(n)' = ClaimsOf(n) /\ Short(n)' = Short(n)
        /\ \A k : Free(k)' = Free(k) /\ Taken(k)' = Taken(k)
    BY <2>1, GivenStays
  <2>3. Counted' BY <2>1 DEF PInv, Counted, Given
  <2>4. Filled' BY <2>1, <2>2 DEF PInv, Filled, Given
  <2>5. Exhausted' BY <2>1, <2>2 DEF PInv, Exhausted, Given
  <2>6. InOrder' /\ Refused' BY <2>1, <2>2 DEF PInv, InOrder, Refused, Given
  <2> QED BY <1>1, <2>3, <2>4, <2>5, <2>6 DEF PInv
<1> QED BY <1>2, <1>3, <1>4, <1>5, <1>6 DEF Next

(***************************************************************************)
(* planAllocations computes what PoolManager takes a plan to be: no model  *)
(* past what it wants or past its ceiling, and none short of it while a    *)
(* launcher that hosts it stays free.                                      *)
(***************************************************************************)
THEOREM PlansAreFull == Spec => []Planned
<1>1. PInv => Planned
  <2> SUFFICES ASSUME PInv PROVE Planned
    OBVIOUS
  <2>0. Counted /\ Filled /\ Exhausted BY DEF PInv
  <2>1. ASSUME NEW m \in Models, ClaimsOf(m) # {}
        PROVE  /\ RequiredNodeCount[m] > 1
               /\ \A c \in ClaimsOf(m) : m \in hosts[c.launcher]
               /\ current[m] + Cardinality(ClaimsOf(m)) <= Most(1, MaxPipelines[m])
               /\ current[m] + Cardinality(ClaimsOf(m)) <= Desired(m)
    <3>1. \A c \in ClaimsOf(m) : m \in hosts[c.launcher] /\ RequiredNodeCount[m] > 1
      BY <2>0 DEF Filled, ClaimsOf
    <3>2. current[m] + Cardinality(ClaimsOf(m)) <= Desired(m)
      BY <2>0, <2>1 DEF Filled
    <3>3. /\ current[m] \in Nat /\ Cardinality(ClaimsOf(m)) \in Nat
          /\ Most(1, MaxPipelines[m]) \in Nat
      BY <2>0, ClaimsFinite, AllocationAssumption DEF Counted, Most
    <3> QED BY <2>0, <2>1, <3>1, <3>2, <3>3, DesiredBounds
  <2>2. ASSUME Done, NEW m \in Models, Short(m),
               NEW l \in Launchers, m \in hosts[l], Free(l)
        PROVE  l \in {c.launcher : c \in claims}
    <3>1. m \notin todo /\ m # visiting BY <2>2, AllocationAssumption DEF Done
    <3> QED BY <2>0, <2>2, <3>1 DEF Exhausted, Taken
  <2> QED BY <2>1, <2>2 DEF Planned
<1> QED BY <1>1, InitPlanned, StepPlanned, PTL DEF Spec

(***************************************************************************)
(* The busiest model has first refusal: when a model is left short, no     *)
(* model with less demand got a launcher it could have used.               *)
(***************************************************************************)
THEOREM BusiestIsServedFirst == Spec => []BusiestFirst
<1>1. PInv => BusiestFirst
  <2> SUFFICES ASSUME PInv, Done, NEW m \in Models, NEW n \in Models,
                      Short(m), demand[n] < demand[m], NEW c \in ClaimsOf(n)
               PROVE  m \notin hosts[c.launcher]
    BY DEF BusiestFirst
  <2>1. m \notin todo /\ m # visiting BY AllocationAssumption DEF Done
  <2>2. c \in claims /\ c.model = n BY DEF ClaimsOf
  <2> QED BY <2>1, <2>2 DEF PInv, Refused
<1> QED BY <1>1, InitPlanned, StepPlanned, PTL DEF Spec

-----------------------------------------------------------------------------
(***************************************************************************)
(* The plan PoolManager works with.  PoolManager knows nothing of the      *)
(* loop: it carries out any plan that satisfies its IsPlan.  What the loop *)
(* computes from the pools is one.                                         *)
(***************************************************************************)
CONSTANTS Machines, Nodes, Serves, CatalogIndex, PipelineIds, Requests, MaxOrphans, Faults,
          Manager, NoProc, NoLauncher, NoId, NoEntry
VARIABLES entry, cold, tick, req, servesModel, up, ejected, listed, agent, commands, reply

\* The pool is over all machines, the loop over those that are registered.
Pool == INSTANCE PoolManager WITH Launchers <- Machines

\* What allocate() gives the loop: the lengths of the pools, claimedLauncherIds and the
\* registrations, of models the pool is for.
Linked ==
  /\ \A m \in Models : RequiredNodeCount[m] > 1 /\ MaxPipelines[m] >= 1
  /\ Launchers \subseteq Machines /\ listed = Launchers
  /\ \A l \in Launchers : hosts[l] = Serves[l]
  /\ \A m \in Models : current[m] = Cardinality(Pool!GetPool(entry, m))
  /\ \A l \in Launchers : <<l, "endpoint">> \in backing <=> l \in Pool!ClaimedLaunchers(entry, {})

\* The claims as the pass keeps them: each under the launcherId of the registration.
PlanOf(S) == {[model |-> c.model, launcher |-> c.launcher, curId |-> TRUE] : c \in S}

\* The instance counts as this module does.
LEMMA PoolCardinality == \A S : Pool!Cardinality(S) = Cardinality(S)
  BY DEF Pool!Cardinality, Cardinality

\* An entry's launcher is claimed under its endpoint at least.
Endpoints == \A l \in Launchers : <<l, "id">> \in backing => <<l, "endpoint">> \in backing

\* So in every pool the loop starts from.
LEMMA InitEndpoints == Init => Endpoints
  BY DEF Init, Endpoints

\* The loop does not touch the pools.
LEMMA StepEndpoints == Endpoints /\ [Next]_vars => Endpoints'
  BY DEF Endpoints, Next, Visit, Claim, Skip, Leave, vars

\* The claims of a model are as many in the plan as in the loop.
LEMMA AsManyPlanned ==
  ASSUME Counted, NEW m
  PROVE  /\ Cardinality({d \in PlanOf(claims) : d.model = m}) = Cardinality(ClaimsOf(m))
         /\ {d \in PlanOf(claims) : d.model = m} = {} <=> ClaimsOf(m) = {}
<1> DEFINE y(c) == [model |-> c.model, launcher |-> c.launcher, curId |-> TRUE]
           C == ClaimsOf(m)
           D == {d \in PlanOf(claims) : d.model = m}
           f == [c \in C |-> y(c)]
<1>1. \A c \in claims : y(c).model = c.model /\ y(c).launcher = c.launcher
  OBVIOUS
<1>2. \A c, d \in claims : c.model = d.model /\ c.launcher = d.launcher => c = d
  BY DEF Counted
<1>3. D = {y(c) : c \in C}
  BY <1>1 DEF PlanOf, ClaimsOf
<1>4. C \subseteq claims BY DEF ClaimsOf
<1>5. \A c, d \in C : y(c) = y(d) => c = d
  BY <1>1, <1>2, <1>4
<1>6. IsFiniteSet(C) BY ClaimsFinite
<1> HIDE DEF y, C, D
<1>7. f \in [C -> D] /\ (\A c, d \in C : f[c] = f[d] => c = d) /\ \A d \in D : \E c \in C : f[c] = d
  BY <1>3, <1>5
<1> HIDE DEF f
<1>8. f \in Surjection(C, D) /\ f \in Injection(C, D)
  BY <1>7 DEF Surjection, Injection, IsInjective
<1>9. Cardinality(D) = Cardinality(C)
  BY <1>6, <1>8, FS_Surjection
<1> QED BY <1>3, <1>9 DEF C, D

\* A finished loop leaves a plan PoolManager may carry out.
LEMMA FinishedIsPlan ==
  ASSUME PInv, NoPreemption, NoDoubleClaim, Planned, Endpoints, Done, Linked
  PROVE  Pool!IsPlan(entry, PlanOf(claims))
<1> DEFINE plan == PlanOf(claims)
<1>1. Counted BY DEF PInv
<1>2. \A c \in claims : c.model \in Models /\ c.launcher \in Launchers
  BY <1>1 DEF Counted
<1>3. \A d \in plan : \E c \in claims : c.model = d.model /\ c.launcher = d.launcher
  BY DEF PlanOf
<1>4. ASSUME NEW d \in plan, NEW g \in plan, d.launcher = g.launcher PROVE d = g
  <2>1. PICK b \in claims : d = [model |-> b.model, launcher |-> b.launcher, curId |-> TRUE]
    BY DEF PlanOf
  <2>2. PICK c \in claims : g = [model |-> c.model, launcher |-> c.launcher, curId |-> TRUE]
    BY DEF PlanOf
  <2>3. b.launcher = c.launcher BY <1>4, <2>1, <2>2
  <2>4. b = c BY <2>3 DEF NoDoubleClaim
  <2> QED BY <2>1, <2>2, <2>4
<1>5. \A l \in Launchers : Free(l) <=> l \notin Pool!ClaimedLaunchers(entry, {})
  BY DEF Free, Linked, Endpoints
<1>6. \A m \in Models : \A l : l \in Pool!ListForModel(m) <=> l \in Launchers /\ m \in hosts[l]
  BY DEF Linked, Pool!ListForModel
<1>7. ASSUME NEW m \in Models
      PROVE  \E desired \in 1 .. MaxPipelines[m] : Pool!Planned(entry, plan, m, desired)
  <2> DEFINE desired == Desired(m)
             D == {d \in plan : d.model = m}
             free == Pool!ListForModel(m) \ Pool!ClaimedLaunchers(entry, {})
  <2>1. desired \in 1 .. MaxPipelines[m]
    <3>1. RequiredNodeCount[m] > 1 /\ MaxPipelines[m] >= 1 /\ MaxPipelines[m] \in Nat
          /\ RequiredNodeCount[m] \in Nat
      BY AllocationAssumption DEF Linked
    <3>2. desired \in Nat /\ desired <= Most(1, MaxPipelines[m])
      BY <1>1, DesiredBounds
    <3>3. desired >= 1
      <4> DEFINE n == Least(Ceil(demand[m], RequestsPerPipeline), MaxPipelines[m])
      <4>1. n \in Int
        BY <1>1, <3>1, AllocationAssumption DEF Least, Ceil, Counted
      <4>2. desired = Most(1, n)
        BY <3>1 DEF Desired, DesiredPipelineCount
      <4> HIDE DEF n, desired
      <4> QED BY <4>1, <4>2 DEF Most
    <3> HIDE DEF desired
    <3> QED BY <3>1, <3>2, <3>3 DEF Most
  <2>2. /\ Cardinality(D) = Cardinality(ClaimsOf(m)) /\ Cardinality(ClaimsOf(m)) \in Nat
        /\ D = {} <=> ClaimsOf(m) = {}
    BY <1>1, AsManyPlanned, ClaimsFinite
  <2>3. current[m] = Cardinality(Pool!GetPool(entry, m)) /\ current[m] \in Nat
    BY <1>1 DEF Linked, Counted
  <2>4. \A d \in D : d.launcher \in free
    <3> SUFFICES ASSUME NEW d \in D PROVE d.launcher \in free
      OBVIOUS
    <3>1. PICK c \in claims : c.model = m /\ c.launcher = d.launcher
      BY <1>3
    <3>2. c \in ClaimsOf(m) /\ m \in hosts[c.launcher] /\ Free(c.launcher)
      BY <3>1 DEF ClaimsOf, Planned, NoPreemption
    <3> QED BY <1>2, <1>5, <1>6, <3>1, <3>2
  <2>5. D # {} => current[m] + Cardinality(D) <= desired
    BY <2>2 DEF Planned
  <2>6. ASSUME ~(current[m] + Cardinality(D) >= desired)
        PROVE  free \subseteq {d.launcher : d \in plan}
    <3>1. Short(m) BY <2>1, <2>2, <2>3, <2>6 DEF Short
    <3> SUFFICES ASSUME NEW l \in free PROVE l \in {d.launcher : d \in plan}
      OBVIOUS
    <3>2. l \in Launchers /\ m \in hosts[l] /\ Free(l)
      BY <1>5, <1>6
    <3>3. PICK c \in claims : c.launcher = l
      BY <3>1, <3>2 DEF Planned
    <3>4. [model |-> c.model, launcher |-> c.launcher, curId |-> TRUE] \in plan
      BY DEF PlanOf
    <3> QED BY <3>3, <3>4
  <2> HIDE DEF desired, plan, D, free
  <2>7. /\ \A d \in D : d.launcher \in free
        /\ D = {} \/ Cardinality(D) <= desired - current[m]
        /\ Cardinality(D) >= desired - current[m] \/ free \subseteq {d.launcher : d \in plan}
    BY <2>1, <2>2, <2>3, <2>4, <2>5, <2>6
  <2>8. Pool!Planned(entry, plan, m, desired)
    BY <2>3, <2>7, PoolCardinality DEF Pool!Planned, D, free
  <2> QED BY <2>1, <2>8
<1> HIDE DEF plan
<1>8. Pool!IsPlan(entry, plan)
  BY <1>4, <1>7 DEF Pool!IsPlan
<1> QED BY <1>8 DEF plan

(***************************************************************************)
(* planAllocations computes what PoolManager takes a plan to be: whatever  *)
(* pools, registrations and demand it is given, the claims it ends with    *)
(* are one of the plans IsPlan allows for these pools.                     *)
(***************************************************************************)
THEOREM PlanAllocationsPlans ==
  Spec => [](Done /\ Linked => Pool!IsPlan(entry, PlanOf(claims)))
<1>1. PInv /\ NoPreemption /\ NoDoubleClaim /\ Planned /\ Endpoints
        => (Done /\ Linked => Pool!IsPlan(entry, PlanOf(claims)))
  BY FinishedIsPlan
<1>2. Spec => []PInv
  BY InitPlanned, StepPlanned, PTL DEF Spec
<1>3. Spec => []Endpoints
  BY InitEndpoints, StepEndpoints, PTL DEF Spec
<1> QED
  BY <1>1, <1>2, <1>3, NeverPreempts, NeverClaimsTwice, PlansAreFull, PTL

=============================================================================
