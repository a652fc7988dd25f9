------------------------- MODULE PipelinePool_proofs -------------------------
(***************************************************************************)
(* What holds of PipelinePool for every catalog, every set of launchers    *)
(* and nodes and every fault: its types, that a launcher backs one         *)
(* pipeline, that every reservation has an owner, that the pool implements *)
(* LauncherLease, and how far a pool can get past its ceiling.             *)
(***************************************************************************)
EXTENDS PipelinePool, FiniteSetTheorems, TLAPS

-----------------------------------------------------------------------------
(***************************************************************************)
(* The pools as data: what addEntry, removeEntry and markEntryFailed do to *)
(* a heap e of entries.                                                    *)
(***************************************************************************)
Heap == [PipelineIds -> PooledPipeline \cup {NoEntry}]

\* The positions of a model's entries are different indices of its array.
Ordered(e) ==
  /\ \A p \in Pooled(e) : e[p].pos < Cardinality(GetPool(e, e[p].model))
  /\ \A p, q \in Pooled(e) : e[p].model = e[q].model /\ e[p].pos = e[q].pos => p = q

\* Two entries that differ in their position at most.
SameEntry(x, y) ==
  /\ x.model = y.model /\ x.launcher = y.launcher /\ x.curId = y.curId
  /\ x.compute = y.compute /\ x.state = y.state

(***************************************************************************)
(* A pooled entry is a record with a position in its model's array.        *)
(***************************************************************************)
LEMMA PooledType ==
  ASSUME NEW e \in Heap, NEW p \in Pooled(e)
  PROVE  /\ p \in PipelineIds /\ e[p] \in PooledPipeline /\ e[p] # NoEntry
         /\ e[p].model \in Models /\ e[p].launcher \in Launchers
         /\ e[p].curId \in BOOLEAN /\ e[p].compute \in SUBSET NodeIds
         /\ e[p].state \in {"warm", "assembling", "failed"}
         /\ e[p].pos \in Nat
  BY DEF Heap, Pooled, PooledPipeline

(***************************************************************************)
(* A pool is a finite set.                                                 *)
(***************************************************************************)
LEMMA PoolFinite ==
  ASSUME NEW e, NEW m
  PROVE  IsFiniteSet(GetPool(e, m)) /\ Cardinality(GetPool(e, m)) \in Nat
<1>1. IsFiniteSet(PipelineIds) BY CatalogAssumption
<1>2. GetPool(e, m) \subseteq PipelineIds BY DEF GetPool, Pooled
<1> QED BY <1>1, <1>2, FS_Subset, FS_CardinalityType

(***************************************************************************)
(* addEntry adds one entry at the end of its pool and touches no other.    *)
(***************************************************************************)
LEMMA AddEntryEffect ==
  ASSUME NEW e \in Heap, Ordered(e), NEW p \in PipelineIds, e[p] = NoEntry,
         NEW m \in Models, NEW l \in Launchers, NEW cur \in BOOLEAN,
         NEW S \in SUBSET NodeIds, NEW st \in {"warm", "assembling", "failed"}
  PROVE  LET f == AddEntry(e, p, m, l, cur, S, st)
         IN /\ f \in Heap /\ Ordered(f)
            /\ Pooled(f) = Pooled(e) \cup {p} /\ p \notin Pooled(e)
            /\ \A q \in PipelineIds \ {p} : f[q] = e[q]
            /\ f[p].model = m /\ f[p].launcher = l /\ f[p].state = st
<1> DEFINE f == AddEntry(e, p, m, l, cur, S, st)
           n == Cardinality(GetPool(e, m))
           x == [model |-> m, launcher |-> l, curId |-> cur, compute |-> S,
                 state |-> st, pos |-> n]
<1>1. n \in Nat BY PoolFinite
<1>2. x \in PooledPipeline /\ x # NoEntry /\ x.pos = n /\ x.model = m /\ x.launcher = l /\ x.state = st
  BY <1>1, EntryAssumption DEF PooledPipeline
<1>3. f \in Heap /\ f[p] = x /\ \A q \in PipelineIds \ {p} : f[q] = e[q]
  BY <1>2 DEF AddEntry, Heap
<1>4. p \notin Pooled(e) BY DEF Pooled
<1>5. Pooled(f) = Pooled(e) \cup {p}
  BY <1>1, <1>2, <1>3, <1>4 DEF Pooled
<1>6. Ordered(f)
  <2>1. \A q \in Pooled(f) : q # p => q \in Pooled(e) /\ f[q] = e[q] /\ f[q].pos \in Nat
    BY <1>3, <1>5, PooledType DEF Pooled
  <2>2. \A k \in Models : GetPool(e, k) \subseteq GetPool(f, k)
    BY <1>3, <1>4, <1>5 DEF GetPool, Pooled
  <2>3. \A k \in Models : Cardinality(GetPool(e, k)) <= Cardinality(GetPool(f, k))
    BY <2>2, PoolFinite, FS_Subset
  <2>4. Cardinality(GetPool(f, m)) = n + 1
    <3>1. GetPool(f, m) = GetPool(e, m) \cup {p} /\ p \notin GetPool(e, m)
      BY <1>2, <1>3, <1>4, <1>5, <2>1 DEF GetPool
    <3> QED BY <3>1, PoolFinite, FS_AddElement
  <2>5. \A q \in Pooled(f) : f[q].pos < Cardinality(GetPool(f, f[q].model))
    <3>1. SUFFICES ASSUME NEW q \in Pooled(f)
                   PROVE  f[q].pos < Cardinality(GetPool(f, f[q].model))
      OBVIOUS
    <3>2. CASE q = p
      BY <3>2, <1>1, <1>2, <1>3, <2>4
    <3>3. CASE q # p
      <4>1. e[q].model \in Models /\ e[q].pos < Cardinality(GetPool(e, e[q].model))
        BY <3>3, <2>1, PooledType DEF Ordered
      <4>2. /\ Cardinality(GetPool(e, e[q].model)) \in Nat
            /\ Cardinality(GetPool(f, e[q].model)) \in Nat
        BY PoolFinite
      <4> QED BY <4>1, <4>2, <3>3, <2>1, <2>3
    <3> QED BY <3>2, <3>3
  <2>6. \A q \in Pooled(e) : e[q].model = m => e[q].pos < n
    BY DEF Ordered
  <2>7. \A q, r \in Pooled(f) : f[q].model = f[r].model /\ f[q].pos = f[r].pos => q = r
    BY <1>1, <1>2, <1>3, <2>1, <2>6 DEF Ordered
  <2> QED BY <2>5, <2>7 DEF Ordered
<1> QED BY <1>2, <1>3, <1>4, <1>5, <1>6

(***************************************************************************)
(* removeEntry takes one entry out of its pool and moves others up.        *)
(***************************************************************************)
LEMMA RemoveEntryEffect ==
  ASSUME NEW e \in Heap, Ordered(e), NEW p, NEW held
  PROVE  LET f == RemoveEntry(e, p, held)
         IN /\ f \in Heap /\ Ordered(f)
            /\ Pooled(f) = Pooled(e) \ {p}
            /\ \A q \in PipelineIds : f[q] # NoEntry => e[q] # NoEntry /\ SameEntry(f[q], e[q])
            /\ \A q \in PipelineIds : e[q] # NoEntry /\ q \in held => f[q] # NoEntry
<1> DEFINE f == RemoveEntry(e, p, held)
<1>1. CASE p \notin Pooled(e)
  BY <1>1 DEF RemoveEntry, SameEntry, Pooled
<1>2. CASE p \in Pooled(e)
  <2> DEFINE m == e[p].model
             out == [e[p] EXCEPT !.pos = -1]
             up_(q) == [e[q] EXCEPT !.pos = e[q].pos - 1]
             n == Cardinality(GetPool(e, m))
  <2> p \in PipelineIds /\ m \in Models /\ e[p] \in PooledPipeline /\ e[p].pos \in Nat
    BY <1>2, PooledType
  <2> n \in Nat BY PoolFinite
  <2>1. out \in PooledPipeline /\ SameEntry(out, e[p]) /\ out.pos = -1
    BY DEF PooledPipeline, SameEntry
  <2>2. f[p] \in {out, NoEntry}
    BY <1>2 DEF RemoveEntry
  <2>3. \A q \in PipelineIds \ Pooled(e) : q # p /\ f[q] = e[q]
    BY <1>2 DEF RemoveEntry, GetPool
  <2>4. ASSUME NEW q \in Pooled(e), q # p
        PROVE  /\ f[q] \in PooledPipeline /\ f[q] # NoEntry /\ SameEntry(f[q], e[q])
               /\ f[q].pos = IF e[q].model = m /\ e[q].pos > e[p].pos
                            THEN e[q].pos - 1 ELSE e[q].pos
    <3>1. q \in PipelineIds /\ e[q] \in PooledPipeline /\ e[q] # NoEntry
      BY <2>4, PooledType
    <3>2. /\ e[q].pos > e[p].pos => up_(q) \in PooledPipeline
          /\ SameEntry(up_(q), e[q]) /\ up_(q).pos = e[q].pos - 1
      BY <3>1 DEF PooledPipeline, SameEntry
    <3>3. f[q] = IF e[q].model = m /\ e[q].pos > e[p].pos THEN up_(q) ELSE e[q]
      BY <1>2, <2>4, <3>1 DEF RemoveEntry, GetPool
    <3> QED BY <3>1, <3>2, <3>3, EntryAssumption DEF SameEntry
  <2>5. f \in Heap
    <3>1. f = [q \in PipelineIds |-> f[q]] BY <1>2 DEF RemoveEntry
    <3>2. \A q \in PipelineIds : f[q] \in PooledPipeline \cup {NoEntry}
      BY <2>1, <2>2, <2>3, <2>4 DEF Heap
    <3> QED BY <3>1, <3>2 DEF Heap
  <2>6. \A q \in Pooled(e) : q # p => f[q].pos \in Nat
    BY <2>4, PooledType
  <2>7. Pooled(f) = Pooled(e) \ {p}
    <3>1. f[p] # NoEntry => ~(f[p].pos >= 0)
      <4> HIDE DEF f, out
      <4> QED BY <2>1, <2>2
    <3>2. \A q \in PipelineIds \ Pooled(e) : q \notin Pooled(f)
      BY <2>3 DEF Pooled
    <3>3. \A q \in Pooled(e) \ {p} : q \in PipelineIds /\ f[q] # NoEntry /\ f[q].pos >= 0
      BY <2>4, <2>6 DEF Pooled
    <3> HIDE DEF f
    <3> QED BY <3>1, <3>2, <3>3 DEF Pooled
  <2>8. Ordered(f)
    <3>1. \A k \in Models : GetPool(f, k) = GetPool(e, k) \ {p}
      BY <2>4, <2>7 DEF GetPool, SameEntry
    <3>2. Cardinality(GetPool(f, m)) = n - 1
      <4>1. p \in GetPool(e, m) BY <1>2 DEF GetPool
      <4> QED BY <3>1, <4>1, PoolFinite, FS_RemoveElement
    <3>3. \A k \in Models \ {m} : GetPool(f, k) = GetPool(e, k)
      BY <3>1 DEF GetPool
    <3>4. \A q \in Pooled(f) : /\ q \in Pooled(e) /\ q # p
                             /\ f[q].model = e[q].model /\ e[q].model \in Models
                             /\ e[q].pos \in Nat
      BY <2>4, <2>7, PooledType DEF SameEntry
    <3>5. \A q \in Pooled(f) : e[q].model = m => e[q].pos # e[p].pos /\ e[q].pos < n
      BY <1>2, <3>4 DEF Ordered
    <3>6. \A q \in Pooled(f) : f[q].pos < Cardinality(GetPool(f, f[q].model))
      <4>1. SUFFICES ASSUME NEW q \in Pooled(f)
                     PROVE  f[q].pos < Cardinality(GetPool(f, f[q].model))
        OBVIOUS
      <4>2. CASE e[q].model = m
        BY <4>2, <1>2, <2>4, <3>2, <3>4, <3>5 DEF Ordered
      <4>3. CASE e[q].model # m
        BY <4>3, <2>4, <3>3, <3>4 DEF Ordered
      <4> QED BY <4>2, <4>3
    <3>7. \A q, r \in Pooled(f) : f[q].model = f[r].model /\ f[q].pos = f[r].pos => q = r
      BY <2>4, <3>4, <3>5 DEF Ordered
    <3> QED BY <3>6, <3>7 DEF Ordered
  <2>9. \A q \in PipelineIds :
          /\ f[q] # NoEntry => e[q] # NoEntry /\ SameEntry(f[q], e[q])
          /\ e[q] # NoEntry /\ q \in held => f[q] # NoEntry
    <3>1. SUFFICES ASSUME NEW q \in PipelineIds
                   PROVE  /\ f[q] # NoEntry => e[q] # NoEntry /\ SameEntry(f[q], e[q])
                          /\ e[q] # NoEntry /\ q \in held => f[q] # NoEntry
      OBVIOUS
    <3>2. CASE q = p
      <4>1. e[p] # NoEntry /\ out # NoEntry /\ (p \in held => f[p] = out)
        BY <1>2, <2>1, EntryAssumption DEF Pooled, RemoveEntry
      <4> HIDE DEF f, out
      <4> QED BY <4>1, <3>2, <2>1, <2>2
    <3>3. CASE q \in Pooled(e) /\ q # p
      BY <3>3, <2>4 DEF Pooled
    <3>4. CASE q \notin Pooled(e)
      <4> HIDE DEF f
      <4> QED BY <3>4, <2>3 DEF SameEntry
    <3> QED BY <3>2, <3>3, <3>4
  <2> QED BY <2>5, <2>7, <2>8, <2>9
<1> QED BY <1>1, <1>2

(***************************************************************************)
(* Marking entries failed changes nothing but their state.                 *)
(***************************************************************************)
LEMMA MarkEntryFailedEffect ==
  ASSUME NEW e \in Heap, Ordered(e), NEW S
  PROVE  LET f == MarkEntryFailed(e, S)
         IN /\ f \in Heap /\ Ordered(f) /\ Pooled(f) = Pooled(e)
            /\ \A q \in Pooled(e) :
                 /\ f[q].model = e[q].model /\ f[q].launcher = e[q].launcher
                 /\ f[q].state = IF q \in S THEN "failed" ELSE e[q].state
            /\ \A q \in PipelineIds \ Pooled(e) : f[q] = e[q]
<1> DEFINE f == MarkEntryFailed(e, S)
           x(q) == [e[q] EXCEPT !.state = "failed"]
<1>1. \A q \in PipelineIds : f[q] = IF q \in S \cap Pooled(e) THEN x(q) ELSE e[q]
  BY DEF MarkEntryFailed
<1>2. \A q \in Pooled(e) : /\ x(q) \in PooledPipeline /\ x(q) # NoEntry
                          /\ x(q).model = e[q].model /\ x(q).launcher = e[q].launcher
                          /\ x(q).state = "failed" /\ x(q).pos = e[q].pos
  BY PooledType, EntryAssumption DEF PooledPipeline
<1>3. f \in Heap
  BY <1>1, <1>2 DEF MarkEntryFailed, Heap
<1>4. /\ Pooled(f) = Pooled(e)
      /\ \A q \in Pooled(e) :
           /\ f[q].model = e[q].model /\ f[q].launcher = e[q].launcher
           /\ f[q].state = IF q \in S THEN "failed" ELSE e[q].state
           /\ f[q].pos = e[q].pos
      /\ \A q \in PipelineIds \ Pooled(e) : f[q] = e[q]
  BY <1>1, <1>2 DEF Pooled
<1>5. \A k : GetPool(f, k) = GetPool(e, k)
  BY <1>4 DEF GetPool
<1>6. Ordered(f)
  BY <1>4, <1>5 DEF Ordered
<1> QED BY <1>3, <1>4, <1>6

(***************************************************************************)
(* Letting go of entries that are in no pool changes no pool.              *)
(***************************************************************************)
LEMMA ForgetEffect ==
  ASSUME NEW e \in Heap, Ordered(e), NEW held
  PROVE  LET f == Forget(e, held)
         IN /\ f \in Heap /\ Ordered(f) /\ Pooled(f) = Pooled(e)
            /\ \A q \in Pooled(e) \cup (held \cap PipelineIds) : f[q] = e[q]
<1> DEFINE f == Forget(e, held)
<1>1. f \in Heap
  BY DEF Forget, Heap
<1>2. /\ Pooled(f) = Pooled(e)
      /\ \A q \in Pooled(e) \cup (held \cap PipelineIds) : f[q] = e[q]
  BY DEF Forget, Pooled
<1>3. \A k : GetPool(f, k) = GetPool(e, k)
  BY <1>2 DEF GetPool
<1>4. Ordered(f)
  BY <1>2, <1>3 DEF Ordered
<1> QED BY <1>1, <1>2, <1>4

(***************************************************************************)
(* The head of a pool is one entry at most.                                *)
(***************************************************************************)
LEMMA OneHead ==
  ASSUME Ordered(entry), NEW m, NEW p \in PoolHead(m), NEW q \in PoolHead(m)
  PROVE  p = q
  BY DEF Ordered, PoolHead, GetPool

(***************************************************************************)
(* A new pipelineId is in no entry, and no frame refers to it but those    *)
(* that are done.                                                          *)
(***************************************************************************)
LEMMA NewIdIsFresh ==
  ASSUME NEW e, NEW done, FreshIds(e, done) # {}
  PROVE  /\ NewId(e, done) \in PipelineIds /\ e[NewId(e, done)] = NoEntry
         /\ Manager \in done \/ NewId(e, done) # tick.id
         /\ \A m \in Models \ done : NewId(e, done) # cold[m].tracked
<1>1. NewId(e, done) \in FreshIds(e, done) BY DEF NewId
<1> QED BY <1>1 DEF FreshIds

-----------------------------------------------------------------------------
(***************************************************************************)
(* Calls to launchers keep their type.                                     *)
(***************************************************************************)
Queues == [Launchers -> Seq(Command)]

\* A call sent to a launcher is a typed command queue.
LEMMA SendType ==
  ASSUME NEW queues \in Queues, NEW l \in Launchers, NEW op \in {"POST", "DELETE"},
         NEW m \in Models, NEW by \in Callers
  PROVE  Send(queues, l, op, m, by) \in Queues
<1>1. [op |-> op, model |-> m, by |-> by] \in Command BY DEF Command
<1>2. Append(queues[l], [op |-> op, model |-> m, by |-> by]) \in Seq(Command)
  BY <1>1 DEF Queues
<1> QED BY <1>2 DEF Send, Queues

\* Waiting, answered and abandoned calls leave the queues typed.
LEMMA AnsweredOrTimedOutType ==
  ASSUME commands \in Queues, NEW c, NEW results,
         NEW queues \in OnAnswer(c, results) \cup OnTimeout(c)
  PROVE  queues \in Queues
<1>1. CASE queues \in OnAnswer(c, results)
  BY <1>1 DEF OnAnswer
<1>2. CASE queues \in OnTimeout(c)
  <2>1. \A l \in Launchers : Orphaned(c, l) \in Seq(Command)
    <3>1. SUFFICES ASSUME NEW l \in Launchers PROVE Orphaned(c, l) \in Seq(Command)
      OBVIOUS
    <3>2. commands[l] \in Seq(Command) BY DEF Queues
    <3>5. \A x \in Command : [x EXCEPT !.by = NoProc] \in Command
      BY DEF Command
    <3>6. \A i \in 1 .. Len(commands[l]) : commands[l][i] \in Command
      BY <3>2
    <3>3. \A i \in 1 .. Len(commands[l]) :
            /\ commands[l][i] \in Command
            /\ [commands[l][i] EXCEPT !.by = NoProc] \in Command
      BY <3>5, <3>6
    <3>4. /\ Len(commands[l]) \in Nat /\ DOMAIN commands[l] = 1 .. Len(commands[l])
      BY <3>2
    <3> QED BY <3>3, <3>4 DEF Orphaned
  <2>2. queues = [l \in Launchers |-> Orphaned(c, l)]
    BY <1>2 DEF OnTimeout
  <2> QED BY <2>1, <2>2 DEF Queues
<1> QED BY <1>1, <1>2

-----------------------------------------------------------------------------
(***************************************************************************)
(* The inductive invariant.  Its parts speak of a heap e, so that they can *)
(* be stated of the heaps a step goes through as well as of entry.         *)
(***************************************************************************)

\* What a cold start's frame says of the pools: the reservation is there and is
\* its model's; the entry it replaces, if it is still there, is its model's too.
ColdSound(e) ==
  \A m \in Models :
    /\ cold[m].phase = "idle" => cold[m] = NoColdStart
    /\ cold[m].phase # "idle" =>
         /\ cold[m].resv \in Pooled(e)
         /\ e[cold[m].resv].state = "assembling" /\ e[cold[m].resv].model = m
    /\ cold[m].tracked \in Pooled(e) =>
         e[cold[m].tracked].state # "assembling" /\ e[cold[m].tracked].model = m
    /\ cold[m].tracked # NoId => cold[m].old \in Launchers

\* LauncherExclusive, of a heap.
Exclusive(e) ==
  \A p, q \in Pooled(e) :
    p # q /\ e[p].launcher = e[q].launcher
      => \E m \in Models : {p, q} = {cold[m].resv, cold[m].tracked}

\* A reservation is a cold start's, or one of S.
Owned(e, S) ==
  \A p \in Pooled(e) :
    e[p].state = "assembling"
      => p \in S \/ \E m \in Models : cold[m].phase # "idle" /\ cold[m].resv = p

\* What the pass finds whenever it goes on with a heap e.
PassSound(e) == e \in Heap /\ Ordered(e) /\ ColdSound(e) /\ Exclusive(e) /\ Owned(e, {})

\* An entry the pass holds in its copy: still there, never a reservation.
HeldSound(e, copy) ==
  \A c \in copy : c.id \in PipelineIds /\ e[c.id] # NoEntry /\ e[c.id].state # "assembling"

Posting == IF tick.phase = "posting" THEN {tick.id} ELSE {}

\* What the pass's frame says of the pools.  The id being torn down may be gone,
\* but it is never that of a reservation.
TickSound ==
  /\ HeldSound(entry, tick.rest)
  /\ tick.phase = "stopping" =>
       tick.id \in PipelineIds
       /\ (entry[tick.id] # NoEntry => entry[tick.id].state # "assembling")
  /\ tick.phase = "posting" =>
       /\ tick.id \in Pooled(entry) /\ entry[tick.id].state = "assembling"
       /\ \A m \in Models : cold[m].resv # tick.id
  /\ tick.phase # "stopping" => tick.rest = {}

Sound ==
  /\ Ordered(entry) /\ ColdSound(entry) /\ Exclusive(entry) /\ Owned(entry, Posting)
  /\ TickSound

IInv == TypeOK /\ Sound

(***************************************************************************)
(* TypeOK in terms of the sets the lemmas speak of.                        *)
(***************************************************************************)
TypeRest ==
  /\ req \in [Requests -> RequestState]
  /\ servesModel \in [Launchers -> Models \cup {NoModel}]
  /\ up \in SUBSET Nodes
  /\ ejected \in SUBSET Launchers
  /\ listed \in SUBSET Launchers
  /\ agent \in [Launchers -> Models \cup {NoModel}]
  /\ reply \in [Callers -> {"none", "ok", "failed"}]

\* Type correctness, with the variables the pool's steps leave alone gathered in TypeRest.
LEMMA TypeParts ==
  TypeOK <=> /\ entry \in Heap /\ cold \in [Models -> ColdStartState] /\ tick \in Tick
             /\ commands \in Queues /\ TypeRest
  BY DEF TypeOK, Heap, Queues, TypeRest

(***************************************************************************)
(* ColdSound, Exclusive and Owned look at the pools only, and there at     *)
(* nothing but model, launcher and state.                                  *)
(***************************************************************************)
LEMMA SameLook ==
  ASSUME NEW e, NEW f, NEW S, Pooled(f) = Pooled(e),
         \A p \in Pooled(e) : /\ f[p].model = e[p].model /\ f[p].launcher = e[p].launcher
                             /\ f[p].state = e[p].state
  PROVE  /\ ColdSound(e) => ColdSound(f)
         /\ Exclusive(e) => Exclusive(f)
         /\ Owned(e, S) => Owned(f, S)
<1>1. ColdSound(e) => ColdSound(f) BY DEF ColdSound
<1>2. Exclusive(e) => Exclusive(f) BY DEF Exclusive
<1>3. Owned(e, S) => Owned(f, S) BY DEF Owned
<1> QED BY <1>1, <1>2, <1>3

(***************************************************************************)
(* The invariant holds initially.                                          *)
(***************************************************************************)
LEMMA InitSound == Init => IInv
<1> SUFFICES ASSUME Init PROVE IInv
  OBVIOUS
<1>1. TypeOK
  BY SentinelAssumption
  DEF Init, TypeOK, ColdStartState, NoColdStart, Tick, IdleTick, RequestState, NoRequest
<1>2. Pooled(entry) = {}
  BY DEF Init, Pooled
<1>3. \A m \in Models : cold[m] = NoColdStart /\ cold[m].phase = "idle" /\ cold[m].tracked = NoId
  BY DEF Init, NoColdStart
<1>4. TickSound
  BY DEF Init, TickSound, HeldSound, IdleTick
<1>5. Ordered(entry) /\ Exclusive(entry) /\ Owned(entry, Posting)
  BY <1>2 DEF Ordered, Exclusive, Owned
<1>6. ColdSound(entry)
  BY <1>2, <1>3 DEF ColdSound
<1> QED BY <1>1, <1>4, <1>5, <1>6 DEF IInv, Sound

-----------------------------------------------------------------------------
(***************************************************************************)
(* Cold starts.                                                            *)
(***************************************************************************)

\* A request is resumed into a typed state.
LEMMA ResumeType ==
  ASSUME TypeRest, NEW m \in Models, NEW registered, Resume(m, registered)
  PROVE  req' \in [Requests -> RequestState]
<1>1. \A l \in Launchers, route \in {"none", "pool", "registry", "chat"} :
        Forwarded(m, l, route) \in RequestState
  BY DEF Forwarded, RequestState, TypeRest
<1>2. NoRequest \in RequestState
  BY DEF NoRequest, RequestState
<1>3. FromRegistry(m, registered) \subseteq RequestState
  BY <1>1, <1>2 DEF FromRegistry, SelectNode
<1> QED BY <1>3 DEF Resume, TypeRest

\* f is e with one more entry.
Added(e, f, p, m, l, state) ==
  /\ f \in Heap /\ Ordered(f)
  /\ Pooled(f) = Pooled(e) \cup {p} /\ p \notin Pooled(e)
  /\ \A q \in PipelineIds \ {p} : f[q] = e[q]
  /\ f[p].model = m /\ f[p].launcher = l /\ f[p].state = state

\* A cold start of m begins: reservation p is made on launcher l, which has no entry
\* but the one to be replaced.
ColdStartReserves(m, p, l) ==
  /\ entry[p] = NoEntry /\ p # tick.id /\ \A k \in Models : p # cold[k].tracked
  /\ \A q \in Pooled(entry) : entry[q].launcher = l => q \in PoolHead(m)
  /\ \A q \in PoolHead(m) :
       q \in Pooled(entry) /\ entry[q].model = m /\ entry[q].state # "assembling"
  /\ Added(entry, entry', p, m, l, "assembling")
  /\ cold' \in [Models -> ColdStartState]
  /\ \A k \in Models \ {m} : cold'[k] = cold[k]
  /\ cold'[m].phase = "posting" /\ cold'[m].resv = p
  /\ PoolHead(m) = {} => cold'[m].tracked = NoId
  /\ PoolHead(m) # {} => cold'[m].tracked \in PoolHead(m) /\ cold'[m].old \in Launchers
  /\ commands' = Send(commands, l, "POST", m, m)

\* A cold start reserves a launcher that is free for it.
LEMMA ColdStartBeginsEffect ==
  ASSUME IInv, NEW m \in Models, ColdStartBegins(m), cold[m] = NoColdStart
  PROVE  \E p \in PipelineIds, l \in Launchers : ColdStartReserves(m, p, l)
<1> USE TypeParts DEF IInv, Sound
<1>1. PICK l \in FreeForColdStart(m) \ ejected, S \in SelectPipeline(m, servesModel) :
        LET p == NewId(entry, {}) IN
        /\ entry' = AddEntry(entry, p, m, l, TRUE, S, "assembling")
        /\ commands' = Send(commands, l, "POST", m, m)
        /\ cold' = [cold EXCEPT ![m] =
             IF PoolHead(m) = {}
             THEN [NoColdStart EXCEPT !.phase = "posting", !.resv = p]
             ELSE LET t == CHOOSE t \in PoolHead(m) : TRUE
                  IN [phase |-> "posting", resv |-> p, tracked |-> t,
                      old |-> entry[t].launcher,
                      sameId |-> entry[t].launcher = l /\ entry[t].curId]]
  BY DEF ColdStartBegins
<1> DEFINE p == NewId(entry, {})
<1>2. /\ p \in PipelineIds /\ entry[p] = NoEntry /\ p # tick.id
      /\ \A k \in Models : p # cold[k].tracked
  BY NewIdIsFresh, SentinelAssumption DEF ColdStartBegins
<1>3. l \in Launchers /\ \A q \in Pooled(entry) : entry[q].launcher = l => q \in PoolHead(m)
  BY DEF FreeForColdStart, ListForModel, ClaimedLaunchers
<1>4. S \in SUBSET NodeIds
  <2>1. ListActive(servesModel) \subseteq NodeIds
    BY DEF ListActive, ActiveDrivers, NodeIds, TypeRest
  <2> QED BY <2>1 DEF SelectPipeline
<1>5. /\ entry' \in Heap /\ Ordered(entry')
      /\ Pooled(entry') = Pooled(entry) \cup {p} /\ p \notin Pooled(entry)
      /\ \A q \in PipelineIds \ {p} : entry'[q] = entry[q]
      /\ entry'[p].model = m /\ entry'[p].launcher = l /\ entry'[p].state = "assembling"
  <2> DEFINE yes == TRUE
  <2>1. entry' = AddEntry(entry, p, m, l, yes, S, "assembling") BY <1>1
  <2>2. yes \in BOOLEAN OBVIOUS
  <2> HIDE DEF p, yes
  <2> QED BY <2>1, <2>2, <1>2, <1>3, <1>4, AddEntryEffect
<1>7. /\ cold' \in [Models -> ColdStartState]
      /\ \A k \in Models \ {m} : cold'[k] = cold[k]
      /\ cold'[m].phase = "posting" /\ cold'[m].resv = p
      /\ PoolHead(m) = {} => cold'[m].tracked = NoId
      /\ PoolHead(m) # {} => cold'[m].tracked \in PoolHead(m) /\ cold'[m].old \in Launchers
  <2>1. CASE PoolHead(m) = {}
    <3> DEFINE x == [NoColdStart EXCEPT !.phase = "posting", !.resv = p]
    <3>1. x \in ColdStartState /\ x.phase = "posting" /\ x.resv = p /\ x.tracked = NoId
      BY <1>2 DEF NoColdStart, ColdStartState
    <3>2. cold' = [cold EXCEPT ![m] = x] BY <1>1, <2>1
    <3> HIDE DEF x
    <3> QED BY <3>1, <3>2, <2>1
  <2>2. CASE PoolHead(m) # {}
    <3> DEFINE t == CHOOSE t \in PoolHead(m) : TRUE
               x == [phase |-> "posting", resv |-> p, tracked |-> t,
                     old |-> entry[t].launcher,
                     sameId |-> entry[t].launcher = l /\ entry[t].curId]
    <3>1. t \in PoolHead(m) BY <2>2
    <3>2. t \in Pooled(entry) BY <3>1 DEF PoolHead, GetPool
    <3> HIDE DEF t
    <3>3. t \in PipelineIds /\ entry[t].launcher \in Launchers /\ entry[t].curId \in BOOLEAN
      BY <3>2, PooledType
    <3>4. /\ x \in ColdStartState /\ x.phase = "posting" /\ x.resv = p /\ x.tracked = t
          /\ x.old = entry[t].launcher
      BY <1>2, <3>3 DEF ColdStartState
    <3>5. cold' = [cold EXCEPT ![m] = x] BY <1>1, <2>2 DEF t
    <3> HIDE DEF x
    <3> QED BY <3>1, <3>3, <3>4, <3>5, <2>2
  <2> QED BY <2>1, <2>2
<1>8. \A q \in PoolHead(m) :
        q \in Pooled(entry) /\ entry[q].model = m /\ entry[q].state # "assembling"
  BY DEF PoolHead, GetPool, ColdStartBegins, NothingToAssemble
<1>9. commands' = Send(commands, l, "POST", m, m)
  BY <1>1
<1> HIDE DEF p
<1> p \in PipelineIds BY <1>2
<1> l \in Launchers BY <1>3
<1> WITNESS p \in PipelineIds
<1> WITNESS l \in Launchers
<1> QED BY <1>2, <1>3, <1>5, <1>7, <1>8, <1>9 DEF ColdStartReserves, Added

\* A cold start that begins keeps the invariant.
LEMMA ColdStartBeginsStep ==
  ASSUME IInv, NEW m \in Models, ColdStartBegins(m), cold[m] = NoColdStart,
         req' \in [Requests -> RequestState],
         UNCHANGED <<tick, servesModel, up, ejected, listed, agent, reply>>
  PROVE  IInv'
<1> USE TypeParts DEF IInv, Sound
<1>1. PICK p \in PipelineIds, l \in Launchers : ColdStartReserves(m, p, l)
  BY ColdStartBeginsEffect
<1>2. /\ p \in PipelineIds /\ entry[p] = NoEntry /\ p # tick.id
      /\ \A k \in Models : p # cold[k].tracked
  BY <1>1 DEF ColdStartReserves, Added
<1>3. l \in Launchers /\ \A q \in Pooled(entry) : entry[q].launcher = l => q \in PoolHead(m)
  BY <1>1 DEF ColdStartReserves, Added
<1>5. /\ entry' \in Heap /\ Ordered(entry')
      /\ Pooled(entry') = Pooled(entry) \cup {p} /\ p \notin Pooled(entry)
      /\ \A q \in PipelineIds \ {p} : entry'[q] = entry[q]
      /\ entry'[p].model = m /\ entry'[p].launcher = l /\ entry'[p].state = "assembling"
  BY <1>1 DEF ColdStartReserves, Added
<1>6. \A q \in Pooled(entry) : q \in PipelineIds \ {p} /\ entry'[q] = entry[q]
  BY <1>5 DEF Pooled
<1>7. /\ cold' \in [Models -> ColdStartState]
      /\ \A k \in Models \ {m} : cold'[k] = cold[k]
      /\ cold'[m].phase = "posting" /\ cold'[m].resv = p
      /\ PoolHead(m) = {} => cold'[m].tracked = NoId
      /\ PoolHead(m) # {} => cold'[m].tracked \in PoolHead(m) /\ cold'[m].old \in Launchers
  BY <1>1 DEF ColdStartReserves, Added
<1>8. commands' \in Queues
  BY <1>1, SendType DEF ColdStartReserves, Callers
<1>9. \A q \in Pooled(entry) : q \in PoolHead(m) =>
        entry[q].model = m /\ entry[q].state # "assembling"
  BY <1>1 DEF ColdStartReserves, Added
<1>10. ColdSound(entry)'
  <2>1. \A k \in Models \ {m} : cold'[k].resv # p \/ cold[k].phase = "idle"
    BY <1>5, <1>7 DEF ColdSound
  <2>2. cold'[m].tracked # p
    BY <1>2, <1>5, <1>7, SentinelAssumption DEF PoolHead, GetPool
  <2>3. cold'[m].tracked \in Pooled(entry') =>
          cold'[m].tracked \in Pooled(entry) /\ cold'[m].tracked \in PoolHead(m)
    BY <2>2, <1>5, <1>7, SentinelAssumption DEF PoolHead, GetPool, Pooled
  <2> QED BY <1>2, <1>5, <1>6, <1>7, <1>9, <2>1, <2>2, <2>3 DEF ColdSound
<1>11. Exclusive(entry)'
  <2>1. SUFFICES ASSUME NEW q \in Pooled(entry'), NEW r \in Pooled(entry'), q # r,
                        entry'[q].launcher = entry'[r].launcher
                 PROVE  \E k \in Models : {q, r} = {cold'[k].resv, cold'[k].tracked}
    BY DEF Exclusive
  <2>2. CASE q # p /\ r # p
    <3>1. PICK k \in Models : {q, r} = {cold[k].resv, cold[k].tracked}
      BY <2>1, <2>2, <1>5, <1>6 DEF Exclusive
    <3>2. k # m
      BY <3>1, <2>1 DEF NoColdStart
    <3> QED BY <3>1, <3>2, <1>7
  <2>3. ASSUME NEW s \in Pooled(entry), entry[s].launcher = l
        PROVE  s = cold'[m].tracked
    BY <1>3, <1>7, <2>3, OneHead
  <2>4. CASE q = p
    BY <2>1, <2>3, <2>4, <1>5, <1>6, <1>7
  <2>5. CASE r = p
    BY <2>1, <2>3, <2>5, <1>5, <1>6, <1>7
  <2> QED BY <2>2, <2>4, <2>5
<1>12. Owned(entry, Posting)'
  <2>1. Posting' = Posting BY DEF Posting
  <2>2. \A q \in Pooled(entry') : q = p \/ (q \in Pooled(entry) /\ entry'[q] = entry[q])
    BY <1>5, <1>6
  <2>3. \A k \in Models : cold[k].phase # "idle" => k # m
    BY DEF NoColdStart
  <2> QED BY <2>1, <2>2, <2>3, <1>7 DEF Owned
<1>13. TickSound'
  <2>1. HeldSound(entry, tick.rest)'
    BY <1>2, <1>5 DEF TickSound, HeldSound
  <2>2. tick.phase = "stopping" => entry'[tick.id] = entry[tick.id]
    BY <1>2, <1>5 DEF TickSound
  <2>3. tick.phase = "posting" =>
          /\ tick.id \in Pooled(entry') /\ entry'[tick.id].state = "assembling"
          /\ \A k \in Models : cold'[k].resv # tick.id
    BY <1>2, <1>5, <1>6, <1>7 DEF TickSound
  <2> QED BY <2>1, <2>2, <2>3 DEF TickSound
<1>14. TypeOK'
  BY <1>5, <1>7, <1>8 DEF TypeOK, Heap, Queues, TypeRest
<1> QED BY <1>5, <1>10, <1>11, <1>12, <1>13, <1>14

\* The swap that ends m's cold start: the tracked entry t and the reservation s leave
\* the pools, the warm entry p joins what is kept.
Swapped(m, p, kept) ==
  LET t == cold[m].tracked
      s == cold[m].resv
  IN /\ s \in Pooled(entry) /\ entry[s].model = m /\ entry[s].state = "assembling"
     /\ entry[s].launcher \in Launchers
     /\ Pooled(kept) = Pooled(entry) \ {s, t}
     /\ \A q \in PipelineIds : kept[q] # NoEntry => entry[q] # NoEntry /\ SameEntry(kept[q], entry[q])
     /\ \A q \in PipelineIds : entry[q] # NoEntry /\ q \in HeldIds => kept[q] # NoEntry
     /\ p \in PipelineIds /\ kept[p] = NoEntry /\ p # tick.id
     /\ \A k \in Models \ {m} : p # cold[k].tracked
     /\ Added(kept, entry', p, m, entry[s].launcher, "warm")

\* The warm entry takes the reservation's place on its launcher.
LEMMA ReplacedEffect ==
  ASSUME IInv, NEW m \in Models, cold[m].phase # "idle", Replaced(m)
  PROVE  \E p, kept : Swapped(m, p, kept)
<1> USE TypeParts DEF IInv, Sound
<1> DEFINE t == cold[m].tracked
           s == cold[m].resv
           l == entry[s].launcher
<1>1. PICK kept \in {RemoveEntry(RemoveEntry(entry, t, HeldIds), s, HeldIds)} :
        /\ FreshIds(kept, {m}) # {}
        /\ entry' = AddEntry(kept, NewId(kept, {m}), m, l, entry[s].curId,
                             entry[s].compute, "warm")
  BY DEF Replaced
<1> DEFINE p == NewId(kept, {m})
<1>2. /\ s \in Pooled(entry) /\ entry[s].model = m /\ entry[s].state = "assembling"
      /\ l \in Launchers /\ entry[s].curId \in BOOLEAN /\ entry[s].compute \in SUBSET NodeIds
  BY PooledType DEF ColdSound
<1>3. /\ kept \in Heap /\ Ordered(kept) /\ Pooled(kept) = Pooled(entry) \ {s, t}
      /\ \A q \in PipelineIds : kept[q] # NoEntry => entry[q] # NoEntry /\ SameEntry(kept[q], entry[q])
      /\ \A q \in PipelineIds : entry[q] # NoEntry /\ q \in HeldIds => kept[q] # NoEntry
  <2> DEFINE mid == RemoveEntry(entry, t, HeldIds)
  <2>1. /\ mid \in Heap /\ Ordered(mid) /\ Pooled(mid) = Pooled(entry) \ {t}
        /\ \A q \in PipelineIds : mid[q] # NoEntry => entry[q] # NoEntry /\ SameEntry(mid[q], entry[q])
        /\ \A q \in PipelineIds : entry[q] # NoEntry /\ q \in HeldIds => mid[q] # NoEntry
    BY RemoveEntryEffect
  <2> HIDE DEF mid
  <2>2. kept = RemoveEntry(mid, s, HeldIds) BY <1>1 DEF mid
  <2>3. /\ kept \in Heap /\ Ordered(kept) /\ Pooled(kept) = Pooled(mid) \ {s}
        /\ \A q \in PipelineIds : kept[q] # NoEntry => mid[q] # NoEntry /\ SameEntry(kept[q], mid[q])
        /\ \A q \in PipelineIds : mid[q] # NoEntry /\ q \in HeldIds => kept[q] # NoEntry
    BY <2>1, <2>2, RemoveEntryEffect
  <2> QED BY <2>1, <2>3 DEF SameEntry
<1>4. /\ p \in PipelineIds /\ kept[p] = NoEntry /\ p # tick.id
      /\ \A k \in Models \ {m} : p # cold[k].tracked
  BY <1>1, NewIdIsFresh, SentinelAssumption
<1>5. /\ entry' \in Heap /\ Ordered(entry')
      /\ Pooled(entry') = Pooled(kept) \cup {p} /\ p \notin Pooled(kept)
      /\ \A q \in PipelineIds \ {p} : entry'[q] = kept[q]
      /\ entry'[p].model = m /\ entry'[p].launcher = l /\ entry'[p].state = "warm"
  <2> DEFINE cur == entry[s].curId
             S == entry[s].compute
  <2>1. entry' = AddEntry(kept, p, m, l, cur, S, "warm") BY <1>1
  <2>2. l \in Launchers /\ cur \in BOOLEAN /\ S \in SUBSET NodeIds BY <1>2
  <2> HIDE DEF p, l, cur, S
  <2> QED BY <2>1, <2>2, <1>3, <1>4, AddEntryEffect
<1> HIDE DEF p
<1> QED BY <1>2, <1>3, <1>4, <1>5 DEF Swapped, Added, s, t, l

\* The swap keeps the invariant: the new entry is alone on the reservation's launcher.
LEMMA ReplacedStep ==
  ASSUME IInv, NEW m \in Models, cold[m].phase # "idle", Replaced(m),
         cold' = [cold EXCEPT ![m] = NoColdStart]
  PROVE  entry' \in Heap /\ cold' \in [Models -> ColdStartState] /\ tick' \in Tick /\ Sound'
<1> USE TypeParts DEF IInv, Sound
<1> DEFINE t == cold[m].tracked
           s == cold[m].resv
           l == entry[s].launcher
<1>1. PICK p, kept : Swapped(m, p, kept)
  BY ReplacedEffect
<1>2. /\ s \in Pooled(entry) /\ entry[s].model = m /\ entry[s].state = "assembling"
      /\ l \in Launchers
  BY <1>1 DEF Swapped
<1>3. /\ Pooled(kept) = Pooled(entry) \ {s, t}
      /\ \A q \in PipelineIds : kept[q] # NoEntry => entry[q] # NoEntry /\ SameEntry(kept[q], entry[q])
      /\ \A q \in PipelineIds : entry[q] # NoEntry /\ q \in HeldIds => kept[q] # NoEntry
  BY <1>1 DEF Swapped
<1>4. /\ p \in PipelineIds /\ kept[p] = NoEntry /\ p # tick.id
      /\ \A k \in Models \ {m} : p # cold[k].tracked
  BY <1>1 DEF Swapped
<1>5. /\ entry' \in Heap /\ Ordered(entry')
      /\ Pooled(entry') = Pooled(kept) \cup {p} /\ p \notin Pooled(kept)
      /\ \A q \in PipelineIds \ {p} : entry'[q] = kept[q]
      /\ entry'[p].model = m /\ entry'[p].launcher = l /\ entry'[p].state = "warm"
  BY <1>1 DEF Swapped, Added
<1> HIDE DEF s, t, l
<1>6. /\ \A k \in Models \ {m} : cold'[k] = cold[k]
      /\ cold'[m] = NoColdStart /\ cold'[m].phase = "idle" /\ cold'[m].tracked = NoId
      /\ cold' \in [Models -> ColdStartState]
  BY DEF NoColdStart, ColdStartState
<1>7. \A q \in Pooled(kept) : /\ q \in PipelineIds \ {p} /\ q \in Pooled(entry) /\ q # s /\ q # t
                            /\ entry'[q].model = entry[q].model
                            /\ entry'[q].launcher = entry[q].launcher
                            /\ entry'[q].state = entry[q].state
  BY <1>3, <1>5 DEF Pooled, SameEntry
<1>8. /\ tick' = [tick EXCEPT !.idle = @ \ ({t} \ HeldIds)] /\ tick' \in Tick
      /\ tick'.phase = tick.phase /\ tick'.id = tick.id /\ tick'.rest = tick.rest
  BY DEF Replaced, Tick, t
<1>9. \A k \in Models \ {m} : cold[k].resv # s /\ (cold[k].phase # "idle" => cold[k].resv \in Pooled(kept))
  <2>1. \A k \in Models : cold[k].phase = "idle" => cold[k].resv = NoId
    BY DEF ColdSound, NoColdStart
  <2>2. \A k \in Models \ {m} : cold[k].phase # "idle" =>
          /\ cold[k].resv \in Pooled(entry) /\ entry[cold[k].resv].model = k
          /\ entry[cold[k].resv].state = "assembling"
    BY DEF ColdSound
  <2>3. t \in Pooled(entry) => entry[t].model = m
    BY DEF ColdSound, t
  <2>4. s # NoId
    BY <1>2, SentinelAssumption DEF Pooled
  <2> QED BY <1>2, <1>3, <2>1, <2>2, <2>3, <2>4
<1>10. ColdSound(entry)'
  <2>1. SUFFICES ASSUME NEW k \in Models
                 PROVE  /\ cold'[k].phase = "idle" => cold'[k] = NoColdStart
                        /\ cold'[k].phase # "idle" =>
                             /\ cold'[k].resv \in Pooled(entry')
                             /\ entry'[cold'[k].resv].state = "assembling"
                             /\ entry'[cold'[k].resv].model = k
                        /\ cold'[k].tracked \in Pooled(entry') =>
                             /\ entry'[cold'[k].tracked].state # "assembling"
                             /\ entry'[cold'[k].tracked].model = k
                        /\ cold'[k].tracked # NoId => cold'[k].old \in Launchers
    BY DEF ColdSound
  <2>2. CASE k = m
    BY <2>2, <1>5, <1>6, SentinelAssumption DEF Pooled
  <2>3. CASE k # m
    <3>1. cold[k].tracked \in Pooled(entry') => cold[k].tracked \in Pooled(kept)
      BY <2>3, <1>4, <1>5
    <3> QED BY <2>3, <3>1, <1>5, <1>6, <1>7, <1>9 DEF ColdSound
  <2> QED BY <2>2, <2>3
<1>11. ASSUME NEW q \in Pooled(kept) PROVE entry[q].launcher # l
  <2>1. SUFFICES ASSUME entry[q].launcher = entry[s].launcher PROVE FALSE
    BY DEF l
  <2>2. PICK k \in Models : {q, s} = {cold[k].resv, cold[k].tracked}
    BY <2>1, <1>2, <1>7, <1>11 DEF Exclusive
  <2>3. CASE k = m
    BY <2>2, <2>3, <1>7, <1>11 DEF s, t
  <2>4. CASE k # m
    <3>1. cold[k].tracked = s BY <2>2, <2>4, <1>9
    <3> QED BY <3>1, <1>2 DEF ColdSound
  <2> QED BY <2>3, <2>4
<1>12. Exclusive(entry)'
  <2>1. SUFFICES ASSUME NEW q \in Pooled(entry'), NEW r \in Pooled(entry'), q # r,
                        entry'[q].launcher = entry'[r].launcher
                 PROVE  \E k \in Models : {q, r} = {cold'[k].resv, cold'[k].tracked}
    BY DEF Exclusive
  <2>2. q \in Pooled(kept) /\ r \in Pooled(kept)
    BY <2>1, <1>5, <1>7, <1>11
  <2>3. PICK k \in Models : {q, r} = {cold[k].resv, cold[k].tracked}
    BY <2>1, <2>2, <1>7 DEF Exclusive
  <2>4. k # m
    BY <2>2, <2>3, <1>7 DEF s, t
  <2> QED BY <2>3, <2>4, <1>6
<1>13. Owned(entry, Posting)'
  <2>1. Posting' = Posting BY <1>8 DEF Posting
  <2>2. \A q \in Pooled(entry') : entry'[q].state = "assembling" =>
          q \in Pooled(kept) /\ entry[q].state = "assembling"
    BY <1>5, <1>7
  <2>3. ASSUME NEW q \in Pooled(kept), NEW k \in Models,
               cold[k].phase # "idle", cold[k].resv = q
        PROVE  k # m
    BY <2>3, <1>7 DEF s
  <2> QED BY <2>1, <2>2, <2>3, <1>6, <1>7 DEF Owned
<1>14. TickSound'
  <2>1. HeldSound(entry, tick.rest)'
    <3>1. SUFFICES ASSUME NEW c \in tick.rest
                   PROVE  /\ c.id \in PipelineIds /\ entry'[c.id] # NoEntry
                          /\ entry'[c.id].state # "assembling"
      BY <1>8 DEF HeldSound
    <3>2. /\ c.id \in PipelineIds /\ c.id \in HeldIds
          /\ entry[c.id] # NoEntry /\ entry[c.id].state # "assembling"
      BY <3>1 DEF TickSound, HeldSound, HeldIds
    <3>3. kept[c.id] # NoEntry /\ kept[c.id].state = entry[c.id].state /\ c.id # p
      BY <3>2, <1>3, <1>4 DEF SameEntry
    <3> QED BY <3>2, <3>3, <1>5
  <2>2. tick.phase = "stopping" =>
          tick.id \in PipelineIds
          /\ (entry'[tick.id] # NoEntry => entry'[tick.id].state # "assembling")
    BY <1>3, <1>4, <1>5 DEF TickSound, SameEntry
  <2>3. tick.phase = "posting" =>
          /\ tick.id \in Pooled(entry') /\ entry'[tick.id].state = "assembling"
          /\ \A k \in Models : cold'[k].resv # tick.id
    <3>1. SUFFICES ASSUME tick.phase = "posting"
                   PROVE  /\ tick.id \in Pooled(entry') /\ entry'[tick.id].state = "assembling"
                          /\ \A k \in Models : cold'[k].resv # tick.id
      OBVIOUS
    <3>2. /\ tick.id \in Pooled(entry) /\ entry[tick.id].state = "assembling"
          /\ \A k \in Models : cold[k].resv # tick.id
      BY <3>1 DEF TickSound
    <3>3. tick.id # t /\ tick.id # s
      BY <3>2 DEF ColdSound, s, t
    <3>4. tick.id \in Pooled(kept) BY <3>2, <3>3, <1>3
    <3>5. tick.id # NoId BY <3>2, SentinelAssumption DEF Pooled
    <3> QED BY <3>2, <3>4, <3>5, <1>5, <1>6, <1>7 DEF NoColdStart
  <2> QED BY <2>1, <2>2, <2>3, <1>8 DEF TickSound
<1> QED BY <1>5, <1>6, <1>8, <1>10, <1>12, <1>13, <1>14

\* The driver is registered; the old launcher is told to stop, or the swap made.
LEMMA ColdStartAssembledStep ==
  ASSUME IInv, NEW m \in Models, ColdStartAssembled(m)
  PROVE  IInv'
<1> USE TypeParts DEF IInv
<1> DEFINE c == cold[m]
           l == entry[cold[m].resv].launcher
<1>1. /\ c.phase = "posting" /\ reply[m] = "ok"
      /\ servesModel' = [servesModel EXCEPT ![l] = m]
      /\ reply' = [reply EXCEPT ![m] = "none"]
      /\ UNCHANGED <<up, ejected, listed, agent>>
  BY DEF ColdStartAssembled
<1>2. /\ servesModel' \in [Launchers -> Models \cup {NoModel}]
      /\ reply' \in [Callers -> {"none", "ok", "failed"}]
  BY <1>1 DEF TypeRest, Callers
<1>3. CASE c.tracked # NoId /\ ~c.sameId
  <2>1. /\ commands' = Send(commands, c.old, "DELETE", m, m)
        /\ cold' = [cold EXCEPT ![m].phase = "stopping"]
        /\ UNCHANGED <<entry, tick, req>>
    BY <1>3 DEF ColdStartAssembled
  <2>2. c.old \in Launchers BY <1>3 DEF Sound, ColdSound
  <2>3. commands' \in Queues BY <2>1, <2>2, SendType DEF Callers
  <2> DEFINE x == [cold[m] EXCEPT !.phase = "stopping"]
  <2>4. /\ x \in ColdStartState /\ x.phase = "stopping" /\ x.resv = cold[m].resv
        /\ x.tracked = cold[m].tracked /\ x.old = cold[m].old
    BY DEF ColdStartState
  <2>5. cold' = [cold EXCEPT ![m] = x] BY <2>1
  <2> HIDE DEF x
  <2>6. /\ cold' \in [Models -> ColdStartState]
        /\ cold'[m].phase = "stopping" /\ cold'[m].old = cold[m].old
        /\ \A k \in Models \ {m} : cold'[k] = cold[k]
        /\ \A k \in Models : cold'[k].resv = cold[k].resv /\ cold'[k].tracked = cold[k].tracked
    BY <2>4, <2>5
  <2>7. ColdSound(entry)'
    <3>1. SUFFICES ASSUME NEW k \in Models
                   PROVE  /\ cold'[k].phase = "idle" => cold'[k] = NoColdStart
                          /\ cold'[k].phase # "idle" =>
                               /\ cold'[k].resv \in Pooled(entry')
                               /\ entry'[cold'[k].resv].state = "assembling"
                               /\ entry'[cold'[k].resv].model = k
                          /\ cold'[k].tracked \in Pooled(entry') =>
                               /\ entry'[cold'[k].tracked].state # "assembling"
                               /\ entry'[cold'[k].tracked].model = k
                          /\ cold'[k].tracked # NoId => cold'[k].old \in Launchers
      BY DEF ColdSound
    <3>2. cold[k].phase # "idle" <=> cold'[k].phase # "idle"
      BY <2>6, <1>1
    <3> QED BY <2>1, <2>2, <2>6, <3>2 DEF Sound, ColdSound
  <2>8. Exclusive(entry)'
    <3>1. SUFFICES ASSUME NEW q \in Pooled(entry), NEW r \in Pooled(entry), q # r,
                          entry[q].launcher = entry[r].launcher
                   PROVE  \E k \in Models : {q, r} = {cold'[k].resv, cold'[k].tracked}
      BY <2>1 DEF Exclusive
    <3>2. PICK k \in Models : {q, r} = {cold[k].resv, cold[k].tracked}
      BY <3>1 DEF Sound, Exclusive
    <3> QED BY <2>6, <3>2
  <2>9. Owned(entry, Posting)' BY <2>1, <2>6 DEF Sound, Owned, Posting
  <2>10. TickSound' BY <2>1, <2>6 DEF Sound, TickSound, HeldSound, Pooled
  <2>11. Ordered(entry)' BY <2>1 DEF Sound, Ordered, Pooled, GetPool
  <2>12. TypeOK'
    BY <2>1, <2>3, <2>6, <1>1, <1>2 DEF TypeOK, Heap, Queues, TypeRest
  <2> QED BY <2>7, <2>8, <2>9, <2>10, <2>11, <2>12 DEF Sound
<1>4. CASE ~(c.tracked # NoId /\ ~c.sameId)
  <2>1. /\ Replaced(m)
        /\ cold' = [cold EXCEPT ![m] = NoColdStart]
        /\ Resume(m, servesModel')
        /\ UNCHANGED commands
    BY <1>4 DEF ColdStartAssembled
  <2>2. entry' \in Heap /\ cold' \in [Models -> ColdStartState] /\ tick' \in Tick /\ Sound'
    BY <1>1, <2>1, ReplacedStep
  <2>3. req' \in [Requests -> RequestState]
    BY <2>1, ResumeType
  <2>4. TypeOK'
    BY <2>1, <2>2, <2>3, <1>1, <1>2 DEF TypeOK, Heap, Queues, TypeRest
  <2> QED BY <2>2, <2>4
<1> QED BY <1>3, <1>4

\* The old launcher's call is over: the swap is made.
LEMMA ColdStartStoppedStep ==
  ASSUME IInv, NEW m \in Models, ColdStartStopped(m)
  PROVE  IInv'
<1> USE TypeParts DEF IInv
<1>1. /\ cold[m].phase = "stopping"
      /\ commands' \in OnAnswer(m, {"ok", "failed"}) \cup OnTimeout(m)
      /\ reply' = [reply EXCEPT ![m] = "none"]
      /\ Replaced(m)
      /\ cold' = [cold EXCEPT ![m] = NoColdStart]
      /\ Resume(m, servesModel)
      /\ UNCHANGED <<servesModel, up, ejected, listed, agent>>
  BY DEF ColdStartStopped
<1>2. entry' \in Heap /\ cold' \in [Models -> ColdStartState] /\ tick' \in Tick /\ Sound'
  BY <1>1, ReplacedStep
<1>3. commands' \in Queues
  BY <1>1, AnsweredOrTimedOutType
<1>4. req' \in [Requests -> RequestState]
  BY <1>1, ResumeType
<1>5. reply' \in [Callers -> {"none", "ok", "failed"}]
  BY <1>1 DEF TypeRest, Callers
<1>6. TypeOK'
  BY <1>1, <1>2, <1>3, <1>4, <1>5 DEF TypeOK, Heap, Queues, TypeRest
<1> QED BY <1>2, <1>6

(***************************************************************************)
(* Taking out an entry that is no cold start's reservation.                *)
(***************************************************************************)
LEMMA RemoveKeepsSound ==
  ASSUME NEW e \in Heap, Ordered(e), ColdSound(e), Exclusive(e), NEW S, Owned(e, S),
         NEW p, \A m \in Models : cold[m].phase # "idle" => cold[m].resv # p, NEW held
  PROVE  LET f == RemoveEntry(e, p, held)
         IN f \in Heap /\ Ordered(f) /\ ColdSound(f) /\ Exclusive(f) /\ Owned(f, S \ {p})
<1> DEFINE f == RemoveEntry(e, p, held)
<1>1. /\ f \in Heap /\ Ordered(f) /\ Pooled(f) = Pooled(e) \ {p}
      /\ \A q \in PipelineIds : f[q] # NoEntry => e[q] # NoEntry /\ SameEntry(f[q], e[q])
  BY RemoveEntryEffect
<1> HIDE DEF f
<1>2. \A q \in Pooled(f) : /\ q \in Pooled(e) /\ q # p /\ f[q].model = e[q].model
                         /\ f[q].launcher = e[q].launcher /\ f[q].state = e[q].state
  BY <1>1 DEF Pooled, SameEntry
<1>3. ColdSound(f) BY <1>1, <1>2 DEF ColdSound
<1>4. Exclusive(f) BY <1>2 DEF Exclusive
<1>5. Owned(f, S \ {p}) BY <1>2 DEF Owned
<1> QED BY <1>1, <1>3, <1>4, <1>5 DEF f

\* POST failed: the reservation goes and the frame with it.
LEMMA ColdStartFailedStep ==
  ASSUME IInv, NEW m \in Models, ColdStartFailed(m)
  PROVE  IInv'
<1> USE TypeParts DEF IInv
<1> DEFINE s == cold[m].resv
           t == cold[m].tracked
           kept == RemoveEntry(entry, s, HeldIds)
<1>1. /\ cold[m].phase = "posting"
      /\ commands' \in OnAnswer(m, {"failed"}) \cup OnTimeout(m)
      /\ reply' = [reply EXCEPT ![m] = "none"]
      /\ entry' = MarkEntryFailed(kept, {t})
      /\ cold' = [cold EXCEPT ![m] = NoColdStart]
      /\ Resume(m, servesModel)
      /\ UNCHANGED <<tick, servesModel, up, ejected, listed, agent>>
  BY DEF ColdStartFailed
<1>2. /\ kept \in Heap /\ Ordered(kept) /\ Pooled(kept) = Pooled(entry) \ {s}
      /\ \A q \in PipelineIds : kept[q] # NoEntry => entry[q] # NoEntry /\ SameEntry(kept[q], entry[q])
      /\ \A q \in PipelineIds : entry[q] # NoEntry /\ q \in HeldIds => kept[q] # NoEntry
  BY RemoveEntryEffect DEF Sound
<1> HIDE DEF kept
<1>3. /\ entry' \in Heap /\ Ordered(entry') /\ Pooled(entry') = Pooled(kept)
      /\ \A q \in Pooled(kept) :
           /\ entry'[q].model = kept[q].model /\ entry'[q].launcher = kept[q].launcher
           /\ entry'[q].state = IF q \in {t} THEN "failed" ELSE kept[q].state
      /\ \A q \in PipelineIds \ Pooled(kept) : entry'[q] = kept[q]
  BY <1>1, <1>2, MarkEntryFailedEffect
<1>4. \A q \in Pooled(entry') : /\ q \in Pooled(entry) /\ q # s
                              /\ entry'[q].model = entry[q].model
                              /\ entry'[q].launcher = entry[q].launcher
                              /\ entry'[q].state \in {entry[q].state, "failed"}
                              /\ (q # t => entry'[q].state = entry[q].state)
  BY <1>2, <1>3 DEF Pooled, SameEntry
<1>5. /\ cold' \in [Models -> ColdStartState] /\ cold'[m] = NoColdStart
      /\ cold'[m].phase = "idle" /\ cold'[m].tracked = NoId
      /\ \A k \in Models \ {m} : cold'[k] = cold[k]
  BY <1>1 DEF NoColdStart, ColdStartState
<1>6. \A k \in Models \ {m} : cold[k].phase # "idle" =>
        /\ cold[k].resv \in Pooled(entry') /\ cold[k].resv # t
        /\ entry'[cold[k].resv].state = "assembling" /\ entry'[cold[k].resv].model = k
  <2>1. SUFFICES ASSUME NEW k \in Models \ {m}, cold[k].phase # "idle"
                 PROVE  /\ cold[k].resv \in Pooled(entry') /\ cold[k].resv # t
                        /\ entry'[cold[k].resv].state = "assembling"
                        /\ entry'[cold[k].resv].model = k
    OBVIOUS
  <2>2. /\ cold[k].resv \in Pooled(entry) /\ entry[cold[k].resv].model = k
        /\ entry[cold[k].resv].state = "assembling"
    BY <2>1 DEF Sound, ColdSound
  <2>3. entry[s].model = m /\ (t \in Pooled(entry) => entry[t].state # "assembling")
    BY <1>1 DEF Sound, ColdSound
  <2> QED BY <2>2, <2>3, <1>2, <1>3, <1>4
<1> HIDE DEF s, t
<1>7. ColdSound(entry)'
  <2>1. SUFFICES ASSUME NEW k \in Models
                 PROVE  /\ cold'[k].phase = "idle" => cold'[k] = NoColdStart
                        /\ cold'[k].phase # "idle" =>
                             /\ cold'[k].resv \in Pooled(entry')
                             /\ entry'[cold'[k].resv].state = "assembling"
                             /\ entry'[cold'[k].resv].model = k
                        /\ cold'[k].tracked \in Pooled(entry') =>
                             /\ entry'[cold'[k].tracked].state # "assembling"
                             /\ entry'[cold'[k].tracked].model = k
                        /\ cold'[k].tracked # NoId => cold'[k].old \in Launchers
    BY DEF ColdSound
  <2>2. CASE k = m
    BY <2>2, <1>5, SentinelAssumption DEF Pooled
  <2>3. CASE k # m
    BY <2>3, <1>4, <1>5, <1>6 DEF Sound, ColdSound
  <2> QED BY <2>2, <2>3
<1>8. Exclusive(entry)'
  <2>1. SUFFICES ASSUME NEW q \in Pooled(entry'), NEW r \in Pooled(entry'), q # r,
                        entry'[q].launcher = entry'[r].launcher
                 PROVE  \E k \in Models : {q, r} = {cold'[k].resv, cold'[k].tracked}
    BY DEF Exclusive
  <2>2. PICK k \in Models : {q, r} = {cold[k].resv, cold[k].tracked}
    BY <2>1, <1>4 DEF Sound, Exclusive
  <2>3. k # m
    BY <2>2, <1>4 DEF s
  <2> QED BY <2>2, <2>3, <1>5
<1>9. Owned(entry, Posting)'
  <2>1. Posting' = Posting BY <1>1 DEF Posting
  <2>2. \A q \in Pooled(entry') : entry'[q].state = "assembling" =>
          q \in Pooled(entry) /\ q # s /\ entry[q].state = "assembling"
    BY <1>4
  <2> QED BY <2>1, <2>2, <1>5 DEF Sound, Owned, s
<1>10. TickSound'
  <2>1. \A q \in PipelineIds : entry'[q] # NoEntry /\ entry[q] # NoEntry
                              /\ entry[q].state # "assembling"
                              => entry'[q].state # "assembling"
    BY <1>2, <1>3 DEF Pooled, SameEntry
  <2>2. \A q \in PipelineIds : entry'[q] # NoEntry => entry[q] # NoEntry
    BY <1>2, <1>3 DEF Pooled
  <2>3. \A q \in HeldIds \cap PipelineIds : entry[q] # NoEntry => entry'[q] # NoEntry
    BY <1>2, <1>3 DEF Pooled
  <2>4. HeldSound(entry, tick.rest)'
    BY <2>1, <2>3, <1>1 DEF Sound, TickSound, HeldSound, HeldIds
  <2>5. tick.phase = "posting" =>
          /\ tick.id \in Pooled(entry') /\ entry'[tick.id].state = "assembling"
          /\ \A k \in Models : cold'[k].resv # tick.id
    <3>1. SUFFICES ASSUME tick.phase = "posting"
                   PROVE  /\ tick.id \in Pooled(entry') /\ entry'[tick.id].state = "assembling"
                          /\ \A k \in Models : cold'[k].resv # tick.id
      OBVIOUS
    <3>2. /\ tick.id \in Pooled(entry) /\ entry[tick.id].state = "assembling"
          /\ \A k \in Models : cold[k].resv # tick.id
      BY <3>1 DEF Sound, TickSound
    <3>3. tick.id # t /\ tick.id # s
      BY <3>2 DEF Sound, ColdSound, s, t
    <3>4. tick.id \in Pooled(entry') BY <3>2, <3>3, <1>2, <1>3
    <3>5. tick.id # NoId BY <3>2, SentinelAssumption DEF Pooled
    <3> QED BY <3>2, <3>3, <3>4, <3>5, <1>4, <1>5 DEF NoColdStart
  <2> QED BY <2>1, <2>2, <2>4, <2>5, <1>1 DEF Sound, TickSound
<1>11. commands' \in Queues
  BY <1>1, AnsweredOrTimedOutType
<1>12. req' \in [Requests -> RequestState]
  BY <1>1, ResumeType
<1>13. reply' \in [Callers -> {"none", "ok", "failed"}]
  BY <1>1 DEF TypeRest, Callers
<1>14. TypeOK'
  BY <1>1, <1>3, <1>5, <1>11, <1>12, <1>13 DEF TypeOK, Heap, Queues, TypeRest
<1> QED BY <1>3, <1>7, <1>8, <1>9, <1>10, <1>14 DEF Sound

-----------------------------------------------------------------------------
(***************************************************************************)
(* Requests, launchers and registries: steps that leave the pools, the     *)
(* cold starts and the pass alone, or nearly so.                           *)
(***************************************************************************)

\* A step that changes neither entries nor anybody's position keeps the invariant.
LEMMA QuietStep ==
  ASSUME IInv, UNCHANGED <<entry, cold, tick>>, commands' \in Queues, TypeRest'
  PROVE  IInv'
<1>1. /\ Ordered(entry)' /\ ColdSound(entry)' /\ Exclusive(entry)'
      /\ Owned(entry, Posting)' /\ TickSound'
  BY DEF IInv, Sound, Ordered, ColdSound, Exclusive, Owned, Posting, TickSound, HeldSound,
         Pooled, GetPool
<1>2. TypeOK'
  BY DEF IInv, TypeOK, Heap, Queues, TypeRest
<1> QED BY <1>1, <1>2 DEF IInv, Sound

\* A launcher's own steps keep the invariant: they touch no entry.
LEMMA LauncherStep ==
  ASSUME IInv, NEW l \in Launchers, HandleCall(l) \/ CallLost(l) \/ AgentDies(l)
  PROVE  IInv'
<1> USE TypeParts DEF IInv
<1>1. ASSUME NEW result \in {"ok", "failed"}, Answered(l, result)
      PROVE  /\ commands' \in Queues /\ reply' \in [Callers -> {"none", "ok", "failed"}]
             /\ UNCHANGED <<entry, cold, tick, req, servesModel, up, ejected, listed>>
             /\ Head(commands[l]).model \in Models
  <2>1. commands[l] \in Seq(Command) /\ commands[l] # <<>>
    BY <1>1 DEF Queues, Answered
  <2>2. Tail(commands[l]) \in Seq(Command) /\ Head(commands[l]) \in Command
    BY <2>1
  <2>3. commands' = [commands EXCEPT ![l] = Tail(commands[l])]
    BY <1>1 DEF Answered
  <2>4. commands' \in Queues
    BY <2>2, <2>3 DEF Queues
  <2>5. Head(commands[l]).by \in Callers \cup {NoProc} /\ Head(commands[l]).model \in Models
    BY <2>2 DEF Command
  <2>6. reply' \in [Callers -> {"none", "ok", "failed"}]
    BY <1>1, <2>5 DEF Answered, TypeRest
  <2> QED BY <1>1, <2>4, <2>5, <2>6 DEF Answered
<1>2. ASSUME PostSpawns(l) PROVE IInv'
  <2>1. Answered(l, "ok") /\ agent' = [agent EXCEPT ![l] = Head(commands[l]).model]
    BY <1>2 DEF PostSpawns
  <2>2. TypeRest' BY <2>1, <1>1 DEF TypeRest
  <2> QED BY <2>1, <2>2, <1>1, QuietStep
<1>3. ASSUME PostFailsToSpawn(l) PROVE IInv'
  <2>1. Answered(l, "failed") /\ agent' = [agent EXCEPT ![l] = NoModel]
    BY <1>3 DEF PostFailsToSpawn
  <2>2. TypeRest' BY <2>1, <1>1 DEF TypeRest
  <2> QED BY <2>1, <2>2, <1>1, QuietStep
<1>4. ASSUME PostRefused(l) \/ CallLost(l) PROVE IInv'
  <2>1. Answered(l, "failed") /\ agent' = agent
    BY <1>4 DEF PostRefused, CallLost
  <2>2. TypeRest' BY <2>1, <1>1 DEF TypeRest
  <2> QED BY <2>1, <2>2, <1>1, QuietStep
<1>5. ASSUME DeleteStops(l) PROVE IInv'
  <2>1. Answered(l, "ok") /\ agent' = [agent EXCEPT ![l] = NoModel]
    BY <1>5 DEF DeleteStops
  <2>2. TypeRest' BY <2>1, <1>1 DEF TypeRest
  <2> QED BY <2>1, <2>2, <1>1, QuietStep
<1>6. ASSUME AgentDies(l) PROVE IInv'
  <2>1. /\ agent' = [agent EXCEPT ![l] = NoModel]
        /\ UNCHANGED <<entry, cold, tick, req, servesModel, up, ejected, listed, commands, reply>>
    BY <1>6 DEF AgentDies
  <2>2. TypeRest' BY <2>1 DEF TypeRest
  <2> QED BY <2>1, <2>2, QuietStep
<1> QED BY <1>2, <1>3, <1>4, <1>5, <1>6 DEF HandleCall

\* Registrations of nodes that come and go, and launchers that lapse, keep the invariant.
LEMMA RegistryStep ==
  ASSUME IInv,
         \/ \E l \in Launchers : \/ DriverExpires(l) \/ DriverEjected(l) \/ DriverRestored(l)
                                \/ LauncherLapses(l)
         \/ \E n \in Nodes : NodeLeaves(n) \/ NodeJoins(n)
  PROVE  IInv'
<1> USE TypeParts DEF IInv
<1>1. UNCHANGED <<entry, cold, tick, req, agent, commands, reply>>
  BY DEF DriverExpires, DriverEjected, DriverRestored, LauncherLapses, NodeLeaves, NodeJoins
<1>2. /\ servesModel' \in [Launchers -> Models \cup {NoModel}] /\ up' \in SUBSET Nodes
      /\ ejected' \in SUBSET Launchers /\ listed' \in SUBSET Launchers
  BY DEF DriverExpires, DriverEjected, DriverRestored, LauncherLapses, NodeLeaves, NodeJoins, TypeRest
<1>3. TypeRest' BY <1>1, <1>2 DEF TypeRest
<1> QED BY <1>1, <1>3, QuietStep

\* A launcher that registers anew leaves every entry on it with an old launcherId.
LEMMA LauncherRegistersStep ==
  ASSUME IInv, NEW l \in Launchers, LauncherRegisters(l)
  PROVE  IInv'
<1> USE TypeParts DEF IInv
<1> DEFINE x(p) == [entry[p] EXCEPT !.curId = FALSE]
<1>1. \A p \in PipelineIds :
        entry'[p] = IF entry[p] # NoEntry /\ entry[p].launcher = l THEN x(p) ELSE entry[p]
  BY DEF LauncherRegisters
<1>2. \A p \in PipelineIds : entry[p] # NoEntry =>
        /\ x(p) \in PooledPipeline /\ x(p) # NoEntry /\ x(p).model = entry[p].model
        /\ x(p).launcher = entry[p].launcher /\ x(p).state = entry[p].state
        /\ x(p).pos = entry[p].pos
  BY EntryAssumption DEF Heap, PooledPipeline
<1>3. entry' \in Heap
  BY <1>1, <1>2 DEF LauncherRegisters, Heap
<1> HIDE DEF x
<1>4. \A p \in PipelineIds :
        /\ entry'[p] # NoEntry <=> entry[p] # NoEntry
        /\ entry[p] # NoEntry =>
             /\ entry'[p].model = entry[p].model /\ entry'[p].launcher = entry[p].launcher
             /\ entry'[p].state = entry[p].state /\ entry'[p].pos = entry[p].pos
  BY <1>1, <1>2
<1>5. Pooled(entry') = Pooled(entry) /\ \A m : GetPool(entry', m) = GetPool(entry, m)
  BY <1>4 DEF Pooled, GetPool
<1>6. \A p \in Pooled(entry) : p \in PipelineIds /\ entry[p] # NoEntry
  BY DEF Pooled
<1>7. Ordered(entry')
  BY <1>4, <1>5, <1>6 DEF Sound, Ordered
<1>8. UNCHANGED <<cold, req, servesModel, up, ejected, agent, commands, reply>>
      /\ listed' \in SUBSET Launchers
  BY DEF LauncherRegisters, TypeRest
<1>9. /\ tick' \in Tick /\ tick'.phase = tick.phase /\ tick'.id = tick.id
      /\ tick'.rest = tick.rest
  <2> DEFINE plan == {[c EXCEPT !.curId = c.curId /\ c.launcher # l] : c \in tick.plan}
  <2>1. plan \in SUBSET Claim
    BY DEF Tick, Claim
  <2>2. tick' = [tick EXCEPT !.plan = plan]
    BY DEF LauncherRegisters
  <2> HIDE DEF plan
  <2> QED BY <2>1, <2>2 DEF Tick
<1>10. ColdSound(entry') /\ Exclusive(entry') /\ Owned(entry', Posting)
  BY <1>4, <1>5, <1>6, SameLook DEF Sound
<1>11. ColdSound(entry)' /\ Exclusive(entry)' /\ Owned(entry, Posting)'
  BY <1>8, <1>9, <1>10 DEF ColdSound, Exclusive, Owned, Posting
<1>12. TickSound'
  BY <1>4, <1>5, <1>6, <1>8, <1>9 DEF Sound, TickSound, HeldSound
<1>13. TypeOK'
  BY <1>3, <1>8, <1>9 DEF TypeOK, Heap, Queues, TypeRest
<1> QED BY <1>7, <1>11, <1>12, <1>13 DEF Sound

\* Routing a request keeps the invariant: at most entries are marked failed.
LEMMA RoutingStep ==
  ASSUME IInv, NEW r \in Requests, Routing(r)
  PROVE  IInv'
<1> USE TypeParts DEF IInv
<1>1. \A m \in Models, l \in Launchers, route \in {"none", "pool", "registry", "chat"} :
        Forwarded(m, l, route) \in RequestState
  BY DEF Forwarded, RequestState, TypeRest
<1>2. NoRequest \in RequestState
  BY DEF NoRequest, RequestState
<1>3. ASSUME NEW m \in Models, GenerateFromPool(r, m) PROVE IInv'
  <2>1. PICK p \in Usable(m) :
          /\ req' = [req EXCEPT ![r] = Forwarded(m, entry[p].launcher, "pool")]
          /\ tick' = [tick EXCEPT !.idle = @ \ {p}]
    BY <1>3 DEF GenerateFromPool
  <2>2. UNCHANGED <<entry, cold, servesModel, up, ejected, listed, agent, commands, reply>>
    BY <1>3 DEF GenerateFromPool
  <2>3. entry[p].launcher \in Launchers
    BY PooledType DEF Usable, GetPool
  <2>4. TypeRest'
    BY <1>1, <2>1, <2>2, <2>3 DEF TypeRest
  <2>5. /\ tick' \in Tick /\ tick'.phase = tick.phase /\ tick'.id = tick.id
        /\ tick'.rest = tick.rest
    BY <2>1 DEF Tick
  <2>6. Ordered(entry)' /\ ColdSound(entry)' /\ Exclusive(entry)'
    <3>1. Ordered(entry)' BY <2>2 DEF Sound, Ordered, Pooled, GetPool
    <3>2. ColdSound(entry)' BY <2>2 DEF Sound, ColdSound, Pooled
    <3>3. Exclusive(entry)' BY <2>2 DEF Sound, Exclusive, Pooled
    <3> QED BY <3>1, <3>2, <3>3
  <2>7. Owned(entry, Posting)' /\ TickSound'
    BY <2>2, <2>5 DEF Sound, Owned, Posting, TickSound, HeldSound, Pooled
  <2>8. TypeOK'
    BY <2>2, <2>4, <2>5 DEF TypeOK, Heap, Queues, TypeRest
  <2> QED BY <2>6, <2>7, <2>8 DEF Sound
<1>4. ASSUME NEW m \in Models, GenerateFromCold(r, m) PROVE IInv'
  <2>1. UNCHANGED <<tick, servesModel, up, ejected, listed, agent, reply>>
    BY <1>4 DEF GenerateFromCold
  <2> DEFINE waiting == [NoRequest EXCEPT !.phase = "waiting", !.model = m]
  <2>2. waiting \in RequestState
    BY DEF NoRequest, RequestState
  <2>3. FromRegistry(m, servesModel) \subseteq RequestState
    BY <1>1, <1>2 DEF FromRegistry, SelectNode
  <2>4. req' \in [Requests -> RequestState]
    <3>1. \/ req' = [req EXCEPT ![r] = waiting]
          \/ \E to \in FromRegistry(m, servesModel) : req' = [req EXCEPT ![r] = to]
      BY <1>4 DEF GenerateFromCold
    <3> HIDE DEF waiting
    <3> QED BY <3>1, <2>2, <2>3 DEF TypeRest
  <2>5. \/ UNCHANGED <<entry, cold, commands>>
        \/ cold[m] = NoColdStart /\ ColdStartBegins(m)
    BY <1>4 DEF GenerateFromCold
  <2>6. CASE UNCHANGED <<entry, cold, commands>>
    <3>1. TypeRest' BY <2>1, <2>4 DEF TypeRest
    <3> QED BY <2>1, <2>6, <3>1, QuietStep
  <2>7. CASE cold[m] = NoColdStart /\ ColdStartBegins(m)
    BY <2>1, <2>4, <2>7, ColdStartBeginsStep
  <2> QED BY <2>5, <2>6, <2>7
<1>5. ASSUME NEW m \in Models, ChatFromRegistry(r, m) PROVE IInv'
  <2>1. PICK l \in SelectNode(m, servesModel) : req' = [req EXCEPT ![r] = Forwarded(m, l, "chat")]
    BY <1>5 DEF ChatFromRegistry
  <2>2. UNCHANGED <<entry, cold, tick, servesModel, up, ejected, listed, agent, commands, reply>>
    BY <1>5 DEF ChatFromRegistry
  <2>3. TypeRest' BY <1>1, <2>1, <2>2 DEF TypeRest, SelectNode
  <2> QED BY <2>2, <2>3, QuietStep
<1>6. ASSUME Completed(r) PROVE IInv'
  <2>1. /\ req' = [req EXCEPT ![r] = NoRequest]
        /\ UNCHANGED <<entry, cold, tick, servesModel, up, ejected, listed, agent, commands, reply>>
    BY <1>6 DEF Completed
  <2>2. TypeRest' BY <1>2, <2>1 DEF TypeRest
  <2> QED BY <2>1, <2>2, QuietStep
<1>7. ASSUME ForwardFailed(r) PROVE IInv'
  <2>1. /\ req' = [req EXCEPT ![r] = NoRequest]
        /\ UNCHANGED <<cold, tick, servesModel, up, ejected, listed, agent, commands, reply>>
    BY <1>7 DEF ForwardFailed
  <2>2. TypeRest' BY <1>2, <2>1 DEF TypeRest
  <2> DEFINE named == {p \in GetPool(entry, req[r].model) :
                         entry[p].state # "assembling" /\ entry[p].launcher = req[r].node}
  <2>3. entry' = entry \/ entry' = MarkEntryFailed(entry, named)
    BY <1>7 DEF ForwardFailed
  <2>4. CASE entry' = entry
    BY <2>1, <2>2, <2>4, QuietStep
  <2>5. CASE entry' = MarkEntryFailed(entry, named)
    <3>1. \A p \in named : entry[p].state # "assembling"
      OBVIOUS
    <3> HIDE DEF named
    <3>2. /\ entry' \in Heap /\ Ordered(entry') /\ Pooled(entry') = Pooled(entry)
          /\ \A q \in Pooled(entry) :
               /\ entry'[q].model = entry[q].model /\ entry'[q].launcher = entry[q].launcher
               /\ entry'[q].state = IF q \in named THEN "failed" ELSE entry[q].state
          /\ \A q \in PipelineIds \ Pooled(entry) : entry'[q] = entry[q]
      BY <2>5, MarkEntryFailedEffect DEF Sound
    <3>3. \A q \in Pooled(entry) : /\ entry'[q].state = "assembling" <=> entry[q].state = "assembling"
                                 /\ entry'[q] # NoEntry /\ entry[q] # NoEntry
      BY <3>1, <3>2 DEF Pooled
    <3>4. ColdSound(entry)'
      BY <2>1, <3>2, <3>3 DEF Sound, ColdSound
    <3>5. Exclusive(entry)'
      BY <2>1, <3>2 DEF Sound, Exclusive
    <3>6. Owned(entry, Posting)'
      BY <2>1, <3>2, <3>3 DEF Sound, Owned, Posting
    <3>7. \A q \in PipelineIds : /\ entry[q] # NoEntry <=> entry'[q] # NoEntry
                               /\ entry[q].state # "assembling" => entry'[q].state # "assembling"
      BY <3>2, <3>3
    <3>8. TickSound'
      BY <2>1, <3>2, <3>3, <3>7 DEF Sound, TickSound, HeldSound
    <3>9. TypeOK'
      BY <2>1, <2>2, <3>2 DEF TypeOK, Heap, Queues, TypeRest
    <3> QED BY <3>2, <3>4, <3>5, <3>6, <3>8, <3>9 DEF Sound
  <2> QED BY <2>3, <2>4, <2>5
<1> QED BY <1>3, <1>4, <1>5, <1>6, <1>7 DEF Routing

-----------------------------------------------------------------------------
(***************************************************************************)
(* The background loop.  Each lemma is about what is left of a pass from   *)
(* a heap e on which PassSound holds.                                      *)
(***************************************************************************)

\* The pass carries out claim c of the plan: reservation p is made on a launcher that
\* has no entry.
Reserves(e, plan, queues, c, p) ==
  /\ c.launcher \in Launchers /\ c.model \in Models
  /\ e[p] = NoEntry /\ \A k \in Models : p # cold[k].tracked
  /\ \A q \in Pooled(e) : e[q].launcher # c.launcher
  /\ Added(e, entry', p, c.model, c.launcher, "assembling")
  /\ tick' \in Tick /\ tick'.phase = "posting" /\ tick'.id = p /\ tick'.rest = {}
  /\ tick'.plan \subseteq plan \ {c}
  /\ commands' = Send(queues, c.launcher, "POST", c.model, Manager)

\* The pass carries out a claim of its plan, or gives all of them up and ends.
LEMMA CarryOutEffect ==
  ASSUME servesModel \in [Launchers -> Models \cup {NoModel}], up \in SUBSET Nodes,
         NEW e \in Heap, Ordered(e), NEW plan \in SUBSET Claim,
         NEW queues, NEW registered, CarryOut(e, plan, queues, registered)
  PROVE  \/ entry' = e /\ tick' = IdleTick /\ commands' = queues
         \/ \E c \in plan, p \in PipelineIds : Reserves(e, plan, queues, c, p)
<1>1. SUFFICES ASSUME
        \E c \in plan,
           dropped \in SUBSET {x.model : x \in {d \in plan : GivenUp(e, d, registered)}} :
          /\ c.model \notin dropped /\ ~GivenUp(e, c, registered)
          /\ FreshIds(e, {Manager}) # {}
          /\ \E S \in SelectPipeline(c.model, registered) :
               LET p == NewId(e, {Manager}) IN
               /\ entry' = AddEntry(e, p, c.model, c.launcher, c.curId, S, "assembling")
               /\ tick' = [IdleTick EXCEPT
                             !.phase = "posting", !.id = p,
                             !.plan = {d \in plan \ {c} : d.model \notin dropped}]
          /\ commands' = Send(queues, c.launcher, "POST", c.model, Manager)
      PROVE  \E c \in plan, p \in PipelineIds : Reserves(e, plan, queues, c, p)
  BY DEF CarryOut
<1>2. PICK c, dropped, S :
        /\ c \in plan /\ S \in SelectPipeline(c.model, registered)
        /\ ~GivenUp(e, c, registered) /\ FreshIds(e, {Manager}) # {}
        /\ entry' = AddEntry(e, NewId(e, {Manager}), c.model, c.launcher, c.curId, S, "assembling")
        /\ tick' = [IdleTick EXCEPT
                      !.phase = "posting", !.id = NewId(e, {Manager}),
                      !.plan = {d \in plan \ {c} : d.model \notin dropped}]
        /\ commands' = Send(queues, c.launcher, "POST", c.model, Manager)
  BY <1>1
<1> DEFINE p == NewId(e, {Manager})
           l == c.launcher
           m == c.model
           cur == c.curId
           left == {d \in plan \ {c} : d.model \notin dropped}
<1>3. l \in Launchers /\ m \in Models /\ cur \in BOOLEAN /\ left \in SUBSET Claim
  BY <1>2 DEF Claim
<1>4. S \in SUBSET NodeIds
  <2>1. ListActive(registered) \subseteq NodeIds
    BY DEF ListActive, ActiveDrivers, NodeIds
  <2> QED BY <1>2, <2>1 DEF SelectPipeline
<1>5. /\ p \in PipelineIds /\ e[p] = NoEntry /\ \A k \in Models : p # cold[k].tracked
  BY <1>2, NewIdIsFresh, SentinelAssumption DEF Callers
<1>6. \A q \in Pooled(e) : e[q].launcher # l
  BY <1>2 DEF GivenUp, ClaimedLaunchers
<1>7. Added(e, entry', p, m, l, "assembling")
  <2>1. entry' = AddEntry(e, p, m, l, cur, S, "assembling") BY <1>2
  <2> HIDE DEF p, l, m, cur
  <2> QED BY <2>1, <1>3, <1>4, <1>5, AddEntryEffect DEF Added
<1>8. /\ tick' \in Tick /\ tick'.phase = "posting" /\ tick'.id = p /\ tick'.rest = {}
      /\ tick'.plan \subseteq plan \ {c}
  <2>1. tick' = [IdleTick EXCEPT !.phase = "posting", !.id = p, !.plan = left]
    BY <1>2
  <2>2. left \subseteq plan \ {c} OBVIOUS
  <2> HIDE DEF p, left
  <2> QED BY <2>1, <2>2, <1>3, <1>5 DEF IdleTick, Tick
<1>9. commands' = Send(queues, l, "POST", m, Manager)
  BY <1>2
<1>10. Reserves(e, plan, queues, c, p)
  BY <1>3, <1>5, <1>6, <1>7, <1>8, <1>9 DEF Reserves
<1> QED BY <1>2, <1>5, <1>10

\* What the plan is made of are claims.
LEMMA NewClaimsAreClaims ==
  ASSUME listed \in SUBSET Launchers, NEW plan \in SUBSET NewClaims
  PROVE  plan \in SUBSET Claim
<1>1. \A m \in Models, l \in Launchers :
        [model |-> m, launcher |-> l, curId |-> TRUE] \in Claim
  BY DEF Claim
<1>2. ASSUME NEW c \in plan PROVE c \in Claim
  <2>1. PICK m \in Models, l \in listed : c = [model |-> m, launcher |-> l, curId |-> TRUE]
    BY <1>2 DEF NewClaims
  <2> QED BY <1>1, <2>1
<1> QED BY <1>2

\* Carrying out a claim of the plan, or giving it up, keeps the pool sound.
LEMMA CarryOutStep ==
  ASSUME cold \in [Models -> ColdStartState], servesModel \in [Launchers -> Models \cup {NoModel}],
         up \in SUBSET Nodes, NEW e, PassSound(e), NEW plan \in SUBSET Claim,
         NEW queues \in Queues, NEW registered,
         CarryOut(e, plan, queues, registered), cold' = cold
  PROVE  entry' \in Heap /\ tick' \in Tick /\ commands' \in Queues /\ Sound'
<1> USE DEF PassSound
<1>1. CASE entry' = e /\ tick' = IdleTick /\ commands' = queues
  <2>1. tick' \in Tick /\ tick'.phase = "idle" /\ tick'.rest = {}
    BY <1>1 DEF IdleTick, Tick
  <2>2. Posting' = {} BY <2>1 DEF Posting
  <2>3. TickSound' BY <2>1 DEF TickSound, HeldSound
  <2>4. ColdSound(entry)'
    BY <1>1 DEF ColdSound
  <2>5. Exclusive(entry)'
    BY <1>1 DEF Exclusive
  <2>6. Owned(entry, Posting)'
    BY <1>1, <2>2 DEF Owned
  <2> QED BY <1>1, <2>1, <2>3, <2>4, <2>5, <2>6 DEF Sound
<1>2. ASSUME NEW c \in plan, NEW p \in PipelineIds, Reserves(e, plan, queues, c, p)
      PROVE  entry' \in Heap /\ tick' \in Tick /\ commands' \in Queues /\ Sound'
  <2> DEFINE l == c.launcher
             m == c.model
  <2>1. /\ e[p] = NoEntry /\ \A k \in Models : p # cold[k].tracked
        /\ \A q \in Pooled(e) : e[q].launcher # l
    BY <1>2 DEF Reserves
  <2>2. commands' \in Queues
    BY <1>2, SendType DEF Reserves, Callers
  <2>3. /\ entry' \in Heap /\ Ordered(entry')
        /\ Pooled(entry') = Pooled(e) \cup {p} /\ p \notin Pooled(e)
        /\ \A q \in PipelineIds \ {p} : entry'[q] = e[q]
        /\ entry'[p].model = m /\ entry'[p].launcher = l /\ entry'[p].state = "assembling"
    BY <1>2 DEF Reserves, Added
  <2>4. tick' \in Tick /\ tick'.phase = "posting" /\ tick'.id = p /\ tick'.rest = {}
    BY <1>2 DEF Reserves
  <2> HIDE DEF l, m
  <2>5. \A q \in Pooled(e) : q \in PipelineIds \ {p} /\ entry'[q] = e[q]
    BY <2>3 DEF Pooled
  <2>6. \A k \in Models : cold[k].resv # p
    <3>1. \A k \in Models : cold[k].phase # "idle" => cold[k].resv \in Pooled(e)
      BY DEF ColdSound
    <3>2. \A k \in Models : cold[k].phase = "idle" => cold[k].resv = NoId
      BY DEF ColdSound, NoColdStart
    <3> QED BY <3>1, <3>2, <2>3, SentinelAssumption
  <2>7. ColdSound(entry)'
    BY <2>1, <2>3, <2>5 DEF ColdSound
  <2>8. Exclusive(entry)'
    <3>1. \A q \in Pooled(e) : entry'[q].launcher # entry'[p].launcher
      BY <2>1, <2>3, <2>5
    <3>2. SUFFICES ASSUME NEW q \in Pooled(entry'), NEW r \in Pooled(entry'), q # r,
                          entry'[q].launcher = entry'[r].launcher
                   PROVE  \E k \in Models : {q, r} = {cold'[k].resv, cold'[k].tracked}
      BY DEF Exclusive
    <3>3. q \in Pooled(e) /\ r \in Pooled(e)
      BY <3>1, <3>2, <2>3
    <3> QED BY <3>2, <3>3, <2>5 DEF Exclusive
  <2>9. Owned(entry, Posting)'
    <3>1. Posting' = {p} BY <2>4 DEF Posting
    <3> QED BY <3>1, <2>3, <2>5 DEF Owned
  <2>10. TickSound'
    BY <2>3, <2>4, <2>6 DEF TickSound, HeldSound
  <2> QED BY <2>2, <2>3, <2>4, <2>7, <2>8, <2>9, <2>10 DEF Sound
<1> QED BY <1>1, <1>2, CarryOutEffect

\* Stopping the next entry to be torn down keeps the pool sound.
LEMMA TearDownStep ==
  ASSUME cold \in [Models -> ColdStartState], NEW e, PassSound(e), NEW queues \in Queues,
         NEW active \in SUBSET NodeIds, NEW idle \in SUBSET PipelineIds,
         NEW todo \in SUBSET Models, NEW copy \in SUBSET Rank, HeldSound(e, copy),
         NEW c \in copy, TearDown(e, c, queues, active, idle, todo, copy), cold' = cold
  PROVE  entry' \in Heap /\ tick' \in Tick /\ commands' \in Queues /\ Sound'
<1> USE DEF PassSound
<1> DEFINE later == {d \in copy : d.rank > c.rank}
           held == {d.id : d \in later}
           ahead == held \cup {p \in Pooled(e) : e[p].model \in todo}
<1>1. /\ entry' = Forget(e, held)
      /\ commands' = Send(queues, e[c.id].launcher, "DELETE", e[c.id].model, Manager)
      /\ tick' = [phase |-> "stopping", active |-> active, idle |-> idle \cap ahead,
                  todo |-> todo, rest |-> later, id |-> c.id, plan |-> {}]
  BY DEF TearDown
<1>2. /\ c.id \in PipelineIds /\ e[c.id] # NoEntry /\ e[c.id].state # "assembling"
      /\ e[c.id].launcher \in Launchers /\ e[c.id].model \in Models
  BY DEF HeldSound, Heap, PooledPipeline
<1>3. commands' \in Queues
  BY <1>1, <1>2, SendType DEF Callers
<1>4. later \in SUBSET Rank /\ HeldSound(e, later) /\ held \subseteq PipelineIds
  BY DEF HeldSound
<1> HIDE DEF later, held, ahead
<1>5. /\ tick' \in Tick /\ tick'.phase = "stopping" /\ tick'.id = c.id /\ tick'.rest = later
  BY <1>1, <1>2, <1>4 DEF Tick
<1>6. /\ entry' \in Heap /\ Ordered(entry') /\ Pooled(entry') = Pooled(e)
      /\ \A q \in Pooled(e) \cup (held \cap PipelineIds) : entry'[q] = e[q]
  BY <1>1, ForgetEffect
<1>7. ColdSound(entry') /\ Exclusive(entry') /\ Owned(entry', {})
  BY <1>6, SameLook
<1>8. ColdSound(entry)' /\ Exclusive(entry)'
  <2>1. ColdSound(entry)' BY <1>7 DEF ColdSound
  <2>2. Exclusive(entry)' BY <1>7 DEF Exclusive
  <2> QED BY <2>1, <2>2
<1>9. Owned(entry, Posting)'
  <2>1. Posting' = {} BY <1>5 DEF Posting
  <2> QED BY <2>1, <1>7 DEF Owned
<1>10. TickSound'
  <2>1. HeldSound(entry', later)
    BY <1>4, <1>6 DEF HeldSound, held
  <2>2. entry'[c.id] # NoEntry => entry'[c.id] = e[c.id]
    BY <1>1, <1>2 DEF Forget
  <2> QED BY <2>1, <2>2, <1>2, <1>5 DEF TickSound, HeldSound
<1> QED BY <1>3, <1>5, <1>6, <1>8, <1>9, <1>10 DEF Sound

\* A health check of the pass, up to its next await, keeps the pool sound.
LEMMA HealthCheckStep ==
  ASSUME cold \in [Models -> ColdStartState], TypeRest, NEW e, PassSound(e), NEW queues \in Queues,
         NEW active \in SUBSET NodeIds, NEW idle \in SUBSET PipelineIds,
         NEW todo \in SUBSET Models, NEW rest \in SUBSET Rank, HeldSound(e, rest),
         HealthCheckAndScaleDown(e, queues, active, idle, todo, rest), cold' = cold
  PROVE  entry' \in Heap /\ tick' \in Tick /\ commands' \in Queues /\ Sound'
<1> DEFINE after(m) == {n \in todo : CatalogIndex[n] > CatalogIndex[m]}
<1>1. ASSUME NEW c \in rest, TearDown(e, c, queues, active, idle, todo, rest)
      PROVE  entry' \in Heap /\ tick' \in Tick /\ commands' \in Queues /\ Sound'
  BY <1>1, TearDownStep
<1>2. ASSUME NEW m \in todo, NEW c \in CopyOf(e, m),
             TearDown(e, c, queues, active, idle, after(m), CopyOf(e, m))
      PROVE  entry' \in Heap /\ tick' \in Tick /\ commands' \in Queues /\ Sound'
  <2>1. CopyOf(e, m) \in SUBSET Rank /\ HeldSound(e, CopyOf(e, m))
    <3>1. \A q \in GetPool(e, m) : q \in PipelineIds /\ e[q] # NoEntry /\ e[q].pos \in Int
      BY PooledType DEF PassSound, GetPool
    <3> QED BY <3>1 DEF CopyOf, HeldSound, Rank
  <2>2. after(m) \in SUBSET Models
    OBVIOUS
  <2> HIDE DEF after
  <2> QED BY <1>2, <2>1, <2>2, TearDownStep
<1>3. ASSUME Allocate(Forget(e, {}), queues)
      PROVE  entry' \in Heap /\ tick' \in Tick /\ commands' \in Queues /\ Sound'
  <2> DEFINE f == Forget(e, {})
  <2>1. f \in Heap /\ Ordered(f) /\ Pooled(f) = Pooled(e) /\ \A q \in Pooled(e) : f[q] = e[q]
    BY ForgetEffect DEF PassSound
  <2>2. PICK plan \in SUBSET NewClaims : CarryOut(f, plan, queues, servesModel)
    BY <1>3 DEF Allocate
  <2> HIDE DEF f
  <2>3. PassSound(f)
    BY <2>1, SameLook DEF PassSound
  <2>4. plan \in SUBSET Claim
    BY NewClaimsAreClaims DEF TypeRest
  <2> QED BY <2>2, <2>3, <2>4, CarryOutStep DEF TypeRest
<1>4. \A copy : FirstDoomed(e, copy, active, idle) \subseteq copy
  BY DEF FirstDoomed
<1> QED BY <1>1, <1>2, <1>3, <1>4 DEF HealthCheckAndScaleDown

\* The pass's reservation is there until its assembly ends, and the pools are sound
\* without it.
LEMMA PostingEffect ==
  ASSUME IInv, tick.phase = "posting"
  PROVE  tick.id \in Pooled(entry) /\ PassSound(RemoveEntry(entry, tick.id, {}))
<1> USE TypeParts DEF IInv
<1>1. \A m \in Models : cold[m].phase # "idle" => cold[m].resv # tick.id
  BY DEF Sound, TickSound
<1>2. Posting \ {tick.id} = {} BY DEF Posting
<1>3. PassSound(RemoveEntry(entry, tick.id, {}))
  BY <1>1, <1>2, RemoveKeepsSound DEF PassSound, Sound
<1> QED BY <1>3 DEF Sound, TickSound

\* POST succeeded: the reservation is swapped for a warm entry on the same launcher,
\* and the pass goes on from a sound heap.
LEMMA TryAssembleEndsEffect ==
  ASSUME IInv, TryAssembleEnds
  PROVE  \E e, p : /\ p \in PipelineIds /\ PassSound(e)
                  /\ CarryOut(e, tick.plan, commands, servesModel')
                  /\ Added(RemoveEntry(entry, tick.id, {}), e, p, entry[tick.id].model,
                           entry[tick.id].launcher, "warm")
<1> USE TypeParts DEF IInv
<1> DEFINE kept == RemoveEntry(entry, tick.id, {})
           p == NewId(kept, {Manager})
           m == entry[tick.id].model
           l == entry[tick.id].launcher
           cur == entry[tick.id].curId
           S == entry[tick.id].compute
           e == AddEntry(kept, p, m, l, cur, S, "warm")
<1>0. tick.id \in Pooled(entry) /\ PassSound(kept)
  BY PostingEffect DEF TryAssembleEnds
<1>1. /\ servesModel' = [servesModel EXCEPT ![l] = m] /\ FreshIds(kept, {Manager}) # {}
      /\ CarryOut(e, tick.plan, commands, servesModel') /\ tick.phase = "posting"
      /\ reply' = [reply EXCEPT ![Manager] = "none"]
  BY DEF TryAssembleEnds
<1>2. PassSound(kept) BY <1>0, <1>1
<1>3. m \in Models /\ l \in Launchers /\ cur \in BOOLEAN /\ S \in SUBSET NodeIds
  BY <1>0, <1>1, PooledType
<1>4. Pooled(kept) = Pooled(entry) \ {tick.id}
      /\ \A q \in Pooled(kept) : kept[q].launcher = entry[q].launcher
  BY RemoveEntryEffect DEF Sound, SameEntry, Pooled
<1>5. p \in PipelineIds /\ kept[p] = NoEntry /\ \A k \in Models : p # cold[k].tracked
  BY <1>1, NewIdIsFresh, SentinelAssumption DEF Callers
<1>6. \A q \in Pooled(kept) : kept[q].launcher # l
  <2>1. SUFFICES ASSUME NEW q \in Pooled(kept), entry[q].launcher = entry[tick.id].launcher
                 PROVE  FALSE
    BY <1>4
  <2>2. PICK k \in Models : {q, tick.id} = {cold[k].resv, cold[k].tracked}
    BY <2>1, <1>1, <1>4, <1>0 DEF Sound, Exclusive
  <2>3. cold[k].tracked = tick.id
    BY <2>2, <1>1 DEF Sound, TickSound
  <2> QED BY <2>3, <1>1 DEF Sound, TickSound, ColdSound
<1> HIDE DEF p, m, l, cur, S, kept
<1>7. /\ e \in Heap /\ Ordered(e)
      /\ Pooled(e) = Pooled(kept) \cup {p} /\ p \notin Pooled(kept)
      /\ \A q \in PipelineIds \ {p} : e[q] = kept[q]
      /\ e[p].model = m /\ e[p].launcher = l /\ e[p].state = "warm"
  BY <1>2, <1>3, <1>5, AddEntryEffect DEF PassSound
<1> HIDE DEF e
<1>8. \A q \in Pooled(kept) : q \in PipelineIds \ {p} /\ e[q] = kept[q]
  BY <1>7 DEF Pooled
<1>9. ColdSound(e)
  BY <1>2, <1>5, <1>7, <1>8 DEF PassSound, ColdSound
<1>10. Exclusive(e)
  BY <1>2, <1>6, <1>7, <1>8 DEF PassSound, Exclusive
<1>11. Owned(e, {})
  BY <1>2, <1>7, <1>8 DEF PassSound, Owned
<1>12. PassSound(e)
  BY <1>7, <1>9, <1>10, <1>11 DEF PassSound
<1>13. CarryOut(e, tick.plan, commands, servesModel') /\ Added(kept, e, p, m, l, "warm")
  BY <1>1, <1>7 DEF Added
<1> QED BY <1>5, <1>12, <1>13 DEF kept, m, l

\* Every step of the background loop keeps the invariant.
LEMMA RunOnceStep ==
  ASSUME IInv, RunOnce
  PROVE  IInv'
<1> USE TypeParts DEF IInv
<1>1. UNCHANGED <<cold, req, up, ejected, listed, agent>>
  BY DEF RunOnce, TickBegins, TearDownEnds, TryAssembleEnds, TryAssembleFails
<1>2. ASSUME entry' \in Heap, tick' \in Tick, commands' \in Queues, Sound',
             servesModel' \in [Launchers -> Models \cup {NoModel}],
             reply' = reply \/ reply' = [reply EXCEPT ![Manager] = "none"]
      PROVE  IInv'
  <2>1. reply' \in [Callers -> {"none", "ok", "failed"}]
    BY <1>2 DEF TypeRest
  <2>2. TypeOK'
    BY <1>1, <1>2, <2>1 DEF TypeOK, Heap, Queues, TypeRest
  <2> QED BY <1>2, <2>2
<1>3. ASSUME TickBegins PROVE IInv'
  <2>1. PICK idle \in SUBSET MaybeIdle :
          HealthCheckAndScaleDown(entry, commands, ListActive(servesModel), idle, Models, {})
    BY <1>3 DEF TickBegins
  <2>2. /\ idle \in SUBSET PipelineIds /\ ListActive(servesModel) \in SUBSET NodeIds
        /\ {} \in SUBSET Rank /\ Models \in SUBSET Models /\ HeldSound(entry, {})
    BY DEF MaybeIdle, Pooled, ListActive, ActiveDrivers, NodeIds, TypeRest, HeldSound
  <2>3. PassSound(entry)
    BY <1>3 DEF TickBegins, PassSound, Sound, Posting
  <2>4. entry' \in Heap /\ tick' \in Tick /\ commands' \in Queues /\ Sound'
    BY <1>1, <2>1, <2>2, <2>3, HealthCheckStep
  <2> QED BY <1>2, <1>3, <2>4 DEF TickBegins, TypeRest
<1>4. ASSUME TearDownEnds PROVE IInv'
  <2>1. PICK queues \in OnAnswer(Manager, {"ok", "failed"}) \cup OnTimeout(Manager),
             e \in {RemoveEntry(entry, tick.id, HeldIds)} :
          HealthCheckAndScaleDown(e, queues, tick.active, tick.idle, tick.todo, tick.rest)
    BY <1>4 DEF TearDownEnds
  <2>2. queues \in Queues
    BY AnsweredOrTimedOutType
  <2>3. tick.phase = "stopping" BY <1>4 DEF TearDownEnds
  <2>4. \A m \in Models : cold[m].phase # "idle" => cold[m].resv # tick.id
    BY <2>3 DEF Sound, ColdSound, TickSound, Pooled
  <2>5. PassSound(e)
    <3>1. Posting = {} BY <2>3 DEF Posting
    <3> QED BY <3>1, <2>4, RemoveKeepsSound DEF PassSound, Sound
  <2>6. HeldSound(e, tick.rest)
    <3>1. /\ \A q \in PipelineIds : e[q] # NoEntry => entry[q] # NoEntry /\ SameEntry(e[q], entry[q])
          /\ \A q \in PipelineIds : entry[q] # NoEntry /\ q \in HeldIds => e[q] # NoEntry
      BY RemoveEntryEffect DEF Sound
    <3> QED BY <3>1 DEF Sound, TickSound, HeldSound, HeldIds, SameEntry
  <2>7. /\ tick.active \in SUBSET NodeIds /\ tick.idle \in SUBSET PipelineIds
        /\ tick.todo \in SUBSET Models /\ tick.rest \in SUBSET Rank
    BY DEF Tick
  <2>8. entry' \in Heap /\ tick' \in Tick /\ commands' \in Queues /\ Sound'
    BY <1>1, <2>1, <2>2, <2>5, <2>6, <2>7, HealthCheckStep
  <2> QED BY <1>2, <1>4, <2>8 DEF TearDownEnds, TypeRest
<1>6. ASSUME TryAssembleFails PROVE IInv'
  <2>1. PICK queues \in OnAnswer(Manager, {"failed"}) \cup OnTimeout(Manager),
             e \in {RemoveEntry(entry, tick.id, {})} :
          CarryOut(e, {c \in tick.plan : c.model # entry[tick.id].model}, queues, servesModel)
    BY <1>6 DEF TryAssembleFails
  <2>2. queues \in Queues
    BY AnsweredOrTimedOutType
  <2>3. PassSound(e) BY <1>6, PostingEffect DEF TryAssembleFails
  <2>4. {c \in tick.plan : c.model # entry[tick.id].model} \in SUBSET Claim
    BY DEF Tick
  <2>5. entry' \in Heap /\ tick' \in Tick /\ commands' \in Queues /\ Sound'
    BY <1>1, <2>1, <2>2, <2>3, <2>4, CarryOutStep DEF TypeRest
  <2> QED BY <1>2, <1>6, <2>5 DEF TryAssembleFails, TypeRest
<1>7. ASSUME TryAssembleEnds PROVE IInv'
  <2>1. PICK e, p :
          /\ p \in PipelineIds /\ PassSound(e)
          /\ CarryOut(e, tick.plan, commands, servesModel')
          /\ Added(RemoveEntry(entry, tick.id, {}), e, p, entry[tick.id].model,
                   entry[tick.id].launcher, "warm")
    BY <1>7, TryAssembleEndsEffect
  <2>2. tick.plan \in SUBSET Claim BY DEF Tick
  <2>3. entry' \in Heap /\ tick' \in Tick /\ commands' \in Queues /\ Sound'
    BY <1>1, <2>1, <2>2, CarryOutStep DEF TypeRest
  <2>4. entry[tick.id].model \in Models /\ entry[tick.id].launcher \in Launchers
    BY <1>7, PostingEffect, PooledType DEF TryAssembleEnds
  <2>5. servesModel' \in [Launchers -> Models \cup {NoModel}]
    BY <1>7, <2>4 DEF TryAssembleEnds, TypeRest
  <2> QED BY <1>2, <1>7, <2>3, <2>5 DEF TryAssembleEnds
<1> QED BY <1>3, <1>4, <1>6, <1>7 DEF RunOnce

-----------------------------------------------------------------------------
(***************************************************************************)
(* Every step keeps the invariant.                                         *)
(***************************************************************************)
LEMMA StepSound == IInv /\ [Next]_vars => IInv'
<1> SUFFICES ASSUME IInv, [Next]_vars PROVE IInv'
  OBVIOUS
<1>1. ASSUME NEW m \in Models, ColdStartSteps(m) PROVE IInv'
  BY <1>1, ColdStartAssembledStep, ColdStartStoppedStep, ColdStartFailedStep DEF ColdStartSteps
<1>2. ASSUME RunOnce PROVE IInv'
  BY <1>2, RunOnceStep
<1>3. ASSUME NEW r \in Requests, Routing(r) PROVE IInv'
  BY <1>3, RoutingStep
<1>4. ASSUME NEW l \in Launchers, HandleCall(l) \/ CallLost(l) \/ AgentDies(l) PROVE IInv'
  BY <1>4, LauncherStep
<1>5. ASSUME NEW l \in Launchers, LauncherRegisters(l) PROVE IInv'
  BY <1>5, LauncherRegistersStep
<1>6. CASE \/ \E l \in Launchers : \/ DriverExpires(l) \/ DriverEjected(l) \/ DriverRestored(l)
                                  \/ LauncherLapses(l)
           \/ \E n \in Nodes : NodeLeaves(n) \/ NodeJoins(n)
  BY <1>6, RegistryStep
<1>7. CASE UNCHANGED vars
  <2>1. commands' \in Queues /\ TypeRest'
    BY <1>7, TypeParts DEF vars, IInv, TypeRest
  <2> QED BY <1>7, <2>1, QuietStep DEF vars
<1> QED BY <1>1, <1>2, <1>3, <1>4, <1>5, <1>6, <1>7 DEF Next, Environment

\* The inductive invariant holds in every reachable state.
LEMMA AlwaysSound == Spec => []IInv
<1> QED BY InitSound, StepSound, PTL DEF Spec

(***************************************************************************)
(* Every variable keeps its type.                                          *)
(***************************************************************************)
THEOREM TypeCorrect == Spec => []TypeOK
<1>1. IInv => TypeOK BY DEF IInv
<1> QED BY <1>1, AlwaysSound, PTL

(***************************************************************************)
(* A launcher backs one pipeline of one model, but for a cold start's      *)
(* reservation on the launcher of the entry it replaces: for every number  *)
(* of models, launchers and concurrent requests, and whatever is lost,     *)
(* late, expired or ejected.                                               *)
(***************************************************************************)
THEOREM LaunchersExclusive == Spec => []LauncherExclusive
<1>1. IInv => LauncherExclusive
  BY DEF IInv, Sound, Exclusive, LauncherExclusive, On
<1> QED BY <1>1, AlwaysSound, PTL

(***************************************************************************)
(* No reservation is left behind by an assembly that ended, and none is    *)
(* taken from one that did not.                                            *)
(***************************************************************************)
THEOREM ReservationsHaveOneOwner == Spec => []ReservationsOwned
<1>1. IInv => ReservationsOwned
  <2> SUFFICES ASSUME IInv PROVE ReservationsOwned
    OBVIOUS
  <2> DEFINE cold_(p) == {m \in Models : cold[m].phase # "idle" /\ cold[m].resv = p}
             tick_(p) == {c \in {Manager} : tick.phase = "posting" /\ tick.id = p}
  <2>1. ASSUME NEW p \in Reservations
        PROVE  \E c : cold_(p) \cup tick_(p) = {c}
    <3>1. p \in Pooled(entry) /\ entry[p].state = "assembling"
      BY DEF Reservations
    <3>2. \A m \in Models : cold[m].phase # "idle" => entry[cold[m].resv].model = m
      BY DEF IInv, Sound, ColdSound
    <3>3. CASE tick.phase = "posting" /\ tick.id = p
      <4>1. cold_(p) = {} BY <3>3 DEF IInv, Sound, TickSound
      <4>2. tick_(p) = {Manager} BY <3>3
      <4> QED BY <4>1, <4>2
    <3>4. CASE ~(tick.phase = "posting" /\ tick.id = p)
      <4>1. PICK m \in Models : cold[m].phase # "idle" /\ cold[m].resv = p
        BY <3>1, <3>4 DEF IInv, Sound, Owned, Posting
      <4>2. cold_(p) = {m} BY <3>2, <4>1
      <4>3. tick_(p) = {} BY <3>4
      <4> QED BY <4>2, <4>3
    <3> QED BY <3>3, <3>4
  <2>2. \A p \in Reservations : Cardinality(cold_(p) \cup tick_(p)) = 1
    <3> HIDE DEF cold_, tick_
    <3>1. \A c : Cardinality({c}) = 1 BY FS_Singleton
    <3> QED BY <2>1, <3>1
  <2>3. \A m \in Models : cold[m].phase # "idle" =>
          cold[m].resv \in Reservations /\ entry[cold[m].resv].model = m
    BY DEF IInv, Sound, ColdSound, Reservations
  <2>4. tick.phase = "posting" => tick.id \in Reservations
    BY DEF IInv, Sound, TickSound, Reservations
  <2> QED BY <2>2, <2>3, <2>4 DEF ReservationsOwned
<1> QED BY <1>1, AlwaysSound, PTL

-----------------------------------------------------------------------------
(***************************************************************************)
(* The pool implements LauncherLease, for every catalog, every set of      *)
(* launchers and every fault: a launcher is held for one model at a time,  *)
(* and passes to another model only free, or out of the hands of its own   *)
(* model's health check or scale-down.                                     *)
(***************************************************************************)

(***************************************************************************)
(* The claims the pass has left are on launchers of their own, none of     *)
(* them the one its assembly is awaited on: when that assembly fails, its  *)
(* launcher is nobody's next claim.                                        *)
(***************************************************************************)
Distinct(plan) == \A c, d \in plan : c.launcher = d.launcher => c = d

PlanSound ==
  /\ Distinct(tick.plan)
  /\ tick.phase = "posting" => \A c \in tick.plan : c.launcher # entry[tick.id].launcher

LInv == IInv /\ PlanSound

-----------------------------------------------------------------------------
(***************************************************************************)
(* Leases of the state.                                                    *)
(***************************************************************************)

\* The pass awaits the teardown of the only entry on l.
EndsOn(l) == tick.phase = "stopping" /\ On(l) = {tick.id}

\* Entries on one launcher are of one model.
LEMMA OneModel ==
  ASSUME IInv, NEW p \in Pooled(entry), NEW q \in Pooled(entry),
         entry[p].launcher = entry[q].launcher
  PROVE  entry[p].model = entry[q].model
<1>1. CASE p = q BY <1>1
<1>2. CASE p # q
  <2>1. PICK k \in Models : {p, q} = {cold[k].resv, cold[k].tracked}
    BY <1>2 DEF IInv, Sound, Exclusive
  <2>2. cold[k].resv \in Pooled(entry) /\ cold[k].tracked \in Pooled(entry)
    BY <2>1
  <2>3. cold[k].phase # "idle"
    BY <2>2, SentinelAssumption DEF IInv, Sound, ColdSound, NoColdStart, Pooled
  <2>4. entry[cold[k].resv].model = k /\ entry[cold[k].tracked].model = k
    BY <2>2, <2>3 DEF IInv, Sound, ColdSound
  <2> QED BY <2>1, <2>4
<1> QED BY <1>1, <1>2

\* A launcher without entries is free; one with entries is held for their model.
LEMMA LeaseValue ==
  ASSUME IInv, NEW l \in Launchers
  PROVE  /\ On(l) = {} => LeaseOf(l) = Lease!Free
         /\ \A p \in On(l) : /\ entry[p].model \in Models
                            /\ LeaseOf(l) = IF EndsOn(l) THEN Lease!Ending(entry[p].model)
                                            ELSE Lease!Held(entry[p].model)
<1>1. On(l) = {} => LeaseOf(l) = Lease!Free
  BY DEF LeaseOf, Lease!Free
<1>2. ASSUME NEW p \in On(l)
      PROVE  /\ entry[p].model \in Models
             /\ LeaseOf(l) = IF EndsOn(l) THEN Lease!Ending(entry[p].model)
                             ELSE Lease!Held(entry[p].model)
  <2> DEFINE m == CHOOSE m \in Models : \E q \in On(l) : entry[q].model = m
  <2>1. p \in Pooled(entry) /\ entry[p].launcher = l /\ entry[p].model \in Models
    BY TypeParts, PooledType DEF On, IInv
  <2>2. m \in Models /\ \E q \in On(l) : entry[q].model = m
    BY <2>1
  <2>3. m = entry[p].model
    BY <2>1, <2>2, OneModel DEF On
  <2>4. LeaseOf(l) = [holder |-> m, ending |-> EndsOn(l)]
    BY <1>2 DEF LeaseOf, EndsOn
  <2>5. EndsOn(l) \in BOOLEAN BY DEF EndsOn
  <2> HIDE DEF m
  <2> QED BY <2>1, <2>3, <2>4, <2>5 DEF Lease!Ending, Lease!Held
<1> QED BY <1>1, <1>2

\* What a step has to show of a launcher: it is not found ending at once, and it goes
\* to another model only while it is ending.
LEMMA LeaseFollows ==
  ASSUME IInv, IInv', NEW l \in Launchers,
         On(l) = {} => On(l)' = {} \/ ~EndsOn(l)',
         \A p \in On(l), q \in On(l)' :
           entry'[q].model = entry[p].model \/ (EndsOn(l) /\ ~EndsOn(l)')
  PROVE  /\ LeaseOf(l) \in Lease!Leases /\ LeaseOf(l)' \in Lease!Leases
         /\ Lease!Follows(LeaseOf(l), LeaseOf(l)')
<1> DEFINE x == LeaseOf(l)
           y == LeaseOf(l)'
           S == On(l)
           T == On(l)'
           e == EndsOn(l)
           f == EndsOn(l)'
           g == entry'
<1>1. /\ S = {} => x = Lease!Free
      /\ \A p \in S : /\ entry[p].model \in Models
                     /\ x = IF e THEN Lease!Ending(entry[p].model) ELSE Lease!Held(entry[p].model)
  BY LeaseValue
<1>2. /\ T = {} => y = Lease!Free
      /\ \A q \in T : /\ g[q].model \in Models
                     /\ y = IF f THEN Lease!Ending(g[q].model) ELSE Lease!Held(g[q].model)
  <2>1. (/\ On(l) = {} => LeaseOf(l) = Lease!Free
         /\ \A p \in On(l) : /\ entry[p].model \in Models
                            /\ LeaseOf(l) = IF EndsOn(l) THEN Lease!Ending(entry[p].model)
                                            ELSE Lease!Held(entry[p].model))'
    BY LeaseValue, PTL
  <2> QED BY <2>1 DEF Lease!Free, Lease!Ending, Lease!Held
<1>3. /\ S = {} => T = {} \/ ~f
      /\ \A p \in S, q \in T : g[q].model = entry[p].model \/ (e /\ ~f)
  OBVIOUS
<1> HIDE DEF x, y, S, T, e, f, g
<1>4. x \in Lease!Leases /\ y \in Lease!Leases
  BY <1>1, <1>2 DEF Lease!Leases
<1>5. Lease!Follows(x, y)
  <2>1. CASE S = {}
    BY <2>1, <1>1, <1>2, <1>3 DEF Lease!Follows
  <2>2. CASE S # {}
    BY <2>2, <1>1, <1>2, <1>3 DEF Lease!Follows
  <2> QED BY <2>1, <2>2
<1> QED BY <1>4, <1>5 DEF x, y
-----------------------------------------------------------------------------
(***************************************************************************)
(* The two kinds of steps.                                                 *)
(***************************************************************************)

\* Every launcher that has an entry in f had one of the same model in e.
Trails(e, f) ==
  \A q \in Pooled(f) : \E p \in Pooled(e) :
    e[p].launcher = f[q].launcher /\ e[p].model = f[q].model

LeasesFollow ==
  \A l \in Launchers : /\ LeaseOf(l) \in Lease!Leases /\ LeaseOf(l)' \in Lease!Leases
                       /\ Lease!Follows(LeaseOf(l), LeaseOf(l)')

\* A step that takes no launcher.
LEMMA LeasesKept ==
  ASSUME IInv, IInv', Trails(entry, entry')
  PROVE  LeasesFollow
<1> SUFFICES ASSUME NEW l \in Launchers
             PROVE  /\ LeaseOf(l) \in Lease!Leases /\ LeaseOf(l)' \in Lease!Leases
                    /\ Lease!Follows(LeaseOf(l), LeaseOf(l)')
  BY DEF LeasesFollow
<1>1. ASSUME NEW q \in On(l)'
      PROVE  On(l) # {} /\ \A p \in On(l) : entry'[q].model = entry[p].model
  <2>1. PICK p \in Pooled(entry) : entry[p].launcher = l /\ entry[p].model = entry'[q].model
    BY DEF On, Trails
  <2>2. p \in On(l) BY <2>1 DEF On
  <2>3. \A r \in On(l) : entry[r].model = entry[p].model
    BY <2>1, OneModel DEF On
  <2> QED BY <2>1, <2>2, <2>3
<1> QED BY <1>1, LeaseFollows

\* A step that takes launcher k for model m, with entry p.
LEMMA LeaseTaken ==
  ASSUME IInv, IInv', NEW e, Trails(entry, e), NEW p, NEW k, NEW m,
         Pooled(entry') = Pooled(e) \cup {p}, \A q \in Pooled(e) : entry'[q] = e[q],
         entry'[p].launcher = k, entry'[p].model = m,
         \A q \in On(k) : entry[q].model = m \/ (EndsOn(k) /\ tick'.phase # "stopping"),
         tick'.phase = "stopping" => tick'.id # p
  PROVE  LeasesFollow
<1> SUFFICES ASSUME NEW l \in Launchers
             PROVE  /\ LeaseOf(l) \in Lease!Leases /\ LeaseOf(l)' \in Lease!Leases
                    /\ Lease!Follows(LeaseOf(l), LeaseOf(l)')
  BY DEF LeasesFollow
<1>1. ASSUME NEW q \in On(l)', q \in Pooled(e)
      PROVE  On(l) # {} /\ \A r \in On(l) : entry'[q].model = entry[r].model
  <2>1. PICK s \in Pooled(entry) : entry[s].launcher = l /\ entry[s].model = entry'[q].model
    BY <1>1 DEF On, Trails
  <2>2. s \in On(l) BY <2>1 DEF On
  <2>3. \A r \in On(l) : entry[r].model = entry[s].model
    BY <2>1, OneModel DEF On
  <2> QED BY <2>1, <2>2, <2>3
<1>2. \A q \in On(l)' : q \in Pooled(e) \/ (q = p /\ l = k)
  BY DEF On
<1>3. tick'.phase # "stopping" => ~EndsOn(l)'
  BY DEF EndsOn
<1>4. On(l) = {} => On(l)' = {} \/ ~EndsOn(l)'
  BY <1>1, <1>2 DEF EndsOn
<1>5. \A r \in On(l), q \in On(l)' :
        entry'[q].model = entry[r].model \/ (EndsOn(l) /\ ~EndsOn(l)')
  BY <1>1, <1>2, <1>3
<1> QED BY <1>4, <1>5, LeaseFollows

\* Entries that keep launcher and model hold what they held.
LEMMA SameTrails ==
  ASSUME NEW e, NEW f,
         \A q \in Pooled(f) : /\ q \in Pooled(e) /\ f[q].launcher = e[q].launcher
                              /\ f[q].model = e[q].model
  PROVE  Trails(e, f)
  BY DEF Trails

\* An entry that leaves its pool leaves the others where they are.
LEMMA RemovedTrails ==
  ASSUME NEW e \in Heap, Ordered(e), NEW p, NEW held
  PROVE  LET f == RemoveEntry(e, p, held)
         IN /\ Trails(e, f) /\ Pooled(f) = Pooled(e) \ {p}
            /\ \A q \in Pooled(f) : f[q].launcher = e[q].launcher /\ f[q].model = e[q].model
<1> DEFINE f == RemoveEntry(e, p, held)
<1>1. /\ Pooled(f) = Pooled(e) \ {p}
      /\ \A q \in PipelineIds : f[q] # NoEntry => e[q] # NoEntry /\ SameEntry(f[q], e[q])
  BY RemoveEntryEffect
<1> HIDE DEF f
<1>2. \A q \in Pooled(f) : /\ q \in Pooled(e) /\ f[q].launcher = e[q].launcher
                          /\ f[q].model = e[q].model
  BY <1>1 DEF Pooled, SameEntry
<1> QED BY <1>1, <1>2, SameTrails DEF f

-----------------------------------------------------------------------------
(***************************************************************************)
(* Cold starts and requests.                                               *)
(***************************************************************************)

\* Steps of others leave the pass's claims distinct from its assembly's launcher.
LEMMA PlanKept ==
  ASSUME LInv, tick'.plan = tick.plan, tick'.phase = tick.phase, tick'.id = tick.id,
         tick.phase = "posting" => entry'[tick.id].launcher = entry[tick.id].launcher
  PROVE  PlanSound'
  BY DEF LInv, PlanSound, Distinct

\* A cold start takes a launcher that is free, or its own model's.
LEMMA ColdStartBeginsLease ==
  ASSUME LInv, IInv', NEW m \in Models, ColdStartBegins(m), cold[m] = NoColdStart, tick' = tick
  PROVE  PlanSound' /\ LeasesFollow
<1> USE TypeParts DEF LInv, IInv
<1>1. PICK p \in PipelineIds, l \in Launchers : ColdStartReserves(m, p, l)
  BY ColdStartBeginsEffect
<1>2. /\ p # tick.id /\ Pooled(entry') = Pooled(entry) \cup {p}
      /\ entry'[p].launcher = l /\ entry'[p].model = m
      /\ \A q \in Pooled(entry) : entry'[q] = entry[q]
      /\ \A q \in On(l) : entry[q].model = m
  BY <1>1 DEF ColdStartReserves, Added, Pooled, On
<1>3. tick.phase = "posting" => entry'[tick.id].launcher = entry[tick.id].launcher
  BY <1>2 DEF Sound, TickSound
<1>4. PlanSound'
  BY <1>3, PlanKept
<1>5. Trails(entry, entry)
  BY SameTrails
<1>6. LeasesFollow
  BY <1>2, <1>5, LeaseTaken
<1> QED BY <1>4, <1>6

\* The warm entry stands where the reservation stood.
LEMMA ReplacedLease ==
  ASSUME LInv, IInv', NEW m \in Models, cold[m].phase # "idle", Replaced(m)
  PROVE  PlanSound' /\ LeasesFollow
<1> USE TypeParts DEF LInv, IInv
<1> DEFINE s == cold[m].resv
           t == cold[m].tracked
<1>1. PICK p, kept : Swapped(m, p, kept)
  BY ReplacedEffect
<1>2. /\ s \in Pooled(entry) /\ entry[s].model = m /\ p # tick.id
      /\ Pooled(kept) = Pooled(entry) \ {s, t}
      /\ Pooled(entry') = Pooled(kept) \cup {p}
      /\ entry'[p].launcher = entry[s].launcher /\ entry'[p].model = m
  BY <1>1 DEF Swapped, Added
<1>3. \A q \in Pooled(kept) : /\ q \in Pooled(entry)
                             /\ entry'[q].launcher = entry[q].launcher
                             /\ entry'[q].model = entry[q].model
  BY <1>1 DEF Swapped, Added, SameEntry, Pooled
<1>4. Trails(entry, entry')
  BY <1>2, <1>3 DEF Trails
<1>5. tick'.plan = tick.plan /\ tick'.phase = tick.phase /\ tick'.id = tick.id
  BY DEF Replaced, Tick
<1>6. tick.phase = "posting" => tick.id \in Pooled(kept)
  <2>1. tick.phase = "posting" =>
          /\ tick.id \in Pooled(entry) /\ entry[tick.id].state = "assembling"
          /\ tick.id # s
    BY DEF Sound, TickSound
  <2>2. t \in Pooled(entry) => entry[t].state # "assembling"
    BY DEF Sound, ColdSound
  <2> QED BY <2>1, <2>2, <1>2
<1>7. PlanSound'
  BY <1>3, <1>5, <1>6, PlanKept
<1> QED BY <1>4, <1>7, LeasesKept

\* Every step of a cold start.
LEMMA ColdStartLease ==
  ASSUME LInv, IInv', NEW m \in Models, ColdStartSteps(m)
  PROVE  PlanSound' /\ LeasesFollow
<1> USE TypeParts DEF LInv, IInv
<1>1. ASSUME UNCHANGED <<entry, tick>> PROVE PlanSound' /\ LeasesFollow
  <2>1. Trails(entry, entry') BY <1>1, SameTrails
  <2> QED BY <1>1, <2>1, PlanKept, LeasesKept
<1>2. CASE ColdStartAssembled(m) \/ ColdStartStopped(m)
  <2>1. cold[m].phase # "idle"
    BY <1>2 DEF ColdStartAssembled, ColdStartStopped
  <2>2. Replaced(m) \/ UNCHANGED <<entry, tick>>
    BY <1>2 DEF ColdStartAssembled, ColdStartStopped
  <2> QED BY <1>1, <2>1, <2>2, ReplacedLease
<1>3. CASE ColdStartFailed(m)
  <2> DEFINE s == cold[m].resv
             kept == RemoveEntry(entry, s, HeldIds)
  <2>1. entry' = MarkEntryFailed(kept, {cold[m].tracked}) /\ tick' = tick /\ cold[m].phase = "posting"
    BY <1>3 DEF ColdStartFailed
  <2>2. /\ Pooled(kept) = Pooled(entry) \ {s}
        /\ \A q \in Pooled(kept) : kept[q].launcher = entry[q].launcher /\ kept[q].model = entry[q].model
    BY RemovedTrails DEF Sound
  <2>3. kept \in Heap /\ Ordered(kept)
    BY RemoveEntryEffect DEF Sound
  <2> HIDE DEF kept
  <2>4. /\ Pooled(entry') = Pooled(kept)
        /\ \A q \in Pooled(kept) :
             entry'[q].model = kept[q].model /\ entry'[q].launcher = kept[q].launcher
    BY <2>1, <2>3, MarkEntryFailedEffect
  <2>5. Trails(entry, entry')
    BY <2>2, <2>4, SameTrails
  <2>6. tick.phase = "posting" => tick.id \in Pooled(kept)
    BY <2>1, <2>2 DEF Sound, TickSound
  <2>7. PlanSound'
    BY <2>1, <2>2, <2>4, <2>6, PlanKept
  <2> QED BY <2>5, <2>7, LeasesKept
<1> QED BY <1>2, <1>3 DEF ColdStartSteps
\* Every step of a request, and every launcher that registers anew.
LEMMA RoutingLease ==
  ASSUME LInv, IInv', NEW r \in Requests, Routing(r)
  PROVE  PlanSound' /\ LeasesFollow
<1> USE TypeParts DEF LInv, IInv
<1>1. ASSUME entry' = entry, tick'.plan = tick.plan, tick'.phase = tick.phase, tick'.id = tick.id
      PROVE  PlanSound' /\ LeasesFollow
  <2>1. Trails(entry, entry') BY <1>1, SameTrails
  <2> QED BY <1>1, <2>1, PlanKept, LeasesKept
<1>2. ASSUME NEW m \in Models, GenerateFromPool(r, m) PROVE PlanSound' /\ LeasesFollow
  <2>1. /\ entry' = entry /\ tick'.plan = tick.plan /\ tick'.phase = tick.phase
        /\ tick'.id = tick.id
    BY <1>2 DEF GenerateFromPool, Tick
  <2> QED BY <1>1, <2>1
<1>3. ASSUME NEW m \in Models, GenerateFromCold(r, m) PROVE PlanSound' /\ LeasesFollow
  <2>1. /\ tick' = tick
        /\ entry' = entry \/ (cold[m] = NoColdStart /\ ColdStartBegins(m))
    BY <1>3 DEF GenerateFromCold
  <2> QED BY <1>1, <2>1, ColdStartBeginsLease
<1>4. CASE \/ \E m \in Models : ChatFromRegistry(r, m)
           \/ Completed(r)
  BY <1>1, <1>4 DEF ChatFromRegistry, Completed
<1>5. CASE ForwardFailed(r)
  <2> DEFINE named == {p \in GetPool(entry, req[r].model) :
                         entry[p].state # "assembling" /\ entry[p].launcher = req[r].node}
  <2>1. tick' = tick /\ (entry' = entry \/ entry' = MarkEntryFailed(entry, named))
    BY <1>5 DEF ForwardFailed
  <2> HIDE DEF named
  <2>2. /\ Pooled(entry') = Pooled(entry)
        /\ \A p \in Pooled(entry) : /\ entry'[p].launcher = entry[p].launcher
                                   /\ entry'[p].model = entry[p].model
    BY <2>1, MarkEntryFailedEffect DEF Sound
  <2>3. Trails(entry, entry') BY <2>2, SameTrails
  <2>4. PlanSound' BY <2>1, <2>2, PlanKept DEF Sound, TickSound
  <2> QED BY <2>3, <2>4, LeasesKept
<1> QED BY <1>2, <1>3, <1>4, <1>5 DEF Routing

\* A new launcherId moves no entry, and no claim.
LEMMA LauncherRegistersLease ==
  ASSUME LInv, IInv', NEW l \in Launchers, LauncherRegisters(l)
  PROVE  PlanSound' /\ LeasesFollow
<1> USE TypeParts DEF LInv, IInv
<1> DEFINE x(p) == [entry[p] EXCEPT !.curId = FALSE]
           y(c) == [c EXCEPT !.curId = c.curId /\ c.launcher # l]
           plan == tick.plan
           plan2 == {y(c) : c \in plan}
<1>1. \A p \in PipelineIds :
        entry'[p] = IF entry[p] # NoEntry /\ entry[p].launcher = l THEN x(p) ELSE entry[p]
  BY DEF LauncherRegisters
<1>2. \A p \in PipelineIds : entry[p] # NoEntry =>
        /\ x(p) # NoEntry /\ x(p).model = entry[p].model
        /\ x(p).launcher = entry[p].launcher /\ x(p).pos = entry[p].pos
  BY EntryAssumption DEF Heap, PooledPipeline
<1> HIDE DEF x
<1>3. /\ Pooled(entry') = Pooled(entry)
      /\ \A p \in Pooled(entry) : /\ entry'[p].launcher = entry[p].launcher
                                 /\ entry'[p].model = entry[p].model
  BY <1>1, <1>2 DEF Pooled
<1>4. Trails(entry, entry') BY <1>3, SameTrails
<1>5. tick'.phase = tick.phase /\ tick'.id = tick.id /\ tick'.plan = plan2
  BY DEF LauncherRegisters, Tick
<1>6. \A c \in plan : y(c).launcher = c.launcher
  BY DEF Tick, Claim
<1>7. Distinct(plan) /\ (tick.phase = "posting" => \A c \in plan : c.launcher # entry[tick.id].launcher)
  BY DEF PlanSound
<1> HIDE DEF plan, y
<1>8. Distinct(plan2)
  BY <1>6, <1>7 DEF Distinct
<1>9. tick.phase = "posting" =>
        \A c \in plan2 : c.launcher # entry'[tick.id].launcher
  BY <1>3, <1>6, <1>7 DEF Sound, TickSound
<1>10. PlanSound'
  BY <1>5, <1>8, <1>9 DEF PlanSound, Distinct
<1> QED BY <1>4, <1>10, LeasesKept

-----------------------------------------------------------------------------
(***************************************************************************)
(* The pass, from a heap e that trails the pools it found.                 *)
(***************************************************************************)

\* A launcher of the plan that has entries has some in e too, unless the pass has just
\* ended the hold on it.
FreedFor(e, plan) ==
  \A c \in plan : On(c.launcher) # {} =>
    \/ \E q \in Pooled(e) : e[q].launcher = c.launcher
    \/ EndsOn(c.launcher)

\* Carrying out the plan takes a launcher that was free, or that has just been freed.
LEMMA CarryOutLease ==
  ASSUME IInv, IInv', NEW e, PassSound(e), NEW plan \in SUBSET Claim, NEW queues, NEW registered,
         CarryOut(e, plan, queues, registered), Distinct(plan), Trails(entry, e),
         FreedFor(e, plan)
  PROVE  PlanSound' /\ LeasesFollow
<1> USE TypeParts DEF IInv
<1>1. CASE entry' = e /\ tick' = IdleTick
  <2>1. PlanSound' BY <1>1 DEF PlanSound, Distinct, IdleTick
  <2> QED BY <1>1, <2>1, LeasesKept
<1>2. ASSUME NEW c \in plan, NEW p \in PipelineIds, Reserves(e, plan, queues, c, p)
      PROVE  PlanSound' /\ LeasesFollow
  <2> DEFINE k == c.launcher
             m == c.model
  <2>1. /\ Pooled(entry') = Pooled(e) \cup {p}
        /\ entry'[p].launcher = k /\ entry'[p].model = m
        /\ tick'.phase = "posting" /\ tick'.id = p /\ tick'.plan \subseteq plan \ {c}
        /\ \A q \in Pooled(e) : e[q].launcher # k
    BY <1>2 DEF Reserves, Added
  <2>2. \A q \in Pooled(e) : entry'[q] = e[q]
    BY <1>2 DEF Reserves, Added, Pooled
  <2>3. \A q \in On(k) : EndsOn(k)
    BY <2>1 DEF FreedFor
  <2>4. PlanSound'
    BY <2>1 DEF PlanSound, Distinct
  <2> HIDE DEF k, m
  <2>5. LeasesFollow
    BY <2>1, <2>2, <2>3, LeaseTaken
  <2> QED BY <2>4, <2>5
<1>3. \/ entry' = e /\ tick' = IdleTick /\ commands' = queues
      \/ \E c \in plan, p \in PipelineIds : Reserves(e, plan, queues, c, p)
  BY CarryOutEffect DEF PassSound, TypeRest
<1> QED BY <1>1, <1>2, <1>3

\* So does the pass up to its next await.
LEMMA HealthCheckLease ==
  ASSUME IInv, IInv', NEW e, PassSound(e), NEW queues, NEW active, NEW idle, NEW todo, NEW rest,
         HealthCheckAndScaleDown(e, queues, active, idle, todo, rest),
         Trails(entry, e), \A plan \in SUBSET Claim : FreedFor(e, plan)
  PROVE  PlanSound' /\ LeasesFollow
<1> USE TypeParts DEF IInv
<1>1. ASSUME NEW held
      PROVE  LET f == Forget(e, held)
             IN /\ f \in Heap /\ Ordered(f) /\ Pooled(f) = Pooled(e)
                /\ \A q \in Pooled(e) : f[q] = e[q]
  BY ForgetEffect DEF PassSound
<1>2. ASSUME NEW c, NEW left, NEW copy, TearDown(e, c, queues, active, idle, left, copy)
      PROVE  PlanSound' /\ LeasesFollow
  <2>1. tick'.phase = "stopping" /\ tick'.plan = {} /\ \E held : entry' = Forget(e, held)
    BY <1>2 DEF TearDown
  <2>2. Pooled(entry') = Pooled(e) /\ \A q \in Pooled(e) : entry'[q] = e[q]
    BY <1>1, <2>1
  <2>3. Trails(entry, entry')
    BY <2>2 DEF Trails
  <2>4. PlanSound'
    BY <2>1 DEF PlanSound, Distinct
  <2> QED BY <2>3, <2>4, LeasesKept
<1>3. ASSUME Allocate(Forget(e, {}), queues)
      PROVE  PlanSound' /\ LeasesFollow
  <2> DEFINE f == Forget(e, {})
  <2>1. f \in Heap /\ Ordered(f) /\ Pooled(f) = Pooled(e) /\ \A q \in Pooled(e) : f[q] = e[q]
    BY <1>1
  <2>2. PICK plan \in SUBSET NewClaims : IsPlan(f, plan) /\ CarryOut(f, plan, queues, servesModel)
    BY <1>3 DEF Allocate
  <2> HIDE DEF f
  <2>3. PassSound(f)
    BY <2>1, SameLook DEF PassSound
  <2>4. plan \in SUBSET Claim
    BY NewClaimsAreClaims DEF TypeRest
  <2>5. Distinct(plan)
    BY <2>2 DEF IsPlan, Distinct
  <2>6. Trails(entry, f) /\ FreedFor(f, plan)
    <3>1. FreedFor(e, plan) BY <2>4
    <3> QED BY <2>1, <3>1 DEF Trails, FreedFor
  <2> QED BY <2>2, <2>3, <2>4, <2>5, <2>6, CarryOutLease
<1> QED BY <1>2, <1>3 DEF HealthCheckAndScaleDown

\* Every step of the pass.
LEMMA RunOnceLease ==
  ASSUME LInv, IInv', RunOnce
  PROVE  PlanSound' /\ LeasesFollow
<1> USE TypeParts DEF LInv, IInv
<1>1. CASE TickBegins
  <2>1. PICK idle \in SUBSET MaybeIdle :
          HealthCheckAndScaleDown(entry, commands, ListActive(servesModel), idle, Models, {})
    BY <1>1 DEF TickBegins
  <2>2. PassSound(entry)
    BY <1>1 DEF TickBegins, PassSound, Sound, Posting
  <2>3. Trails(entry, entry) /\ \A plan \in SUBSET Claim : FreedFor(entry, plan)
    BY SameTrails DEF FreedFor, On
  <2> QED BY <2>1, <2>2, <2>3, HealthCheckLease
<1>2. CASE TearDownEnds
  <2> DEFINE e == RemoveEntry(entry, tick.id, HeldIds)
  <2>1. PICK queues \in OnAnswer(Manager, {"ok", "failed"}) \cup OnTimeout(Manager) :
          HealthCheckAndScaleDown(e, queues, tick.active, tick.idle, tick.todo, tick.rest)
    BY <1>2 DEF TearDownEnds
  <2>2. tick.phase = "stopping"
    BY <1>2 DEF TearDownEnds
  <2>3. \A m \in Models : cold[m].phase # "idle" => cold[m].resv # tick.id
    BY <2>2 DEF Sound, ColdSound, TickSound, Pooled
  <2>4. PassSound(e)
    <3>1. Posting = {} BY <2>2 DEF Posting
    <3> QED BY <3>1, <2>3, RemoveKeepsSound DEF PassSound, Sound
  <2>5. /\ Trails(entry, e) /\ Pooled(e) = Pooled(entry) \ {tick.id}
        /\ \A q \in Pooled(e) : e[q].launcher = entry[q].launcher
    BY RemovedTrails DEF Sound
  <2> HIDE DEF e
  <2>6. \A plan \in SUBSET Claim : FreedFor(e, plan)
    BY <2>2, <2>5 DEF FreedFor, EndsOn, On
  <2> QED BY <2>1, <2>4, <2>5, <2>6, HealthCheckLease
<1>3. ASSUME tick.phase = "posting"
      PROVE  LET kept == RemoveEntry(entry, tick.id, {})
             IN /\ tick.id \in Pooled(entry) /\ PassSound(kept)
                /\ Trails(entry, kept) /\ Pooled(kept) = Pooled(entry) \ {tick.id}
                /\ \A q \in Pooled(kept) : kept[q].launcher = entry[q].launcher
  BY <1>3, PostingEffect, RemovedTrails DEF Sound
<1>4. tick.plan \in SUBSET Claim BY DEF Tick
<1>5. CASE TryAssembleFails
  <2> DEFINE e == RemoveEntry(entry, tick.id, {})
             left == {c \in tick.plan : c.model # entry[tick.id].model}
  <2>1. /\ tick.phase = "posting" /\ \E queues : CarryOut(e, left, queues, servesModel)
    BY <1>5 DEF TryAssembleFails
  <2>2. /\ PassSound(e) /\ Trails(entry, e) /\ Pooled(e) = Pooled(entry) \ {tick.id}
        /\ \A q \in Pooled(e) : e[q].launcher = entry[q].launcher
    BY <1>3, <2>1
  <2>3. left \subseteq tick.plan OBVIOUS
  <2> HIDE DEF e, left
  <2>4. Distinct(left) /\ \A c \in left : c.launcher # entry[tick.id].launcher
    BY <2>1, <2>3 DEF PlanSound, Distinct
  <2>5. FreedFor(e, left)
    BY <2>2, <2>4 DEF FreedFor, On
  <2> QED BY <1>4, <2>1, <2>2, <2>3, <2>4, <2>5, CarryOutLease
<1>6. CASE TryAssembleEnds
  <2> DEFINE kept == RemoveEntry(entry, tick.id, {})
  <2>1. PICK e, p :
          /\ p \in PipelineIds /\ PassSound(e)
          /\ CarryOut(e, tick.plan, commands, servesModel')
          /\ Added(kept, e, p, entry[tick.id].model, entry[tick.id].launcher, "warm")
    BY <1>6, TryAssembleEndsEffect
  <2>2. tick.phase = "posting" BY <1>6 DEF TryAssembleEnds
  <2>3. /\ tick.id \in Pooled(entry) /\ Trails(entry, kept)
        /\ Pooled(kept) = Pooled(entry) \ {tick.id}
        /\ \A q \in Pooled(kept) : kept[q].launcher = entry[q].launcher
    BY <1>3, <2>2
  <2> HIDE DEF kept
  <2>4. /\ Pooled(e) = Pooled(kept) \cup {p} /\ \A q \in Pooled(kept) : e[q] = kept[q]
        /\ e[p].model = entry[tick.id].model /\ e[p].launcher = entry[tick.id].launcher
    BY <2>1 DEF Added, Pooled
  <2>5. Trails(entry, e)
    BY <2>3, <2>4 DEF Trails
  <2>6. FreedFor(e, tick.plan)
    BY <2>3, <2>4 DEF FreedFor, On
  <2>7. Distinct(tick.plan) BY DEF PlanSound
  <2> QED BY <1>4, <2>1, <2>5, <2>6, <2>7, CarryOutLease
<1> QED BY <1>1, <1>2, <1>5, <1>6 DEF RunOnce

-----------------------------------------------------------------------------
(***************************************************************************)
(* The refinement.                                                         *)
(***************************************************************************)

\* Every step keeps the invariant and is a step of the leases.
LEMMA StepLease == LInv /\ [Next]_vars => LInv' /\ LeasesFollow
<1> SUFFICES ASSUME LInv, [Next]_vars PROVE LInv' /\ LeasesFollow
  OBVIOUS
<1> USE DEF LInv
<1>1. IInv' BY StepSound
<1>2. ASSUME UNCHANGED <<entry, tick>> PROVE PlanSound' /\ LeasesFollow
  <2>1. Trails(entry, entry') BY <1>2, SameTrails
  <2> QED BY <1>1, <1>2, <2>1, PlanKept, LeasesKept
<1>3. CASE \E m \in Models : ColdStartSteps(m)
  BY <1>1, <1>3, ColdStartLease
<1>4. CASE RunOnce
  BY <1>1, <1>4, RunOnceLease
<1>5. CASE \E r \in Requests : Routing(r)
  BY <1>1, <1>5, RoutingLease
<1>6. CASE \E l \in Launchers : HandleCall(l) \/ CallLost(l) \/ AgentDies(l)
  <2>1. UNCHANGED <<entry, tick>>
    BY <1>6 DEF HandleCall, PostSpawns, PostFailsToSpawn, PostRefused, DeleteStops, CallLost,
                Answered, AgentDies
  <2> QED BY <1>1, <1>2, <2>1
<1>7. CASE \E l \in Launchers : LauncherRegisters(l)
  BY <1>1, <1>7, LauncherRegistersLease
<1>8. CASE \/ \E l \in Launchers : \/ DriverExpires(l) \/ DriverEjected(l) \/ DriverRestored(l)
                                  \/ LauncherLapses(l)
           \/ \E n \in Nodes : NodeLeaves(n) \/ NodeJoins(n)
  <2>1. UNCHANGED <<entry, tick>>
    BY <1>8 DEF DriverExpires, DriverEjected, DriverRestored, LauncherLapses, NodeLeaves, NodeJoins
  <2> QED BY <1>1, <1>2, <2>1
<1>9. CASE UNCHANGED vars
  BY <1>1, <1>2, <1>9 DEF vars
<1> QED BY <1>3, <1>4, <1>5, <1>6, <1>7, <1>8, <1>9 DEF Next, Environment

\* At first no launcher is held and nothing is planned.
LEMMA InitLease == Init => LInv /\ Lease!Init
<1> SUFFICES ASSUME Init PROVE LInv /\ Lease!Init
  OBVIOUS
<1>1. IInv BY InitSound
<1>2. PlanSound BY DEF Init, IdleTick, PlanSound, Distinct
<1>3. \A l \in Launchers : On(l) = {}
  BY DEF Init, On, Pooled
<1>4. \A l \in Launchers : LeaseOf(l) = Lease!Free
  BY <1>1, <1>3, LeaseValue
<1>5. Lease!Init BY <1>4 DEF Lease!Init
<1> QED BY <1>1, <1>2, <1>5 DEF LInv

(***************************************************************************)
(* The pool implements LauncherLease: however cold starts, passes, faults  *)
(* and requests interleave, no launcher goes from one model to another but *)
(* free or out of the hands of its own model's health check or scale-down. *)
(***************************************************************************)
THEOREM ImplementsLease == Spec => LeaseSpec
<1>1. LeasesFollow => [Lease!Next]_([l \in Launchers |-> LeaseOf(l)])
  <2> SUFFICES ASSUME LeasesFollow PROVE Lease!Next
    OBVIOUS
  <2>1. [l \in Launchers |-> LeaseOf(l)]' = [l \in Launchers |-> LeaseOf(l)']
    OBVIOUS
  <2>2. [l \in Launchers |-> LeaseOf(l)'] \in [Launchers -> Lease!Leases]
    BY DEF LeasesFollow
  <2> QED BY <2>1, <2>2 DEF LeasesFollow, Lease!Next
<1>2. LInv /\ [Next]_vars => LInv' /\ [Lease!Next]_([l \in Launchers |-> LeaseOf(l)])
  BY <1>1, StepLease
<1> QED BY <1>2, InitLease, PTL DEF Spec, LeaseSpec, Lease!Spec

-----------------------------------------------------------------------------
(***************************************************************************)
(* How far a pool can get past maxPipelines.  CeilingOverrunByOne alone is *)
(* not inductive: a model with an empty pool may have no more claims than  *)
(* its ceiling, or the cold start it is about to begin would be the second *)
(* entry too many.                                                         *)
(***************************************************************************)

\* The entries S that stay in m's pool and the claims C left for it are within bounds.
Fits(S, C, m) ==
  /\ Cardinality(S) + Cardinality(C) <= MaxPipelines[m] + 1
  /\ S = {} => Cardinality(C) <= MaxPipelines[m]

\* The bound as the pass finds it, with a heap e and a plan.
FitAll(e, plan) == \A m \in Models : Fits(Standing(e, m), ClaimsFor(plan, m), m)

CeilingSound == FitAll(entry, tick.plan)

CInv == IInv /\ CeilingSound

\* What stays in a pool is finite, and so are the claims for a model.
LEMMA StandingFinite ==
  ASSUME NEW e, NEW m
  PROVE  IsFiniteSet(Standing(e, m)) /\ Cardinality(Standing(e, m)) \in Nat
<1>1. Standing(e, m) \subseteq GetPool(e, m) BY DEF Standing
<1> QED BY <1>1, PoolFinite, FS_Subset, FS_CardinalityType

\* The claims for a model are finitely many.
LEMMA ClaimsFinite ==
  ASSUME NEW plan \in SUBSET Claim, NEW m
  PROVE  IsFiniteSet(ClaimsFor(plan, m)) /\ Cardinality(ClaimsFor(plan, m)) \in Nat
<1> DEFINE C == ClaimsFor(plan, m)
           f == [c \in C |-> <<c.launcher, IF c.curId THEN 1 ELSE 0>>]
<1>1. IsFiniteSet(0 .. 1)
  <2>1. 0 \in Int /\ 1 \in Int OBVIOUS
  <2> QED BY <2>1, FS_Interval, Zenon
<1>2. IsFiniteSet(Launchers \X (0 .. 1))
  BY <1>1, CatalogAssumption, FS_Product
<1>3. \A c \in C : c \in Claim /\ c.model = m
  BY DEF ClaimsFor
<1>4. f \in [C -> Launchers \X (0 .. 1)]
  BY <1>3 DEF Claim
<1>5. \A c, d \in C : f[c] = f[d] => c = d
  BY <1>3 DEF Claim
<1> HIDE DEF C, f
<1>6. f \in Injection(C, Launchers \X (0 .. 1))
  BY <1>4, <1>5 DEF Injection, IsInjective
<1>7. IsFiniteSet(C) BY <1>2, <1>6, FS_Injection
<1> QED BY <1>7, FS_CardinalityType DEF C

\* Fewer entries or fewer claims are within the bounds too.
LEMMA FitsFewer ==
  ASSUME NEW m \in Models, NEW S, NEW T, NEW C, NEW D,
         IsFiniteSet(S), IsFiniteSet(T), IsFiniteSet(C), IsFiniteSet(D),
         Cardinality(T) <= Cardinality(S), Cardinality(D) <= Cardinality(C), Fits(S, C, m)
  PROVE  Fits(T, D, m)
<1>1. /\ Cardinality(S) \in Nat /\ Cardinality(T) \in Nat
      /\ Cardinality(C) \in Nat /\ Cardinality(D) \in Nat
  BY FS_CardinalityType
<1>2. (S = {} <=> Cardinality(S) = 0) /\ (T = {} <=> Cardinality(T) = 0)
  BY FS_EmptySet
<1>3. MaxPipelines[m] \in Nat BY CatalogAssumption
<1> QED BY <1>1, <1>2, <1>3 DEF Fits

\* A claim that becomes an entry leaves the bounds as they were.
LEMMA FitsCarried ==
  ASSUME NEW m \in Models, NEW S, NEW C, NEW D, NEW p, NEW c,
         IsFiniteSet(S), IsFiniteSet(C), p \notin S, c \in C, D \subseteq C \ {c}, Fits(S, C, m)
  PROVE  Fits(S \cup {p}, D, m)
<1>1. Cardinality(S \cup {p}) = Cardinality(S) + 1
  BY FS_AddElement
<1>2. IsFiniteSet(C \ {c}) /\ Cardinality(C \ {c}) = Cardinality(C) - 1
  BY FS_RemoveElement
<1>3. IsFiniteSet(D) /\ Cardinality(D) <= Cardinality(C) - 1
  BY <1>2, FS_Subset
<1>4. Cardinality(S) \in Nat /\ Cardinality(C) \in Nat /\ Cardinality(D) \in Nat
  BY <1>3, FS_CardinalityType
<1>5. MaxPipelines[m] \in Nat BY CatalogAssumption
<1> QED BY <1>1, <1>3, <1>4, <1>5 DEF Fits

\* A pool that is not empty has a head.
LEMMA PoolHasHead ==
  ASSUME entry \in Heap, Ordered(entry), NEW m \in Models, GetPool(entry, m) # {}
  PROVE  PoolHead(m) # {}
<1> SUFFICES ASSUME PoolHead(m) = {} PROVE FALSE
  OBVIOUS
<1> DEFINE P == GetPool(entry, m)
           n == Cardinality(P)
           f == [p \in P |-> entry[p].pos]
<1>1. IsFiniteSet(P) /\ n \in Nat BY PoolFinite
<1>2. n # 0 BY <1>1, FS_EmptySet
<1>3. \A p \in P : p \in Pooled(entry) /\ entry[p].model = m
  BY DEF GetPool
<1>4. \A p \in P : entry[p].pos \in Nat /\ entry[p].pos < n /\ entry[p].pos # 0
  BY <1>3, PooledType DEF Ordered, PoolHead
<1>5. f \in [P -> 1 .. n - 1]
  BY <1>1, <1>4
<1>6. IsFiniteSet(1 .. n - 1) /\ Cardinality(1 .. n - 1) < n
  <2>1. \A b \in Int : /\ IsFiniteSet(1 .. b)
                       /\ Cardinality(1 .. b) = IF 1 > b THEN 0 ELSE b - 1 + 1
    BY FS_Interval
  <2> HIDE DEF n
  <2>2. n - 1 \in Int BY <1>1
  <2> QED BY <1>1, <1>2, <2>1, <2>2
<1>7. \E p, q \in P : p # q /\ f[p] = f[q]
  <2> HIDE DEF P, n, f
  <2> QED BY <1>1, <1>5, <1>6, FS_PigeonHole DEF n
<1> QED BY <1>3, <1>7 DEF Ordered

\* A cold start begins: the head of the pool gives way to the reservation, or the pool
\* was empty.
LEMMA ColdStartBeginsCeiling ==
  ASSUME CInv, NEW m \in Models, ColdStartBegins(m), cold[m] = NoColdStart, tick' = tick
  PROVE  CeilingSound'
<1> USE TypeParts DEF CInv, IInv, Sound
<1>1. PICK p \in PipelineIds, l \in Launchers : ColdStartReserves(m, p, l)
  BY ColdStartBeginsEffect
<1>2. /\ Pooled(entry') = Pooled(entry) \cup {p} /\ p \notin Pooled(entry)
      /\ entry'[p].model = m /\ \A q \in Pooled(entry) : entry'[q] = entry[q]
      /\ \A k \in Models \ {m} : cold'[k] = cold[k]
  BY <1>1 DEF ColdStartReserves, Added, Pooled
<1>3. SUFFICES ASSUME NEW k \in Models
               PROVE  Fits(GetPool(entry', k) \ {cold'[k].tracked}, ClaimsFor(tick.plan, k), k)
  BY DEF CeilingSound, FitAll, Standing
<1> DEFINE S == Standing(entry, k)
           C == ClaimsFor(tick.plan, k)
<1>4. Fits(S, C, k) /\ IsFiniteSet(S) /\ IsFiniteSet(C)
  BY StandingFinite, ClaimsFinite DEF CeilingSound, FitAll, Tick
<1>5. CASE k # m
  <2>1. GetPool(entry', k) \ {cold'[k].tracked} = S
    BY <1>2, <1>5 DEF GetPool, Standing
  <2> QED BY <1>4, <2>1
<1>6. CASE k = m
  <2>1. GetPool(entry', m) = GetPool(entry, m) \cup {p} /\ p \notin GetPool(entry, m)
    BY <1>2 DEF GetPool
  <2>2. S = GetPool(entry, m)
    BY <1>6, SentinelAssumption DEF Standing, NoColdStart, GetPool, Pooled
  <2>3. CASE PoolHead(m) = {}
    <3>1. GetPool(entry, m) = {}
      BY <2>3, PoolHasHead
    <3>2. cold'[m].tracked = NoId
      BY <1>1, <2>3 DEF ColdStartReserves
    <3>3. GetPool(entry', m) \ {cold'[m].tracked} = {p}
      BY <2>1, <3>1, <3>2, SentinelAssumption
    <3>4. Cardinality({p}) = 1 /\ Cardinality({}) = 0
      BY FS_Singleton, FS_EmptySet
    <3>5. Cardinality(C) \in Nat /\ MaxPipelines[m] \in Nat
      BY <1>4, FS_CardinalityType, CatalogAssumption
    <3>6. Cardinality(C) <= MaxPipelines[m]
      BY <1>4, <1>6, <2>2, <3>1 DEF Fits
    <3> HIDE DEF C
    <3>7. Fits({p}, C, m)
      BY <3>4, <3>5, <3>6 DEF Fits
    <3> QED BY <1>6, <3>3, <3>7 DEF C
  <2>4. CASE PoolHead(m) # {}
    <3> DEFINE t == cold'[m].tracked
               T == (S \cup {p}) \ {t}
    <3>1. t \in S
      BY <1>1, <2>2, <2>4 DEF ColdStartReserves, PoolHead
    <3>2. GetPool(entry', m) \ {t} = T
      BY <2>1, <2>2
    <3>3. p \notin S BY <2>1, <2>2
    <3> HIDE DEF S, C, t
    <3>4. IsFiniteSet(S \cup {p}) /\ Cardinality(S \cup {p}) = Cardinality(S) + 1
      BY <1>4, <3>3, FS_AddElement
    <3>5. IsFiniteSet(T) /\ Cardinality(T) = Cardinality(S \cup {p}) - 1
      BY <3>1, <3>4, FS_RemoveElement
    <3>6. Cardinality(T) <= Cardinality(S) /\ Cardinality(C) <= Cardinality(C)
      BY <1>4, <3>4, <3>5, FS_CardinalityType
    <3>7. Fits(T, C, m)
      BY <1>4, <1>6, <3>5, <3>6, FitsFewer
    <3> QED BY <1>6, <3>2, <3>7 DEF C, t
  <2> QED BY <2>3, <2>4
<1> QED BY <1>5, <1>6

\* A cold start ends in a swap: the warm entry for the reservation, the tracked entry
\* being none of those that stay.
LEMMA ReplacedCeiling ==
  ASSUME CInv, NEW m \in Models, cold[m].phase # "idle", Replaced(m),
         cold' = [cold EXCEPT ![m] = NoColdStart]
  PROVE  CeilingSound'
<1> USE TypeParts DEF CInv, IInv, Sound
<1> DEFINE s == cold[m].resv
           t == cold[m].tracked
<1>1. PICK p, kept : Swapped(m, p, kept)
  BY ReplacedEffect
<1>2. /\ s \in Pooled(entry) /\ entry[s].model = m /\ s # t
      /\ Pooled(kept) = Pooled(entry) \ {s, t}
      /\ Pooled(entry') = Pooled(kept) \cup {p} /\ p \notin Pooled(kept)
      /\ entry'[p].model = m /\ (t \in Pooled(entry) => entry[t].model = m)
  BY <1>1 DEF Swapped, Added, ColdSound
<1>3. \A q \in Pooled(kept) : q \in Pooled(entry) /\ entry'[q].model = entry[q].model
  BY <1>1 DEF Swapped, Added, SameEntry, Pooled
<1>4. /\ tick'.plan = tick.plan /\ cold'[m].tracked = NoId
      /\ \A k \in Models \ {m} : cold'[k] = cold[k]
  BY DEF Replaced, Tick, NoColdStart
<1>5. SUFFICES ASSUME NEW k \in Models
               PROVE  Fits(GetPool(entry', k) \ {cold'[k].tracked}, ClaimsFor(tick.plan, k), k)
  BY <1>4 DEF CeilingSound, FitAll, Standing
<1> DEFINE S == Standing(entry, k)
           C == ClaimsFor(tick.plan, k)
<1>6. Fits(S, C, k) /\ IsFiniteSet(S) /\ IsFiniteSet(C)
  BY StandingFinite, ClaimsFinite DEF CeilingSound, FitAll, Tick
<1>7. CASE k # m
  <2>1. GetPool(entry', k) = GetPool(entry, k)
    BY <1>2, <1>3, <1>7 DEF GetPool
  <2> QED BY <1>4, <1>6, <1>7, <2>1 DEF Standing
<1>8. CASE k = m
  <2>1. s \in S
    BY <1>2, <1>8 DEF Standing, GetPool
  <2>2. GetPool(entry', k) \ {cold'[k].tracked} \subseteq (S \ {s}) \cup {p}
    BY <1>2, <1>3, <1>8 DEF Standing, GetPool
  <2> HIDE DEF S, C
  <2>3. IsFiniteSet(S \ {s}) /\ Cardinality(S \ {s}) = Cardinality(S) - 1
    BY <1>6, <2>1, FS_RemoveElement
  <2>4. /\ IsFiniteSet((S \ {s}) \cup {p}) /\ Cardinality(S) \in Nat /\ Cardinality(C) \in Nat
        /\ Cardinality((S \ {s}) \cup {p}) <= Cardinality(S)
    <3> DEFINE R == S \ {s}
    <3>1. IsFiniteSet(R) /\ Cardinality(R) = Cardinality(S) - 1 BY <2>3
    <3>2. Cardinality(S) \in Nat /\ Cardinality(C) \in Nat
      BY <1>6, FS_CardinalityType
    <3> HIDE DEF R
    <3>3. /\ IsFiniteSet(R \cup {p})
          /\ Cardinality(R \cup {p}) = IF p \in R THEN Cardinality(R) ELSE Cardinality(R) + 1
      BY <3>1, FS_AddElement
    <3> QED BY <3>1, <3>2, <3>3 DEF R
  <2>5. Fits((S \ {s}) \cup {p}, C, k)
    BY <1>6, <2>4, FitsFewer
  <2>6. ASSUME NEW T \in SUBSET ((S \ {s}) \cup {p}) PROVE Fits(T, C, k)
    <3>1. IsFiniteSet(T) /\ Cardinality(T) <= Cardinality((S \ {s}) \cup {p})
      BY <2>4, FS_Subset
    <3>2. Cardinality(C) <= Cardinality(C) BY <2>4
    <3> QED BY <1>6, <2>4, <2>5, <3>1, <3>2, FitsFewer
  <2> QED BY <2>2, <2>6 DEF C
<1> QED BY <1>7, <1>8

\* An entry that leaves the pools, or a change of entries that moves none.
LEMMA FewerFit ==
  ASSUME NEW e, NEW f, NEW plan \in SUBSET Claim, NEW left \in SUBSET plan, FitAll(e, plan),
         \A q \in Pooled(f) : q \in Pooled(e) /\ f[q].model = e[q].model
  PROVE  FitAll(f, left)
<1> SUFFICES ASSUME NEW k \in Models
             PROVE  Fits(Standing(f, k), ClaimsFor(left, k), k)
  BY DEF FitAll
<1>1. Standing(f, k) \subseteq Standing(e, k)
  BY DEF Standing, GetPool
<1>2. ClaimsFor(left, k) \subseteq ClaimsFor(plan, k)
  BY DEF ClaimsFor
<1>3. IsFiniteSet(Standing(e, k)) /\ IsFiniteSet(ClaimsFor(plan, k))
  BY StandingFinite, ClaimsFinite
<1>4. /\ IsFiniteSet(Standing(f, k)) /\ Cardinality(Standing(f, k)) <= Cardinality(Standing(e, k))
      /\ IsFiniteSet(ClaimsFor(left, k))
      /\ Cardinality(ClaimsFor(left, k)) <= Cardinality(ClaimsFor(plan, k))
  BY <1>1, <1>2, <1>3, FS_Subset
<1>5. Fits(Standing(e, k), ClaimsFor(plan, k), k) BY DEF FitAll
<1> QED BY <1>3, <1>4, <1>5, FitsFewer

\* Steps of others that end no cold start.
LEMMA CeilingKept ==
  ASSUME CInv, cold' = cold, tick'.plan = tick.plan,
         \A q \in Pooled(entry') : q \in Pooled(entry) /\ entry'[q].model = entry[q].model
  PROVE  CeilingSound'
<1>1. tick.plan \in SUBSET Claim BY TypeParts DEF CInv, IInv, Tick
<1>2. FitAll(entry', tick.plan)
  BY <1>1, FewerFit DEF CInv, CeilingSound
<1> QED BY <1>2 DEF CeilingSound, FitAll, Standing

\* A cold start that fails leaves the entry it was to replace, and takes its own away.
LEMMA ColdStartFailedCeiling ==
  ASSUME CInv, NEW m \in Models, ColdStartFailed(m)
  PROVE  CeilingSound'
<1> USE TypeParts DEF CInv, IInv, Sound
<1> DEFINE s == cold[m].resv
           t == cold[m].tracked
           kept == RemoveEntry(entry, s, HeldIds)
<1>1. /\ entry' = MarkEntryFailed(kept, {t}) /\ tick' = tick /\ cold[m].phase # "idle"
      /\ cold' = [cold EXCEPT ![m] = NoColdStart]
  BY DEF ColdStartFailed
<1>2. /\ Pooled(kept) = Pooled(entry) \ {s}
      /\ \A q \in Pooled(kept) : kept[q].model = entry[q].model
  BY RemovedTrails
<1>3. kept \in Heap /\ Ordered(kept)
  BY RemoveEntryEffect
<1> HIDE DEF kept
<1>4. /\ Pooled(entry') = Pooled(entry) \ {s}
      /\ \A q \in Pooled(entry') : entry'[q].model = entry[q].model
  BY <1>1, <1>2, <1>3, MarkEntryFailedEffect
<1>5. /\ s \in Pooled(entry) /\ entry[s].model = m /\ s # t
  BY <1>1 DEF ColdSound
<1>6. SUFFICES ASSUME NEW k \in Models
               PROVE  Fits(GetPool(entry', k) \ {cold'[k].tracked}, ClaimsFor(tick.plan, k), k)
  BY <1>1 DEF CeilingSound, FitAll, Standing
<1> DEFINE S == Standing(entry, k)
           C == ClaimsFor(tick.plan, k)
           P == GetPool(entry, k)
           T == GetPool(entry', k) \ {cold'[k].tracked}
<1>7. /\ Fits(S, C, k) /\ IsFiniteSet(S) /\ IsFiniteSet(C) /\ IsFiniteSet(P)
      /\ Cardinality(S) \in Nat /\ Cardinality(C) \in Nat /\ Cardinality(P) \in Nat
  BY StandingFinite, ClaimsFinite, PoolFinite DEF CeilingSound, FitAll, Tick
<1>8. IsFiniteSet(T) /\ Cardinality(T) <= Cardinality(S)
  <2>1. CASE k # m
    <3>1. T \subseteq S
      BY <1>1, <1>4, <2>1 DEF Standing, GetPool
    <3> QED BY <1>7, <3>1, FS_Subset
  <2>2. CASE k = m
    <3>1. T \subseteq P \ {s} /\ s \in P /\ S = P \ {t}
      BY <1>4, <1>5, <2>2 DEF Standing, GetPool
    <3> HIDE DEF S, P, T, s, t
    <3>2. /\ IsFiniteSet(P \ {s}) /\ Cardinality(P \ {s}) = Cardinality(P) - 1
          /\ Cardinality(P \ {t}) = IF t \in P THEN Cardinality(P) - 1 ELSE Cardinality(P)
      BY <1>7, <3>1, FS_RemoveElement
    <3>3. IsFiniteSet(T) /\ Cardinality(T) <= Cardinality(P \ {s})
      BY <3>1, <3>2, FS_Subset
    <3>4. Cardinality(T) \in Nat BY <3>3, FS_CardinalityType
    <3> QED BY <1>7, <3>1, <3>2, <3>3, <3>4
  <2> QED BY <2>1, <2>2
<1>9. Cardinality(C) <= Cardinality(C) BY <1>7
<1> HIDE DEF S, C, T
<1>10. Fits(T, C, k)
  BY <1>7, <1>8, <1>9, FitsFewer
<1> QED BY <1>10 DEF T, C

\* Every step of a cold start.
LEMMA ColdStartCeiling ==
  ASSUME CInv, NEW m \in Models, ColdStartSteps(m)
  PROVE  CeilingSound'
<1>1. CASE ColdStartFailed(m)
  BY <1>1, ColdStartFailedCeiling
<1>2. CASE ColdStartAssembled(m) \/ ColdStartStopped(m)
  <2>1. cold[m].phase # "idle"
    BY <1>2 DEF ColdStartAssembled, ColdStartStopped
  <2>2. \/ Replaced(m) /\ cold' = [cold EXCEPT ![m] = NoColdStart]
        \/ UNCHANGED <<entry, tick>> /\ cold' = [cold EXCEPT ![m].phase = "stopping"]
    BY <1>2 DEF ColdStartAssembled, ColdStartStopped
  <2>3. ASSUME UNCHANGED <<entry, tick>>, cold' = [cold EXCEPT ![m].phase = "stopping"]
        PROVE  CeilingSound'
    <3>1. cold \in [Models -> ColdStartState] BY DEF CInv, IInv, TypeOK
    <3>2. \A k \in Models : cold'[k].tracked = cold[k].tracked
      BY <2>3, <3>1 DEF ColdStartState
    <3> QED BY <2>3, <3>2 DEF CInv, CeilingSound, FitAll, Standing
  <2> QED BY <2>1, <2>2, <2>3, ReplacedCeiling
<1> QED BY <1>1, <1>2 DEF ColdStartSteps

\* A launcher that registers anew ages claims and adds none.
LEMMA LauncherRegistersCeiling ==
  ASSUME CInv, NEW l \in Launchers, LauncherRegisters(l)
  PROVE  CeilingSound'
<1> USE TypeParts DEF CInv, IInv, Sound
<1> DEFINE x(p) == [entry[p] EXCEPT !.curId = FALSE]
           y(c) == [c EXCEPT !.curId = c.curId /\ c.launcher # l]
           plan == tick.plan
           plan2 == {y(c) : c \in plan}
<1>1. \A p \in PipelineIds :
        entry'[p] = IF entry[p] # NoEntry /\ entry[p].launcher = l THEN x(p) ELSE entry[p]
  BY DEF LauncherRegisters
<1>2. \A p \in PipelineIds : entry[p] # NoEntry =>
        /\ x(p) # NoEntry /\ x(p).model = entry[p].model /\ x(p).pos = entry[p].pos
  BY EntryAssumption DEF Heap, PooledPipeline
<1> HIDE DEF x
<1>3. /\ Pooled(entry') = Pooled(entry)
      /\ \A p \in Pooled(entry) : entry'[p].model = entry[p].model
  BY <1>1, <1>2 DEF Pooled
<1>4. cold' = cold /\ tick'.plan = plan2
  BY DEF LauncherRegisters, Tick
<1>5. plan \in SUBSET Claim /\ \A c \in plan : y(c).model = c.model
  BY DEF Tick, Claim
<1> SUFFICES ASSUME NEW k \in Models
             PROVE  Fits(Standing(entry', k), ClaimsFor(plan2, k), k)
  BY <1>4 DEF CeilingSound, FitAll, Standing
<1>6. Standing(entry', k) = Standing(entry, k)
  BY <1>3 DEF Standing, GetPool
<1> DEFINE S == Standing(entry, k)
           C == ClaimsFor(plan, k)
           D == ClaimsFor(plan2, k)
           f == [c \in C |-> y(c)]
<1>7. /\ Fits(S, C, k) /\ IsFiniteSet(S) /\ IsFiniteSet(C)
      /\ Cardinality(S) \in Nat
  BY <1>5, StandingFinite, ClaimsFinite DEF CeilingSound, FitAll
<1>8. f \in [C -> D] /\ \A d \in D : \E c \in C : f[c] = d
  <2> HIDE DEF y, plan
  <2> QED BY <1>5 DEF ClaimsFor
<1> HIDE DEF C, D, S, f, plan2
<1>9. f \in Surjection(C, D) BY <1>8 DEF Surjection
<1>10. IsFiniteSet(D) /\ Cardinality(D) <= Cardinality(C)
  BY <1>7, <1>9, FS_Surjection
<1>11. Cardinality(S) <= Cardinality(S) BY <1>7
<1>12. Fits(S, D, k) BY <1>7, <1>10, <1>11, FitsFewer
<1> QED BY <1>6, <1>12 DEF S, D

\* The pass turns a claim into an entry, or drops what it has left.
LEMMA CarryOutCeiling ==
  ASSUME IInv, NEW e, PassSound(e), NEW plan \in SUBSET Claim, NEW queues, NEW registered,
         CarryOut(e, plan, queues, registered), cold' = cold, FitAll(e, plan)
  PROVE  CeilingSound'
<1> USE TypeParts DEF IInv
<1>1. CASE entry' = e /\ tick' = IdleTick
  <2>1. tick'.plan = {} BY <1>1 DEF IdleTick
  <2>2. FitAll(e, {})
    BY FewerFit
  <2> QED BY <1>1, <2>1, <2>2 DEF CeilingSound, FitAll, Standing
<1>2. ASSUME NEW c \in plan, NEW p \in PipelineIds, Reserves(e, plan, queues, c, p)
      PROVE  CeilingSound'
  <2>1. /\ Pooled(entry') = Pooled(e) \cup {p} /\ p \notin Pooled(e)
        /\ entry'[p].model = c.model /\ c.model \in Models /\ tick'.plan \subseteq plan \ {c}
        /\ \A k \in Models : p # cold[k].tracked
    BY <1>2 DEF Reserves, Added
  <2>2. \A q \in Pooled(e) : entry'[q] = e[q]
    BY <1>2 DEF Reserves, Added, Pooled
  <2>3. SUFFICES ASSUME NEW k \in Models
                 PROVE  Fits(Standing(entry', k), ClaimsFor(tick'.plan, k), k)
    BY DEF CeilingSound, FitAll, Standing
  <2> DEFINE S == Standing(e, k)
             C == ClaimsFor(plan, k)
             D == ClaimsFor(tick'.plan, k)
  <2>4. Fits(S, C, k) /\ IsFiniteSet(S) /\ IsFiniteSet(C)
    BY StandingFinite, ClaimsFinite DEF FitAll
  <2>5. CASE k = c.model
    <3>1. Standing(entry', k) = S \cup {p} /\ p \notin S
      BY <2>1, <2>2, <2>5 DEF Standing, GetPool
    <3>2. c \in C /\ D \subseteq C \ {c}
      BY <2>1, <2>5 DEF ClaimsFor
    <3> HIDE DEF S, C, D
    <3>3. Fits(S \cup {p}, D, k)
      BY <2>4, <3>1, <3>2, FitsCarried
    <3> QED BY <3>1, <3>3 DEF D
  <2>6. CASE k # c.model
    <3>1. Standing(entry', k) = S
      BY <2>1, <2>2, <2>6 DEF Standing, GetPool
    <3>2. D \subseteq C
      BY <2>1 DEF ClaimsFor
    <3>3. Cardinality(S) \in Nat BY StandingFinite
    <3> HIDE DEF S, C, D
    <3>4. IsFiniteSet(D) /\ Cardinality(D) <= Cardinality(C)
      BY <2>4, <3>2, FS_Subset
    <3>5. Cardinality(S) <= Cardinality(S) BY <3>3
    <3>6. Fits(S, D, k)
      BY <2>4, <3>4, <3>5, FitsFewer
    <3> QED BY <3>1, <3>6 DEF D
  <2> QED BY <2>5, <2>6
<1>3. \/ entry' = e /\ tick' = IdleTick /\ commands' = queues
      \/ \E c \in plan, p \in PipelineIds : Reserves(e, plan, queues, c, p)
  BY CarryOutEffect DEF PassSound, TypeRest
<1> QED BY <1>1, <1>2, <1>3

\* A new plan stays within the deficits of the pools it is made for.
LEMMA PlanFits ==
  ASSUME NEW e, NEW plan \in SUBSET Claim, IsPlan(e, plan), FitAll(e, {})
  PROVE  FitAll(e, plan)
<1> SUFFICES ASSUME NEW k \in Models
             PROVE  Fits(Standing(e, k), ClaimsFor(plan, k), k)
  BY DEF FitAll
<1> DEFINE S == Standing(e, k)
           P == GetPool(e, k)
           C == ClaimsFor(plan, k)
<1>1. PICK desired \in 1 .. MaxPipelines[k] : Planned(e, plan, k, desired)
  BY DEF IsPlan
<1>2. C = {} \/ Cardinality(C) <= desired - Cardinality(P)
  BY <1>1 DEF Planned, ClaimsFor
<1>3. /\ IsFiniteSet(S) /\ IsFiniteSet(C) /\ IsFiniteSet(P)
      /\ Cardinality(S) \in Nat /\ Cardinality(C) \in Nat /\ Cardinality(P) \in Nat
  BY StandingFinite, ClaimsFinite, PoolFinite
<1>4. S \subseteq P BY DEF Standing
<1>5. Fits(S, {}, k)
  <2>1. ClaimsFor({}, k) = {} BY DEF ClaimsFor
  <2> QED BY <2>1 DEF FitAll
<1>6. MaxPipelines[k] \in Nat BY CatalogAssumption
<1> HIDE DEF S, P, C
<1>7. Cardinality(S) <= Cardinality(P) BY <1>3, <1>4, FS_Subset
<1>8. Fits(S, C, k)
  <2>1. CASE C = {} BY <1>5, <2>1
  <2>2. CASE Cardinality(C) <= desired - Cardinality(P)
    BY <1>1, <1>3, <1>6, <1>7, <2>2 DEF Fits
  <2> QED BY <1>2, <2>1, <2>2
<1> QED BY <1>8 DEF S, C

\* The pass up to its next await.
LEMMA HealthCheckCeiling ==
  ASSUME IInv, NEW e, PassSound(e), NEW queues, NEW active, NEW idle, NEW todo, NEW rest,
         HealthCheckAndScaleDown(e, queues, active, idle, todo, rest),
         cold' = cold, FitAll(e, {})
  PROVE  CeilingSound'
<1> USE TypeParts DEF IInv
<1>1. ASSUME NEW held
      PROVE  LET f == Forget(e, held)
             IN /\ f \in Heap /\ Ordered(f) /\ Pooled(f) = Pooled(e)
                /\ \A q \in Pooled(e) : f[q] = e[q]
                /\ FitAll(f, {})
  <2> DEFINE f == Forget(e, held)
  <2>1. /\ f \in Heap /\ Ordered(f) /\ Pooled(f) = Pooled(e)
        /\ \A q \in Pooled(e) : f[q] = e[q]
    BY ForgetEffect DEF PassSound
  <2> HIDE DEF f
  <2>2. FitAll(f, {})
    BY <2>1, FewerFit
  <2> QED BY <2>1, <2>2 DEF f
<1>2. ASSUME NEW c, NEW left, NEW copy, TearDown(e, c, queues, active, idle, left, copy)
      PROVE  CeilingSound'
  <2>1. tick'.plan = {} /\ \E held : entry' = Forget(e, held)
    BY <1>2 DEF TearDown
  <2>2. FitAll(entry', {})
    BY <1>1, <2>1
  <2> QED BY <2>1, <2>2 DEF CeilingSound, FitAll, Standing
<1>3. ASSUME Allocate(Forget(e, {}), queues)
      PROVE  CeilingSound'
  <2> DEFINE f == Forget(e, {})
  <2>1. /\ f \in Heap /\ Ordered(f) /\ Pooled(f) = Pooled(e) /\ \A q \in Pooled(e) : f[q] = e[q]
        /\ FitAll(f, {})
    BY <1>1
  <2>2. PICK plan \in SUBSET NewClaims : IsPlan(f, plan) /\ CarryOut(f, plan, queues, servesModel)
    BY <1>3 DEF Allocate
  <2> HIDE DEF f
  <2>3. PassSound(f)
    BY <2>1, SameLook DEF PassSound
  <2>4. plan \in SUBSET Claim
    BY NewClaimsAreClaims DEF TypeRest
  <2> QED BY <2>1, <2>2, <2>3, <2>4, PlanFits, CarryOutCeiling
<1> QED BY <1>2, <1>3 DEF HealthCheckAndScaleDown

\* Every step of the pass.
LEMMA RunOnceCeiling ==
  ASSUME CInv, RunOnce
  PROVE  CeilingSound'
<1> USE TypeParts DEF CInv, IInv
<1>0. cold' = cold
  BY DEF RunOnce, TickBegins, TearDownEnds, TryAssembleEnds, TryAssembleFails
<1>1. tick.plan \in SUBSET Claim BY DEF Tick
<1>2. CASE TickBegins
  <2>1. PICK idle \in SUBSET MaybeIdle :
          HealthCheckAndScaleDown(entry, commands, ListActive(servesModel), idle, Models, {})
    BY <1>2 DEF TickBegins
  <2>2. PassSound(entry)
    BY <1>2 DEF TickBegins, PassSound, Sound, Posting
  <2>3. FitAll(entry, {})
    BY <1>1, FewerFit DEF CeilingSound
  <2> QED BY <1>0, <2>1, <2>2, <2>3, HealthCheckCeiling
<1>3. CASE TearDownEnds
  <2> DEFINE e == RemoveEntry(entry, tick.id, HeldIds)
  <2>1. PICK queues \in OnAnswer(Manager, {"ok", "failed"}) \cup OnTimeout(Manager) :
          HealthCheckAndScaleDown(e, queues, tick.active, tick.idle, tick.todo, tick.rest)
    BY <1>3 DEF TearDownEnds
  <2>2. tick.phase = "stopping"
    BY <1>3 DEF TearDownEnds
  <2>3. \A m \in Models : cold[m].phase # "idle" => cold[m].resv # tick.id
    BY <2>2 DEF Sound, ColdSound, TickSound, Pooled
  <2>4. PassSound(e)
    <3>1. Posting = {} BY <2>2 DEF Posting
    <3> QED BY <3>1, <2>3, RemoveKeepsSound DEF PassSound, Sound
  <2>5. /\ Pooled(e) = Pooled(entry) \ {tick.id}
        /\ \A q \in Pooled(e) : e[q].model = entry[q].model
    BY RemovedTrails DEF Sound
  <2> HIDE DEF e
  <2>6. FitAll(e, {})
    BY <1>1, <2>5, FewerFit DEF CeilingSound
  <2> QED BY <1>0, <2>1, <2>4, <2>6, HealthCheckCeiling
<1>4. ASSUME tick.phase = "posting"
      PROVE  LET kept == RemoveEntry(entry, tick.id, {})
             IN /\ tick.id \in Pooled(entry) /\ entry[tick.id].model \in Models
                /\ \A k \in Models : tick.id # cold[k].tracked
                /\ PassSound(kept) /\ Pooled(kept) = Pooled(entry) \ {tick.id}
                /\ \A q \in Pooled(kept) : kept[q].model = entry[q].model
  <2>1. \A k \in Models : tick.id # cold[k].tracked
    BY <1>4 DEF Sound, TickSound, ColdSound
  <2>2. tick.id \in Pooled(entry) /\ entry[tick.id].model \in Models
    BY <1>4, PooledType DEF Sound, TickSound
  <2> QED BY <1>4, <2>1, <2>2, PostingEffect, RemovedTrails DEF Sound
<1>5. CASE TryAssembleFails
  <2> DEFINE e == RemoveEntry(entry, tick.id, {})
             left == {c \in tick.plan : c.model # entry[tick.id].model}
  <2>1. /\ tick.phase = "posting" /\ \E queues : CarryOut(e, left, queues, servesModel)
    BY <1>5 DEF TryAssembleFails
  <2>2. /\ PassSound(e) /\ Pooled(e) = Pooled(entry) \ {tick.id}
        /\ \A q \in Pooled(e) : e[q].model = entry[q].model
    BY <1>4, <2>1
  <2>3. left \subseteq tick.plan OBVIOUS
  <2> HIDE DEF e, left
  <2>4. FitAll(e, left)
    BY <1>1, <2>2, <2>3, FewerFit DEF CeilingSound
  <2>5. left \in SUBSET Claim BY <1>1, <2>3
  <2> QED BY <1>0, <2>1, <2>2, <2>4, <2>5, CarryOutCeiling
<1>6. CASE TryAssembleEnds
  <2> DEFINE kept == RemoveEntry(entry, tick.id, {})
             m == entry[tick.id].model
  <2>1. PICK e, p :
          /\ p \in PipelineIds /\ PassSound(e)
          /\ CarryOut(e, tick.plan, commands, servesModel')
          /\ Added(kept, e, p, m, entry[tick.id].launcher, "warm")
    BY <1>6, TryAssembleEndsEffect
  <2>2. tick.phase = "posting" BY <1>6 DEF TryAssembleEnds
  <2>3. /\ tick.id \in Pooled(entry) /\ m \in Models
        /\ \A k \in Models : tick.id # cold[k].tracked
        /\ Pooled(kept) = Pooled(entry) \ {tick.id}
        /\ \A q \in Pooled(kept) : kept[q].model = entry[q].model
    BY <1>4, <2>2
  <2> HIDE DEF kept
  <2>4. /\ Pooled(e) = Pooled(kept) \cup {p} /\ \A q \in Pooled(kept) : e[q] = kept[q]
        /\ e[p].model = m
    BY <2>1 DEF Added, Pooled
  <2>5. ASSUME NEW k \in Models PROVE Fits(Standing(e, k), ClaimsFor(tick.plan, k), k)
    <3> DEFINE S == Standing(entry, k)
               C == ClaimsFor(tick.plan, k)
               T == Standing(e, k)
               R == S \ {tick.id}
    <3>1. /\ Fits(S, C, k) /\ IsFiniteSet(S) /\ IsFiniteSet(C) /\ IsFiniteSet(T)
          /\ Cardinality(S) \in Nat /\ Cardinality(C) \in Nat
      BY <1>1, StandingFinite, ClaimsFinite DEF CeilingSound, FitAll
    <3>2. Cardinality(T) <= Cardinality(S)
      <4>1. CASE k # m
        <5>1. T \subseteq S
          BY <2>3, <2>4, <4>1 DEF Standing, GetPool
        <5> QED BY <3>1, <5>1, FS_Subset
      <4>2. CASE k = m
        <5>1. tick.id \in S /\ T \subseteq R \cup {p}
          BY <2>3, <2>4, <4>2 DEF Standing, GetPool
        <5>2. IsFiniteSet(R) /\ Cardinality(R) = Cardinality(S) - 1
          BY <3>1, <5>1, FS_RemoveElement
        <5> HIDE DEF R, S, T
        <5>3. /\ IsFiniteSet(R \cup {p})
              /\ Cardinality(R \cup {p}) = IF p \in R THEN Cardinality(R) ELSE Cardinality(R) + 1
          BY <5>2, FS_AddElement
        <5>4. IsFiniteSet(T) /\ Cardinality(T) <= Cardinality(R \cup {p})
          BY <5>1, <5>3, FS_Subset
        <5>5. Cardinality(T) \in Nat BY <5>4, FS_CardinalityType
        <5> QED BY <3>1, <5>2, <5>3, <5>4, <5>5
      <4> QED BY <4>1, <4>2
    <3>3. Cardinality(C) <= Cardinality(C) BY <3>1
    <3> HIDE DEF S, C, T
    <3>4. Fits(T, C, k) BY <3>1, <3>2, <3>3, FitsFewer
    <3> QED BY <3>4 DEF T, C
  <2>6. FitAll(e, tick.plan) BY <2>5 DEF FitAll
  <2> QED BY <1>0, <1>1, <2>1, <2>6, CarryOutCeiling
<1> QED BY <1>2, <1>3, <1>5, <1>6 DEF RunOnce

\* Every step keeps the bound.
LEMMA StepCeiling == CInv /\ [Next]_vars => CInv'
<1> SUFFICES ASSUME CInv, [Next]_vars PROVE CInv'
  OBVIOUS
<1>1. SUFFICES CeilingSound'
  BY StepSound DEF CInv
<1>2. ASSUME UNCHANGED <<entry, cold, tick>> PROVE CeilingSound'
  BY <1>2, CeilingKept
<1>3. CASE \E m \in Models : ColdStartSteps(m)
  BY <1>3, ColdStartCeiling
<1>4. CASE RunOnce
  BY <1>4, RunOnceCeiling
<1>5. ASSUME NEW r \in Requests, Routing(r) PROVE CeilingSound'
  <2> USE TypeParts DEF CInv, IInv
  <2>1. ASSUME NEW m \in Models, GenerateFromPool(r, m) PROVE CeilingSound'
    <3>1. entry' = entry /\ cold' = cold /\ tick'.plan = tick.plan
      BY <2>1 DEF GenerateFromPool, Tick
    <3> QED BY <3>1, CeilingKept
  <2>2. ASSUME NEW m \in Models, GenerateFromCold(r, m) PROVE CeilingSound'
    <3>1. /\ tick' = tick
          /\ (entry' = entry /\ cold' = cold) \/ (cold[m] = NoColdStart /\ ColdStartBegins(m))
      BY <2>2 DEF GenerateFromCold
    <3> QED BY <3>1, CeilingKept, ColdStartBeginsCeiling
  <2>3. CASE (\E m \in Models : ChatFromRegistry(r, m)) \/ Completed(r)
    BY <1>2, <2>3 DEF ChatFromRegistry, Completed
  <2>4. CASE ForwardFailed(r)
    <3> DEFINE named == {p \in GetPool(entry, req[r].model) :
                           entry[p].state # "assembling" /\ entry[p].launcher = req[r].node}
    <3>1. tick' = tick /\ cold' = cold /\ (entry' = entry \/ entry' = MarkEntryFailed(entry, named))
      BY <2>4 DEF ForwardFailed
    <3> HIDE DEF named
    <3>2. /\ Pooled(entry') = Pooled(entry)
          /\ \A p \in Pooled(entry) : entry'[p].model = entry[p].model
      BY <3>1, MarkEntryFailedEffect DEF Sound
    <3> QED BY <3>1, <3>2, CeilingKept
  <2> QED BY <1>5, <2>1, <2>2, <2>3, <2>4 DEF Routing
<1>6. CASE \E l \in Launchers : HandleCall(l) \/ CallLost(l) \/ AgentDies(l)
  <2>1. UNCHANGED <<entry, cold, tick>>
    BY <1>6 DEF HandleCall, PostSpawns, PostFailsToSpawn, PostRefused, DeleteStops, CallLost,
                Answered, AgentDies
  <2> QED BY <1>2, <2>1
<1>7. CASE \E l \in Launchers : LauncherRegisters(l)
  BY <1>7, LauncherRegistersCeiling
<1>8. CASE \/ \E l \in Launchers : \/ DriverExpires(l) \/ DriverEjected(l) \/ DriverRestored(l)
                                  \/ LauncherLapses(l)
           \/ \E n \in Nodes : NodeLeaves(n) \/ NodeJoins(n)
  <2>1. UNCHANGED <<entry, cold, tick>>
    BY <1>8 DEF DriverExpires, DriverEjected, DriverRestored, LauncherLapses, NodeLeaves, NodeJoins
  <2> QED BY <1>2, <2>1
<1>9. CASE UNCHANGED vars
  BY <1>2, <1>9 DEF vars
<1> QED BY <1>3, <1>4, <1>5, <1>6, <1>7, <1>8, <1>9 DEF Next, Environment

\* At first there is no entry and no claim.
LEMMA InitCeiling == Init => CInv
<1> SUFFICES ASSUME Init PROVE CInv
  OBVIOUS
<1>1. IInv BY InitSound
<1>2. \A k \in Models : Standing(entry, k) = {} /\ ClaimsFor(tick.plan, k) = {}
  BY DEF Init, IdleTick, Standing, GetPool, Pooled, ClaimsFor
<1>3. Cardinality({}) = 0 BY FS_EmptySet
<1>4. \A k \in Models : MaxPipelines[k] \in Nat BY CatalogAssumption
<1>5. CeilingSound BY <1>2, <1>3, <1>4 DEF CeilingSound, FitAll, Fits
<1> QED BY <1>1, <1>5 DEF CInv

(***************************************************************************)
(* However passes, cold starts, faults and registrations interleave, and   *)
(* for every ceiling: a pool with the claims still to be carried out for   *)
(* it is past maxPipelines by one entry at most.                           *)
(***************************************************************************)
THEOREM CeilingOverrun == Spec => []CeilingOverrunByOne
<1>1. CInv => CeilingOverrunByOne
  BY DEF CInv, CeilingSound, FitAll, Fits, CeilingOverrunByOne
<1> QED BY <1>1, InitCeiling, StepCeiling, PTL DEF Spec

=============================================================================
