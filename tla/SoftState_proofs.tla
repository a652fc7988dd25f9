--------------------------- MODULE SoftState_proofs ---------------------------
(***************************************************************************)
(* The coordinator's soft state, for any number of endpoints and of ids,   *)
(* any timeout and any window: the registries that prune when a call       *)
(* happens to meet an entry implement the one that prunes at once, and the *)
(* list of requests that drops a prefix counts what the window holds.      *)
(***************************************************************************)
EXTENDS SoftState, SequenceTheorems, WellFoundedInduction, TLAPS

(***************************************************************************)
(* The inductive invariant.  Expired entries count: an endpoint that       *)
(* registers again while its old entry is expired must not find two.       *)
(***************************************************************************)
Entries == [endpoint : Endpoints, age : 0 .. Timeout + 1]

MapOK ==
  /\ DOMAIN stored \subseteq Given
  /\ stored \in [DOMAIN stored -> Entries]
  /\ \A i, j \in DOMAIN stored : stored[i].endpoint = stored[j].endpoint => i = j
  /\ kind = "node" => \A i \in DOMAIN stored : stored[i].endpoint = i

\* The record of an endpoint is that of its id, registered or not.
RecordOK ==
  /\ votes \in [Ids -> [agree : 0 .. MaxVotes, disagree : 0 .. MaxVotes]]
  /\ disgraced \subseteq Endpoints
  /\ \A i \in Ids : Trusted(votes, i) <=> i \notin disgraced
  /\ kind # "node" => disgraced = {}

\* The requests of the last ticks, however many, are the end of the list.
Ordered(list, count) ==
  /\ list \in Seq(0 .. Window + 1)
  /\ \A j, k \in 1 .. Len(list) : j <= k => list[j] >= list[k]
  /\ \A a \in 0 .. Window - 1 :
       /\ count[a] \in 0 .. Len(list)
       /\ \A k \in 1 .. Len(list) : list[k] <= a <=> k > Len(list) - count[a]

DemandOK == lately \in [0 .. Window - 1 -> Nat] /\ Ordered(requests, lately)

IdsOK == kind \in {"node", "launcher", "peer", "demand"} /\ next \in 1 .. MaxIds + 1

RInv == IdsOK /\ MapOK /\ RecordOK /\ DemandOK

-----------------------------------------------------------------------------
(* The map. *)

LEMMA Bounds ==
  /\ Timeout \in Nat /\ Window \in Nat /\ Window > 0 /\ MinSamples \in Nat /\ MinSamples > 0
  /\ MaxIds \in Nat /\ MaxVotes \in Nat /\ MaxRequests \in Nat
BY SoftStateAssumption

(***************************************************************************)
(* A url is registered as an endpoint, and as one only.                    *)
(***************************************************************************)
LEMMA Spellings ==
  /\ \A e \in Endpoints : Slashed[e] \notin Endpoints
  /\ \A url \in Written : Normalized(url) \in Endpoints
<1>1. /\ Slashed \in [Endpoints -> Range(Slashed) \ Endpoints]
  BY SoftStateAssumption
<1>2. \A e \in Endpoints : Slashed[e] \notin Endpoints BY <1>1
<1>3. ASSUME NEW url \in Written PROVE Normalized(url) \in Endpoints
  <2>1. DOMAIN Slashed = Endpoints BY <1>1
  <2>2. \E e \in Endpoints : url \in {e, Slashed[e]} BY <2>1 DEF Written, Range
  <2> QED BY <2>2 DEF Normalized
<1> QED BY <1>2, <1>3

LEMMA GivenIds == IdsOK => Given \subseteq Ids
BY Bounds DEF Given, Ids, Written, IdsOK

(***************************************************************************)
(* A map that loses entries: the live ones that stay are the live ones.    *)
(***************************************************************************)
LEMMA Restricted ==
  ASSUME MapOK, NEW S, S \subseteq DOMAIN stored, stored' = Restrict(stored, S),
         kind' = kind, next' = next
  PROVE  /\ MapOK'
         /\ LiveEntries' = {r \in LiveEntries : r.id \in S}
<1>1. /\ DOMAIN stored' = S
      /\ \A i \in S : stored'[i] = stored[i]
      /\ stored' = [i \in S |-> stored'[i]]
  BY DEF Restrict
<1>2. stored' \in [S -> Entries]
  <2>1. \A i \in S : stored[i] \in Entries BY DEF MapOK
  <2>2. [i \in S |-> stored[i]] \in [S -> Entries] BY <2>1
  <2> QED BY <2>2 DEF Restrict
<1>3. MapOK' BY <1>1, <1>2 DEF MapOK, Given, Entries
<1>4. LiveIds' = {i \in LiveIds : i \in S} BY <1>1 DEF LiveIds, Live
<1>5. LiveEntries' = {r \in LiveEntries : r.id \in S}
  BY <1>1, <1>4 DEF LiveEntries, LiveIds
<1> QED BY <1>3, <1>5

LEMMA PrunedKeeps ==
  ASSUME MapOK, stored' = Pruned, kind' = kind, next' = next
  PROVE  MapOK' /\ LiveEntries' = LiveEntries
<1>1. PICK S : S = LiveIds OBVIOUS
<1>2. S \subseteq DOMAIN stored /\ stored' = Restrict(stored, S) BY <1>1 DEF Pruned, LiveIds
<1>3. MapOK' /\ LiveEntries' = {r \in LiveEntries : r.id \in S} BY <1>2, Restricted
<1>4. \A r \in LiveEntries : r.id \in S BY <1>1 DEF LiveEntries
<1> QED BY <1>3, <1>4

(***************************************************************************)
(* One that has a live entry refreshed, and may lose expired ones.         *)
(***************************************************************************)
Entry(i) == [id |-> i, endpoint |-> stored[i].endpoint, age |-> stored[i].age]
Renewed(i) == [id |-> i, endpoint |-> stored[i].endpoint, age |-> 0]

LEMMA Refreshed ==
  ASSUME MapOK, NEW S, S \subseteq DOMAIN stored, LiveIds \subseteq S, NEW i \in LiveIds,
         stored' = [Restrict(stored, S) EXCEPT ![i].age = 0], kind' = kind, next' = next
  PROVE  /\ MapOK'
         /\ Entry(i) \in LiveEntries
         /\ LiveEntries' = (LiveEntries \ {Entry(i)}) \cup {Renewed(i)}
         /\ LiveEntries' = {IF r.id = i THEN Renewed(i) ELSE r : r \in LiveEntries}
<1>1. i \in S /\ i \in DOMAIN stored OBVIOUS
<1>2. stored[i] \in Entries BY <1>1 DEF MapOK
<1>3. /\ DOMAIN stored' = S /\ stored'[i] = [stored[i] EXCEPT !.age = 0]
      /\ \A j \in S : j # i => stored'[j] = stored[j]
      /\ stored' = [j \in S |-> stored'[j]]
  BY <1>1 DEF Restrict
<1>4. stored'[i].endpoint = stored[i].endpoint /\ stored'[i].age = 0 /\ stored'[i] \in Entries
  BY <1>2, <1>3, Bounds DEF Entries
<1>5. stored' \in [S -> Entries]
  <2>1. \A j \in S : stored[j] \in Entries BY DEF MapOK
  <2>2. \A j \in S : stored'[j] \in Entries BY <1>3, <1>4, <2>1
  <2> QED BY <1>3, <2>2
<1>6. MapOK' BY <1>3, <1>4, <1>5 DEF MapOK, Given, Entries
<1>7. LiveIds' = LiveIds BY <1>1, <1>3, <1>4, Bounds DEF LiveIds, Live
<1>8. Entry(i) \in LiveEntries BY DEF Entry, LiveEntries
<1>9. \A r \in LiveEntries : r.id = i => r = Entry(i) BY DEF Entry, LiveEntries
<1>10. LiveEntries' = {IF r.id = i THEN Renewed(i) ELSE r : r \in LiveEntries}
  <2>1. LiveEntries' = {[id |-> j, endpoint |-> stored'[j].endpoint, age |-> stored'[j].age] :
                          j \in LiveIds}
    BY <1>7 DEF LiveEntries
  <2>2. \A j \in LiveIds :
          [id |-> j, endpoint |-> stored'[j].endpoint, age |-> stored'[j].age]
            = IF Entry(j).id = i THEN Renewed(i) ELSE Entry(j)
    BY <1>3, <1>4 DEF Entry, Renewed
  <2>3. LiveEntries = {Entry(j) : j \in LiveIds} BY DEF LiveEntries, Entry
  <2> QED BY <2>1, <2>2, <2>3
<1>11. LiveEntries' = (LiveEntries \ {Entry(i)}) \cup {Renewed(i)}
  <2>1. Entry(i).id = i BY DEF Entry
  <2> QED BY <1>8, <1>9, <1>10, <2>1
<1> QED BY <1>6, <1>8, <1>10, <1>11

(***************************************************************************)
(* One that has an entry added, or replaced, under an id that is free or   *)
(* the endpoint's own.                                                     *)
(***************************************************************************)
Added(i, e) == [id |-> i, endpoint |-> e, age |-> 0]

LEMMA Extended ==
  ASSUME MapOK, NEW S, S \subseteq DOMAIN stored, LiveIds \subseteq S,
         NEW e \in Endpoints, NEW i, i \in Given', Given \subseteq Given',
         stored' = Put(Restrict(stored, S), i, e), kind' = kind,
         \A j \in S : stored[j].endpoint = e => j = i,
         kind = "node" => i = e
  PROVE  /\ MapOK'
         /\ LiveEntries' = {r \in LiveEntries : r.id # i} \cup {Added(i, e)}
<1>1. /\ DOMAIN stored' = S \cup {i}
      /\ stored'[i] = [endpoint |-> e, age |-> 0]
      /\ \A j \in S : j # i => stored'[j] = stored[j]
      /\ stored' = [j \in S \cup {i} |-> stored'[j]]
  BY DEF Put, Restrict, New
<1>2. stored'[i] \in Entries BY <1>1, Bounds DEF Entries
<1>3. stored' \in [S \cup {i} -> Entries]
  <2>1. \A j \in S : stored[j] \in Entries BY DEF MapOK
  <2>2. \A j \in S \cup {i} : stored'[j] \in Entries BY <1>1, <1>2, <2>1
  <2> QED BY <1>1, <2>2
<1>4. MapOK'
  <2>1. DOMAIN stored' \subseteq Given' BY <1>1 DEF MapOK
  <2>2. \A j, k \in DOMAIN stored' : stored'[j].endpoint = stored'[k].endpoint => j = k
    BY <1>1 DEF MapOK
  <2>3. kind' = "node" => \A j \in DOMAIN stored' : stored'[j].endpoint = j
    BY <1>1 DEF MapOK
  <2>4. Entries' = Entries BY DEF Entries
  <2> QED BY <1>1, <1>3, <2>1, <2>2, <2>3, <2>4 DEF MapOK
<1>5. LiveIds' = LiveIds \cup {i}
  <2>1. stored'[i].age <= Timeout BY <1>1, Bounds
  <2> QED BY <1>1, <2>1 DEF LiveIds, Live
<1>6. LiveEntries' = {r \in LiveEntries : r.id # i} \cup {Added(i, e)}
  <2>1. LiveEntries' = {[id |-> j, endpoint |-> stored'[j].endpoint, age |-> stored'[j].age] :
                          j \in LiveIds \cup {i}}
    BY <1>5 DEF LiveEntries
  <2>2. [id |-> i, endpoint |-> stored'[i].endpoint, age |-> stored'[i].age] = Added(i, e)
    BY <1>1 DEF Added
  <2>3. \A j \in LiveIds : j # i =>
          [id |-> j, endpoint |-> stored'[j].endpoint, age |-> stored'[j].age] = Entry(j)
    BY <1>1 DEF Entry
  <2>4. LiveEntries = {Entry(j) : j \in LiveIds} /\ \A j : Entry(j).id = j
    BY DEF LiveEntries, Entry
  <2> QED BY <2>1, <2>2, <2>3, <2>4
<1> QED BY <1>4, <1>6

(***************************************************************************)
(* And one that ages: what was at the limit expires.                       *)
(***************************************************************************)
LEMMA Aged ==
  ASSUME MapOK, kind' = kind, next' = next,
         stored' = [i \in DOMAIN stored |-> [stored[i] EXCEPT !.age = Older(@, Timeout)]]
  PROVE  /\ MapOK'
         /\ LiveEntries' = {[r EXCEPT !.age = r.age + 1] : r \in {s \in LiveEntries : s.age < Timeout}}
<1>1. DOMAIN stored' = DOMAIN stored /\ stored' = [j \in DOMAIN stored |-> stored'[j]]
  OBVIOUS
<1>2. ASSUME NEW i \in DOMAIN stored
      PROVE  /\ stored'[i] \in Entries /\ stored'[i].endpoint = stored[i].endpoint
             /\ stored[i].age \in Nat
             /\ stored'[i].age <= Timeout <=> stored[i].age < Timeout
             /\ stored[i].age < Timeout => stored'[i].age = stored[i].age + 1
             /\ stored[i].age < Timeout => stored[i].age <= Timeout
  <2>1. stored[i] \in Entries BY DEF MapOK
  <2>2. stored[i].age \in 0 .. Timeout + 1 /\ stored[i].endpoint \in Endpoints
    BY <2>1 DEF Entries
  <2>3. stored'[i] = [stored[i] EXCEPT !.age = Older(stored[i].age, Timeout)] OBVIOUS
  <2>4. stored'[i] = [endpoint |-> stored[i].endpoint, age |-> Older(stored[i].age, Timeout)]
    BY <2>1, <2>3 DEF Entries
  <2>5. Older(stored[i].age, Timeout) \in 0 .. Timeout + 1 BY <2>2, Bounds DEF Older
  <2> QED BY <2>2, <2>4, <2>5, Bounds DEF Entries, Older
<1>3. stored' \in [DOMAIN stored -> Entries] BY <1>1, <1>2
<1>4. MapOK' BY <1>1, <1>2, <1>3 DEF MapOK, Given, Entries
<1>5. LiveIds' = {i \in LiveIds : stored[i].age < Timeout}
  <2>2. \A i \in DOMAIN stored : i \in LiveIds <=> stored[i].age <= Timeout
    BY DEF LiveIds, Live
  <2>3. \A i : i \in LiveIds' <=> i \in DOMAIN stored /\ stored'[i].age <= Timeout
    BY <1>1 DEF LiveIds, Live
  <2> QED BY <1>2, <2>2, <2>3 DEF LiveIds
<1>6. LiveEntries' = {[r EXCEPT !.age = r.age + 1] : r \in {s \in LiveEntries : s.age < Timeout}}
  <2>1. LiveEntries' = {[id |-> j, endpoint |-> stored'[j].endpoint, age |-> stored'[j].age] :
                          j \in {i \in LiveIds : stored[i].age < Timeout}}
    BY <1>5 DEF LiveEntries
  <2>2. \A j \in LiveIds : stored[j].age < Timeout =>
          [id |-> j, endpoint |-> stored'[j].endpoint, age |-> stored'[j].age]
            = [Entry(j) EXCEPT !.age = Entry(j).age + 1]
    BY <1>2 DEF Entry, LiveIds
  <2>3. LiveEntries = {Entry(j) : j \in LiveIds} /\ \A j : Entry(j).age = stored[j].age
    BY DEF LiveEntries, Entry
  <2> DEFINE Later(r) == [r EXCEPT !.age = r.age + 1]
             young == {i \in LiveIds : stored[i].age < Timeout}
  <2>4. LiveEntries' = {Later(Entry(j)) : j \in young}
    <3>1. \A j \in young :
            [id |-> j, endpoint |-> stored'[j].endpoint, age |-> stored'[j].age] = Later(Entry(j))
      BY <2>2
    <3> HIDE DEF Later, young
    <3>2. LiveEntries' = {[id |-> j, endpoint |-> stored'[j].endpoint, age |-> stored'[j].age] :
                            j \in young}
      BY <2>1 DEF young
    <3> QED BY <3>1, <3>2
  <2>5. {s \in LiveEntries : s.age < Timeout} = {Entry(j) : j \in young} BY <2>3
  <2> HIDE DEF Later
  <2>6. LiveEntries' = {Later(r) : r \in {s \in LiveEntries : s.age < Timeout}}
    BY <2>4, <2>5
  <2> QED BY <2>6 DEF Later
<1> QED BY <1>4, <1>6
-----------------------------------------------------------------------------
(* The list of requests. *)

LEMMA LeastOf ==
  ASSUME NEW T, T \subseteq Nat, NEW m \in T, \A k \in T : m <= k
  PROVE  Min(T) = m
<1>1. Min(T) \in T /\ \A k \in T : Min(T) <= k BY DEF Min
<1>2. Min(T) \in Nat /\ m \in Nat /\ Min(T) <= m /\ m <= Min(T) BY <1>1
<1> QED BY <1>2

LEMMA Ages ==
  ASSUME NEW list \in Seq(0 .. Window + 1)
  PROVE  /\ Len(list) \in Nat
         /\ \A k \in 1 .. Len(list) : list[k] \in 0 .. Window + 1 /\ list[k] \in Nat
<1>1. \A k \in 1 .. Len(list) : list[k] \in 0 .. Window + 1 BY ElementOfSeq
<1>2. 0 .. Window + 1 \subseteq Nat OBVIOUS
<1> QED BY <1>1, <1>2

(***************************************************************************)
(* What pruneExpired leaves is what came within the window: the list is in *)
(* order, so the expired ones are a prefix, and it drops just that.        *)
(***************************************************************************)
LEMMA PrunedList ==
  ASSUME NEW list, NEW count, Ordered(list, count)
  PROVE  /\ Ordered(PruneExpired(list), count)
         /\ Len(PruneExpired(list)) = count[Window - 1]
<1>1. PICK n : n = count[Window - 1] OBVIOUS
<1>2. PICK len : len = Len(list) OBVIOUS
<1>3. list \in Seq(0 .. Window + 1) BY DEF Ordered
<1>4. /\ len \in Nat
      /\ \A k \in 1 .. len : list[k] \in 0 .. Window + 1 /\ list[k] \in Nat
  BY <1>2, <1>3, Ages
<1>5. /\ n \in Nat /\ n <= len
      /\ \A k \in 1 .. len : list[k] <= Window - 1 <=> k > len - n
  <2>1. Window - 1 \in 0 .. Window - 1 BY Bounds
  <2>2. count[Window - 1] \in 0 .. Len(list) BY <2>1 DEF Ordered
  <2>3. \A k \in 1 .. len : list[k] <= Window - 1 <=> k > len - n
    BY <1>1, <1>2, <2>1 DEF Ordered
  <2> QED BY <1>1, <1>2, <1>4, <2>2, <2>3
<1>6. \A k \in 1 .. len : InWindow(list[k]) <=> k > len - n
  BY <1>4, <1>5, Bounds DEF InWindow
<1>7. FirstLive(list) = len - n + 1
  <2> DEFINE live == {k \in 1 .. len : InWindow(list[k])}
  <2>1. CASE n = 0
    <3>1. live = {} BY <1>4, <1>5, <1>6, <2>1
    <3> QED BY <1>2, <1>4, <2>1, <3>1 DEF FirstLive
  <2>2. CASE n # 0
    <3>1. len - n + 1 \in live /\ \A k \in live : len - n + 1 <= k
      BY <1>4, <1>5, <1>6, <2>2
    <3>2. live \subseteq Nat /\ live # {} BY <3>1
    <3> HIDE DEF live
    <3>3. Min(live) = len - n + 1 BY <3>1, <3>2, LeastOf
    <3> QED BY <1>2, <3>2, <3>3 DEF FirstLive, live
  <2> QED BY <2>1, <2>2
<1>8. PICK kept : kept = PruneExpired(list) OBVIOUS
<1>9. /\ kept \in Seq(0 .. Window + 1) /\ Len(kept) = n
      /\ \A k \in 1 .. n : kept[k] = list[k + len - n]
  <2>1. kept = SubSeq(list, len - n + 1, len) BY <1>2, <1>7, <1>8 DEF PruneExpired
  <2>2. len - n + 1 \in Int /\ len \in Int BY <1>4, <1>5
  <2>3. \A i \in len - n + 1 .. len : list[i] \in 0 .. Window + 1 BY <1>4, <1>5
  <2>4. /\ kept \in Seq(0 .. Window + 1)
        /\ Len(kept) = IF len - n + 1 <= len THEN len - (len - n + 1) + 1 ELSE 0
        /\ \A i \in 1 .. len - (len - n + 1) + 1 : kept[i] = list[(len - n + 1) + i - 1]
    BY <2>1, <2>2, <2>3, SubSeqProperties
  <2>5. /\ len - (len - n + 1) + 1 = n /\ (len - n + 1 <= len <=> n # 0)
        /\ \A i \in 1 .. n : (len - n + 1) + i - 1 = i + len - n
    BY <1>4, <1>5
  <2> QED BY <2>4, <2>5
<1>10. ASSUME NEW a \in 0 .. Window - 1
       PROVE  /\ count[a] \in 0 .. n
              /\ \A k \in 1 .. n : kept[k] <= a <=> k > n - count[a]
  <2>1. /\ count[a] \in 0 .. len
        /\ \A k \in 1 .. len : list[k] <= a <=> k > len - count[a]
    BY <1>2 DEF Ordered
  <2>2. ASSUME count[a] > n PROVE FALSE
    <3>1. len - count[a] + 1 \in 1 .. len BY <1>4, <1>5, <2>1, <2>2
    <3>2. len - count[a] + 1 > len - count[a] BY <1>4, <2>1
    <3>3. list[len - count[a] + 1] <= a BY <2>1, <3>1, <3>2
    <3>4. list[len - count[a] + 1] <= Window - 1 BY <1>4, <3>1, <3>3, Bounds
    <3>5. len - count[a] + 1 > len - n BY <1>5, <3>1, <3>4
    <3> QED BY <1>4, <1>5, <2>1, <2>2, <3>5
  <2>3. ASSUME NEW k \in 1 .. n PROVE kept[k] <= a <=> k > n - count[a]
    <3>1. k + len - n \in 1 .. len BY <1>4, <1>5
    <3>2. list[k + len - n] <= a <=> k + len - n > len - count[a] BY <2>1, <3>1
    <3>3. k + len - n > len - count[a] <=> k > n - count[a] BY <1>4, <1>5, <2>1
    <3> QED BY <1>9, <3>2, <3>3
  <2> QED BY <1>4, <1>5, <2>1, <2>2, <2>3
<1>11. ASSUME NEW j \in 1 .. n, NEW k \in 1 .. n, j <= k PROVE kept[j] >= kept[k]
  <2>1. j + len - n \in 1 .. len /\ k + len - n \in 1 .. len /\ j + len - n <= k + len - n
    BY <1>4, <1>5, <1>11
  <2>2. list[j + len - n] >= list[k + len - n] BY <1>2, <2>1 DEF Ordered
  <2> QED BY <1>9, <2>2
<1>12. Ordered(kept, count)
  BY <1>9, <1>10, <1>11 DEF Ordered
<1> QED BY <1>1, <1>8, <1>9, <1>12

(***************************************************************************)
(* A request is the youngest; a tick later all are a tick older.           *)
(***************************************************************************)
LEMMA PushedList ==
  ASSUME NEW list, NEW count, Ordered(list, count)
  PROVE  Ordered(Append(list, 0), [a \in 0 .. Window - 1 |-> count[a] + 1])
<1>1. PICK n : n = Len(list) OBVIOUS
<1>2. /\ list \in Seq(0 .. Window + 1) /\ 0 \in 0 .. Window + 1 BY Bounds DEF Ordered
<1>3. n \in Nat /\ \A k \in 1 .. n : list[k] \in Nat BY <1>1, <1>2, Ages
<1>4. PICK grown : grown = Append(list, 0) OBVIOUS
<1>5. /\ grown \in Seq(0 .. Window + 1) /\ Len(grown) = n + 1 /\ grown[n + 1] = 0
      /\ \A k \in 1 .. n : grown[k] = list[k]
  BY <1>1, <1>2, <1>4, AppendProperties
<1>6. ASSUME NEW j \in 1 .. n + 1, NEW k \in 1 .. n + 1, j <= k PROVE grown[j] >= grown[k]
  <2>1. CASE k = n + 1
    <3>1. j = n + 1 \/ j \in 1 .. n BY <1>3
    <3> QED BY <1>3, <1>5, <2>1, <3>1
  <2>2. CASE k # n + 1
    <3>1. j \in 1 .. n /\ k \in 1 .. n BY <1>3, <1>6, <2>2
    <3> QED BY <1>1, <1>5, <1>6, <3>1 DEF Ordered
  <2> QED BY <2>1, <2>2
<1>7. ASSUME NEW a \in 0 .. Window - 1
      PROVE  /\ count[a] + 1 \in 0 .. n + 1
             /\ \A k \in 1 .. n + 1 : grown[k] <= a <=> k > (n + 1) - (count[a] + 1)
  <2>1. /\ count[a] \in 0 .. n
        /\ \A k \in 1 .. n : list[k] <= a <=> k > n - count[a]
    BY <1>1 DEF Ordered
  <2>2. ASSUME NEW k \in 1 .. n + 1 PROVE grown[k] <= a <=> k > (n + 1) - (count[a] + 1)
    <3>1. CASE k = n + 1 BY <1>3, <1>5, <2>1, <3>1
    <3>2. CASE k # n + 1
      <4>1. k \in 1 .. n BY <1>3, <3>2
      <4>2. (n + 1) - (count[a] + 1) = n - count[a] BY <1>3, <2>1
      <4> QED BY <1>5, <2>1, <4>1, <4>2
    <3> QED BY <3>1, <3>2
  <2> QED BY <1>3, <2>1, <2>2
<1>8. PICK c : c = [a \in 0 .. Window - 1 |-> count[a] + 1] OBVIOUS
<1>9. \A a \in 0 .. Window - 1 : c[a] = count[a] + 1 BY <1>8
<1>10. Ordered(grown, c) BY <1>5, <1>6, <1>7, <1>9 DEF Ordered
<1> QED BY <1>4, <1>8, <1>10

LEMMA AgedList ==
  ASSUME NEW list, NEW count, Ordered(list, count)
  PROVE  Ordered([k \in 1 .. Len(list) |-> Older(list[k], Window)],
                 [a \in 0 .. Window - 1 |-> IF a = 0 THEN 0 ELSE count[a - 1]])
<1>1. PICK n : n = Len(list) OBVIOUS
<1>2. list \in Seq(0 .. Window + 1) BY DEF Ordered
<1>3. n \in Nat /\ \A k \in 1 .. n : list[k] \in Nat /\ list[k] \in 0 .. Window + 1
  BY <1>1, <1>2, Ages
<1>4. PICK aged : aged = [k \in 1 .. n |-> Older(list[k], Window)] OBVIOUS
<1>5. /\ aged \in Seq(0 .. Window + 1) /\ Len(aged) = n
      /\ \A k \in 1 .. n : aged[k] = Older(list[k], Window)
  <2>1. \A k \in 1 .. n : Older(list[k], Window) \in 0 .. Window + 1
    BY <1>3, Bounds DEF Older
  <2>2. aged \in [1 .. n -> 0 .. Window + 1] BY <1>4, <2>1
  <2> QED BY <1>3, <1>4, <2>2, SeqDef, LenProperties
<1>6. ASSUME NEW j \in 1 .. n, NEW k \in 1 .. n, j <= k PROVE aged[j] >= aged[k]
  <2>1. list[j] >= list[k] BY <1>1, <1>6 DEF Ordered
  <2> QED BY <1>3, <1>5, <2>1, Bounds DEF Older
<1>7. PICK c : c = [a \in 0 .. Window - 1 |-> IF a = 0 THEN 0 ELSE count[a - 1]] OBVIOUS
<1>8. ASSUME NEW a \in 0 .. Window - 1
      PROVE  c[a] \in 0 .. n /\ \A k \in 1 .. n : aged[k] <= a <=> k > n - c[a]
  <2>1. CASE a = 0
    <3>1. c[a] = 0 BY <1>7, <2>1
    <3>2. \A k \in 1 .. n : ~(aged[k] <= 0)
      <4> TAKE k \in 1 .. n
      <4>1. aged[k] = (IF list[k] > Window THEN list[k] ELSE list[k] + 1) BY <1>5 DEF Older
      <4>2. list[k] \in Nat /\ Window \in Nat /\ Window > 0 BY <1>3, Bounds
      <4> QED BY <4>1, <4>2
    <3> QED BY <1>3, <2>1, <3>1, <3>2
  <2>2. CASE a # 0
    <3>1. a - 1 \in 0 .. Window - 1 /\ c[a] = count[a - 1] BY <1>7, <2>2, Bounds
    <3>2. /\ count[a - 1] \in 0 .. n
          /\ \A k \in 1 .. n : list[k] <= a - 1 <=> k > n - count[a - 1]
      BY <1>1, <3>1 DEF Ordered
    <3>3. \A k \in 1 .. n : aged[k] <= a <=> list[k] <= a - 1
      BY <1>3, <1>5, Bounds DEF Older
    <3> QED BY <3>1, <3>2, <3>3
  <2> QED BY <2>1, <2>2
<1>9. Ordered(aged, c) BY <1>5, <1>6, <1>8 DEF Ordered
<1> QED BY <1>1, <1>4, <1>7, <1>9
-----------------------------------------------------------------------------
(* The steps: each keeps the invariant, and is one of the eager registry's. *)

Untrusted == {i \in Ids : ~Trusted(votes, i)}
EagerVars == <<kind, LiveEntries, next, answer, Untrusted>>

LEMMA EagerNextIs ==
  ASSUME \/ Eager!Tick \/ Eager!ListActive
         \/ \E op \in Eager!Calls : Eager!Refused(op)
         \/ \E e \in Endpoints : Eager!Register(e)
         \/ \E i \in Ids : \/ Eager!Heartbeat(i) \/ Eager!Deregister(i)
                           \/ Eager!Vote(i) \/ Eager!GetReputation(i)
         \/ UNCHANGED EagerVars
  PROVE  [Eager!Next]_(Eager!vars)
BY DEF Eager!Next, Eager!vars, EagerVars, Untrusted

LEMMA InitSoftState == Init => RInv /\ Eager!Init
<1> SUFFICES ASSUME Init PROVE RInv /\ Eager!Init
  OBVIOUS
<1>1. DOMAIN stored = {} /\ stored \in [DOMAIN stored -> Entries] BY DEF Init
<1>2. MapOK BY <1>1 DEF MapOK
<1>3. \A i \in Ids : votes[i] = [agree |-> 0, disagree |-> 0] /\ Trusted(votes, i)
  BY Bounds DEF Init, Trusted
<1>4. votes \in [Ids -> [agree : 0 .. MaxVotes, disagree : 0 .. MaxVotes]]
  BY Bounds DEF Init
<1>5. RecordOK BY <1>3, <1>4 DEF RecordOK, Init
<1>6. IdsOK BY Bounds DEF IdsOK, Init
<1>7. DemandOK
  <2>1. /\ requests = <<>> /\ requests \in Seq(0 .. Window + 1) /\ Len(requests) = 0
        /\ lately = [a \in 0 .. Window - 1 |-> 0]
    BY DEF Init
  <2>2. 1 .. 0 = {} /\ 0 \in 0 .. 0 OBVIOUS
  <2> QED BY <2>1, <2>2 DEF DemandOK, Ordered
<1>8. LiveEntries = {} /\ Untrusted = {}
  BY <1>1, <1>3 DEF LiveEntries, LiveIds, Untrusted
<1>9. Eager!Init BY <1>8 DEF Init, Eager!Init, Untrusted
<1> QED BY <1>2, <1>5, <1>6, <1>7, <1>9 DEF RInv

(***************************************************************************)
(* What a step leaves alone.                                               *)
(***************************************************************************)
LEMMA RecordStays ==
  ASSUME RecordOK, UNCHANGED <<kind, votes, disgraced>>
  PROVE  RecordOK' /\ Untrusted' = Untrusted
BY DEF RecordOK, Untrusted, Trusted, Ids, Written

LEMMA DemandStays == ASSUME DemandOK, UNCHANGED tracker PROVE DemandOK'
BY DEF DemandOK, Ordered, tracker

LEMMA LiveHas ==
  ASSUME NEW i
  PROVE  Eager!IsLive(i) <=> i \in LiveIds
<1>1. ASSUME i \in LiveIds PROVE Entry(i) \in LiveEntries /\ Entry(i).id = i
  BY <1>1 DEF Entry, LiveEntries
<1>2. ASSUME i \notin LiveIds PROVE \A r \in LiveEntries : r.id # i
  BY <1>2 DEF LiveEntries
<1> QED BY <1>1, <1>2 DEF Eager!IsLive

(***************************************************************************)
(* Registration.                                                           *)
(***************************************************************************)
LEMMA RegisterNodeKeeps ==
  ASSUME RInv, NEW e \in Endpoints, RegisterNode(e), UNCHANGED <<votes, disgraced, tracker>>
  PROVE  RInv' /\ Eager!Register(e)
<1>1. /\ kind = "node" /\ kind' = kind /\ next' = next /\ stored' = Put(stored, e, e)
      /\ answer' = [op |-> "register", result |-> e]
  BY DEF RegisterNode, StableNodeId
<1>2. PICK S : S = DOMAIN stored OBVIOUS
<1>3. /\ MapOK' /\ LiveEntries' = {r \in LiveEntries : r.id # e} \cup {Added(e, e)}
  <2>1. Restrict(stored, S) = stored BY <1>2 DEF Restrict, RInv, MapOK
  <2>2. e \in Given' /\ Given' = Given BY <1>1 DEF Given
  <2>3. \A j \in S : stored[j].endpoint = e => j = e BY <1>1, <1>2 DEF RInv, MapOK
  <2>4. S \subseteq DOMAIN stored /\ LiveIds \subseteq S BY <1>2 DEF LiveIds
  <2> QED BY <1>1, <2>1, <2>2, <2>3, <2>4, Extended DEF RInv
<1>4. RecordOK' /\ DemandOK' /\ Untrusted' = Untrusted /\ IdsOK'
  BY <1>1, RecordStays, DemandStays DEF RInv, IdsOK
<1>5. CASE e \in LiveIds
  <2>1. stored[e].endpoint = e BY <1>1, <1>5 DEF RInv, MapOK, LiveIds
  <2>2. Entry(e) \in LiveEntries BY <1>5 DEF Entry, LiveEntries
  <2>3. /\ Entry(e).endpoint = e /\ Entry(e).id = e
        /\ [Entry(e) EXCEPT !.age = 0] = Added(e, e)
    BY <2>1 DEF Entry, Added
  <2>4. {r \in LiveEntries : r.id # e} = LiveEntries \ {Entry(e)}
    BY DEF LiveEntries, Entry
  <2>5. LiveEntries' = (LiveEntries \ {Entry(e)}) \cup {[Entry(e) EXCEPT !.age = 0]}
    BY <1>3, <2>3, <2>4
  <2>6. Eager!Register(e)
    BY <1>1, <1>4, <2>2, <2>3, <2>5 DEF Eager!Register, Eager!Fresh, Untrusted
  <2> QED BY <1>3, <1>4, <2>6 DEF RInv
<1>6. CASE e \notin LiveIds
  <2>1. \A r \in LiveEntries : r.endpoint # e /\ r.id # e
    BY <1>1, <1>6 DEF LiveEntries, LiveIds, RInv, MapOK
  <2>2. LiveEntries' = LiveEntries \cup {Added(e, e)} BY <1>3, <2>1
  <2>3. answer'.result = e BY <1>1
  <2>4. Eager!Register(e)
    BY <1>1, <1>4, <2>1, <2>2, <2>3 DEF Eager!Register, Added, Untrusted
  <2> QED BY <1>3, <1>4, <2>4 DEF RInv
<1> QED BY <1>5, <1>6

LEMMA RegisterAtRandomKeeps ==
  ASSUME RInv, NEW e \in Endpoints, RegisterAtRandom(e),
         UNCHANGED <<votes, disgraced, tracker>>
  PROVE  RInv' /\ Eager!Register(e)
<1>1. kind \in {"launcher", "peer"} /\ kind' = kind BY DEF RegisterAtRandom
<1>2. RecordOK' /\ DemandOK' /\ Untrusted' = Untrusted
  BY <1>1, RecordStays, DemandStays DEF RInv
<1>3. /\ next \in Nat /\ next \in 1 .. MaxIds + 1 /\ Given = 1 .. next - 1
      /\ DOMAIN stored \subseteq 1 .. next - 1 /\ MapOK
  BY <1>1, Bounds DEF RInv, IdsOK, MapOK, Given
<1>4. CASE RegisterAgain(e)
  <2>1. PICK i : i = Min(SameEndpoint(e)) OBVIOUS
  <2>2. PICK S : S = DOMAIN stored \ {j \in DOMAIN stored \ LiveIds : j < i} OBVIOUS
  <2>3. /\ SameEndpoint(e) # {} /\ next' = next
        /\ stored' = [Restrict(stored, S) EXCEPT ![i].age = 0]
        /\ answer' = [op |-> "register", result |-> i]
    BY <1>4, <2>1, <2>2 DEF RegisterAgain, Without
  <2>4. i \in LiveIds /\ stored[i].endpoint = e
    <3>1. PICK k \in LiveIds : stored[k].endpoint = e BY <2>3 DEF SameEndpoint
    <3>2. SameEndpoint(e) = {k}
      BY <1>3, <3>1 DEF SameEndpoint, LiveIds, MapOK
    <3>3. k \in Nat BY <1>3, <3>1 DEF LiveIds
    <3>4. Min({k}) = k BY <3>3 DEF Min
    <3> QED BY <2>1, <3>1, <3>2, <3>4
  <2>5. S \subseteq DOMAIN stored /\ LiveIds \subseteq S BY <2>2 DEF LiveIds
  <2>6. /\ MapOK' /\ Entry(i) \in LiveEntries
        /\ LiveEntries' = (LiveEntries \ {Entry(i)}) \cup {Renewed(i)}
    BY <1>1, <1>3, <2>3, <2>4, <2>5, Refreshed
  <2>7. /\ Entry(i).endpoint = e /\ Entry(i).id = i
        /\ [Entry(i) EXCEPT !.age = 0] = Renewed(i)
    BY <2>4 DEF Entry, Renewed
  <2>8. Eager!Register(e)
    BY <1>1, <1>2, <2>3, <2>6, <2>7 DEF Eager!Register, Eager!Fresh, Untrusted
  <2> QED BY <1>1, <1>2, <2>3, <2>6, <2>8 DEF RInv, IdsOK
<1>5. CASE RegisterAnew(e)
  <2>1. /\ SameEndpoint(e) = {} /\ next <= MaxIds /\ next' = next + 1
        /\ stored' = Put(Restrict(stored, LiveIds), next, e)
        /\ answer' = [op |-> "register", result |-> next]
    BY <1>5 DEF RegisterAnew, Pruned
  <2>2. PICK S : S = LiveIds OBVIOUS
  <2>3. PICK i : i = next OBVIOUS
  <2>4. /\ i \in Given' /\ Given \subseteq Given' /\ S \subseteq DOMAIN stored /\ LiveIds \subseteq S
        /\ i \notin DOMAIN stored
    BY <1>1, <1>3, <2>1, <2>2, <2>3 DEF Given, LiveIds
  <2>5. \A j \in LiveIds : stored[j].endpoint # e BY <2>1 DEF SameEndpoint
  <2>6. MapOK' /\ LiveEntries' = {r \in LiveEntries : r.id # i} \cup {Added(i, e)}
    BY <1>1, <1>3, <2>1, <2>2, <2>3, <2>4, <2>5, Extended
  <2>7. \A r \in LiveEntries : r.id # i /\ r.endpoint # e
    BY <2>4, <2>5 DEF LiveEntries, LiveIds
  <2>8. LiveEntries' = LiveEntries \cup {Added(i, e)} BY <2>6, <2>7
  <2>9. IdsOK' BY <1>1, <1>3, <2>1, Bounds DEF IdsOK
  <2>10. answer'.result = next BY <2>1
  <2>11. Eager!Register(e)
    BY <1>1, <1>2, <2>1, <2>3, <2>7, <2>8, <2>10 DEF Eager!Register, Added, Untrusted
  <2> QED BY <1>2, <2>6, <2>9, <2>11 DEF RInv
<1> QED BY <1>4, <1>5 DEF RegisterAtRandom

(***************************************************************************)
(* Heartbeats, and leaving.                                                *)
(***************************************************************************)
LEMMA HeartbeatKeeps ==
  ASSUME RInv, NEW i \in Ids, Heartbeat(i)
  PROVE  RInv' /\ Eager!Heartbeat(i)
<1>1. /\ UNCHANGED <<kind, next, votes, disgraced, tracker>>
      /\ answer' = [op |-> "heartbeat", of |-> i, result |-> IF i \in LiveIds THEN "yes" ELSE "no"]
  BY DEF Heartbeat, Told, Found, Heard
<1>2. RecordOK' /\ DemandOK' /\ IdsOK' /\ Untrusted' = Untrusted
  BY <1>1, RecordStays, DemandStays DEF RInv, IdsOK
<1>3. MapOK' /\ LiveEntries' = {IF r.id = i THEN [r EXCEPT !.age = 0] ELSE r : r \in LiveEntries}
  <2>1. CASE i \in LiveIds
    <3>1. PICK S : S = DOMAIN stored OBVIOUS
    <3>2. stored' = [Restrict(stored, S) EXCEPT ![i].age = 0]
      <4>1. Restrict(stored, S) = stored BY <3>1 DEF Restrict, RInv, MapOK
      <4> QED BY <2>1, <4>1 DEF Heartbeat, Heard, Fresh
    <3>3. S \subseteq DOMAIN stored /\ LiveIds \subseteq S BY <3>1 DEF LiveIds
    <3>4. MapOK' /\ LiveEntries' = {IF r.id = i THEN Renewed(i) ELSE r : r \in LiveEntries}
      BY <1>1, <2>1, <3>2, <3>3, Refreshed DEF RInv
    <3>5. \A r \in LiveEntries : r.id = i => [r EXCEPT !.age = 0] = Renewed(i)
      BY DEF LiveEntries, Renewed
    <3> QED BY <3>4, <3>5
  <2>2. CASE i \notin LiveIds
    <3>1. PICK S : S = DOMAIN stored \ {i} OBVIOUS
    <3>2. S \subseteq DOMAIN stored /\ stored' = Restrict(stored, S)
      BY <2>2, <3>1 DEF Heartbeat, Heard, Without
    <3>3. MapOK' /\ LiveEntries' = {r \in LiveEntries : r.id \in S}
      BY <1>1, <3>2, Restricted DEF RInv
    <3>4. \A r \in LiveEntries : r.id \in S /\ r.id # i
      BY <2>2, <3>1 DEF LiveEntries, LiveIds
    <3> QED BY <3>3, <3>4
  <2> QED BY <2>1, <2>2
<1>4. Eager!IsLive(i) <=> i \in LiveIds BY LiveHas
<1>5. Eager!Heartbeat(i)
  BY <1>1, <1>2, <1>3, <1>4 DEF Eager!Heartbeat, Eager!Fresh, Untrusted
<1> QED BY <1>2, <1>3, <1>5 DEF RInv

LEMMA DeregisterKeeps ==
  ASSUME RInv, NEW i \in Ids, Deregister(i)
  PROVE  RInv' /\ Eager!Deregister(i)
<1>1. /\ kind = "peer" /\ UNCHANGED <<kind, next, votes, disgraced, tracker>>
      /\ answer' = [op |-> "deregister", of |-> i, result |-> IF i \in DOMAIN stored THEN "yes" ELSE "no"]
  BY DEF Deregister, Told, Found
<1>2. RecordOK' /\ DemandOK' /\ IdsOK' /\ Untrusted' = Untrusted
  BY <1>1, RecordStays, DemandStays DEF RInv, IdsOK
<1>3. PICK S : S = DOMAIN stored \ {i} OBVIOUS
<1>4. S \subseteq DOMAIN stored /\ stored' = Restrict(stored, S)
  BY <1>3 DEF Deregister, Without
<1>5. MapOK' /\ LiveEntries' = {r \in LiveEntries : r.id \in S}
  BY <1>1, <1>4, Restricted DEF RInv
<1>6. LiveEntries' = {r \in LiveEntries : r.id # i}
  BY <1>3, <1>5 DEF LiveEntries, LiveIds
<1>7. Eager!IsLive(i) => i \in DOMAIN stored BY LiveHas DEF LiveIds
<1>8. Eager!Deregister(i)
  BY <1>1, <1>2, <1>6, <1>7 DEF Eager!Deregister, Untrusted
<1> QED BY <1>2, <1>5, <1>8 DEF RInv
(***************************************************************************)
(* A vote changes the record of its node only, and that of its endpoint    *)
(* with it; who is told no changes nothing.                                *)
(***************************************************************************)
LEMMA VotesEffect ==
  ASSUME RecordOK, NEW i \in Ids, NEW v \in {"agree", "disagree"},
         votes[i][v] < MaxVotes, votes' = [votes EXCEPT ![i][v] = @ + 1]
  PROVE  /\ votes' \in [Ids -> [agree : 0 .. MaxVotes, disagree : 0 .. MaxVotes]]
         /\ \A j \in Ids : j # i => votes'[j] = votes[j]
<1> DEFINE Stats == [agree : 0 .. MaxVotes, disagree : 0 .. MaxVotes]
<1>1. votes \in [Ids -> Stats] BY DEF RecordOK
<1>2. PICK r : r = [votes[i] EXCEPT ![v] = votes[i][v] + 1] OBVIOUS
<1>3. votes[i] \in Stats BY <1>1
<1>4. r \in Stats
  <2>1. PICK s : s = votes[i] OBVIOUS
  <2>2. /\ s = [agree |-> s.agree, disagree |-> s.disagree]
        /\ s.agree \in 0 .. MaxVotes /\ s.disagree \in 0 .. MaxVotes
    BY <1>3, <2>1
  <2>3. CASE v = "agree"
    <3>1. r = [agree |-> s.agree + 1, disagree |-> s.disagree] BY <1>2, <2>1, <2>2, <2>3
    <3>2. s.agree + 1 \in 0 .. MaxVotes BY <2>1, <2>2, <2>3, Bounds
    <3> QED BY <2>2, <3>1, <3>2
  <2>4. CASE v = "disagree"
    <3>1. r = [agree |-> s.agree, disagree |-> s.disagree + 1] BY <1>2, <2>1, <2>2, <2>4
    <3>2. s.disagree + 1 \in 0 .. MaxVotes BY <2>1, <2>2, <2>4, Bounds
    <3> QED BY <2>2, <3>1, <3>2
  <2> QED BY <2>3, <2>4
<1>5. votes' = [votes EXCEPT ![i] = r] BY <1>2
<1> HIDE DEF Stats
<1>6. votes' \in [Ids -> Stats] /\ \A j \in Ids : j # i => votes'[j] = votes[j]
  BY <1>1, <1>4, <1>5
<1> QED BY <1>6 DEF Stats

LEMMA VoteKeeps ==
  ASSUME RInv, NEW i \in Ids, NEW v \in {"agree", "disagree"}, Vote(i, v)
  PROVE  RInv' /\ Eager!Vote(i)
<1>1. /\ kind = "node" /\ votes[i][v] < MaxVotes /\ stored' = Pruned
      /\ answer' = [op |-> "vote", of |-> i, result |-> IF i \in LiveIds THEN "yes" ELSE "no"]
      /\ UNCHANGED <<kind, next, tracker>>
  BY DEF Vote, Told, Found, Heard
<1>2. MapOK' /\ LiveEntries' = LiveEntries BY <1>1, PrunedKeeps DEF RInv
<1>3. DemandOK' /\ IdsOK' BY <1>1, DemandStays DEF RInv, IdsOK
<1>4. Eager!IsLive(i) <=> i \in LiveIds BY LiveHas
<1>5. CASE i \notin LiveIds
  <2>1. UNCHANGED <<votes, disgraced>> BY <1>5 DEF Vote, Heard
  <2>2. RecordOK' /\ Untrusted' = Untrusted BY <1>1, <2>1, RecordStays DEF RInv
  <2>3. Eager!Vote(i) BY <1>1, <1>2, <1>4, <1>5, <2>2 DEF Eager!Vote, Untrusted
  <2> QED BY <1>2, <1>3, <2>2, <2>3 DEF RInv
<1>6. CASE i \in LiveIds
  <2>1. /\ votes' = [votes EXCEPT ![i][v] = @ + 1]
        /\ disgraced' = IF Trusted(votes', i) THEN disgraced \ {stored[i].endpoint}
                        ELSE disgraced \cup {stored[i].endpoint}
    BY <1>6 DEF Vote, Heard
  <2>2. stored[i].endpoint = i /\ i \in Endpoints
    BY <1>1, <1>6 DEF RInv, MapOK, LiveIds, Entries
  <2>3. /\ votes' \in [Ids -> [agree : 0 .. MaxVotes, disagree : 0 .. MaxVotes]]
        /\ \A j \in Ids : j # i => votes'[j] = votes[j]
    BY <1>1, <2>1, VotesEffect DEF RInv
  <2>4. \A j \in Ids : j # i => (Trusted(votes', j) <=> Trusted(votes, j))
    BY <2>3 DEF Trusted
  <2>5. \A j \in Ids : Trusted(votes', j) <=> j \notin disgraced'
    BY <2>1, <2>2, <2>4 DEF RInv, RecordOK
  <2>6. disgraced' \subseteq Endpoints BY <2>1, <2>2 DEF RInv, RecordOK
  <2>7. RecordOK' BY <1>1, <2>3, <2>5, <2>6 DEF RecordOK, Ids, Written
  <2>8. Untrusted' = Untrusted \cup {i} \/ Untrusted' = Untrusted \ {i}
    <3>1. Untrusted' = {j \in Ids : ~Trusted(votes', j)} BY DEF Untrusted, Ids, Written
    <3>2. CASE Trusted(votes', i) BY <2>4, <3>1, <3>2 DEF Untrusted
    <3>3. CASE ~Trusted(votes', i) BY <2>4, <3>1, <3>3 DEF Untrusted
    <3> QED BY <3>2, <3>3
  <2>9. Eager!Vote(i) BY <1>1, <1>2, <1>4, <1>6, <2>8 DEF Eager!Vote, Untrusted
  <2> QED BY <1>2, <1>3, <2>7, <2>9 DEF RInv
<1> QED BY <1>5, <1>6

(***************************************************************************)
(* What is read and pruned, refused, or about demand.                      *)
(***************************************************************************)
LEMMA ReadsKeep ==
  ASSUME RInv, stored' = Pruned, UNCHANGED <<kind, next, votes, disgraced, tracker>>
  PROVE  RInv' /\ LiveEntries' = LiveEntries /\ Untrusted' = Untrusted
<1>1. MapOK' /\ LiveEntries' = LiveEntries BY PrunedKeeps DEF RInv
<1>2. RecordOK' /\ DemandOK' /\ IdsOK' /\ Untrusted' = Untrusted
  BY RecordStays, DemandStays DEF RInv, IdsOK
<1> QED BY <1>1, <1>2 DEF RInv

LEMMA GetReputationKeeps ==
  ASSUME RInv, NEW i \in Ids, GetReputation(i)
  PROVE  RInv' /\ Eager!GetReputation(i)
<1>1. /\ kind = "node" /\ stored' = Pruned /\ UNCHANGED <<kind, next, votes, disgraced, tracker>>
      /\ answer' = [op |-> "reputation", of |-> i,
                    result |-> IF i \notin LiveIds THEN "null"
                               ELSE IF Trusted(votes, i) THEN "trusted" ELSE "untrusted"]
  BY DEF GetReputation, Heard
<1>2. RInv' /\ LiveEntries' = LiveEntries /\ Untrusted' = Untrusted BY <1>1, ReadsKeep
<1>3. Eager!IsLive(i) <=> i \in LiveIds BY LiveHas
<1>4. i \in Untrusted <=> ~Trusted(votes, i) BY DEF Untrusted
<1>5. Eager!GetReputation(i)
  BY <1>1, <1>2, <1>3, <1>4 DEF Eager!GetReputation, Untrusted
<1> QED BY <1>2, <1>5

LEMMA ListActiveKeeps ==
  ASSUME RInv, ListActive
  PROVE  RInv' /\ Eager!ListActive
<1>1. /\ stored' = Pruned /\ UNCHANGED <<kind, next, votes, disgraced, tracker>>
      /\ answer' = [op |-> "list",
                    result |-> {i \in LiveIds : kind = "node" => Trusted(votes, i)}]
  BY DEF ListActive
<1>2. RInv' /\ LiveEntries' = LiveEntries /\ Untrusted' = Untrusted BY <1>1, ReadsKeep
<1>3. {i \in LiveIds : kind = "node" => Trusted(votes, i)}
        = {r.id : r \in {n \in LiveEntries : kind = "node" => n.id \notin Untrusted}}
  <2>1. \A i \in LiveIds : i \in Untrusted <=> ~Trusted(votes, i)
    BY GivenIds DEF Untrusted, LiveIds, RInv, MapOK
  <2>2. LiveEntries = {Entry(i) : i \in LiveIds} /\ \A i : Entry(i).id = i
    BY DEF LiveEntries, Entry
  <2> QED BY <2>1, <2>2
<1>4. Eager!ListActive
  BY <1>1, <1>2, <1>3 DEF Eager!ListActive, Untrusted
<1> QED BY <1>2, <1>4

LEMMA RefusalsKeep ==
  ASSUME RInv, NEW op \in Eager!Calls,
         Rejected(op) \/ \E i \in Known : Unauthorized(op, i)
  PROVE  RInv' /\ Eager!Refused(op)
<1>1. /\ answer' = [op |-> op, throws |-> TRUE]
      /\ UNCHANGED <<kind, stored, next, votes, disgraced, tracker>>
  BY DEF Rejected, Unauthorized, Told
<1>2. MapOK' /\ LiveEntries' = LiveEntries
  BY <1>1 DEF RInv, MapOK, Given, Entries, LiveEntries, LiveIds, Live
<1>3. RecordOK' /\ DemandOK' /\ IdsOK' /\ Untrusted' = Untrusted
  BY <1>1, RecordStays, DemandStays DEF RInv, IdsOK
<1>4. Eager!Refused(op) BY <1>1, <1>2, <1>3 DEF Eager!Refused, Untrusted
<1> QED BY <1>2, <1>3, <1>4 DEF RInv

LEMMA DemandKeeps ==
  ASSUME RInv, RecordRequest \/ RecentDemand \/ UNCHANGED vars
  PROVE  RInv' /\ UNCHANGED EagerVars
<1>1. UNCHANGED <<registry, votes, disgraced>>
  BY DEF RecordRequest, RecentDemand, vars
<1>2. MapOK' /\ LiveEntries' = LiveEntries
  BY <1>1 DEF registry, RInv, MapOK, Given, Entries, LiveEntries, LiveIds, Live
<1>3. RecordOK' /\ IdsOK' /\ Untrusted' = Untrusted
  BY <1>1, RecordStays DEF registry, RInv, IdsOK
<1>4. DemandOK'
  <2>1. Ordered(requests, lately) /\ lately \in [0 .. Window - 1 -> Nat] BY DEF RInv, DemandOK
  <2>2. PICK list : list = PruneExpired(requests) OBVIOUS
  <2>3. Ordered(list, lately) BY <2>1, <2>2, PrunedList
  <2>4. CASE RecordRequest
    <3>1. /\ requests' = Append(list, 0)
          /\ lately' = [a \in 0 .. Window - 1 |-> lately[a] + 1]
      BY <2>2, <2>4 DEF RecordRequest, Pushed
    <3>2. PICK count : count = lately OBVIOUS
    <3>3. Ordered(Append(list, 0), [a \in 0 .. Window - 1 |-> count[a] + 1])
      BY <2>3, <3>2, PushedList
    <3>4. lately' \in [0 .. Window - 1 -> Nat] BY <2>1, <3>1
    <3> QED BY <3>1, <3>2, <3>3, <3>4 DEF DemandOK, Ordered
  <2>5. CASE RecentDemand
    BY <2>1, <2>2, <2>3, <2>5 DEF RecentDemand, DemandOK, Ordered
  <2>6. CASE UNCHANGED vars BY <2>6, DemandStays DEF vars, RInv
  <2> QED BY <2>4, <2>5, <2>6
<1> QED BY <1>1, <1>2, <1>3, <1>4 DEF RInv, EagerVars, registry

LEMMA TickKeeps ==
  ASSUME RInv, Tick
  PROVE  RInv' /\ Eager!Tick
<1>1. /\ stored' = [i \in DOMAIN stored |-> [stored[i] EXCEPT !.age = Older(@, Timeout)]]
      /\ requests' = [k \in 1 .. Len(requests) |-> Older(requests[k], Window)]
      /\ lately' = [a \in 0 .. Window - 1 |-> IF a = 0 THEN 0 ELSE lately[a - 1]]
      /\ UNCHANGED <<kind, next, answer, votes, disgraced>>
  BY DEF Tick
<1>2. /\ MapOK'
      /\ LiveEntries' = {[r EXCEPT !.age = r.age + 1] : r \in {s \in LiveEntries : s.age < Timeout}}
  BY <1>1, Aged DEF RInv
<1>3. RecordOK' /\ IdsOK' /\ Untrusted' = Untrusted
  BY <1>1, RecordStays DEF RInv, IdsOK
<1>4. DemandOK'
  <2>1. PICK list : list = requests OBVIOUS
  <2>2. PICK count : count = lately OBVIOUS
  <2>3. Ordered(list, count) /\ count \in [0 .. Window - 1 -> Nat]
    BY <2>1, <2>2 DEF RInv, DemandOK
  <2>4. Ordered([k \in 1 .. Len(list) |-> Older(list[k], Window)],
                [a \in 0 .. Window - 1 |-> IF a = 0 THEN 0 ELSE count[a - 1]])
    BY <2>3, AgedList
  <2>5. \A a \in 0 .. Window - 1 : a # 0 => a - 1 \in 0 .. Window - 1 BY Bounds
  <2>6. lately' \in [0 .. Window - 1 -> Nat] BY <1>1, <2>2, <2>3, <2>5
  <2> QED BY <1>1, <2>1, <2>2, <2>4, <2>6 DEF DemandOK, Ordered
<1>5. Eager!Tick BY <1>1, <1>2, <1>3 DEF Eager!Tick, Untrusted
<1> QED BY <1>2, <1>3, <1>4, <1>5 DEF RInv
LEMMA NextKeeps == RInv /\ [Next]_vars => RInv' /\ [Eager!Next]_(Eager!vars)
<1> SUFFICES ASSUME RInv, [Next]_vars PROVE RInv' /\ [Eager!Next]_(Eager!vars)
  OBVIOUS
<1>1. Known \subseteq Ids BY Bounds DEF Known, Ids, Written
<1>2. ASSUME NEW url \in Written, Register(url) PROVE RInv' /\ [Eager!Next]_(Eager!vars)
  <2>1. PICK e : e = Normalized(url) OBVIOUS
  <2>2. e \in Endpoints BY <2>1, Spellings
  <2>3. RInv' /\ Eager!Register(e)
    BY <1>2, <2>1, <2>2, RegisterNodeKeeps, RegisterAtRandomKeeps DEF Register
  <2> QED BY <2>2, <2>3, EagerNextIs
<1>3. ASSUME NEW i \in Ids, Heartbeat(i) \/ Deregister(i) \/ GetReputation(i)
      PROVE  RInv' /\ [Eager!Next]_(Eager!vars)
  <2>1. RInv' /\ (Eager!Heartbeat(i) \/ Eager!Deregister(i) \/ Eager!GetReputation(i))
    BY <1>3, HeartbeatKeeps, DeregisterKeeps, GetReputationKeeps
  <2> QED BY <2>1, EagerNextIs
<1>4. ASSUME NEW i \in Ids, NEW v \in {"agree", "disagree"}, Vote(i, v)
      PROVE  RInv' /\ [Eager!Next]_(Eager!vars)
  <2>1. RInv' /\ Eager!Vote(i) BY <1>4, VoteKeeps
  <2> QED BY <2>1, EagerNextIs
<1>5. ASSUME NEW op \in Eager!Calls, Rejected(op) \/ \E i \in Known : Unauthorized(op, i)
      PROVE  RInv' /\ [Eager!Next]_(Eager!vars)
  <2>1. RInv' /\ Eager!Refused(op) BY <1>5, RefusalsKeep
  <2> QED BY <2>1, EagerNextIs
<1>6. CASE ListActive BY <1>6, ListActiveKeeps, EagerNextIs
<1>7. CASE Tick BY <1>7, TickKeeps, EagerNextIs
<1>8. CASE RecordRequest \/ RecentDemand \/ UNCHANGED vars BY <1>8, DemandKeeps, EagerNextIs
<1>9. {"heartbeat", "vote", "deregister", "register", "reputation", "list"} \subseteq Eager!Calls
  BY DEF Eager!Calls
<1> QED BY <1>1, <1>2, <1>3, <1>4, <1>5, <1>6, <1>7, <1>8, <1>9 DEF Next

LEMMA SoftStateInvariant == Spec => []RInv
<1>1. RInv /\ [Next]_vars => RInv' BY NextKeeps
<1>2. Init => RInv BY InitSoftState
<1> QED BY <1>1, <1>2, PTL DEF Spec

-----------------------------------------------------------------------------
(* The claims. *)

(***************************************************************************)
(* Types, ids that were issued, and the requests in the order they came:   *)
(* the order pruneExpired relies on.                                       *)
(***************************************************************************)
THEOREM SoftStateTypes == Spec => []TypeOK
<1>1. RInv => TypeOK
  <2> SUFFICES ASSUME RInv PROVE TypeOK OBVIOUS
  <2>1. requests \in Seq(0 .. Window + 1) BY DEF RInv, DemandOK, Ordered
  <2>2. DOMAIN requests = 1 .. Len(requests) BY <2>1
  <2> QED BY <2>1, <2>2 DEF RInv, IdsOK, MapOK, Entries, RecordOK, DemandOK, Ordered, TypeOK
<1> QED BY <1>1, SoftStateInvariant, PTL

(***************************************************************************)
(* No endpoint is entered twice, expired entries included: who registers   *)
(* again meets the live entry, or the loop that finds none has removed the *)
(* expired one on its way.                                                 *)
(***************************************************************************)
THEOREM EndpointsEnteredOnce == Spec => []OneEntryPerEndpoint
<1>1. RInv => OneEntryPerEndpoint
  <2> SUFFICES ASSUME RInv, NEW i \in DOMAIN stored, NEW j \in DOMAIN stored, NEW e \in Endpoints,
                      {stored[i].endpoint, stored[j].endpoint} \subseteq {e, Slashed[e]}
               PROVE  i = j
    BY DEF OneEntryPerEndpoint
  <2>1. stored[i].endpoint \in Endpoints /\ stored[j].endpoint \in Endpoints
    BY DEF RInv, MapOK, Entries
  <2>2. stored[i].endpoint = stored[j].endpoint BY <2>1, Spellings
  <2> QED BY <2>2 DEF RInv, MapOK
<1> QED BY <1>1, SoftStateInvariant, PTL

(***************************************************************************)
(* A node that comes back is trusted if and only if its last vote left it  *)
(* so: its id is its endpoint's, and no registration touches the record.   *)
(***************************************************************************)
THEOREM SilenceClearsNoRecord == Spec => []TrustSurvives
<1>1. RInv => TrustSurvives
  <2> SUFFICES ASSUME RInv, NEW i \in LiveIds
               PROVE  Trusted(votes, i) <=> stored[i].endpoint \notin disgraced
    BY DEF TrustSurvives
  <2>1. i \in DOMAIN stored /\ i \in Ids BY GivenIds DEF LiveIds, RInv, MapOK
  <2>2. CASE kind = "node" BY <2>1, <2>2 DEF RInv, MapOK, RecordOK
  <2>3. CASE kind # "node" BY <2>1, <2>3 DEF RInv, RecordOK
  <2> QED BY <2>2, <2>3
<1> QED BY <1>1, SoftStateInvariant, PTL

(***************************************************************************)
(* recentDemand is exact whenever it is asked.                             *)
(***************************************************************************)
THEOREM DemandIsExact == Spec => []DemandIsWindowed
<1>1. RInv => DemandIsWindowed
  BY PrunedList DEF RInv, DemandOK, DemandIsWindowed
<1> QED BY <1>1, SoftStateInvariant, PTL

(***************************************************************************)
(* The registries implement the one that removes entries the moment they   *)
(* expire: which calls came before, and what they pruned, makes no answer  *)
(* different.                                                              *)
(***************************************************************************)
THEOREM RegistriesAreEager == Spec => EagerSpec
<1>1. Init => Eager!Init BY InitSoftState
<1>2. RInv /\ [Next]_vars => [Eager!Next]_(Eager!vars) BY NextKeeps
<1> QED BY <1>1, <1>2, SoftStateInvariant, PTL DEF Spec, EagerSpec, Eager!Spec

=============================================================================
