------------------------------ MODULE SoftState ------------------------------
(***************************************************************************)
(* What the coordinator remembers for a while: its registries              *)
(* (registry.ts, launcher_registry.ts, peer_registry.ts), the reputation   *)
(* of nodes (reputation_tracker.ts) and recent demand (demand_tracker.ts), *)
(* behind the routes of server.ts that change or read it, as a caller of   *)
(* SwarmClient (client.ts) meets them.                                     *)
(*                                                                         *)
(* Nothing is removed when it expires.  It stays in its map until a call   *)
(* meets it, and each call has to treat it as gone.  Instead of the time   *)
(* of a contact, an entry holds its age in ticks of the clock, which no    *)
(* comparison tells apart beyond the limit.                                *)
(*                                                                         *)
(* A loop over a map meets its entries in the order they were added.  Only *)
(* those that issue random ids depend on it, and there it is the order of  *)
(* the ids as they are numbered here: an entry is added under a new id and *)
(* refreshed in place.                                                     *)
(***************************************************************************)
EXTENDS Naturals, Sequences, Functions, FiniteSetsExt

CONSTANTS
  Endpoints,    \* as they are registered
  Slashed,      \* each endpoint as it is written with a slash behind it
  Timeout,      \* timeoutMs: an entry older than this is expired
  Window,       \* WINDOW_MS: a request this old is out of the window
  MinSamples,   \* of reputation
  MaxIds,       \* bound: random ids issued
  MaxVotes,     \* bound: agreements, and disagreements, per node
  MaxRequests   \* bound: requests in the list at a time

ASSUME SoftStateAssumption ==
  /\ Slashed \in [Endpoints -> Range(Slashed) \ Endpoints] /\ IsInjective(Slashed)
  /\ Timeout \in Nat /\ Window \in Nat \ {0}
  /\ MinSamples \in Nat \ {0}
  /\ MaxIds \in Nat /\ MaxVotes \in Nat /\ MaxRequests \in Nat

VARIABLES
  kind,       \* what this behaviour is about: a registry, or demand
  stored,     \* its map: of each id the endpoint and the age of the last contact
  next,       \* the next random id
  answer,     \* of the last call: what its caller was told
  votes,      \* stats of the reputation tracker
  requests,   \* the timestamps of the demand tracker, as ages
  lately,     \* history: how many requests came within so many ticks
  disgraced   \* history: the endpoints whose last vote left them untrusted

registry == <<kind, stored, next, answer>>
tracker == <<requests, lately>>
vars == <<registry, votes, disgraced, tracker>>

\* Endpoints as registrations write them.
Written == Endpoints \cup Range(Slashed)

\* Mutant: it is registered as it is written.
NormalizedNot(url) == url

Normalized(url) == CHOOSE e \in Endpoints : url \in {e, Slashed[e]}

Ids == Written \cup 1 .. MaxIds
\* The ids calls ask for; one that was never given is answered as an expired one.
Known == IF kind = "node" THEN Endpoints ELSE IF kind = "demand" THEN {} ELSE 1 .. MaxIds

Live(i) == stored[i].age <= Timeout
LiveIds == {i \in DOMAIN stored : Live(i)}
LiveEntries ==
  {[id |-> i, endpoint |-> stored[i].endpoint, age |-> stored[i].age] : i \in LiveIds}

Init ==
  /\ kind \in {"node", "launcher", "peer", "demand"}
  /\ stored = [i \in {} |-> [endpoint |-> "", age |-> 0]]
  /\ next = 1
  /\ answer = [op |-> "none"]
  /\ votes = [i \in Ids |-> [agree |-> 0, disagree |-> 0]]
  /\ requests = <<>>
  /\ lately = [a \in 0 .. Window - 1 |-> 0]
  /\ disgraced = {}

-----------------------------------------------------------------------------
(***************************************************************************)
(* What SwarmClient makes of a status: a call that asks whether an id is   *)
(* known is told yes for 204, no for 404, and throws for a 401, which says *)
(* nothing of the id.                                                      *)
(***************************************************************************)

Told(op, i, status) ==
  IF status = 401 THEN [op |-> op, throws |-> TRUE]
  ELSE [op |-> op, of |-> i, result |-> IF status = 204 THEN "yes" ELSE "no"]

Found(ok) == IF ok THEN 204 ELSE 404

-----------------------------------------------------------------------------
(***************************************************************************)
(* The registries.                                                         *)
(***************************************************************************)
New(e) == [endpoint |-> e, age |-> 0]
Fresh(i) == [stored EXCEPT ![i].age = 0]
Without(S) == Restrict(stored, DOMAIN stored \ S)
Pruned == Restrict(stored, LiveIds)

\* Map.set: the entry under the id is replaced, or added.
Put(map, i, e) ==
  [j \in DOMAIN map \cup {i} |-> IF j = i THEN New(e) ELSE map[j]]

\* Mutant: an id nobody had, while there is one.
RandomNodeId(e) ==
  LET used == DOMAIN stored \cup {i \in Ids : votes[i].agree + votes[i].disagree > 0}
  IN IF 1 .. MaxIds \subseteq used THEN e ELSE Min(1 .. MaxIds \ used)

\* The hash of the endpoint.
StableNodeId(e) == e

RegisterNode(e) ==
  /\ kind = "node"
  /\ stored' = Put(stored, StableNodeId(e), e)
  /\ answer' = [op |-> "register", result |-> StableNodeId(e)]
  /\ UNCHANGED <<kind, next>>

\* Where the loop of register finds the endpoint registered.
SameEndpoint(e) == {i \in LiveIds : stored[i].endpoint = e}

\* The loop prunes what has expired on its way, and stops at its match.
RegisterAgain(e) ==
  LET i == Min(SameEndpoint(e))
      passed == {j \in DOMAIN stored \ LiveIds : j < i}
  IN /\ SameEndpoint(e) # {}
     /\ stored' = [Without(passed) EXCEPT ![i].age = 0]
     /\ answer' = [op |-> "register", result |-> i]
     /\ UNCHANGED next

RegisterAnew(e) ==
  /\ SameEndpoint(e) = {} /\ next <= MaxIds
  /\ stored' = Put(Pruned, next, e)
  /\ answer' = [op |-> "register", result |-> next]
  /\ next' = next + 1

RegisterAtRandom(e) ==
  /\ kind \in {"launcher", "peer"}
  /\ RegisterAgain(e) \/ RegisterAnew(e)
  /\ UNCHANGED kind

Register(url) ==
  /\ RegisterNode(Normalized(url)) \/ RegisterAtRandom(Normalized(url))
  /\ UNCHANGED <<votes, disgraced, tracker>>

\* Mutant: what is stored counts as live.
HeardEver(i) == i \in DOMAIN stored

Heard(i) == i \in LiveIds

\* A heartbeat finds its entry live, or expired and removes it, or not at all.
Heartbeat(i) ==
  /\ \/ Heard(i) /\ stored' = Fresh(i)
     \/ ~Heard(i) /\ stored' = Without({i})
  /\ answer' = Told("heartbeat", i, Found(Heard(i)))
  /\ UNCHANGED <<kind, next, votes, disgraced, tracker>>

\* The token is not the coordinator's.
Unauthorized(op, i) ==
  /\ answer' = Told(op, i, 401)
  /\ UNCHANGED <<kind, stored, next, votes, disgraced, tracker>>

\* The other methods throw for every failure: the token, a malformed body.
Rejected(op) ==
  /\ answer' = [op |-> op, throws |-> TRUE]
  /\ UNCHANGED <<kind, stored, next, votes, disgraced, tracker>>

\* peers.delete: says whether there was an entry, expired or not.
Deregister(i) ==
  /\ kind = "peer"
  /\ stored' = Without({i})
  /\ answer' = Told("deregister", i, Found(i \in DOMAIN stored))
  /\ UNCHANGED <<kind, next, votes, disgraced, tracker>>

-----------------------------------------------------------------------------
(***************************************************************************)
(* Reputation: votes on registered nodes.                                  *)
(***************************************************************************)
Trusted(v, i) ==
  LET total == v[i].agree + v[i].disagree
  IN total < MinSamples \/ 2 * v[i].disagree < total

\* Only a registered node can be voted on, whether it is trusted or not.
Vote(i, v) ==
  /\ kind = "node" /\ votes[i][v] < MaxVotes
  /\ stored' = Pruned
  /\ answer' = Told("vote", i, Found(Heard(i)))
  /\ IF ~Heard(i) THEN UNCHANGED <<votes, disgraced>>
     ELSE /\ votes' = [votes EXCEPT ![i][v] = @ + 1]
          /\ disgraced' = IF Trusted(votes', i) THEN disgraced \ {stored[i].endpoint}
                          ELSE disgraced \cup {stored[i].endpoint}
  /\ UNCHANGED <<kind, next, tracker>>

\* getReputation: null for a node that is not registered, whatever its record.
GetReputation(i) ==
  /\ kind = "node"
  /\ stored' = Pruned
  /\ answer' = [op |-> "reputation", of |-> i,
                result |-> IF ~Heard(i) THEN "null"
                           ELSE IF Trusted(votes, i) THEN "trusted" ELSE "untrusted"]
  /\ UNCHANGED <<kind, next, votes, disgraced, tracker>>

\* Nodes are listed, and counted for the federation, if they are trusted.
ListActive ==
  /\ kind # "demand"
  /\ stored' = Pruned
  /\ answer' = [op |-> "list", result |->
                {i \in LiveIds : kind = "node" => Trusted(votes, i)}]
  /\ UNCHANGED <<kind, next, votes, disgraced, tracker>>

-----------------------------------------------------------------------------
(***************************************************************************)
(* Demand.                                                                 *)
(***************************************************************************)
\* Mutant: a request is kept for one tick longer.
InWindowLate(age) == age <= Window

InWindow(age) == age < Window

\* pruneExpired: what is expired is taken for a prefix of the list.
FirstLive(list) ==
  LET live == {k \in 1 .. Len(list) : InWindow(list[k])}
  IN IF live = {} THEN Len(list) + 1 ELSE Min(live)

PruneExpired(list) == SubSeq(list, FirstLive(list), Len(list))

\* Mutant: the newest first.
PushedInFront(list) == <<0>> \o list

Pushed(list) == Append(list, 0)

RecordRequest ==
  /\ kind = "demand"
  /\ Len(PruneExpired(requests)) < MaxRequests
  /\ requests' = Pushed(PruneExpired(requests))
  /\ lately' = [a \in 0 .. Window - 1 |-> lately[a] + 1]
  /\ UNCHANGED <<registry, votes, disgraced>>

RecentDemand ==
  /\ requests' = PruneExpired(requests)
  /\ UNCHANGED <<registry, votes, disgraced, lately>>

-----------------------------------------------------------------------------
Older(age, limit) == IF age > limit THEN age ELSE age + 1

Tick ==
  /\ stored' = [i \in DOMAIN stored |-> [stored[i] EXCEPT !.age = Older(@, Timeout)]]
  /\ requests' = [k \in 1 .. Len(requests) |-> Older(requests[k], Window)]
  /\ lately' = [a \in 0 .. Window - 1 |-> IF a = 0 THEN 0 ELSE lately[a - 1]]
  /\ UNCHANGED <<kind, next, answer, votes, disgraced>>

Next ==
  \/ \E url \in Written : Register(url)
  \/ \E i \in Known : Heartbeat(i) \/ Deregister(i) \/ GetReputation(i)
  \/ \E i \in Known, v \in {"agree", "disagree"} : Vote(i, v)
  \/ \E op \in {"heartbeat", "vote", "deregister"}, i \in Known : Unauthorized(op, i)
  \/ \E op \in {"register", "reputation", "list"} : kind # "demand" /\ Rejected(op)
  \/ ListActive \/ RecordRequest \/ RecentDemand \/ Tick

Spec == Init /\ [][Next]_vars

-----------------------------------------------------------------------------
(***************************************************************************)
(* Every variable holds what the code can put there; nodes have their      *)
(* endpoint for an id, others one that was issued, and the list of         *)
(* requests is in the order they came.  (registry.ts:26-36,                *)
(* demand_tracker.ts:46.)                                                  *)
(***************************************************************************)
Given == IF kind = "node" THEN Endpoints ELSE IF kind = "demand" THEN {} ELSE 1 .. next - 1

TypeOK ==
  /\ kind \in {"node", "launcher", "peer", "demand"}
  /\ DOMAIN stored \subseteq Given
  /\ stored \in [DOMAIN stored -> [endpoint : Endpoints, age : 0 .. Timeout + 1]]
  /\ next \in 1 .. MaxIds + 1
  /\ votes \in [Ids -> [agree : 0 .. MaxVotes, disagree : 0 .. MaxVotes]]
  /\ requests \in Seq(0 .. Window + 1)
  /\ \A j, k \in DOMAIN requests : j <= k => requests[j] >= requests[k]
  /\ lately \in [0 .. Window - 1 -> Nat]
  /\ disgraced \subseteq Endpoints

(***************************************************************************)
(* An endpoint that registers again while it is live is refreshed, never   *)
(* entered twice, however it is written: a peer's capacity is counted      *)
(* once, a launcher offered once.  (peer_registry.ts:37-43,                *)
(* launcher_registry.ts:40-48, server.ts:643-649.)                         *)
(***************************************************************************)
OneEntryPerEndpoint ==
  \A i, j \in DOMAIN stored, e \in Endpoints :
    {stored[i].endpoint, stored[j].endpoint} \subseteq {e, Slashed[e]} => i = j

(***************************************************************************)
(* No answer depends on whether some other call pruned an expired entry    *)
(* first, and a no is never an answer to something else: the coordinator's *)
(* registries implement one that removes entries the moment they expire,   *)
(* where no expired id comes back, the untrusted are not counted, and a    *)
(* refused call is told apart.  (registry.ts:60-66, peer_registry.ts:      *)
(* 28-33, client.ts:14-25.)                                                *)
(***************************************************************************)
Eager == INSTANCE EagerRegistry
           WITH live <- LiveEntries, untrusted <- {i \in Ids : ~Trusted(votes, i)}
EagerSpec == Eager!Spec

(***************************************************************************)
(* A node's reputation is its endpoint's, however often it goes quiet and  *)
(* registers again: only votes change whether it is trusted.               *)
(* (registry.ts:26-36, reputation_tracker.ts:45-55.)                       *)
(***************************************************************************)
TrustSurvives ==
  \A i \in LiveIds : Trusted(votes, i) <=> stored[i].endpoint \notin disgraced

(***************************************************************************)
(* recentDemand is the number of requests of the last Window ticks, to the *)
(* boundary, whenever it was pruned last.  (demand_tracker.ts:15-57.)      *)
(***************************************************************************)
DemandIsWindowed ==
  Len(PruneExpired(requests)) = lately[Window - 1]

=============================================================================
