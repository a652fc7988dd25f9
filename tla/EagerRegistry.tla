---------------------------- MODULE EagerRegistry ----------------------------
(***************************************************************************)
(* What NodeRegistry, LauncherRegistry and PeerRegistry promise: an entry  *)
(* is gone the moment its timeout has passed, so that no answer depends on *)
(* which other calls happened to come before.                              *)
(***************************************************************************)
EXTENDS Naturals

CONSTANTS Endpoints, Ids, Timeout, MaxIds

VARIABLES
  kind,    \* the registry, or "demand": no part of one
  live,    \* the entries: id, endpoint and the age of the last contact
  next,    \* ids are issued up to this one
  answer,  \* what the caller of the last call was told
  untrusted \* ids of a bad record, registered or not

vars == <<kind, live, next, answer, untrusted>>

Init ==
  /\ kind \in {"node", "launcher", "peer", "demand"}
  /\ live = {} /\ next = 1
  /\ answer = [op |-> "none"]
  /\ untrusted = {}

Fresh(r) == [r EXCEPT !.age = 0]

\* Time passes, and those not heard of for longer than Timeout are gone.
Tick ==
  /\ live' = {[r EXCEPT !.age = r.age + 1] : r \in {s \in live : s.age < Timeout}}
  /\ UNCHANGED <<kind, next, answer, untrusted>>

\* An endpoint that is live keeps its id; another one gets a new one, unless
\* ids are made from endpoints.
Register(e) ==
  /\ \/ \E r \in live :
          /\ r.endpoint = e
          /\ live' = (live \ {r}) \cup {Fresh(r)}
          /\ answer' = [op |-> "register", result |-> r.id]
          /\ UNCHANGED next
     \/ /\ \A r \in live : r.endpoint # e
        /\ \/ kind = "node" /\ UNCHANGED next /\ answer' = [op |-> "register", result |-> e]
           \/ /\ kind # "node" /\ next <= MaxIds
              /\ next' = next + 1
              /\ answer' = [op |-> "register", result |-> next]
        /\ live' = live \cup {[id |-> answer'.result, endpoint |-> e, age |-> 0]}
  /\ UNCHANGED <<kind, untrusted>>

IsLive(i) == \E r \in live : r.id = i

\* A heartbeat succeeds for what is live, and for nothing else.
Heartbeat(i) ==
  /\ live' = {IF r.id = i THEN Fresh(r) ELSE r : r \in live}
  /\ answer' = [op |-> "heartbeat", of |-> i, result |-> IF IsLive(i) THEN "yes" ELSE "no"]
  /\ UNCHANGED <<kind, next, untrusted>>

\* Nodes of a bad record are not listed.
ListActive ==
  /\ answer' = [op |-> "list", result |->
       {r.id : r \in {n \in live : kind = "node" => n.id \notin untrusted}}]
  /\ UNCHANGED <<kind, live, next, untrusted>>

\* A vote may change what is thought of its node, which must be live.
Vote(i) ==
  /\ kind = "node"
  /\ answer' = [op |-> "vote", of |-> i, result |-> IF IsLive(i) THEN "yes" ELSE "no"]
  /\ untrusted' \in IF IsLive(i) THEN {untrusted \cup {i}, untrusted \ {i}} ELSE {untrusted}
  /\ UNCHANGED <<kind, live, next>>

GetReputation(i) ==
  /\ kind = "node"
  /\ answer' = [op |-> "reputation", of |-> i,
                result |-> IF ~IsLive(i) THEN "null"
                           ELSE IF i \in untrusted THEN "untrusted" ELSE "trusted"]
  /\ UNCHANGED <<kind, live, next, untrusted>>

Calls == {"register", "heartbeat", "vote", "reputation", "list", "deregister"}

\* A call that is refused throws, and was no answer.
Refused(op) ==
  /\ answer' = [op |-> op, throws |-> TRUE]
  /\ UNCHANGED <<kind, live, next, untrusted>>

\* A peer leaves.  Of one that has timed out before it may be told either.
Deregister(i) ==
  /\ kind = "peer"
  /\ live' = {r \in live : r.id # i}
  /\ \E found \in {"yes", "no"} :
       /\ IsLive(i) => found = "yes"
       /\ answer' = [op |-> "deregister", of |-> i, result |-> found]
  /\ UNCHANGED <<kind, next, untrusted>>

Next ==
  \/ Tick \/ ListActive
  \/ \E op \in Calls : Refused(op)
  \/ \E e \in Endpoints : Register(e)
  \/ \E i \in Ids : Heartbeat(i) \/ Deregister(i) \/ Vote(i) \/ GetReputation(i)

Spec == Init /\ [][Next]_vars

=============================================================================
