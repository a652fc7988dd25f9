------------------------------ MODULE PoolClaims ------------------------------
(***************************************************************************)
(* What the comments and the README say of the pool that the code does not *)
(* keep.  Each is checked by a run of its own and found violated; the      *)
(* README of this project tells the story of every counterexample.         *)
(***************************************************************************)
EXTENDS MCPipelinePool

(***************************************************************************)
(* README.md:721: "a launcher already backing a live pipeline is never     *)
(* killed to give it to a busier model".  No stop sent for one model is on *)
(* its way to a launcher that backs a warm entry of another.  A cold start *)
(* that was to replace an entry the background loop meanwhile removed      *)
(* still stops that entry's old launcher.                                  *)
(***************************************************************************)
NeverKilledForAnother ==
  \A l \in Launchers : \A p \in On(l) : \A i \in DOMAIN commands[l] :
    entry[p].state = "warm" /\ commands[l][i].op = "DELETE"
      => commands[l][i].model = entry[p].model

(***************************************************************************)
(* server.ts:317-320: the tracked entry is "precisely the dead entry this  *)
(* call is about to replace -- its launcher is genuinely free".  With no   *)
(* fault anywhere, a warm entry nobody is tearing down has its agent.  The *)
(* background loop's stop for the dead entry can land behind the POST that *)
(* re-used its launcher.                                                   *)
(***************************************************************************)
ReplacementKeepsItsAgent ==
  \A p \in Pooled(entry) :
    entry[p].state = "warm" /\ p # tick.id /\ (\A m \in Models : p # cold[m].tracked)
      => agent[entry[p].launcher] = entry[p].model

=============================================================================
