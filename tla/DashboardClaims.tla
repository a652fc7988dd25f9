---------------------------- MODULE DashboardClaims ----------------------------
(* What the documentation says of the dashboard and the page does not keep. *)
EXTENDS MCDashboard

\* README: if the connection is lost mid-reply the partial reply is flagged as
\* truncated rather than silently presented as complete (app.js:270-275, the
\* catch block that a reset connection leads to).
NoCutPassesForWhole ==
  \A i \in DOMAIN chat.history :
    Settled(i) /\ chat.history[i].ending \in {"cut", "reset"} =>
      chat.history[i].status = "error"

================================================================================
