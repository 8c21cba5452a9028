------------------------- MODULE MCHeartbeatThread -------------------------
(* Values for checking HeartbeatThread. *)
EXTENDS HeartbeatThread

\* Anything may happen to a request, or nothing is ever lost.
MCNetworks == {OutcomeKinds, {"ok"}}
MCLossy == {{"ok", "lost"}}
=============================================================================
