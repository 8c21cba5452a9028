---------------------------- MODULE MCTurnClient ----------------------------
(* Values for checking TurnClient. *)
EXTENDS TurnClient

MCHosts == {"h1", "h2"}
MCHost == {"h1"}
MCUsers == {"u1", "u2"}
MCUser == {"u1"}
=============================================================================
