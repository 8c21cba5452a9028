-------------------------- MODULE MCConnectSession --------------------------
(* Values for checking ConnectSession. *)
EXTENDS ConnectSession

MCUdp == {"direct"}
MCEos == {"eos"}
MCNoEos == {}
MCOverlay == {"iroh"}
MCNoOverlay == {}
=============================================================================
