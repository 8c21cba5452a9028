---------------------------- MODULE MCOverlayMux ----------------------------
(* Constants of the model-checking runs of OverlayMux. *)
EXTENDS OverlayMux

CONSTANTS c1, c2, relayed

MCKindOf == [h \in Handle |-> IF h = relayed THEN "turn" ELSE "iroh"]
=============================================================================
