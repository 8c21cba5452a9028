----------------------------- MODULE FlightSlot -----------------------------
(***************************************************************************)
(* The slots of the graphics flight recorder                               *)
(* (client/rendering/graphics_flight_recorder_storage.h): words guarded by *)
(* a stamp, which is a version, a busy bit and a sealed bit.  A writer     *)
(* claims a slot, stores its words one by one and publishes it; a freeze   *)
(* seals it at any time.  What one atomic access does to a stamp.          *)
(***************************************************************************)
EXTENDS Naturals

Stamps(versions) == [version : versions, busy : BOOLEAN, sealed : BOOLEAN]

Blank == [version |-> 0, busy |-> FALSE, sealed |-> FALSE]

\* ReadSlot: the slot holds a complete record.
Usable(stamp) == ~ stamp.busy /\ stamp.version # 0

\* Mutant: two writers may fill a slot at once.
CanClaim_Busy(stamp, sequence) == ~ stamp.sealed /\ stamp.version < sequence

\* ClaimSlot: neither busy nor sealed, and older.
CanClaim(stamp, sequence) == ~ stamp.busy /\ ~ stamp.sealed /\ stamp.version < sequence

Claimed(sequence) == [version |-> sequence, busy |-> TRUE, sealed |-> FALSE]

\* Mutant: the stamp is stored, not exchanged.
Published_Store(stamp, sequence) == [version |-> sequence, busy |-> FALSE, sealed |-> FALSE]

\* PublishSlot exchanges the stamp that was claimed for a free one; a stamp
\* that was sealed meanwhile stays.
Published(stamp, sequence) ==
  IF stamp = Claimed(sequence) THEN [stamp EXCEPT !.busy = FALSE] ELSE stamp

\* Freeze.
Sealed(stamp) == [stamp EXCEPT !.sealed = TRUE]
=============================================================================
