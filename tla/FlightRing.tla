----------------------------- MODULE FlightRing -----------------------------
(***************************************************************************)
(* The event rings of the graphics flight recorder (client/rendering/      *)
(* graphics_flight_recorder.cpp): threads publish events without waiting,  *)
(* a report reads slots while they do, and a crash freezes everything in   *)
(* the middle of whatever the writers are doing.                           *)
(*                                                                         *)
(* Every atomic access that another thread can tell apart is a step; the   *)
(* accesses to one slot are interleaved, which is what release and acquire *)
(* on every word give.  All words of an event are its sequence number.     *)
(* The order in which calls take sequence numbers and tickets is free, so  *)
(* a late writer may meet a newer event in its slot.                       *)
(***************************************************************************)
EXTENDS FlightSlot, Sequences

CONSTANTS
  Thread,      \* threads that record
  Capacity,    \* slots of the ring
  EventWords,  \* words of a slot
  MaxSequence  \* bound: events recorded

Sequence == 0 .. MaxSequence
Slot == 0 .. Capacity - 1
Word == 1 .. EventWords

VARIABLES
  gate,              \* writerGate: closed
  sequence, tickets,
  stamp, words,      \* per slot
  frozen,            \* freezeComplete
  unsealed,          \* slots Freeze has not come to yet
  pc, mine,          \* per thread: where it is; its number and slot, the stamp it
                     \* saw and the words it has stored
  reader             \* a report reading a slot: [pc, slot, stamp, got]

numbers == <<sequence, tickets>>
slots == <<stamp, words>>
threads == <<pc, mine>>
freezing == <<gate, unsealed, frozen>>
vars == <<numbers, slots, threads, freezing, reader>>

NoEvent == [seq |-> 0, slot |-> 0, seen |-> Blank, stored |-> 0]
NoRead == [pc |-> "idle", slot |-> 0, stamp |-> Blank, got |-> <<>>]

Init ==
  /\ gate = FALSE /\ frozen = FALSE /\ unsealed = Slot
  /\ sequence = 0 /\ tickets = 0
  /\ stamp = [s \in Slot |-> Blank]
  /\ words = [s \in Slot |-> [w \in Word |-> 0]]
  /\ pc = [t \in Thread |-> "idle"]
  /\ mine = [t \in Thread |-> NoEvent]
  /\ reader = NoRead

Goto(t, label) == pc' = [pc EXCEPT ![t] = label]

-----------------------------------------------------------------------------
(* Recording an event *)

\* Operation, MakeEvent: an open gate admits the call, which takes a number.
\* A closed gate turns it away without a trace in the slots.
MakeEvent(t) ==
  /\ pc[t] = "idle"
  /\ ~ gate
  /\ sequence < MaxSequence
  /\ sequence' = sequence + 1
  /\ mine' = [mine EXCEPT ![t].seq = sequence']
  /\ Goto(t, "ticket")
  /\ UNCHANGED <<tickets, slots, freezing, reader>>

\* PublishIntoRing: the ticket names the slot.
TakeTicket(t) ==
  /\ pc[t] = "ticket"
  /\ tickets' = tickets + 1
  /\ mine' = [mine EXCEPT ![t].slot = tickets % Capacity]
  /\ Goto(t, "load")
  /\ UNCHANGED <<sequence, slots, freezing, reader>>

Leaves(t) == Goto(t, "idle") /\ mine' = [mine EXCEPT ![t] = NoEvent]

\* ClaimSlot: the event is dropped when the slot is busy, sealed or newer ...
LoadStamp(t) ==
  /\ pc[t] = "load"
  /\ LET seen == stamp[mine[t].slot]
     IN  IF CanClaim(seen, mine[t].seq)
         THEN mine' = [mine EXCEPT ![t].seen = seen] /\ Goto(t, "claim")
         ELSE Leaves(t)
  /\ UNCHANGED <<numbers, slots, freezing, reader>>

\* ... or has changed since.
ClaimSlot(t) ==
  /\ pc[t] = "claim"
  /\ LET s == mine[t].slot
     IN  IF stamp[s] = mine[t].seen
         THEN /\ stamp' = [stamp EXCEPT ![s] = Claimed(mine[t].seq)]
              /\ Goto(t, "store")
              /\ UNCHANGED mine
         ELSE Leaves(t) /\ UNCHANGED stamp
  /\ UNCHANGED <<numbers, words, freezing, reader>>

\* PublishSlot: the words, one by one ...
StoreWord(t) ==
  /\ pc[t] = "store"
  /\ mine[t].stored < EventWords
  /\ words' = [words EXCEPT ![mine[t].slot][mine[t].stored + 1] = mine[t].seq]
  /\ mine' = [mine EXCEPT ![t].stored = @ + 1]
  /\ UNCHANGED <<numbers, stamp, pc, freezing, reader>>

\* ... and the stamp.
PublishSlot(t) ==
  /\ pc[t] = "store"
  /\ mine[t].stored = EventWords
  /\ stamp' = [stamp EXCEPT ![mine[t].slot] = Published(@, mine[t].seq)]
  /\ Leaves(t)
  /\ UNCHANGED <<numbers, words, freezing, reader>>

Writer(t) ==
  \/ MakeEvent(t) \/ TakeTicket(t) \/ LoadStamp(t) \/ ClaimSlot(t)
  \/ StoreWord(t) \/ PublishSlot(t)

-----------------------------------------------------------------------------
(* Freeze *)

CloseGate ==
  /\ ~ gate
  /\ gate' = TRUE
  /\ UNCHANGED <<numbers, slots, threads, unsealed, frozen, reader>>

\* Every slot, whatever its writer is doing.
SealSlot(s) ==
  /\ gate
  /\ s \in unsealed
  /\ stamp' = [stamp EXCEPT ![s] = Sealed(@)]
  /\ unsealed' = unsealed \ {s}
  /\ UNCHANGED <<numbers, words, threads, gate, frozen, reader>>

FreezeComplete ==
  /\ gate /\ unsealed = {} /\ ~ frozen
  /\ frozen' = TRUE
  /\ UNCHANGED <<numbers, slots, threads, gate, unsealed, reader>>

-----------------------------------------------------------------------------
(* ReadSlot *)

ReadStamp(s) ==
  /\ reader.pc = "idle"
  /\ Usable(stamp[s])
  /\ reader' = [pc |-> "words", slot |-> s, stamp |-> stamp[s], got |-> <<>>]
  /\ UNCHANGED <<numbers, slots, threads, freezing>>

ReadWord ==
  /\ reader.pc = "words"
  /\ Len(reader.got) < EventWords
  /\ reader' = [reader EXCEPT !.got = Append(@, words[reader.slot][Len(@) + 1])]
  /\ UNCHANGED <<numbers, slots, threads, freezing>>

\* The stamp must not have changed.
Validate ==
  /\ reader.pc = "words"
  /\ Len(reader.got) = EventWords
  /\ reader' = IF stamp[reader.slot] = reader.stamp THEN [reader EXCEPT !.pc = "complete"] ELSE NoRead
  /\ UNCHANGED <<numbers, slots, threads, freezing>>

EndRead ==
  /\ reader.pc = "complete"
  /\ reader' = NoRead
  /\ UNCHANGED <<numbers, slots, threads, freezing>>

-----------------------------------------------------------------------------
Freeze == CloseGate \/ (\E s \in Slot : SealSlot(s)) \/ FreezeComplete
Reader == (\E s \in Slot : ReadStamp(s)) \/ ReadWord \/ Validate \/ EndRead

Next == (\E t \in Thread : Writer(t)) \/ Freeze \/ Reader

Spec == Init /\ [][Next]_vars

-----------------------------------------------------------------------------
(* Properties *)

TypeOK ==
  /\ gate \in BOOLEAN /\ frozen \in BOOLEAN /\ unsealed \subseteq Slot
  /\ sequence \in Sequence /\ tickets \in Sequence
  /\ stamp \in [Slot -> Stamps(Sequence)]
  /\ words \in [Slot -> [Word -> Sequence]]
  /\ pc \in [Thread -> {"idle", "ticket", "load", "claim", "store"}]
  /\ mine \in [Thread -> [seq : Sequence, slot : Slot, seen : Stamps(Sequence), stored : 0 .. EventWords]]

\* "Equality therefore cannot validate a mix of two publications" (ReadSlot),
\* and a slot a crash dump finds usable holds none: all words were stored by the
\* call whose number is in the stamp.
NoMixedRecord ==
  /\ \A s \in Slot : Usable(stamp[s]) => \A w \in Word : words[s][w] = stamp[s].version
  /\ reader.pc = "complete" => \A w \in Word : reader.got[w] = reader.stamp.version

\* "A writer interrupted anywhere cannot undo that seal or turn its partial raw
\* bytes into a valid record" (PublishSlot): once a slot is sealed its stamp
\* never changes, nor do the words of a slot that is usable.
KeepsSealed ==
  \A s \in Slot : stamp[s].sealed =>
    /\ stamp'[s] = stamp[s]
    /\ Usable(stamp[s]) => words'[s] = words[s]
SealHolds == [][KeepsSealed]_vars
=============================================================================
