---------------------------- MODULE PeerRegistry ----------------------------
(***************************************************************************)
(* What the multiplexer promises its users (p2p/p2p_mux.h): a connection   *)
(* has at most one mux id at a time, an id stands for one connection and   *)
(* is never given out again, and an attested identity belongs to an open   *)
(* id and ends with it.  OverlayMux implements this specification.         *)
(***************************************************************************)
EXTENDS Naturals, Functions

CONSTANT Handle

VARIABLES
  open,      \* mux id -> connection handle
  attested,  \* open ids whose real address is known
  nextId     \* every id from here on is unused

vars == <<open, attested, nextId>>

Init ==
  /\ open = [i \in {} |-> 0]
  /\ attested = {}
  /\ nextId = 1

\* A connection without an id gets a fresh one; a relayed one arrives attested.
Open(h, known) ==
  /\ \A i \in DOMAIN open : open[i] # h
  /\ open' = [i \in DOMAIN open \cup {nextId} |-> IF i = nextId THEN h ELSE open[i]]
  /\ attested' = IF known THEN attested \cup {nextId} ELSE attested
  /\ nextId' = nextId + 1

Close(i) ==
  /\ open' = Restrict(open, DOMAIN open \ {i})
  /\ attested' = attested \ {i}
  /\ UNCHANGED nextId

\* Attestations lapse when they were not used for long; open ids gain them.
Attest(S) ==
  /\ S \subseteq DOMAIN open
  /\ attested' = S
  /\ UNCHANGED <<open, nextId>>

Next ==
  \/ \E h \in Handle, known \in BOOLEAN : Open(h, known)
  \/ \E i \in DOMAIN open : Close(i)
  \/ \E S \in SUBSET DOMAIN open : Attest(S)

Spec == Init /\ [][Next]_vars
=============================================================================
