---------------------------- MODULE Reassembler ----------------------------
(***************************************************************************)
(* Datagrams cut into frames for transports with small ones                *)
(* (p2p/p2p_protocol.cpp: FrameDatagram, Reassembler), from the sending    *)
(* peer of the multiplexer to the receiving one.  The transport loses,     *)
(* repeats and reorders frames.  Message numbers wrap around, so fragments *)
(* of different datagrams with one number must not meet.                   *)
(*                                                                         *)
(* A datagram is its number in the order of sending, and so is each chunk  *)
(* of it.  Assumed of the transport: it delivers a frame within Delay or   *)
(* not at all, and a number is not used again before that and the lifetime *)
(* of what waits for the other fragments are over (65536 datagrams).       *)
(***************************************************************************)
EXTENDS Naturals, Sequences, FiniteSetsExt, Functions

CONSTANTS
  MessageIds,   \* how many there are: 2^16
  MaxPending,   \* 16
  MaxFragments, \* kMaxFragments
  Lifetime,     \* of a datagram that waits for fragments: 2 s
  Delay,        \* of a frame on its way
  MaxMessages, MaxClock \* bounds: datagrams, time

VARIABLES
  clock,
  sent,    \* the datagrams: [count, at], count 1 being a whole frame
  pending, \* Reassembler::m_pending: from message numbers to [count, firstSeen, chunks]
  out      \* what the last call of Push gave: the chunks, or none

vars == <<clock, sent, pending, out>>

Init == clock = 0 /\ sent = <<>> /\ pending = <<>> /\ out = <<>>

Id(m) == m % MessageIds

\* SendToPeer and FrameDatagram: every datagram takes a number, and those that are
\* too long are not sent at all.
Send(count) ==
  LET m == Len(sent) + 1
  IN  /\ m <= MaxMessages
      /\ m > MessageIds => clock > sent[m - MessageIds].at + Delay + Lifetime
      /\ sent' = Append(sent, [count |-> count, at |-> clock])
      /\ UNCHANGED <<clock, pending, out>>

Arrives(m) == clock <= sent[m].at + Delay

PushWhole(m) ==
  /\ Arrives(m)
  /\ sent[m].count = 1
  /\ out' = <<m>>
  /\ UNCHANGED <<clock, sent, pending>>

-----------------------------------------------------------------------------
(* Fragments *)

\* Mutant: waiting datagrams only make room when there are too many.
Live_All == DOMAIN pending

\* Expire: the numbers that are not too old.
Live == {id \in DOMAIN pending : clock - pending[id].firstSeen <= Lifetime}

\* The lowest number makes room for one that has none.
Kept(id) ==
  IF Cardinality(Live) >= MaxPending /\ id \notin Live THEN Live \ {Min(Live)} ELSE Live

\* What waits for fragments of a number, from this one on.
Waiting(id, count) ==
  IF id \in Kept(id) THEN pending[id] ELSE [count |-> count, firstSeen |-> clock, chunks |-> <<>>]

With(id, p) == [n \in Kept(id) \cup {id} |-> IF n = id THEN p ELSE pending[n]]
Without(id) == Restrict(pending, Kept(id) \ {id})

\* A fragment of a datagram that still waits for another one, a repeated one, or
\* one that does not fit what waits.
PushWaits(m, index) ==
  LET count == sent[m].count
      p == Waiting(Id(m), count)
      got == DOMAIN p.chunks \cup {index}
  IN  /\ Arrives(m)
      /\ count > 1
      /\ p.count # count \/ index \in DOMAIN p.chunks \/ Cardinality(got) < p.count
      /\ pending' = IF p.count # count THEN Without(Id(m))
                    ELSE IF index \in DOMAIN p.chunks THEN Restrict(pending, Kept(Id(m)))
                    ELSE With(Id(m), [p EXCEPT !.chunks = [i \in got |->
                                        IF i = index THEN m ELSE p.chunks[i]]])
      /\ out' = <<>>
      /\ UNCHANGED <<clock, sent>>

\* The last fragment.
PushCompletes(m, index) ==
  LET count == sent[m].count
      p == Waiting(Id(m), count)
  IN  /\ Arrives(m)
      /\ count > 1
      /\ p.count = count /\ index \notin DOMAIN p.chunks
      /\ Cardinality(DOMAIN p.chunks) + 1 = p.count
      /\ out' = [i \in 1 .. count |-> IF i = index THEN m ELSE p.chunks[i]]
      /\ pending' = Without(Id(m))
      /\ UNCHANGED <<clock, sent>>

\* The reaper's call of Expire.
Expire ==
  /\ pending' = Restrict(pending, Live)
  /\ UNCHANGED <<clock, sent, out>>

Tick ==
  /\ clock < MaxClock
  /\ clock' = clock + 1
  /\ UNCHANGED <<sent, pending, out>>

Fragment(m) == 1 .. sent[m].count

Next ==
  \/ \E count \in 1 .. MaxFragments : Send(count)
  \/ \E m \in DOMAIN sent : PushWhole(m)
  \/ \E m \in DOMAIN sent : \E index \in Fragment(m) : PushWaits(m, index) \/ PushCompletes(m, index)
  \/ Expire \/ Tick

Spec == Init /\ [][Next]_vars

-----------------------------------------------------------------------------
(* Properties *)

\* "Bound memory use per peer": that many datagrams wait.
TypeOK ==
  /\ clock \in 0 .. MaxClock
  /\ \A m \in DOMAIN sent : sent[m] \in [count : 1 .. MaxFragments, at : 0 .. clock]
  /\ DOMAIN pending \subseteq 0 .. MessageIds - 1 /\ Cardinality(DOMAIN pending) <= MaxPending
  /\ \A id \in DOMAIN pending : pending[id].firstSeen <= clock

\* What Push gives was sent: all chunks of one datagram, whatever was lost,
\* repeated, reordered, thrown out to make room and left over from the datagram
\* that had the number before.
DeliveredIsSent ==
  out # <<>> => \E m \in DOMAIN sent : out = [i \in Fragment(m) |-> m]
=============================================================================
