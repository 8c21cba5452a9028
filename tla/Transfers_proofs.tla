--------------------------- MODULE Transfers_proofs ---------------------------
(***************************************************************************)
(* Proofs about what travels in pieces or more than once: the fragments of *)
(* datagrams (Reassembler) and the values of persistent data that server   *)
(* and client keep alike (PersistentSync), for any number of messages,     *)
(* fragments, writes, connections and level changes, any loss, delay and   *)
(* repetition within the bounds of their modules.                          *)
(***************************************************************************)
EXTENDS Reassembler, FiniteSetTheorems, SequenceTheorems, WellFoundedInduction, TLAPS

CONSTANTS
  MaxValue, MaxTimed, MaxWrites, MaxClears, MaxDrops, MaxConns, KeyKinds

VARIABLES
  mirror, kind, session, owed, stored, conn, last, up, toClient, toServer, profile, writes, clears,
  drops

Sync == INSTANCE PersistentSync WITH pending <- owed

-----------------------------------------------------------------------------
(* Reassembler *)

\* There is a message number and a place for a message, and the other bounds are numbers.
FramesBounds ==
  /\ MessageIds \in Nat \ {0} /\ MaxPending \in Nat \ {0} /\ MaxFragments \in Nat
  /\ Lifetime \in Nat /\ Delay \in Nat /\ MaxMessages \in Nat /\ MaxClock \in Nat

\* A datagram, with the time it was sent at.
Datagrams == [count : 1 .. MaxFragments, at : Nat]

FramesTyped ==
  /\ clock \in 0 .. MaxClock
  /\ sent \in Seq(Datagrams)
  /\ \A m \in DOMAIN sent : sent[m].at <= clock
  /\ \A m, n \in DOMAIN sent : m <= n => sent[m].at <= sent[n].at
  /\ DOMAIN pending \subseteq 0 .. MessageIds - 1
  /\ Cardinality(DOMAIN pending) <= MaxPending

\* A message number is not used again while a datagram that has it may still wait, or
\* be on its way.
Spaced ==
  \A m, n \in DOMAIN sent :
    m < n /\ Id(m) = Id(n) => sent[m].at + Delay + Lifetime < sent[n].at

\* What waits under a number is part of the datagram m, and began to wait when it arrived.
IsOf(p, m) ==
  /\ p = [count |-> p.count, firstSeen |-> p.firstSeen, chunks |-> p.chunks]
  /\ p.count = sent[m].count
  /\ p.firstSeen \in Nat
  /\ sent[m].at <= p.firstSeen /\ p.firstSeen <= sent[m].at + Delay
  /\ p.firstSeen <= clock
  /\ DOMAIN p.chunks \subseteq 1 .. p.count
  /\ \A i \in DOMAIN p.chunks : p.chunks[i] = m

\* All that waits under a number is of one datagram.
Owned ==
  \A id \in DOMAIN pending : \E m \in DOMAIN sent : Id(m) = id /\ IsOf(pending[id], m)

\* DeliveredIsSent speaks of the last Push only; what it needs is that the fragments that
\* wait together, Owned, are of one datagram, for which the numbers must be Spaced.
FramesInv == FramesBounds /\ FramesTyped /\ Spaced /\ Owned /\ DeliveredIsSent

-----------------------------------------------------------------------------

\* Numbers with one remainder are a whole turn apart.
LEMMA Modulo ==
  ASSUME NEW k \in Nat \ {0}, NEW m \in Nat, NEW n \in Nat, m < n, m % k = n % k
  PROVE  m <= n - k
<1> DEFINE a == m \div k  b == n \div k
<1>1. a \in Int /\ b \in Int
  OBVIOUS
<1>2. m = k * a + (m % k) /\ n = k * b + (n % k)
  OBVIOUS
<1>3. n - m = k * b - k * a
  BY <1>1, <1>2
<1>4. b > a
  <2> SUFFICES ASSUME b <= a PROVE FALSE
    BY <1>1
  <2>1. k * b <= k * a
    BY <1>1
  <2> QED BY <2>1, <1>3, <1>1
<1>5. k * b >= k * (a + 1)
  BY <1>4, <1>1
<1>6. k * (a + 1) = k * a + k
  BY <1>1
<1> HIDE DEF a, b
<1> QED BY <1>1, <1>3, <1>5, <1>6

\* A set of numbers that is not empty has a least one.
LEMMA Least ==
  ASSUME NEW S \in SUBSET Nat, S # {}
  PROVE  Min(S) \in S
<1> DEFINE T == {0 .. n : n \in S}
<1>1. T \subseteq FiniteSubsetsOf(Nat)
  <2> SUFFICES ASSUME NEW n \in S PROVE 0 .. n \in FiniteSubsetsOf(Nat)
    OBVIOUS
  <2>1. IsFiniteSet(0 .. n)
    BY FS_Interval
  <2> QED BY <2>1 DEF FiniteSubsetsOf
<1>2. PICK x \in T : \A y \in T : ~ (<<y, x>> \in StrictSubsetOrdering(Nat))
  <2>1. IsWellFoundedOn(StrictSubsetOrdering(Nat), FiniteSubsetsOf(Nat))
    BY FS_StrictSubsetOrderingWellFounded
  <2> HIDE DEF T
  <2>2. T # {}
    BY DEF T
  <2> QED BY <1>1, <2>1, <2>2, WFMin
<1>3. PICK n \in S : x = 0 .. n
  OBVIOUS
<1>4. ASSUME NEW m \in S PROVE n <= m
  <2> SUFFICES ASSUME m < n PROVE FALSE
    OBVIOUS
  <2>1. 0 .. m \subseteq 0 .. n /\ 0 .. m # 0 .. n
    OBVIOUS
  <2>2. 0 .. m \in SUBSET Nat /\ 0 .. n \in SUBSET Nat
    OBVIOUS
  <2>3. <<0 .. m, 0 .. n>> \in StrictSubsetOrdering(Nat)
    BY <2>1, <2>2 DEF StrictSubsetOrdering
  <2> QED BY <2>3, <1>2, <1>3
<1> QED BY <1>4 DEF Min

-----------------------------------------------------------------------------
(* What an arriving fragment finds *)

\* A datagram that was sent has a time and a number of fragments.
LEMMA SentType ==
  ASSUME FramesTyped, NEW m \in DOMAIN sent
  PROVE  sent[m] \in Datagrams /\ sent[m].at \in Nat /\ sent[m].count \in 1 .. MaxFragments
<1>1. DOMAIN sent = 1 .. Len(sent) /\ Len(sent) \in Nat
  BY LenProperties DEF FramesTyped
<1>2. sent[m] \in Datagrams
  BY <1>1, ElementOfSeq DEF FramesTyped
<1> QED BY <1>2 DEF Datagrams

\* At first nothing was sent and nothing waits.
LEMMA FramesInitEstablishes == FramesBounds /\ Init => FramesInv
<1> SUFFICES ASSUME FramesBounds, Init PROVE FramesInv
  OBVIOUS
<1>1. DOMAIN pending = {} /\ DOMAIN sent = {}
  BY DEF Init
<1>2. Cardinality(DOMAIN pending) = 0
  BY <1>1, FS_EmptySet
<1>3. sent \in Seq(Datagrams)
  BY DEF Init
<1>4. FramesTyped
  BY <1>1, <1>2, <1>3 DEF FramesTyped, Init, FramesBounds
<1> QED BY <1>1, <1>4 DEF FramesInv, Spaced, Owned, DeliveredIsSent, Init

\* An arriving fragment is one of the datagram that owns the number, if it is live.
LEMMA OneOwner ==
  ASSUME FramesInv, NEW m \in DOMAIN sent, Arrives(m), Id(m) \in Live
  PROVE  IsOf(pending[Id(m)], m)
<1>1. PICK o \in DOMAIN sent : Id(o) = Id(m) /\ IsOf(pending[Id(m)], o)
  BY DEF FramesInv, Owned, Live
<1>2. sent[m].at \in Nat /\ sent[o].at \in Nat /\ sent[m].at <= clock /\ sent[o].at <= clock
  BY SentType DEF FramesInv, FramesTyped
<1>3. clock <= sent[m].at + Delay
  BY DEF Arrives
<1>4. /\ pending[Id(m)].firstSeen \in Nat
      /\ clock - pending[Id(m)].firstSeen <= Lifetime
      /\ pending[Id(m)].firstSeen <= sent[o].at + Delay
  BY <1>1 DEF IsOf, Live
<1>5. clock \in Nat /\ Delay \in Nat /\ Lifetime \in Nat /\ m \in Nat /\ o \in Nat
  BY DEF FramesInv, FramesTyped, FramesBounds
<1>6. ~ (o < m)
  <2>1. o < m => sent[o].at + Delay + Lifetime < sent[m].at
    BY <1>1 DEF FramesInv, Spaced
  <2> QED BY <2>1, <1>2, <1>4, <1>5
<1>7. ~ (m < o)
  <2>1. m < o => sent[m].at + Delay + Lifetime < sent[o].at
    BY <1>1 DEF FramesInv, Spaced
  <2> QED BY <2>1, <1>2, <1>3, <1>5
<1>8. o = m
  BY <1>5, <1>6, <1>7
<1> QED BY <1>1, <1>8

\* Whether it waits or not, what a fragment of a datagram is put with is of the
\* datagram.
LEMMA WaitingIsOf ==
  ASSUME FramesInv, NEW m \in DOMAIN sent, Arrives(m)
  PROVE  IsOf(Waiting(Id(m), sent[m].count), m)
<1>1. CASE Id(m) \in Kept(Id(m))
  BY <1>1, OneOwner DEF Kept, Waiting
<1>2. CASE Id(m) \notin Kept(Id(m))
  <2> DEFINE p == [count |-> sent[m].count, firstSeen |-> clock, chunks |-> <<>>]
  <2>1. Waiting(Id(m), sent[m].count) = p
    BY <1>2 DEF Waiting
  <2>2. /\ p.count = sent[m].count /\ p.firstSeen = clock /\ DOMAIN p.chunks = {}
        /\ p = [count |-> p.count, firstSeen |-> p.firstSeen, chunks |-> p.chunks]
    OBVIOUS
  <2>3. clock \in Nat /\ sent[m].at <= clock /\ clock <= sent[m].at + Delay
    BY DEF FramesInv, FramesTyped, FramesBounds, Arrives
  <2> HIDE DEF p
  <2> QED BY <2>1, <2>2, <2>3 DEF IsOf
<1> QED BY <1>1, <1>2

\* There is room for one number more among those that are kept.
LEMMA Room ==
  ASSUME FramesInv, NEW m \in DOMAIN sent
  PROVE  /\ Kept(Id(m)) \cup {Id(m)} \subseteq 0 .. MessageIds - 1
         /\ Kept(Id(m)) \subseteq DOMAIN pending
         /\ Cardinality(Kept(Id(m)) \cup {Id(m)}) <= MaxPending
         /\ \A S \in SUBSET (Kept(Id(m)) \cup {Id(m)}) : Cardinality(S) <= MaxPending
<1> DEFINE id == Id(m)
<1>1. id \in 0 .. MessageIds - 1
  BY DEF Id, FramesInv, FramesBounds, FramesTyped
<1>2. IsFiniteSet(DOMAIN pending)
  <2>1. IsFiniteSet(0 .. MessageIds - 1)
    BY FS_Interval DEF FramesInv, FramesBounds
  <2> QED BY <2>1, FS_Subset DEF FramesInv, FramesTyped
<1>3. Live \subseteq DOMAIN pending
  BY DEF Live
<1>4. /\ IsFiniteSet(Live) /\ Cardinality(Live) <= Cardinality(DOMAIN pending)
      /\ Cardinality(Live) \in Nat /\ Cardinality(DOMAIN pending) \in Nat
  BY <1>2, <1>3, FS_Subset, FS_CardinalityType
<1>5. Cardinality(Live) <= MaxPending
  BY <1>4 DEF FramesInv, FramesTyped, FramesBounds
<1>6. Cardinality(Kept(id) \cup {id}) <= MaxPending
  <2>1. CASE Cardinality(Live) >= MaxPending /\ id \notin Live
    <3>1. Live # {}
      BY <2>1, FS_EmptySet DEF FramesInv, FramesBounds
    <3>2. Live \in SUBSET Nat
      BY <1>3 DEF FramesInv, FramesTyped
    <3>3. Min(Live) \in Live
      BY <3>1, <3>2, Least
    <3>4. IsFiniteSet(Live \ {Min(Live)}) /\ Cardinality(Live \ {Min(Live)}) = Cardinality(Live) - 1
      BY <3>3, <1>4, FS_RemoveElement
    <3>5. Cardinality((Live \ {Min(Live)}) \cup {id}) = Cardinality(Live)
      <4>1. id \notin Live \ {Min(Live)}
        BY <2>1
      <4> DEFINE S == Live \ {Min(Live)}
      <4>2. id \notin S /\ IsFiniteSet(S) /\ Cardinality(S) = Cardinality(Live) - 1
        BY <4>1, <3>4
      <4> HIDE DEF S
      <4>3. Cardinality(S \cup {id}) = Cardinality(S) + 1
        BY <4>2, FS_AddElement
      <4>4. Cardinality(S \cup {id}) = Cardinality(Live)
        BY <4>2, <4>3, <1>4
      <4> QED BY <4>4 DEF S
    <3> QED BY <2>1, <3>5, <1>5 DEF Kept
  <2>2. CASE id \in Live
    <3>1. Kept(id) \cup {id} = Live
      BY <2>2 DEF Kept
    <3> QED BY <3>1, <1>5
  <2>3. CASE Cardinality(Live) < MaxPending /\ id \notin Live
    <3>1. Kept(id) = Live
      BY <2>3, <1>4 DEF Kept, FramesInv, FramesBounds
    <3>2. Cardinality(Live \cup {id}) = Cardinality(Live) + 1
      BY <2>3, <1>4, FS_AddElement
    <3> QED BY <3>1, <3>2, <2>3, <1>4 DEF FramesInv, FramesBounds
  <2> QED BY <2>1, <2>2, <2>3, <1>4 DEF FramesInv, FramesBounds
<1>7. Kept(id) \subseteq Live
  BY DEF Kept
<1>8. Kept(id) \cup {id} \subseteq 0 .. MessageIds - 1
  BY <1>1, <1>3, <1>7 DEF FramesInv, FramesTyped
<1>9. ASSUME NEW S \in SUBSET (Kept(id) \cup {id}) PROVE Cardinality(S) <= MaxPending
  <2>1. IsFiniteSet(Kept(id) \cup {id})
    <3>1. IsFiniteSet(Kept(id))
      BY <1>4, <1>7, FS_Subset
    <3> QED BY <3>1, FS_AddElement
  <2>2. /\ Cardinality(S) <= Cardinality(Kept(id) \cup {id})
        /\ Cardinality(S) \in Nat /\ Cardinality(Kept(id) \cup {id}) \in Nat
    BY <2>1, FS_Subset, FS_CardinalityType
  <2> QED BY <2>2, <1>6 DEF FramesInv, FramesBounds
<1> QED BY <1>3, <1>6, <1>7, <1>8, <1>9

-----------------------------------------------------------------------------
(* Steps *)

\* A step that leaves datagrams and the clock alone, and whose waiting numbers all
\* have owners.
LEMMA Repending ==
  ASSUME FramesInv, UNCHANGED <<clock, sent>>,
         DOMAIN pending' \subseteq 0 .. MessageIds - 1,
         Cardinality(DOMAIN pending') <= MaxPending,
         \A id \in DOMAIN pending' :
           \/ id \in DOMAIN pending /\ pending'[id] = pending[id]
           \/ \E m \in DOMAIN sent : Id(m) = id /\ IsOf(pending'[id], m),
         DeliveredIsSent'
  PROVE  FramesInv'
<1>1. FramesTyped'
  BY DEF FramesInv, FramesTyped
<1>2. Spaced'
  BY DEF FramesInv, Spaced, Id
<1>3. Owned'
  <2> SUFFICES ASSUME NEW id \in DOMAIN pending'
               PROVE  \E m \in DOMAIN sent' : Id(m) = id /\ IsOf(pending[id], m)'
    BY DEF Owned, Id
  <2>1. \E m \in DOMAIN sent : Id(m) = id /\ IsOf(pending'[id], m)
    BY DEF FramesInv, Owned
  <2> QED BY <2>1 DEF IsOf
<1> QED BY <1>1, <1>2, <1>3 DEF FramesInv, FramesBounds

\* A sender numbers the next datagram.
LEMMA SendKeeps ==
  ASSUME FramesInv, NEW count \in 1 .. MaxFragments, Send(count)
  PROVE  FramesInv'
<1> DEFINE n == Len(sent) + 1
           d == [count |-> count, at |-> clock]
<1>1. /\ sent' = Append(sent, d) /\ UNCHANGED <<clock, pending, out>>
      /\ n > MessageIds => clock > sent[n - MessageIds].at + Delay + Lifetime
  BY DEF Send
<1>2. clock \in Nat /\ d \in Datagrams /\ sent \in Seq(Datagrams)
  BY DEF FramesInv, FramesTyped, FramesBounds, Datagrams
<1>3. /\ sent' \in Seq(Datagrams) /\ DOMAIN sent' = 1 .. n /\ DOMAIN sent = 1 .. n - 1
      /\ n \in Nat /\ sent'[n] = d
      /\ \A i \in DOMAIN sent : sent'[i] = sent[i]
  BY <1>1, <1>2
<1> HIDE DEF n
<1>4. d.at = clock
  OBVIOUS
<1> HIDE DEF d
<1>5. FramesTyped'
  <2>1. \A i \in 1 .. n : sent'[i].at <= clock
    BY <1>2, <1>3, <1>4 DEF FramesInv, FramesTyped
  <2>2. \A i, j \in 1 .. n : i <= j => sent'[i].at <= sent'[j].at
    <3> SUFFICES ASSUME NEW i \in 1 .. n, NEW j \in 1 .. n, i <= j
                 PROVE  sent'[i].at <= sent'[j].at
      OBVIOUS
    <3>1. CASE j = n
      BY <3>1, <2>1, <1>3, <1>4
    <3>2. CASE j # n
      <4>1. i \in DOMAIN sent /\ j \in DOMAIN sent
        BY <3>2, <1>3
      <4> QED BY <4>1, <1>3 DEF FramesInv, FramesTyped
    <3> QED BY <3>1, <3>2
  <2> QED BY <2>1, <2>2, <1>1, <1>3 DEF FramesInv, FramesTyped
<1>6. Spaced'
  <2> SUFFICES ASSUME NEW i \in 1 .. n, NEW j \in 1 .. n, i < j, Id(i) = Id(j)
               PROVE  sent'[i].at + Delay + Lifetime < sent'[j].at
    BY <1>3 DEF Spaced, Id
  <2>1. CASE j # n
    <3>1. i \in DOMAIN sent /\ j \in DOMAIN sent
      BY <2>1, <1>3
    <3> QED BY <3>1, <1>3 DEF FramesInv, Spaced
  <2>2. CASE j = n
    <3>1. i <= n - MessageIds
      <4>1. MessageIds \in Nat \ {0}
        BY DEF FramesInv, FramesBounds
      <4>2. i \in Nat /\ n \in Nat /\ i < n /\ i % MessageIds = n % MessageIds
        BY <2>2, <1>3 DEF Id
      <4> QED BY <4>1, <4>2, Modulo
    <3>2. n > MessageIds /\ n - MessageIds \in DOMAIN sent /\ i \in DOMAIN sent
      BY <3>1, <1>3 DEF FramesInv, FramesBounds
    <3>3. sent[i].at <= sent[n - MessageIds].at
      BY <3>1, <3>2 DEF FramesInv, FramesTyped
    <3>4. sent[i].at \in Nat /\ sent[n - MessageIds].at \in Nat
      BY <3>2, SentType DEF FramesInv
    <3> QED BY <3>2, <3>3, <3>4, <2>2, <1>1, <1>2, <1>3, <1>4, SMTT(30) DEF FramesInv, FramesBounds
  <2> QED BY <2>1, <2>2
<1>7. Owned'
  <2> SUFFICES ASSUME NEW id \in DOMAIN pending
               PROVE  \E m \in DOMAIN sent' : Id(m) = id /\ IsOf(pending[id], m)'
    BY <1>1 DEF Owned, Id
  <2>1. PICK m \in DOMAIN sent : Id(m) = id /\ IsOf(pending[id], m)
    BY DEF FramesInv, Owned
  <2>2. m \in DOMAIN sent' /\ sent'[m] = sent[m]
    BY <1>3
  <2> QED BY <2>1, <2>2, <1>1 DEF IsOf
<1>8. DeliveredIsSent'
  <2> SUFFICES ASSUME out # <<>>
               PROVE  \E m \in DOMAIN sent' : out = [i \in Fragment(m)' |-> m]
    BY <1>1 DEF DeliveredIsSent
  <2>1. PICK m \in DOMAIN sent : out = [i \in Fragment(m) |-> m]
    BY DEF FramesInv, DeliveredIsSent
  <2>2. m \in DOMAIN sent' /\ sent'[m] = sent[m]
    BY <1>3
  <2>3. Fragment(m)' = Fragment(m)
    BY <2>2 DEF Fragment
  <2> QED BY <2>1, <2>2, <2>3
<1> QED BY <1>5, <1>6, <1>7, <1>8 DEF FramesInv, FramesBounds

\* A frame that holds a datagram arrives.
LEMMA PushWholeKeeps ==
  ASSUME FramesInv, NEW m \in DOMAIN sent, PushWhole(m)
  PROVE  FramesInv'
<1>1. out' = <<m>> /\ UNCHANGED <<clock, sent, pending>> /\ sent[m].count = 1
  BY DEF PushWhole
<1>2. DeliveredIsSent'
  <2>1. Fragment(m)' = 1 .. 1
    BY <1>1 DEF Fragment
  <2>2. <<m>> = [i \in 1 .. 1 |-> m]
    OBVIOUS
  <2> QED BY <2>1, <2>2, <1>1 DEF DeliveredIsSent
<1>3. DOMAIN pending' \subseteq 0 .. MessageIds - 1 /\ Cardinality(DOMAIN pending') <= MaxPending
  BY <1>1 DEF FramesInv, FramesTyped
<1> QED BY <1>1, <1>2, <1>3, Repending

\* A fragment arrives, and others are still missing.
LEMMA PushWaitsKeeps ==
  ASSUME FramesInv, NEW m \in DOMAIN sent, NEW index \in Fragment(m), PushWaits(m, index)
  PROVE  FramesInv'
<1> DEFINE id == Id(m)
           p == Waiting(id, sent[m].count)
           got == DOMAIN p.chunks \cup {index}
           q == [p EXCEPT !.chunks = [i \in got |-> IF i = index THEN m ELSE p.chunks[i]]]
<1>1. /\ UNCHANGED <<clock, sent>> /\ out' = <<>>
      /\ pending' = IF p.count # sent[m].count THEN Without(id)
                    ELSE IF index \in DOMAIN p.chunks THEN Restrict(pending, Kept(id))
                    ELSE With(id, q)
  BY DEF PushWaits
<1>2. IsOf(p, m)
  BY WaitingIsOf DEF PushWaits
<1>3. IsOf(q, m)
  <2>1. q.count = p.count /\ q.firstSeen = p.firstSeen /\ DOMAIN q.chunks = got
        /\ q = [count |-> q.count, firstSeen |-> q.firstSeen, chunks |-> q.chunks]
        /\ \A i \in got : q.chunks[i] = IF i = index THEN m ELSE p.chunks[i]
    BY <1>2 DEF IsOf
  <2>2. got \subseteq 1 .. p.count
    BY <1>2 DEF IsOf, Fragment
  <2> HIDE DEF q, p
  <2> QED BY <2>1, <2>2, <1>2 DEF IsOf
<1> HIDE DEF p, q
<1>4. DOMAIN pending' \subseteq Kept(id) \cup {id}
  BY <1>1 DEF With, Without, Restrict
<1>5. \A n \in DOMAIN pending' :
        \/ n \in DOMAIN pending /\ pending'[n] = pending[n]
        \/ \E o \in DOMAIN sent : Id(o) = n /\ IsOf(pending'[n], o)
  BY <1>1, <1>3, Room DEF With, Without, Restrict
<1>6. DeliveredIsSent'
  BY <1>1 DEF DeliveredIsSent
<1>7. DOMAIN pending' \subseteq 0 .. MessageIds - 1 /\ Cardinality(DOMAIN pending') <= MaxPending
  BY <1>4, Room
<1> HIDE DEF id
<1> QED BY <1>1, <1>5, <1>6, <1>7, Repending

\* The last chunk arrives when there are chunks of all other fragments.
LEMMA PushCompletesKeeps ==
  ASSUME FramesInv, NEW m \in DOMAIN sent, NEW index \in Fragment(m), PushCompletes(m, index)
  PROVE  FramesInv'
<1> DEFINE id == Id(m)
           p == Waiting(id, sent[m].count)
<1>1. /\ UNCHANGED <<clock, sent>> /\ index \notin DOMAIN p.chunks
      /\ out' = [i \in 1 .. sent[m].count |-> IF i = index THEN m ELSE p.chunks[i]]
      /\ Cardinality(DOMAIN p.chunks) + 1 = p.count
      /\ pending' = Without(id)
  BY DEF PushCompletes
<1>2. IsOf(p, m)
  BY WaitingIsOf DEF PushCompletes
<1> HIDE DEF p
<1>3. sent[m].count \in Nat /\ p.count = sent[m].count
  BY <1>2, SentType DEF IsOf, FramesInv, FramesBounds
<1>4. DOMAIN p.chunks \cup {index} = 1 .. sent[m].count
  <2>1. DOMAIN p.chunks \cup {index} \in SUBSET (1 .. sent[m].count)
    BY <1>2 DEF IsOf, Fragment
  <2>2. IsFiniteSet(1 .. sent[m].count) /\ Cardinality(1 .. sent[m].count) = sent[m].count
    BY <1>3, FS_Interval
  <2>3. IsFiniteSet(DOMAIN p.chunks)
    BY <2>1, <2>2, FS_Subset
  <2>4. Cardinality(DOMAIN p.chunks \cup {index}) = sent[m].count
    BY <2>3, <1>1, <1>3, FS_AddElement
  <2> QED BY <2>1, <2>2, <2>4, FS_Subset
<1>5. out' = [i \in 1 .. sent[m].count |-> m]
  BY <1>1, <1>2, <1>4 DEF IsOf
<1>6. DeliveredIsSent'
  <2>1. Fragment(m)' = 1 .. sent[m].count
    BY <1>1 DEF Fragment
  <2> QED BY <2>1, <1>1, <1>5 DEF DeliveredIsSent
<1>7. DOMAIN pending' = Kept(id) \ {id} /\ \A n \in DOMAIN pending' : pending'[n] = pending[n]
  BY <1>1 DEF Without, Restrict
<1>8. DOMAIN pending' \subseteq 0 .. MessageIds - 1 /\ Cardinality(DOMAIN pending') <= MaxPending
  BY <1>7, Room
<1>9. DOMAIN pending' \subseteq DOMAIN pending
  BY <1>7, Room
<1> HIDE DEF id
<1> QED BY <1>1, <1>6, <1>7, <1>8, <1>9, Repending

\* What has waited too long goes.
LEMMA ExpireKeeps == FramesInv /\ Expire => FramesInv'
<1> SUFFICES ASSUME FramesInv, Expire PROVE FramesInv'
  OBVIOUS
<1>1. UNCHANGED <<clock, sent, out>> /\ DOMAIN pending' = Live
      /\ \A id \in Live : pending'[id] = pending[id]
  BY DEF Expire, Restrict
<1>2. Live \subseteq DOMAIN pending
  BY DEF Live
<1>3. DOMAIN pending' \subseteq 0 .. MessageIds - 1
  BY <1>1, <1>2 DEF FramesInv, FramesTyped
<1>4. Cardinality(DOMAIN pending') <= MaxPending
  <2>1. IsFiniteSet(0 .. MessageIds - 1)
    BY FS_Interval DEF FramesInv, FramesBounds
  <2>2. IsFiniteSet(DOMAIN pending)
    BY <2>1, FS_Subset DEF FramesInv, FramesTyped
  <2>3. /\ Cardinality(Live) <= Cardinality(DOMAIN pending)
        /\ Cardinality(Live) \in Nat /\ Cardinality(DOMAIN pending) \in Nat
    BY <2>2, <1>2, FS_Subset, FS_CardinalityType
  <2> QED BY <2>3, <1>1 DEF FramesInv, FramesTyped, FramesBounds
<1>5. DeliveredIsSent'
  BY <1>1 DEF FramesInv, DeliveredIsSent, Fragment
<1> QED BY <1>1, <1>2, <1>3, <1>4, <1>5, Repending

\* Time passes.
LEMMA TickKeeps == FramesInv /\ Tick => FramesInv'
<1> SUFFICES ASSUME FramesInv, Tick PROVE FramesInv'
  OBVIOUS
<1>1. UNCHANGED <<sent, pending, out>> /\ clock' = clock + 1 /\ clock' \in 0 .. MaxClock /\ clock \in Nat
  BY DEF Tick, FramesInv, FramesTyped, FramesBounds
<1>2. FramesTyped'
  <2>1. \A m \in DOMAIN sent : sent[m].at \in Nat
    BY SentType DEF FramesInv
  <2> QED BY <1>1, <2>1 DEF FramesInv, FramesTyped
<1>3. Spaced'
  BY <1>1 DEF FramesInv, Spaced, Id
<1>4. Owned'
  BY <1>1 DEF FramesInv, Owned, Id, IsOf
<1>5. DeliveredIsSent'
  BY <1>1 DEF FramesInv, DeliveredIsSent, Fragment
<1> QED BY <1>2, <1>3, <1>4, <1>5 DEF FramesInv, FramesBounds

\* Every step keeps the invariant.
LEMMA FramesStepKeeps == FramesInv /\ [Next]_vars => FramesInv'
<1> SUFFICES ASSUME FramesInv, [Next]_vars PROVE FramesInv'
  OBVIOUS
<1>1. CASE \E count \in 1 .. MaxFragments : Send(count)
  BY <1>1, SendKeeps
<1>2. CASE \E m \in DOMAIN sent : PushWhole(m)
  BY <1>2, PushWholeKeeps
<1>3. CASE \E m \in DOMAIN sent : \E index \in Fragment(m) : PushWaits(m, index)
  BY <1>3, PushWaitsKeeps
<1>4. CASE \E m \in DOMAIN sent : \E index \in Fragment(m) : PushCompletes(m, index)
  BY <1>4, PushCompletesKeeps
<1>5. CASE Expire
  BY <1>5, ExpireKeeps
<1>6. CASE Tick
  BY <1>6, TickKeeps
<1>7. CASE UNCHANGED vars
  BY <1>7 DEF vars, FramesInv, FramesTyped, Spaced, Owned, DeliveredIsSent, Fragment, IsOf, Id, FramesBounds
<1> QED BY <1>1, <1>2, <1>3, <1>4, <1>5, <1>6, <1>7 DEF Next

-----------------------------------------------------------------------------

\* The inductive invariant holds.
LEMMA FramesInvariant == FramesBounds /\ Spec => []FramesInv
<1>1. FramesBounds /\ Init => FramesInv
  BY FramesInitEstablishes
<1>2. FramesInv /\ [Next]_vars => FramesInv'
  BY FramesStepKeeps
<1> QED BY <1>1, <1>2, PTL DEF Spec

\* However fragments are lost, delayed, duplicated and reordered, and although message
\* numbers come round again, what Push gives is all the fragments of one datagram that
\* was sent (Reassembler::Push).
THEOREM FragmentsMatch ==
  ASSUME FramesBounds
  PROVE  Spec => []DeliveredIsSent
<1>1. FramesInv => DeliveredIsSent
  BY DEF FramesInv
<1> QED BY <1>1, FramesInvariant, PTL

\* Every variable of Reassembler keeps its type, and no more messages wait than fit.
THEOREM FramesTypes ==
  ASSUME FramesBounds
  PROVE  Spec => []TypeOK
<1>1. FramesInv => TypeOK
  <2> SUFFICES ASSUME FramesInv PROVE TypeOK
    OBVIOUS
  <2>1. \A m \in DOMAIN sent : sent[m] \in [count : 1 .. MaxFragments, at : 0 .. clock]
    <3> SUFFICES ASSUME NEW m \in DOMAIN sent
                 PROVE  sent[m] \in [count : 1 .. MaxFragments, at : 0 .. clock]
      OBVIOUS
    <3>1. sent[m] \in Datagrams /\ sent[m].at <= clock /\ clock \in Nat
      BY SentType DEF FramesInv, FramesTyped, FramesBounds
    <3> QED BY <3>1 DEF Datagrams
  <2>2. \A id \in DOMAIN pending : pending[id].firstSeen <= clock
    BY DEF FramesInv, Owned, IsOf
  <2> QED BY <2>1, <2>2 DEF FramesInv, FramesTyped, TypeOK
<1> QED BY <1>1, FramesInvariant, PTL

-----------------------------------------------------------------------------
(* PersistentSync *)

\* The bounds are numbers, there is a connection, and the kinds of keys are known.
SyncBounds ==
  /\ MaxValue \in Nat /\ MaxTimed \in Nat /\ MaxConns \in Nat \ {0}
  /\ KeyKinds \subseteq Sync!AllKinds

\* What the server has still to send.
Write == [value : Sync!Value \cup {Sync!Unset}, timed : 0 .. MaxTimed, now : BOOLEAN, by : 0 .. MaxConns]

\* What is on its way to the client.
Commands == [value : Sync!Value, by : 1 .. MaxConns]

\* What is on its way to the server.
Reports == [full : BOOLEAN, value : Sync!Value \cup {Sync!Unset}]

-----------------------------------------------------------------------------
(* The inductive invariant *)

\* A session is never of a later connection, and one bound before the userid was
\* known has none, unless it is that of another connection which BeginSession could
\* not tell from this one.
SessionOlder ==
  /\ session.user <= conn.user
  /\ conn.told /\ session.nc = conn.nc /\ ~ conn.known => session.user = Sync!Unknown

\* What waits to be sent has a value, and was written for some connection.
WritesReal == owed # Sync!NoWrite => owed.value \in Sync!Value /\ owed.by \in 1 .. MaxConns

\* Values in the order they were written in.
Sorted(s) == \A m, n \in DOMAIN s : m <= n => s[m].value <= s[n].value

\* What the profile of the connected client has.
Own == profile[conn.player]

\* Nobody but the server raises a counter.  Commands on their way lie between what
\* the player has and what the server reads; reports are what the player has or
\* had; and once nothing is pending the player has what the server reads.
CounterRises ==
  kind = "counter" /\ conn.told =>
    /\ Sorted(toClient) /\ Sorted(toServer)
    /\ \A n \in DOMAIN toClient : Own <= toClient[n].value /\ toClient[n].value <= Sync!View
    /\ \A n \in DOMAIN toServer : toServer[n].value <= Own
    /\ Sync!BoundPending = Sync!NoWrite =>
         /\ Sync!BoundStored <= Own
         /\ \A n \in DOMAIN toServer : Sync!BoundStored <= toServer[n].value
    /\ conn.met => Own <= Sync!View
    /\ ~ conn.met =>
         /\ Sync!BoundPending = Sync!NoWrite /\ Sync!BoundStored = Sync!Unset /\ toClient = <<>>
         /\ \A n \in DOMAIN toServer : toServer[n].value = Own

SyncInv == Sync!TypeOK /\ SessionOlder /\ WritesReal /\ Sync!NoLeak /\ CounterRises

\* What is shown of every step.
Good == SyncInv' /\ Sync!KeepsCounter

-----------------------------------------------------------------------------
(* Queues *)

LEMMA Appended ==
  ASSUME NEW S, NEW s \in Seq(S), NEW e \in S
  PROVE  /\ Append(s, e) \in Seq(S)
         /\ DOMAIN Append(s, e) = 1 .. Len(s) + 1
         /\ Append(s, e)[Len(s) + 1] = e
         /\ \A n \in DOMAIN s : n \in 1 .. Len(s) /\ Append(s, e)[n] = s[n]
         /\ \A n \in 1 .. Len(s) + 1 : n \in DOMAIN s \/ n = Len(s) + 1
OBVIOUS

LEMMA Single ==
  ASSUME NEW S, NEW e \in S
  PROVE  <<e>> \in Seq(S) /\ DOMAIN <<e>> = {1} /\ <<e>>[1] = e
OBVIOUS

LEMMA AppendedOrOld ==
  ASSUME NEW S, NEW s \in Seq(S), NEW e \in S
  PROVE  \A n \in DOMAIN Append(s, e) :
           Append(s, e)[n] = e \/ (n \in DOMAIN s /\ Append(s, e)[n] = s[n])
BY Appended

LEMMA Elements ==
  ASSUME NEW S, NEW s \in Seq(S)
  PROVE  \A n \in DOMAIN s : s[n] \in S
OBVIOUS

LEMMA Taken ==
  ASSUME NEW S, NEW s \in Seq(S), s # <<>>
  PROVE  /\ Tail(s) \in Seq(S) /\ Head(s) \in S
         /\ 1 \in DOMAIN s /\ Head(s) = s[1]
         /\ \A n \in DOMAIN s : 1 <= n
         /\ \A n \in DOMAIN Tail(s) : n \in Nat /\ n + 1 \in DOMAIN s /\ Tail(s)[n] = s[n + 1]
OBVIOUS

LEMMA SortedTail ==
  ASSUME NEW S, NEW s \in Seq(S), s # <<>>, Sorted(s)
  PROVE  /\ Sorted(Tail(s))
         /\ \A n \in DOMAIN Tail(s) : Head(s).value <= Tail(s)[n].value
<1>1. /\ 1 \in DOMAIN s /\ Head(s) = s[1]
      /\ \A n \in DOMAIN s : 1 <= n
      /\ \A n \in DOMAIN Tail(s) : n \in Nat /\ n + 1 \in DOMAIN s /\ Tail(s)[n] = s[n + 1]
  BY Taken
<1>2. ASSUME NEW m \in DOMAIN Tail(s), NEW n \in DOMAIN Tail(s), m <= n
      PROVE  Tail(s)[m].value <= Tail(s)[n].value
  <2>1. m + 1 <= n + 1
    BY <1>1, <1>2
  <2> QED BY <1>1, <2>1 DEF Sorted
<1>3. \A n \in DOMAIN Tail(s) : s[1].value <= s[n + 1].value
  BY <1>1 DEF Sorted
<1> QED BY <1>1, <1>2, <1>3 DEF Sorted

LEMMA SortedAppend ==
  ASSUME NEW S, NEW s \in Seq(S), NEW e \in S, Sorted(s), e.value \in Nat,
         \A n \in DOMAIN s : s[n].value <= e.value
  PROVE  Sorted(Append(s, e))
<1> SUFFICES ASSUME NEW m \in 1 .. Len(s) + 1, NEW n \in 1 .. Len(s) + 1, m <= n
             PROVE  Append(s, e)[m].value <= Append(s, e)[n].value
  BY Appended DEF Sorted
<1>1. CASE n \in DOMAIN s
  <2>1. m \in DOMAIN s
    BY <1>1
  <2> QED BY <1>1, <2>1, Appended DEF Sorted
<1>2. CASE n = Len(s) + 1
  <2>1. Append(s, e)[n] = e
    BY <1>2, Appended
  <2>2. m \in DOMAIN s \/ m = Len(s) + 1
    BY Appended
  <2> QED BY <1>2, <2>1, <2>2, Appended
<1> QED BY <1>1, <1>2, Appended

-----------------------------------------------------------------------------
(* Sessions *)

\* After an operation has bound the session, the state is that of the connection.
LEMMA Binding ==
  ASSUME SyncBounds, Sync!TypeOK, SessionOlder, session' = Sync!Bound, UNCHANGED mirror,
         conn'.nc = conn.nc, conn'.user = conn.user, conn'.known = conn.known,
         conn'.told = conn.told
  PROVE  /\ Sync!BoundPending' = owed' /\ Sync!BoundStored' = stored'
         /\ Sync!View' = IF owed' # Sync!NoWrite THEN owed'.value ELSE stored'
         /\ SessionOlder'
         /\ session' \in [nc : Sync!Address \cup {"none"}, user : 0 .. MaxConns]
<1>1. Sync!SameConnection'
  BY DEF Sync!SameConnection, Sync!Bound, Sync!TypeOK, Sync!Unknown
<1>2. session' \in [nc : Sync!Address \cup {"none"}, user : 0 .. MaxConns]
  BY DEF Sync!Bound, Sync!TypeOK, SyncBounds, Sync!Unknown
<1>3. SessionOlder'
  BY DEF SessionOlder, Sync!Bound, Sync!SameConnection, Sync!TypeOK, Sync!Unknown
<1> QED BY <1>1, <1>2, <1>3 DEF Sync!BoundPending, Sync!BoundStored, Sync!View

\* Steps that look at no state leave the view alone.
LEMMA Unbound ==
  ASSUME UNCHANGED Sync!stateVars, UNCHANGED mirror,
         conn'.nc = conn.nc, conn'.user = conn.user, conn'.known = conn.known,
         conn'.told = conn.told
  PROVE  /\ Sync!BoundPending' = Sync!BoundPending /\ Sync!BoundStored' = Sync!BoundStored /\ Sync!View' = Sync!View
         /\ SessionOlder' <=> SessionOlder
BY DEF Sync!stateVars, Sync!BoundPending, Sync!BoundStored, Sync!View, Sync!SameConnection, SessionOlder

LEMMA ViewTypes ==
  ASSUME SyncBounds, Sync!TypeOK
  PROVE  /\ Sync!BoundPending \in Write /\ Sync!BoundStored \in Sync!Value \cup {Sync!Unset} /\ Sync!View \in Sync!Value \cup {Sync!Unset}
         /\ Sync!View \in Nat /\ Sync!BoundStored \in Nat /\ Own \in Nat
         /\ (WritesReal /\ Sync!BoundPending # Sync!NoWrite =>
              Sync!BoundPending.value \in Sync!Value /\ Sync!BoundPending.by \in 1 .. MaxConns)
<1>1. Sync!NoWrite \in Write
  BY DEF Sync!NoWrite, Write, SyncBounds
<1>2. Sync!BoundPending \in Write /\ Sync!BoundStored \in Sync!Value \cup {Sync!Unset}
  BY <1>1 DEF Sync!BoundPending, Sync!BoundStored, Sync!TypeOK, Write
<1>3. Sync!View \in Sync!Value \cup {Sync!Unset}
  BY <1>2 DEF Sync!View, Write
<1>4. \A x \in Sync!Value \cup {Sync!Unset} : x \in Nat
  BY DEF Sync!Value, Sync!Unset, SyncBounds
<1>5. Own \in Sync!Value \cup {Sync!Unset}
  BY DEF Own, Sync!TypeOK
<1> QED BY <1>2, <1>3, <1>4, <1>5 DEF Sync!BoundPending, WritesReal

\* Steps that leave the players' copies alone.
LEMMA OnlyView ==
  ASSUME SyncBounds, Sync!TypeOK, UNCHANGED profile, kind = "counter" /\ conn.told => Sync!View' >= Sync!View
  PROVE  Sync!KeepsCounter
<1>1. \A p \in Sync!Player : profile[p] \in Nat
  BY DEF Sync!TypeOK, Sync!Value, Sync!Unset, SyncBounds
<1>2. \A p \in Sync!Player : profile'[p] >= profile[p]
  BY <1>1
<1> QED BY <1>2, Zenon DEF Sync!KeepsCounter

\* What the report of a client that comes is.
LEMMA Arriving ==
  ASSUME NEW v, NEW r \in Sync!Arrivals(v)
  PROVE  r.value = v /\ \E full \in BOOLEAN : r = [full |-> full, value |-> v]
<1>1. PICK full \in IF v = Sync!Unset THEN BOOLEAN ELSE {TRUE} : r = Sync!Report(full, v)
  BY DEF Sync!Arrivals
<1>2. full \in BOOLEAN
  BY <1>1
<1> QED BY <1>1, <1>2 DEF Sync!Report

LEMMA SyncStarts ==
  ASSUME SyncBounds, Sync!Init
  PROVE  SyncInv
<1>1. Sync!TypeOK
  <2>1. PICK r \in Sync!Arrivals(Sync!Unset) : toServer = <<r>>
    BY DEF Sync!Init
  <2>2. r \in Reports
    BY Arriving DEF Reports
  <2>3. toServer \in Seq(Reports) /\ toServer[1].full \in BOOLEAN
    BY <2>1, <2>2 DEF Reports
  <2> QED BY <2>3 DEF Sync!Init, Sync!TypeOK, SyncBounds, Sync!NoSession, Sync!NoWrite,
             Sync!Unknown, Sync!Unset, Sync!Player, Sync!Address, Sync!AllKinds, Reports
<1>2. ~ Sync!SameConnection
  BY DEF Sync!Init, Sync!SameConnection, Sync!NoSession
<1>3. Sync!BoundPending = Sync!NoWrite /\ Sync!BoundStored = Sync!Unset
  BY <1>2 DEF Sync!Init, Sync!BoundPending, Sync!BoundStored
<1>4. SessionOlder /\ WritesReal
  BY DEF Sync!Init, SessionOlder, WritesReal, Sync!NoSession, Sync!Unknown
<1>5. Sync!NoLeak
  BY <1>3 DEF Sync!Init, Sync!NoLeak
<1>6. CounterRises
  <2>1. Own = 0 /\ Sync!Unset = 0 /\ toClient = <<>> /\ ~ conn.met
    BY DEF Sync!Init, Own, Sync!Unset, Sync!Player
  <2>0. PICK r \in Sync!Arrivals(0) : toServer = <<r>>
    BY <2>1 DEF Sync!Init
  <2>2. \A n \in DOMAIN toServer : toServer[n].value = 0
    <3>1. r.value = 0
      BY <2>0, Arriving
    <3> QED BY <2>0, <3>1
  <2>3. DOMAIN toClient = {} /\ DOMAIN toServer = {1}
    BY <2>0, <2>1
  <2>4. toServer[1].value = 0
    BY <2>2, <2>3
  <2>5. Sorted(toServer) /\ Sorted(toClient)
    BY <2>3, <2>4 DEF Sorted
  <2>6. Sync!View = 0
    BY <1>3, <2>1 DEF Sync!View
  <2>7. Own = 0 /\ Sync!BoundStored = 0
    BY <1>3, <2>1
  <2>8. \A n \in DOMAIN toServer : Sync!BoundStored <= toServer[n].value /\ toServer[n].value <= Own
    BY <2>2, <2>7
  <2>9. Sync!BoundStored <= Own /\ Own <= Sync!View
    BY <2>6, <2>7
  <2>10. \A n \in DOMAIN toServer : toServer[n].value = Own
    BY <2>2, <2>7
  <2> QED BY <1>3, <2>1, <2>3, <2>5, <2>8, <2>9, <2>10, Zenon DEF CounterRises
<1> QED BY <1>1, <1>4, <1>5, <1>6 DEF SyncInv

-----------------------------------------------------------------------------
(* Sending a write again *)

LEMMA Resending ==
  ASSUME SyncBounds, NEW w \in Write, w # Sync!NoWrite => w.value \in Sync!Value, NEW timer \in Sync!Timers(w),
         Sync!Resend(w, timer), toClient \in Seq(Commands), w # Sync!NoWrite => w.by \in 1 .. MaxConns
  PROVE  /\ owed' \in Write
         /\ owed' # Sync!NoWrite <=> w # Sync!NoWrite
         /\ owed'.value = w.value /\ owed'.by = w.by
         /\ toClient' = toClient \/ (w # Sync!NoWrite /\ toClient' = Append(toClient, Sync!Command(w)))
         /\ w # Sync!NoWrite => Sync!Command(w) \in Commands
         /\ toClient' \in Seq(Commands)
<1>1. w # Sync!NoWrite => Sync!Command(w) \in Commands
  BY DEF Sync!Command, Commands
<1>2. CASE w # Sync!NoWrite /\ (w.now \/ timer)
  <2>1. /\ owed' = [w EXCEPT !.timed = IF w.now THEN w.timed ELSE w.timed + 1, !.now = FALSE]
        /\ toClient' = Append(toClient, Sync!Command(w))
    BY <1>2 DEF Sync!Resend
  <2>2. w.timed \in 0 .. MaxTimed /\ w.value \in Sync!Value
    BY <1>2 DEF Write
  <2>3. ~ w.now => w.timed < MaxTimed
    BY <1>2 DEF Sync!Timers
  <2>4. (IF w.now THEN w.timed ELSE w.timed + 1) \in 0 .. MaxTimed
    BY <2>2, <2>3 DEF SyncBounds
  <2>5. owed' \in Write /\ owed'.value = w.value /\ owed'.by = w.by
    BY <2>1, <2>4 DEF Write
  <2>6. owed' # Sync!NoWrite
    BY <2>2, <2>5 DEF Sync!NoWrite, Sync!Value, Sync!Unset, SyncBounds
  <2>7. toClient' \in Seq(Commands)
    BY <1>1, <1>2, <2>1
  <2> QED BY <1>1, <1>2, <2>1, <2>5, <2>6, <2>7
<1>3. CASE ~ (w # Sync!NoWrite /\ (w.now \/ timer))
  <2>1. owed' = w /\ toClient' = toClient
    BY <1>3 DEF Sync!Resend
  <2> QED BY <1>1, <2>1
<1> QED BY <1>2, <1>3

\* One more command with the value the server reads.
LEMMA OneMoreCommand ==
  ASSUME SyncBounds, SyncInv, NEW c \in Commands, kind = "counter", conn.told, conn.met,
         \A n \in DOMAIN toClient : toClient[n].value <= c.value, Own <= c.value,
         toClient' = Append(toClient, c), UNCHANGED <<profile, conn>>
  PROVE  /\ Sorted(toClient')
         /\ \A n \in DOMAIN toClient' : Own' <= toClient'[n].value /\ toClient'[n].value <= c.value
<1>1. toClient \in Seq(Commands) /\ c.value \in Nat
  BY DEF SyncInv, Sync!TypeOK, Commands, Sync!Value, SyncBounds
<1>2. Sorted(toClient')
  BY <1>1, SortedAppend DEF SyncInv, CounterRises
<1>3. ASSUME NEW n \in 1 .. Len(toClient) + 1
      PROVE  Own' <= toClient'[n].value /\ toClient'[n].value <= c.value
  <2>1. Own' = Own
    BY DEF Own
  <2>2. CASE n \in DOMAIN toClient
    BY <1>1, <2>1, <2>2, Appended DEF SyncInv, CounterRises
  <2>3. CASE n = Len(toClient) + 1
    BY <1>1, <2>1, <2>3, Appended
  <2> QED BY <1>1, <2>2, <2>3, Appended
<1> QED BY <1>1, <1>2, <1>3, Appended

LEMMA ServiceGood ==
  ASSUME SyncBounds, SyncInv, Sync!Service
  PROVE  Good
<1> USE DEF SyncInv
<1>1. /\ session' = Sync!Bound /\ stored' = Sync!BoundStored
      /\ UNCHANGED <<Sync!kinds, conn, last, up, toServer, profile, Sync!counters>>
  BY DEF Sync!Service
<1>2. PICK timer \in Sync!Timers(Sync!BoundPending) : Sync!Resend(Sync!BoundPending, timer)
  BY DEF Sync!Service
<1>3. /\ Sync!BoundPending \in Write /\ Sync!BoundStored \in Sync!Value \cup {Sync!Unset} /\ Sync!View \in Nat
      /\ Sync!BoundPending # Sync!NoWrite =>
           Sync!BoundPending.value \in Sync!Value /\ Sync!BoundPending.by \in 1 .. MaxConns
  BY ViewTypes
<1>4. toClient \in Seq(Commands) /\ conn.user \in 1 .. MaxConns
  BY DEF Sync!TypeOK, Commands
<1>5. conn.told /\ Sync!BoundPending # Sync!NoWrite => Sync!BoundPending.by = conn.user
  BY DEF Sync!NoLeak
<1>6. /\ owed' \in Write
      /\ owed' # Sync!NoWrite <=> Sync!BoundPending # Sync!NoWrite
      /\ owed'.value = Sync!BoundPending.value /\ owed'.by = Sync!BoundPending.by
      /\ \/ toClient' = toClient
         \/ Sync!BoundPending # Sync!NoWrite /\ toClient' = Append(toClient, Sync!Command(Sync!BoundPending))
      /\ Sync!BoundPending # Sync!NoWrite => Sync!Command(Sync!BoundPending) \in Commands
      /\ toClient' \in Seq(Commands)
  BY <1>2, <1>3, <1>4, Resending
<1>7. /\ Sync!BoundPending' = owed' /\ Sync!BoundStored' = stored' /\ SessionOlder'
      /\ Sync!View' = IF owed' # Sync!NoWrite THEN owed'.value ELSE stored'
      /\ session' \in [nc : Sync!Address \cup {"none"}, user : 0 .. MaxConns]
  BY <1>1, Binding DEF Sync!kinds
<1>8. Sync!View' = Sync!View
  BY <1>1, <1>6, <1>7 DEF Sync!View
<1>9. Sync!TypeOK'
  BY <1>1, <1>3, <1>6, <1>7 DEF Sync!TypeOK, Sync!kinds, Write, Commands
<1>10. WritesReal'
  BY <1>3, <1>6 DEF WritesReal
<1>11. Sync!NoLeak'
  <2> SUFFICES ASSUME conn.told PROVE Sync!NoLeak'
    BY <1>1 DEF Sync!NoLeak
  <2>1. \A n \in DOMAIN toClient : toClient[n].by = conn.user
    BY DEF Sync!NoLeak
  <2>2. Sync!BoundPending # Sync!NoWrite => Sync!Command(Sync!BoundPending).by = conn.user
    BY <1>5 DEF Sync!Command
  <2>3. \A n \in DOMAIN toClient' : toClient'[n].by = conn.user
    BY <1>4, <1>6, <2>1, <2>2, Appended
  <2> QED BY <1>1, <1>5, <1>6, <1>7, <2>3 DEF Sync!NoLeak
<1>12. CounterRises'
  <2> SUFFICES ASSUME kind = "counter", conn.told PROVE CounterRises'
    BY <1>1 DEF CounterRises, Sync!kinds
  <2>1. Own' = Own
    BY <1>1 DEF Own
  <2>2. /\ Sorted(toClient')
        /\ \A n \in DOMAIN toClient' : Own <= toClient'[n].value /\ toClient'[n].value <= Sync!View
    <3>1. CASE toClient' = toClient
      BY <3>1 DEF CounterRises
    <3>2. CASE Sync!BoundPending # Sync!NoWrite /\ toClient' = Append(toClient, Sync!Command(Sync!BoundPending))
      <4>1. conn.met
        BY <3>2 DEF CounterRises
      <4>2. Sync!Command(Sync!BoundPending).value = Sync!View
        BY <3>2 DEF Sync!Command, Sync!View
      <4>3. Own <= Sync!View /\ \A n \in DOMAIN toClient : toClient[n].value <= Sync!View
        BY <4>1 DEF CounterRises
      <4> QED BY <1>1, <1>6, <2>1, <3>2, <4>1, <4>2, <4>3, OneMoreCommand
    <3> QED BY <1>6, <3>1, <3>2
  <2>3. ~ conn.met => toClient' = <<>>
    BY <1>6 DEF CounterRises
  <2> QED BY <1>1, <1>6, <1>7, <1>8, <2>1, <2>2, <2>3 DEF CounterRises
<1>13. Sync!KeepsCounter
  BY <1>1, <1>3, <1>8, OnlyView
<1> QED BY <1>7, <1>9, <1>10, <1>11, <1>12, <1>13 DEF Good

LEMMA ServerWriteGood ==
  ASSUME SyncBounds, SyncInv, NEW v \in Sync!Value, Sync!ServerWrite(v)
  PROVE  Good
<1> USE DEF SyncInv
<1> DEFINE w == [value |-> v, timed |-> 0, now |-> FALSE, by |-> conn.user]
<1>1. /\ conn.met /\ session' = Sync!Bound /\ last' = v
      /\ kind = "counter" => v > Sync!View
      /\ UNCHANGED <<Sync!kinds, conn, up, toServer, profile, clears, drops>>
  BY DEF Sync!ServerWrite
<1>2. \/ v = Sync!View /\ owed' = Sync!BoundPending /\ stored' = Sync!BoundStored /\ toClient' = toClient
      \/ owed' = w /\ stored' = v /\ toClient' = Append(toClient, Sync!Command(w))
  BY DEF Sync!ServerWrite
<1>3. /\ Sync!BoundPending \in Write /\ Sync!BoundStored \in Sync!Value \cup {Sync!Unset} /\ Sync!View \in Nat /\ Own \in Nat
      /\ Sync!BoundPending # Sync!NoWrite =>
           Sync!BoundPending.value \in Sync!Value /\ Sync!BoundPending.by \in 1 .. MaxConns
  BY ViewTypes
<1>4. toClient \in Seq(Commands) /\ conn.user \in 1 .. MaxConns /\ v \in Nat \ {0}
  BY DEF Sync!TypeOK, Commands, Sync!Value, SyncBounds
<1>5. w \in Write /\ w # Sync!NoWrite /\ w.value = v /\ w.by = conn.user
  BY <1>4 DEF Write, Sync!NoWrite, Sync!Unset, SyncBounds
<1>6. Sync!Command(w) \in Commands /\ Sync!Command(w).value = v /\ Sync!Command(w).by = conn.user
  BY <1>4 DEF Sync!Command, Commands
<1>7. /\ Sync!BoundPending' = owed' /\ Sync!BoundStored' = stored' /\ SessionOlder'
      /\ Sync!View' = IF owed' # Sync!NoWrite THEN owed'.value ELSE stored'
      /\ session' \in [nc : Sync!Address \cup {"none"}, user : 0 .. MaxConns]
  BY <1>1, Binding DEF Sync!kinds
<1>8. Sync!View' = v
  BY <1>2, <1>5, <1>7 DEF Sync!View
<1>9. Sync!TypeOK'
  <2>1. owed' \in Write /\ stored' \in Sync!Value \cup {Sync!Unset} /\ toClient' \in Seq(Commands)
    <3>1. CASE owed' = Sync!BoundPending /\ stored' = Sync!BoundStored /\ toClient' = toClient
      BY <1>3, <1>4, <3>1
    <3>2. CASE owed' = w /\ stored' = v /\ toClient' = Append(toClient, Sync!Command(w))
      <4>1. Append(toClient, Sync!Command(w)) \in Seq(Commands)
        BY <1>4, <1>6, Appended
      <4> QED BY <1>5, <3>2, <4>1
    <3> QED BY <1>2, <3>1, <3>2
  <2> QED BY <1>1, <1>7, <2>1 DEF Sync!TypeOK, Sync!kinds, Write, Commands
<1>10. WritesReal'
  BY <1>2, <1>3, <1>4, <1>5 DEF WritesReal
<1>11. Sync!NoLeak'
  <2> SUFFICES ASSUME conn.told PROVE Sync!NoLeak'
    BY <1>1 DEF Sync!NoLeak
  <2>1. \A n \in DOMAIN toClient : toClient[n].by = conn.user
    BY DEF Sync!NoLeak
  <2>2. \A n \in DOMAIN toClient' : toClient'[n].by = conn.user
    <3>1. CASE toClient' = toClient
      BY <2>1, <3>1
    <3>2. CASE toClient' = Append(toClient, Sync!Command(w))
      <4>1. \A n \in DOMAIN toClient' :
              toClient'[n] = Sync!Command(w) \/ (n \in DOMAIN toClient /\ toClient'[n] = toClient[n])
        BY <1>4, <1>6, <3>2, AppendedOrOld
      <4> QED BY <1>6, <2>1, <4>1, Zenon
    <3> QED BY <1>2, <3>1, <3>2
  <2> QED BY <1>1, <1>2, <1>5, <1>7, <2>2 DEF Sync!NoLeak
<1>12. CounterRises'
  <2> SUFFICES ASSUME kind = "counter", conn.told PROVE CounterRises'
    BY <1>1 DEF CounterRises, Sync!kinds
  <2>1. Own' = Own /\ owed' = w /\ stored' = v /\ toClient' = Append(toClient, Sync!Command(w))
    BY <1>1, <1>2, <1>3, <1>4 DEF Own
  <2>2. Own <= Sync!View /\ \A n \in DOMAIN toClient : toClient[n].value <= Sync!View
    BY <1>1 DEF CounterRises
  <2>3. \A n \in DOMAIN toClient : toClient[n].value \in Nat
    <3>1. \A n \in DOMAIN toClient : toClient[n] \in Commands
      BY <1>4, Elements
    <3> QED BY <3>1 DEF Commands, Sync!Value, SyncBounds
  <2>4. Own <= v /\ \A n \in DOMAIN toClient : toClient[n].value <= v
    BY <1>1, <1>3, <1>4, <2>2, <2>3
  <2>5. /\ Sorted(toClient')
        /\ \A n \in DOMAIN toClient' : Own' <= toClient'[n].value /\ toClient'[n].value <= v
    BY <1>1, <1>6, <2>1, <2>4, OneMoreCommand
  <2> QED BY <1>1, <1>5, <1>7, <1>8, <2>1, <2>4, <2>5 DEF CounterRises
<1>13. Sync!KeepsCounter
  <2>1. kind = "counter" /\ conn.told => Sync!View' >= Sync!View
    BY <1>1, <1>3, <1>4, <1>8
  <2> QED BY <1>1, <2>1, OnlyView
<1> QED BY <1>7, <1>9, <1>10, <1>11, <1>12, <1>13 DEF Good

-----------------------------------------------------------------------------
(* Reports *)

LEMMA ServerReceivesGood ==
  ASSUME SyncBounds, SyncInv, Sync!ServerReceives
  PROVE  Good
<1> USE DEF SyncInv
<1> DEFINE report == Head(toServer)
<1>1. /\ toServer # <<>> /\ toServer' = Tail(toServer) /\ session' = Sync!Bound
      /\ conn' = [conn EXCEPT !.met = TRUE]
      /\ UNCHANGED <<Sync!kinds, last, up, profile, Sync!counters>>
  BY DEF Sync!ServerReceives
<1>2. \/ /\ Sync!BoundPending = Sync!NoWrite /\ owed' = Sync!NoWrite /\ toClient' = toClient
         /\ stored' = IF report.value # Sync!Unset \/ (mirror /\ report.full)
                      THEN report.value ELSE Sync!BoundStored
      \/ /\ Sync!BoundPending # Sync!NoWrite /\ stored' = Sync!Reconciled(report)
         /\ \E timer \in Sync!Timers(Sync!BoundPending) : Sync!Resend(Sync!AfterReport(report), timer)
  BY DEF Sync!ServerReceives
<1>3. /\ Sync!BoundPending \in Write /\ Sync!BoundStored \in Sync!Value \cup {Sync!Unset} /\ Sync!BoundStored \in Nat
      /\ Sync!View \in Nat /\ Own \in Nat
      /\ Sync!BoundPending # Sync!NoWrite =>
           Sync!BoundPending.value \in Sync!Value /\ Sync!BoundPending.by \in 1 .. MaxConns
  BY ViewTypes
<1>4. /\ toClient \in Seq(Commands) /\ toServer \in Seq(Reports) /\ conn.user \in 1 .. MaxConns
  BY DEF Sync!TypeOK, Commands, Reports
<1>5. report \in Reports /\ Tail(toServer) \in Seq(Reports) /\ 1 \in DOMAIN toServer
      /\ report = toServer[1]
  BY <1>1, <1>4, Taken
<1>6. report.value \in Sync!Value \cup {Sync!Unset} /\ report.value \in Nat
  BY <1>5 DEF Reports, Sync!Value, Sync!Unset, SyncBounds
<1>7. conn.told /\ Sync!BoundPending # Sync!NoWrite => Sync!BoundPending.by = conn.user
  BY DEF Sync!NoLeak
<1>8. /\ conn'.nc = conn.nc /\ conn'.user = conn.user /\ conn'.known = conn.known /\ conn'.met
      /\ conn'.told = conn.told
      /\ conn'.player = conn.player
      /\ conn' \in [player : Sync!Player, nc : Sync!Address, user : 1 .. MaxConns, known : BOOLEAN,
                    met : BOOLEAN, told : BOOLEAN, full : BOOLEAN]
  BY <1>1 DEF Sync!TypeOK
<1>9. /\ Sync!BoundPending' = owed' /\ Sync!BoundStored' = stored' /\ SessionOlder'
      /\ Sync!View' = IF owed' # Sync!NoWrite THEN owed'.value ELSE stored'
      /\ session' \in [nc : Sync!Address \cup {"none"}, user : 0 .. MaxConns]
  BY <1>1, <1>8, Binding DEF Sync!kinds
<1>10. Own' = Own
  BY <1>1, <1>8 DEF Own
\* What the server has got of the counter, and what is still on its way.
<1>11. ASSUME kind = "counter", conn.told
       PROVE  /\ report.value <= Own
              /\ Sorted(Tail(toServer))
              /\ \A n \in DOMAIN Tail(toServer) :
                   /\ report.value <= Tail(toServer)[n].value
                   /\ Tail(toServer)[n].value <= Own
              /\ Sync!BoundPending = Sync!NoWrite => Sync!BoundStored <= report.value
              /\ ~ conn.met => report.value = Own
  <2>1. Sorted(toServer)
    BY <1>11 DEF CounterRises
  <2>2. /\ Sorted(Tail(toServer))
        /\ \A n \in DOMAIN Tail(toServer) : report.value <= Tail(toServer)[n].value
    BY <1>1, <1>4, <2>1, SortedTail
  <2>3. \A n \in DOMAIN Tail(toServer) : n + 1 \in DOMAIN toServer /\ Tail(toServer)[n] = toServer[n + 1]
    BY <1>1, <1>4, Taken
  <2>4. \A n \in DOMAIN Tail(toServer) : Tail(toServer)[n].value <= Own
    BY <1>11, <2>3 DEF CounterRises
  <2> QED BY <1>5, <1>11, <2>2, <2>4 DEF CounterRises
<1>12. CASE Sync!BoundPending = Sync!NoWrite
  <2>1. /\ owed' = Sync!NoWrite /\ toClient' = toClient
        /\ stored' = IF report.value # Sync!Unset \/ (mirror /\ report.full)
                     THEN report.value ELSE Sync!BoundStored
    BY <1>2, <1>12
  <2>2. Sync!View' = stored' /\ Sync!View = Sync!BoundStored
    BY <1>9, <1>12, <2>1 DEF Sync!View
  <2>3. Sync!NoWrite \in Write /\ stored' \in Sync!Value \cup {Sync!Unset}
    BY <1>3, <1>6, <1>12, <2>1
  <2>4. Sync!TypeOK'
    BY <1>1, <1>5, <1>8, <1>9, <2>1, <2>3 DEF Sync!TypeOK, Sync!kinds, Write, Reports
  <2>5. WritesReal' /\ Sync!NoLeak'
    BY <1>8, <1>9, <2>1 DEF WritesReal, Sync!NoLeak
  <2>6. kind = "counter" /\ conn.told => stored' = report.value
    BY <1>3, <1>6, <1>11, <1>12, <2>1 DEF Sync!Unset
  <2>7. kind = "counter" /\ conn.told => Sync!View' >= Sync!View
    BY <1>11, <1>12, <2>2, <2>6
  <2>8. CounterRises'
    <3> SUFFICES ASSUME kind = "counter", conn.told PROVE CounterRises'
      BY <1>1, <1>8 DEF CounterRises, Sync!kinds
    <3>1. Own <= Sync!View'
      <4>1. CASE conn.met
        <5>1. Own <= Sync!View /\ Sync!View' >= Sync!View /\ Sync!View' \in Nat
          BY <1>6, <2>2, <2>6, <2>7, <4>1 DEF CounterRises
        <5> QED BY <1>3, <5>1
      <4>2. CASE ~ conn.met
        BY <1>3, <1>11, <2>2, <2>6, <4>2
      <4> QED BY <4>1, <4>2
    <3>2. \A n \in DOMAIN toClient : Own <= toClient[n].value /\ toClient[n].value <= Sync!View'
      <4> SUFFICES ASSUME NEW n \in DOMAIN toClient
                   PROVE  Own <= toClient[n].value /\ toClient[n].value <= Sync!View'
        OBVIOUS
      <4>1. toClient[n] \in Commands
        BY <1>4, Elements
      <4>2. toClient[n].value \in Nat
        BY <4>1 DEF Commands, Sync!Value, SyncBounds
      <4>3. Own <= toClient[n].value /\ toClient[n].value <= Sync!View
        BY DEF CounterRises
      <4> QED BY <1>3, <1>6, <2>2, <2>6, <2>7, <4>2, <4>3
    <3>3. Sorted(toClient)
      BY DEF CounterRises
    <3>4. /\ Sync!BoundStored' <= Own /\ Sorted(toServer')
          /\ \A n \in DOMAIN toServer' : Sync!BoundStored' <= toServer'[n].value /\ toServer'[n].value <= Own
      BY <1>1, <1>9, <1>11, <2>6
    <3> QED BY <1>8, <1>10, <2>1, <3>1, <3>2, <3>3, <3>4, Zenon DEF CounterRises
  <2>9. Sync!KeepsCounter
    BY <1>1, <2>7, OnlyView
  <2> QED BY <1>9, <2>4, <2>5, <2>8, <2>9 DEF Good
<1>13. CASE Sync!BoundPending # Sync!NoWrite
  <2> DEFINE w == Sync!AfterReport(report)
  <2>1. PICK timer \in Sync!Timers(Sync!BoundPending) : Sync!Resend(w, timer)
    BY <1>2, <1>13
  <2>2. CASE Sync!Acknowledges(report)
    <3>1. w = Sync!NoWrite
      BY <2>2 DEF Sync!AfterReport
    <3>2. owed' = Sync!NoWrite /\ toClient' = toClient
      BY <2>1, <3>1 DEF Sync!Resend
    <3>3. stored' = report.value /\ Sync!BoundPending.value = report.value
      <4>1. report.value # Sync!Unset
        BY <1>3, <1>13, <2>2 DEF Sync!Acknowledges, Sync!Value, Sync!Unset
      <4> QED BY <1>2, <1>13, <2>2, <4>1 DEF Sync!Acknowledges, Sync!Reconciled
    <3>4. Sync!View' = Sync!View
      BY <1>9, <1>13, <3>2, <3>3 DEF Sync!View
    <3>5. Sync!NoWrite \in Write
      BY DEF Sync!NoWrite, Write, SyncBounds
    <3>6. Sync!TypeOK'
      BY <1>1, <1>5, <1>6, <1>8, <1>9, <3>2, <3>3, <3>5 DEF Sync!TypeOK, Sync!kinds, Write, Reports
    <3>7. WritesReal' /\ Sync!NoLeak'
      BY <1>8, <1>9, <3>2 DEF WritesReal, Sync!NoLeak
    <3>8. CounterRises'
      <4> SUFFICES ASSUME kind = "counter", conn.told PROVE CounterRises'
        BY <1>1, <1>8 DEF CounterRises, Sync!kinds
      <4>1. /\ Sorted(toClient) /\ Own <= Sync!View
            /\ \A n \in DOMAIN toClient : Own <= toClient[n].value /\ toClient[n].value <= Sync!View
        BY <1>13 DEF CounterRises
      <4>2. /\ Sync!BoundStored' <= Own /\ Sorted(toServer')
            /\ \A n \in DOMAIN toServer' : Sync!BoundStored' <= toServer'[n].value /\ toServer'[n].value <= Own
        BY <1>1, <1>9, <1>11, <3>3
      <4> QED BY <1>8, <1>10, <3>2, <3>4, <4>1, <4>2, Zenon DEF CounterRises
    <3>9. Sync!KeepsCounter
      BY <1>1, <1>3, <3>4, OnlyView
    <3> QED BY <1>9, <3>6, <3>7, <3>8, <3>9 DEF Good
  <2>3. CASE ~ Sync!Acknowledges(report)
    <3>1. /\ w \in Write /\ w.value = Sync!BoundPending.value /\ w.by = Sync!BoundPending.by
          /\ timer \in BOOLEAN
          /\ w.now \/ timer \in Sync!Timers(w)
      <4>1. CASE report.full
        <5>1. w = [Sync!BoundPending EXCEPT !.now = TRUE, !.timed = 0]
          BY <2>3, <4>1 DEF Sync!AfterReport
        <5>2. 0 \in 0 .. MaxTimed
          BY DEF SyncBounds
        <5> QED BY <1>3, <5>1, <5>2 DEF Write, Sync!Timers
      <4>2. CASE ~ report.full
        <5>1. w = Sync!BoundPending
          BY <2>3, <4>2 DEF Sync!AfterReport
        <5> QED BY <1>3, <5>1 DEF Sync!Timers
      <4> QED BY <4>1, <4>2
    <3>2. w # Sync!NoWrite /\ w.value \in Sync!Value
      BY <1>3, <1>13, <3>1 DEF Sync!NoWrite, Sync!Value, Sync!Unset, SyncBounds
    <3>3. w.by \in 1 .. MaxConns /\ (conn.told => w.by = conn.user)
      BY <1>3, <1>7, <1>13, <3>1
    <3>4. \E other \in Sync!Timers(w) : Sync!Resend(w, other)
      <4>1. CASE timer \in Sync!Timers(w)
        BY <2>1, <4>1
      <4>2. CASE w.now
        <5>1. FALSE \in Sync!Timers(w)
          BY DEF Sync!Timers
        <5>2. Sync!Resend(w, FALSE)
          BY <2>1, <4>2 DEF Sync!Resend
        <5> QED BY <5>1, <5>2
      <4> QED BY <3>1, <4>1, <4>2
    <3> HIDE DEF w
    <3>5. /\ owed' \in Write /\ owed' # Sync!NoWrite
          /\ owed'.value = w.value /\ owed'.by = w.by
          /\ toClient' = toClient \/ toClient' = Append(toClient, Sync!Command(w))
          /\ Sync!Command(w) \in Commands
          /\ toClient' \in Seq(Commands)
      BY <1>4, <3>1, <3>2, <3>3, <3>4, Resending
    <3>6. Sync!View = w.value /\ Sync!View' = Sync!View
      BY <1>9, <1>13, <3>1, <3>5 DEF Sync!View
    <3>7. stored' \in Sync!Value \cup {Sync!Unset}
      BY <1>2, <1>3, <1>13 DEF Sync!Reconciled
    <3>8. Sync!TypeOK'
      BY <1>1, <1>5, <1>8, <1>9, <3>5, <3>7 DEF Sync!TypeOK, Sync!kinds, Write, Reports, Commands
    <3>9. WritesReal'
      BY <3>2, <3>3, <3>5 DEF WritesReal
    <3>10. Sync!NoLeak'
      <4> SUFFICES ASSUME conn.told PROVE Sync!NoLeak'
        BY <1>8 DEF Sync!NoLeak
      <4>0. w.by = conn.user
        BY <3>3
      <4>1. \A n \in DOMAIN toClient : toClient[n].by = conn.user
        BY DEF Sync!NoLeak
      <4>2. Sync!Command(w).by = conn.user
        BY <4>0 DEF Sync!Command
      <4>3. \A n \in DOMAIN toClient' : toClient'[n].by = conn.user
        BY <1>4, <3>5, <4>1, <4>2, Appended
      <4> QED BY <1>8, <1>9, <4>0, <3>5, <4>3 DEF Sync!NoLeak
    <3>11. CounterRises'
      <4> SUFFICES ASSUME kind = "counter", conn.told PROVE CounterRises'
        BY <1>1, <1>8 DEF CounterRises, Sync!kinds
      <4>1. /\ conn.met /\ Sorted(toClient) /\ Own <= Sync!View
            /\ \A n \in DOMAIN toClient : Own <= toClient[n].value /\ toClient[n].value <= Sync!View
        BY <1>13 DEF CounterRises
      <4>2. /\ Sorted(toClient')
            /\ \A n \in DOMAIN toClient' : Own <= toClient'[n].value /\ toClient'[n].value <= Sync!View
        <5>1. CASE toClient' = toClient
          BY <4>1, <5>1
        <5>2. CASE toClient' = Append(toClient, Sync!Command(w))
          <6>1. Sync!Command(w).value = Sync!View
            BY <3>6 DEF Sync!Command
          <6>2. Sync!Command(w).value \in Nat
            BY <1>3, <6>1
          <6>3. Sorted(toClient')
            BY <1>4, <3>5, <4>1, <5>2, <6>1, <6>2, SortedAppend
          <6>4. \A n \in DOMAIN toClient' : toClient'[n] = Sync!Command(w) \/
                  (n \in DOMAIN toClient /\ toClient'[n] = toClient[n])
            BY <1>4, <3>5, <5>2, Appended
          <6> QED BY <1>3, <4>1, <6>1, <6>3, <6>4
        <5> QED BY <3>5, <5>1, <5>2
      <4>3. /\ Sorted(toServer')
            /\ \A n \in DOMAIN toServer' : toServer'[n].value <= Own
        BY <1>1, <1>11
      <4> QED BY <1>8, <1>9, <1>10, <3>5, <3>6, <4>1, <4>2, <4>3, Zenon DEF CounterRises
    <3>12. Sync!KeepsCounter
      BY <1>1, <1>3, <3>6, OnlyView
    <3> QED BY <1>9, <3>8, <3>9, <3>10, <3>11, <3>12 DEF Good
  <2> QED BY <2>2, <2>3
<1> QED BY <1>12, <1>13

-----------------------------------------------------------------------------
(* The client *)

\* A report of a changed value.
LEMMA Setting ==
  ASSUME SyncBounds, SyncInv, NEW v \in Sync!Value, Sync!Set(conn.player, v)
  PROVE  /\ profile' \in [Sync!Player -> Sync!Value \cup {Sync!Unset}] /\ toServer' \in Seq(Reports)
         /\ profile'[conn.player] = v
         /\ \A p \in Sync!Player : p # conn.player => profile'[p] = profile[p]
         /\ \E r \in Reports :
              /\ r.value = v
              /\ toServer' = toServer \/ toServer' = Append(toServer, r)
<1>1. /\ profile' = [profile EXCEPT ![conn.player] = v]
      /\ toServer' = IF v = Own THEN toServer ELSE Append(toServer, Sync!Report(FALSE, v))
  BY DEF Sync!Set, Own
<1>2. /\ conn.player \in Sync!Player /\ profile \in [Sync!Player -> Sync!Value \cup {Sync!Unset}]
      /\ toServer \in Seq(Reports)
  BY DEF SyncInv, Sync!TypeOK, Reports
<1>3. Sync!Report(FALSE, v) \in Reports /\ Sync!Report(FALSE, v).value = v
  BY DEF Sync!Report, Reports
<1>4. Append(toServer, Sync!Report(FALSE, v)) \in Seq(Reports)
  BY <1>2, <1>3, Appended
<1>5. toServer' = toServer \/ toServer' = Append(toServer, Sync!Report(FALSE, v))
  BY <1>1, Zenon
<1>6. \E r \in Reports :
         /\ r.value = v
         /\ toServer' = toServer \/ toServer' = Append(toServer, r)
  BY <1>3, <1>5, Zenon
<1>7. toServer' \in Seq(Reports)
  BY <1>2, <1>4, <1>5, Zenon
<1> QED BY <1>1, <1>2, <1>6, <1>7

LEMMA ClientReceivesGood ==
  ASSUME SyncBounds, SyncInv, Sync!ClientReceives
  PROVE  Good
<1> USE DEF SyncInv
<1> DEFINE v == Head(toClient).value
<1>1. /\ toClient # <<>> /\ Sync!Set(conn.player, v) /\ toClient' = Tail(toClient)
      /\ UNCHANGED <<Sync!kinds, Sync!stateVars, conn, last, up, Sync!counters>>
  BY DEF Sync!ClientReceives
<1>2. toClient \in Seq(Commands) /\ toServer \in Seq(Reports) /\ conn.player \in Sync!Player
  BY DEF Sync!TypeOK, Commands, Reports
<1>3. /\ Tail(toClient) \in Seq(Commands) /\ Head(toClient) \in Commands
      /\ 1 \in DOMAIN toClient /\ Head(toClient) = toClient[1]
      /\ \A n \in DOMAIN Tail(toClient) : n + 1 \in DOMAIN toClient /\ Tail(toClient)[n] = toClient[n + 1]
  BY <1>1, <1>2, Taken
<1>4. v \in Sync!Value /\ v \in Nat
  BY <1>3 DEF Commands, Sync!Value, SyncBounds
<1>5. /\ profile' \in [Sync!Player -> Sync!Value \cup {Sync!Unset}] /\ toServer' \in Seq(Reports)
      /\ profile'[conn.player] = v
      /\ \A p \in Sync!Player : p # conn.player => profile'[p] = profile[p]
      /\ \E r \in Reports :
           /\ r.value = v
           /\ toServer' = toServer \/ toServer' = Append(toServer, r)
  BY <1>1, <1>4, Setting
<1>6. /\ Sync!BoundPending' = Sync!BoundPending /\ Sync!BoundStored' = Sync!BoundStored /\ Sync!View' = Sync!View
      /\ SessionOlder'
  BY <1>1, Unbound DEF Sync!kinds
<1>7. Sync!TypeOK'
  BY <1>1, <1>3, <1>5 DEF Sync!TypeOK, Sync!kinds, Sync!stateVars, Commands, Reports
<1>8. WritesReal' /\ Sync!NoLeak'
  BY <1>1, <1>3, <1>6 DEF WritesReal, Sync!NoLeak, Sync!stateVars
<1>9. Own \in Nat /\ Sync!BoundStored \in Nat /\ Sync!View \in Nat
  BY ViewTypes
<1>10. ASSUME kind = "counter", conn.told PROVE Own <= v /\ v <= Sync!View /\ conn.met
  BY <1>1, <1>3, <1>10 DEF CounterRises
<1>11. CounterRises'
  <2> SUFFICES ASSUME kind = "counter", conn.told PROVE CounterRises'
    BY <1>1 DEF CounterRises, Sync!kinds
  <2>1. Own' = v
    BY <1>1, <1>5 DEF Own
  <2>2. /\ Sorted(toClient')
        /\ \A n \in DOMAIN toClient' : v <= toClient'[n].value /\ toClient'[n].value <= Sync!View
    <3>1. Sorted(toClient)
      BY DEF CounterRises
    <3>2. \A n \in DOMAIN Tail(toClient) : Tail(toClient)[n].value <= Sync!View
      BY <1>3 DEF CounterRises
    <3> QED BY <1>1, <1>2, <3>1, <3>2, SortedTail
  <2>3. /\ Sorted(toServer') /\ \A n \in DOMAIN toServer' : toServer'[n].value <= v
        /\ Sync!BoundPending = Sync!NoWrite => \A n \in DOMAIN toServer' : Sync!BoundStored <= toServer'[n].value
    <3>1. \A n \in DOMAIN toServer : toServer[n].value <= v
      <4> SUFFICES ASSUME NEW n \in DOMAIN toServer PROVE toServer[n].value <= v
        OBVIOUS
      <4>1. toServer[n] \in Reports
        BY <1>2, Elements
      <4>2. toServer[n].value \in Nat /\ toServer[n].value <= Own
        BY <4>1 DEF CounterRises, Reports, Sync!Value, Sync!Unset, SyncBounds
      <4> QED BY <1>4, <1>9, <1>10, <4>2
    <3>2. Sync!BoundPending = Sync!NoWrite => Sync!BoundStored <= v
      BY <1>4, <1>9, <1>10 DEF CounterRises
    <3>3. CASE toServer' = toServer
      BY <3>1, <3>3 DEF CounterRises
    <3>4. ASSUME NEW r \in Reports, r.value = v, toServer' = Append(toServer, r)
          PROVE  /\ Sorted(toServer') /\ \A n \in DOMAIN toServer' : toServer'[n].value <= v
                 /\ Sync!BoundPending = Sync!NoWrite =>
                      \A n \in DOMAIN toServer' : Sync!BoundStored <= toServer'[n].value
      <4>1. Sorted(toServer')
        BY <1>2, <1>4, <3>1, <3>4, SortedAppend DEF CounterRises
      <4>2. \A n \in DOMAIN toServer' :
              toServer'[n] = r \/ (n \in DOMAIN toServer /\ toServer'[n] = toServer[n])
        BY <1>2, <3>4, AppendedOrOld
      <4>3. Sync!BoundPending = Sync!NoWrite => \A n \in DOMAIN toServer : Sync!BoundStored <= toServer[n].value
        BY DEF CounterRises
      <4>4. r.value = v /\ v <= v
        BY <1>4, <3>4
      <4>5. \A n \in DOMAIN toServer' : toServer'[n].value <= v
        BY <3>1, <4>2, <4>4, Zenon
      <4>6. Sync!BoundPending = Sync!NoWrite => \A n \in DOMAIN toServer' : Sync!BoundStored <= toServer'[n].value
        BY <3>2, <4>2, <4>3, <4>4, Zenon
      <4> QED BY <4>1, <4>5, <4>6
    <3> QED BY <1>5, <3>3, <3>4
  <2>4. Sync!BoundPending = Sync!NoWrite => Sync!BoundStored <= v
    BY <1>4, <1>9, <1>10 DEF CounterRises
  <2> QED BY <1>1, <1>6, <1>10, <2>1, <2>2, <2>3, <2>4, Zenon DEF CounterRises
<1>12. Sync!KeepsCounter
  <2> SUFFICES ASSUME kind = "counter", conn.told, NEW p \in Sync!Player PROVE profile'[p] >= profile[p]
    BY <1>6, <1>9 DEF Sync!KeepsCounter
  <2>1. profile[p] \in Nat
    BY DEF Sync!TypeOK, Sync!Value, Sync!Unset, SyncBounds
  <2>2. profile[conn.player] <= v
    BY <1>10 DEF Own
  <2> QED BY <1>4, <1>5, <2>1, <2>2
<1> QED BY <1>6, <1>7, <1>8, <1>11, <1>12 DEF Good

LEMMA ClientWritesGood ==
  ASSUME SyncBounds, SyncInv, NEW v \in Sync!Value, Sync!ClientWrites(v)
  PROVE  Good
<1> USE DEF SyncInv
<1>1. /\ kind = "setting" /\ Sync!Set(conn.player, v)
      /\ UNCHANGED <<Sync!kinds, Sync!stateVars, conn, last, up, toClient, clears, drops>>
  BY DEF Sync!ClientWrites
<1>2. profile' \in [Sync!Player -> Sync!Value \cup {Sync!Unset}] /\ toServer' \in Seq(Reports)
  BY <1>1, Setting
<1>3. Sync!BoundPending' = Sync!BoundPending /\ SessionOlder'
  BY <1>1, Unbound DEF Sync!kinds
<1>4. Sync!TypeOK'
  BY <1>1, <1>2 DEF Sync!TypeOK, Sync!kinds, Sync!stateVars, Reports
<1>5. WritesReal' /\ Sync!NoLeak'
  BY <1>1, <1>3 DEF WritesReal, Sync!NoLeak, Sync!stateVars
<1>6. CounterRises' /\ Sync!KeepsCounter
  BY <1>1 DEF CounterRises, Sync!KeepsCounter, Sync!kinds
<1> QED BY <1>3, <1>4, <1>5, <1>6 DEF Good

-----------------------------------------------------------------------------
(* The connection *)

LEMMA ClearGood ==
  ASSUME SyncBounds, SyncInv, Sync!Clear
  PROVE  Good
<1> USE DEF SyncInv
<1>1. /\ up' = FALSE /\ toClient' = <<>> /\ toServer' = <<>>
      /\ UNCHANGED <<Sync!kinds, Sync!stateVars, conn, last, profile, writes, drops>>
  BY DEF Sync!Clear
<1>2. /\ Sync!BoundPending' = Sync!BoundPending /\ Sync!BoundStored' = Sync!BoundStored /\ Sync!View' = Sync!View
      /\ SessionOlder'
  BY <1>1, Unbound DEF Sync!kinds
<1>3. Sync!TypeOK'
  <2>1. toClient' \in Seq(Commands) /\ toServer' \in Seq(Reports)
    BY <1>1
  <2>2. up' \in BOOLEAN /\ UNCHANGED <<Sync!kinds, Sync!stateVars, conn, last, profile>>
    BY <1>1
  <2> QED BY <2>1, <2>2 DEF Sync!TypeOK, Sync!kinds, Sync!stateVars, Commands, Reports
<1>4. WritesReal' /\ Sync!NoLeak'
  BY <1>1, <1>2 DEF WritesReal, Sync!NoLeak, Sync!stateVars
<1>5. DOMAIN toClient' = {} /\ DOMAIN toServer' = {} /\ Own' = Own
  BY <1>1 DEF Own
<1>6. CounterRises'
  BY <1>1, <1>2, <1>5, Zenon DEF CounterRises, Sorted, Sync!kinds
<1>7. Sync!KeepsCounter
  BY <1>1, <1>2, OnlyView, ViewTypes
<1> QED BY <1>2, <1>3, <1>4, <1>6, <1>7 DEF Good

\* All a player has, as the only report on its way.
LEMMA OneReport ==
  ASSUME NEW p \in Sync!Player, profile \in [Sync!Player -> Sync!Value \cup {Sync!Unset}], SyncBounds,
         NEW r \in Sync!Arrivals(profile[p])
  PROVE  LET s == <<r>>
         IN  /\ r.full \in BOOLEAN
             /\ s \in Seq(Reports) /\ Sorted(s)
             /\ \A n \in DOMAIN s : s[n].value = profile[p]
             /\ profile[p] \in Nat
<1> DEFINE s == <<r>>
<1>1. r \in Reports /\ r.value = profile[p] /\ r.full \in BOOLEAN
  BY Arriving DEF Reports
<1>2. s \in Seq(Reports) /\ DOMAIN s = {1} /\ s[1] = r
  BY <1>1, Single
<1> HIDE DEF s
<1>3. profile[p] \in Nat
  BY DEF Sync!Value, Sync!Unset, SyncBounds
<1>4. \A n \in DOMAIN s : s[n].value = profile[p]
  BY <1>1, <1>2
<1>5. Sorted(s)
  <2> SUFFICES ASSUME NEW m \in DOMAIN s, NEW n \in DOMAIN s PROVE s[m].value <= s[n].value
    BY DEF Sorted
  <2>1. s[m].value = profile[p] /\ s[n].value = profile[p]
    BY <1>4
  <2> QED BY <1>3, <2>1
<1> QED BY <1>1, <1>2, <1>3, <1>4, <1>5 DEF s

LEMMA ReturnGood ==
  ASSUME SyncBounds, SyncInv, Sync!Return
  PROVE  Good
<1> USE DEF SyncInv
<1>0. PICK r \in Sync!Arrivals(profile[conn.player]) :
        toServer' = <<r>> /\ conn' = [conn EXCEPT !.full = r.full]
  BY DEF Sync!Return
<1>1. /\ up' = TRUE
      /\ UNCHANGED <<Sync!kinds, Sync!stateVars, last, toClient, profile, Sync!counters>>
  BY DEF Sync!Return
<1>9. /\ conn'.nc = conn.nc /\ conn'.user = conn.user /\ conn'.known = conn.known
      /\ conn'.told = conn.told /\ conn'.met = conn.met /\ conn'.player = conn.player
  BY <1>0 DEF Sync!TypeOK
<1>2. /\ Sync!BoundPending' = Sync!BoundPending /\ Sync!BoundStored' = Sync!BoundStored /\ Sync!View' = Sync!View
      /\ SessionOlder'
  BY <1>1, <1>9, Unbound DEF Sync!kinds
<1>3. conn.player \in Sync!Player /\ profile \in [Sync!Player -> Sync!Value \cup {Sync!Unset}]
  BY DEF Sync!TypeOK
<1>4. /\ toServer' \in Seq(Reports) /\ Sorted(toServer') /\ Own' = Own /\ Own \in Nat
      /\ \A n \in DOMAIN toServer' : toServer'[n].value = Own
      /\ r.full \in BOOLEAN
  BY <1>0, <1>1, <1>3, <1>9, OneReport DEF Own
<1>5. Sync!TypeOK'
  BY <1>0, <1>1, <1>4 DEF Sync!TypeOK, Sync!kinds, Sync!stateVars, Reports
<1>6. WritesReal' /\ Sync!NoLeak'
  BY <1>1, <1>2, <1>9 DEF WritesReal, Sync!NoLeak, Sync!stateVars
<1>7. CounterRises'
  <2>1. /\ \A n \in DOMAIN toServer' : toServer'[n].value <= Own
        /\ Sync!BoundStored <= Own => \A n \in DOMAIN toServer' : Sync!BoundStored <= toServer'[n].value
    BY <1>4
  <2> QED BY <1>1, <1>2, <1>4, <1>9, <2>1, Zenon DEF CounterRises, Sync!kinds
<1>8. Sync!KeepsCounter
  BY <1>1, <1>2, OnlyView, ViewTypes
<1> QED BY <1>2, <1>5, <1>6, <1>7, <1>8 DEF Good

LEMMA DropGood ==
  ASSUME SyncBounds, SyncInv, Sync!Drop
  PROVE  Good
<1> USE DEF SyncInv
<1>1. /\ toClient # <<>> /\ toClient' = Tail(toClient)
      /\ UNCHANGED <<Sync!kinds, Sync!stateVars, conn, last, up, toServer, profile, writes, clears>>
  BY DEF Sync!Drop
<1>2. /\ Sync!BoundPending' = Sync!BoundPending /\ Sync!BoundStored' = Sync!BoundStored /\ Sync!View' = Sync!View
      /\ SessionOlder' /\ Own' = Own
  BY <1>1, Unbound DEF Sync!kinds, Own
<1>3. toClient \in Seq(Commands)
  BY DEF Sync!TypeOK, Commands
<1>4. /\ Tail(toClient) \in Seq(Commands)
      /\ \A n \in DOMAIN Tail(toClient) : n + 1 \in DOMAIN toClient /\ Tail(toClient)[n] = toClient[n + 1]
  BY <1>1, <1>3, Taken
<1>5. Sync!TypeOK'
  BY <1>1, <1>4 DEF Sync!TypeOK, Sync!kinds, Sync!stateVars, Commands
<1>6. WritesReal' /\ Sync!NoLeak'
  BY <1>1, <1>2, <1>4 DEF WritesReal, Sync!NoLeak, Sync!stateVars
<1>7. CounterRises'
  <2> SUFFICES ASSUME kind = "counter", conn.told PROVE CounterRises'
    BY <1>1 DEF CounterRises, Sync!kinds
  <2>1. Sorted(toClient')
    BY <1>1, <1>3, SortedTail DEF CounterRises
  <2>2. \A n \in DOMAIN toClient' : Own <= toClient'[n].value /\ toClient'[n].value <= Sync!View
    BY <1>1, <1>4 DEF CounterRises
  <2>3. conn.met
    BY <1>1 DEF CounterRises
  <2> QED BY <1>1, <1>2, <2>1, <2>2, <2>3, Zenon DEF CounterRises
<1>8. Sync!KeepsCounter
  BY <1>1, <1>2, OnlyView, ViewTypes
<1> QED BY <1>2, <1>5, <1>6, <1>7, <1>8 DEF Good

LEMMA AssignUserIdGood ==
  ASSUME SyncBounds, SyncInv, Sync!AssignUserId
  PROVE  Good
<1> USE DEF SyncInv
<1>1. /\ ~ conn.known /\ conn' = [conn EXCEPT !.known = TRUE]
      /\ UNCHANGED <<Sync!kinds, Sync!stateVars, last, up, toClient, toServer, profile, Sync!counters>>
  BY DEF Sync!AssignUserId
<1>2. /\ conn'.nc = conn.nc /\ conn'.user = conn.user /\ conn'.met = conn.met /\ conn'.known
      /\ conn'.player = conn.player /\ conn'.told = conn.told
      /\ conn' \in [player : Sync!Player, nc : Sync!Address, user : 1 .. MaxConns, known : BOOLEAN,
                    met : BOOLEAN, told : BOOLEAN, full : BOOLEAN]
  BY <1>1 DEF Sync!TypeOK
<1>3. conn.told => (Sync!SameConnection' <=> Sync!SameConnection)
  BY <1>1, <1>2 DEF Sync!SameConnection, SessionOlder, Sync!stateVars
<1>4. /\ Own' = Own
      /\ conn.told => /\ Sync!BoundPending' = Sync!BoundPending
                      /\ Sync!BoundStored' = Sync!BoundStored /\ Sync!View' = Sync!View
  BY <1>1, <1>2, <1>3 DEF Sync!BoundPending, Sync!BoundStored, Sync!View, Own, Sync!stateVars, Sync!kinds
<1>5. SessionOlder'
  BY <1>1, <1>2 DEF SessionOlder, Sync!stateVars
<1>6. Sync!TypeOK'
  BY <1>1, <1>2 DEF Sync!TypeOK, Sync!kinds, Sync!stateVars
<1>7. WritesReal' /\ Sync!NoLeak'
  BY <1>1, <1>2, <1>4 DEF WritesReal, Sync!NoLeak, Sync!stateVars
<1>8. CounterRises'
  BY <1>1, <1>2, <1>4, Zenon DEF CounterRises, Sync!kinds
<1>9. Sync!KeepsCounter
  BY <1>1, <1>4, OnlyView, ViewTypes
<1> QED BY <1>5, <1>6, <1>7, <1>8, <1>9 DEF Good

\* Whoever joins is not taken for the one before.
LEMMA JoinGood ==
  ASSUME SyncBounds, SyncInv, NEW p \in Sync!Player, NEW nc \in Sync!Address, NEW known \in BOOLEAN,
         Sync!Join(p, nc, known)
  PROVE  Good
<1> USE DEF SyncInv
<1>0. PICK r \in Sync!Arrivals(profile[p]) :
        /\ toServer' = <<r>>
        /\ conn' = [player |-> p, nc |-> nc, user |-> conn.user + 1, known |-> known,
                    met |-> FALSE, told |-> nc = session.nc => known /\ session.user # Sync!Unknown,
                    full |-> r.full]
  BY DEF Sync!Join
<1>1. /\ conn.user < MaxConns
      /\ last' = Sync!Unset /\ up' = TRUE /\ toClient' = <<>>
      /\ stored' = IF mirror THEN stored ELSE Sync!Unset
      /\ UNCHANGED <<Sync!kinds, session, owed, profile, Sync!counters>>
  BY DEF Sync!Join
<1>2. conn.user \in 1 .. MaxConns /\ session.user \in 0 .. MaxConns
  BY DEF Sync!TypeOK
<1>3. /\ conn' \in [player : Sync!Player, nc : Sync!Address, user : 1 .. MaxConns, known : BOOLEAN,
                    met : BOOLEAN, told : BOOLEAN, full : BOOLEAN]
      /\ conn'.nc = nc /\ conn'.user = conn.user + 1 /\ conn'.known = known /\ ~ conn'.met
      /\ conn'.player = p
      /\ conn'.told <=> (nc = session.nc => known /\ session.user # Sync!Unknown)
  <2>1. r.full \in BOOLEAN
    <3>1. PICK full \in BOOLEAN : r = [full |-> full, value |-> profile[p]]
      BY Arriving
    <3> QED BY <3>1
  <2>2. conn.user + 1 \in 1 .. MaxConns
    BY <1>1, <1>2 DEF SyncBounds
  <2>3. conn'.nc = nc /\ conn'.user = conn.user + 1 /\ conn'.known = known /\ conn'.met = FALSE /\ conn'.player = p
    BY <1>0
  <2>4. conn'.told = (nc = session.nc => known /\ session.user # Sync!Unknown)
    BY <1>0
  <2>5. conn' \in [player : Sync!Player, nc : Sync!Address, user : 1 .. MaxConns, known : BOOLEAN,
                   met : BOOLEAN, told : BOOLEAN, full : BOOLEAN]
    BY <1>0, <2>1, <2>2
  <2> QED BY <2>3, <2>4, <2>5
<1>4. conn'.told => ~ Sync!SameConnection'
  BY <1>1, <1>2, <1>3 DEF Sync!SameConnection, SessionOlder, SyncBounds
<1>5. conn'.told =>
        Sync!BoundPending' = Sync!NoWrite /\ Sync!BoundStored' = Sync!Unset /\ Sync!View' = Sync!Unset
  BY <1>1, <1>4 DEF Sync!BoundPending, Sync!BoundStored, Sync!View, Sync!kinds
<1>6. SessionOlder'
  BY <1>1, <1>2, <1>3 DEF SessionOlder, SyncBounds
<1>7. /\ toServer' \in Seq(Reports) /\ Sorted(toServer') /\ profile[p] \in Nat /\ Own' = profile[p]
      /\ \A n \in DOMAIN toServer' : toServer'[n].value = profile[p]
  <2>1. profile \in [Sync!Player -> Sync!Value \cup {Sync!Unset}]
    BY DEF Sync!TypeOK
  <2>2. Own' = profile[p]
    BY <1>1, <1>3 DEF Own
  <2> QED BY <1>0, <2>1, <2>2, OneReport
<1>8. Sync!TypeOK'
  BY <1>1, <1>3, <1>7 DEF Sync!TypeOK, Sync!kinds, Reports
<1>9. DOMAIN toClient' = {}
  BY <1>1
<1>10. WritesReal' /\ Sync!NoLeak'
  BY <1>1, <1>5, <1>9 DEF WritesReal, Sync!NoLeak
<1>11. CounterRises'
  <2>1. /\ \A n \in DOMAIN toServer' : Sync!Unset <= toServer'[n].value /\ toServer'[n].value <= profile[p]
        /\ Sync!Unset <= profile[p]
    BY <1>7 DEF Sync!Unset
  <2> QED BY <1>1, <1>3, <1>5, <1>7, <1>9, <2>1, Zenon DEF CounterRises, Sorted
<1>12. Sync!KeepsCounter
  <2>1. conn'.user # conn.user
    BY <1>2, <1>3
  <2>2. \A q \in Sync!Player : profile'[q] >= profile[q]
    <3>1. \A q \in Sync!Player : profile[q] \in Nat
      BY DEF Sync!TypeOK, Sync!Value, Sync!Unset, SyncBounds
    <3> QED BY <1>1, <3>1
  <2> QED BY <2>1, <2>2, Zenon DEF Sync!KeepsCounter
<1> QED BY <1>6, <1>8, <1>10, <1>11, <1>12 DEF Good

-----------------------------------------------------------------------------
(* Theorems *)

LEMMA StepGood ==
  ASSUME SyncBounds, SyncInv, [Sync!Next]_(Sync!vars)
  PROVE  SyncInv' /\ (Sync!KeepsCounter \/ UNCHANGED Sync!vars)
<1>1. CASE UNCHANGED Sync!vars
  <2>1. /\ Sync!BoundPending' = Sync!BoundPending /\ Sync!BoundStored' = Sync!BoundStored /\ Sync!View' = Sync!View
        /\ SessionOlder' <=> SessionOlder
    BY <1>1, Unbound DEF Sync!vars, Sync!stateVars
  <2>2. Sync!TypeOK' /\ WritesReal'
    BY <1>1 DEF Sync!vars, SyncInv, Sync!TypeOK, WritesReal
  <2>3. Sync!NoLeak'
    BY <1>1, <2>1, Zenon DEF Sync!vars, SyncInv, Sync!NoLeak
  <2>4. CounterRises'
    BY <1>1, <2>1, Zenon DEF Sync!vars, SyncInv, CounterRises, Own
  <2> QED BY <1>1, <2>1, <2>2, <2>3, <2>4 DEF SyncInv
<1>2. CASE Sync!Next
  BY <1>2, ServerWriteGood, ClientWritesGood, ServiceGood, ServerReceivesGood, ClientReceivesGood,
     ClearGood, ReturnGood, DropGood, AssignUserIdGood, JoinGood, Zenon DEF Sync!Next, Good
<1> QED BY <1>1, <1>2

\* The inductive invariant holds whatever the script, the client and the engine do
\* (ServerWritePersistent, PData_ServerReconcileIncoming, SendResends).
THEOREM SyncInvariant ==
  ASSUME SyncBounds
  PROVE  Sync!Spec => []SyncInv
<1>1. Sync!Init => SyncInv
  BY SyncStarts
<1>2. SyncInv /\ [Sync!Next]_(Sync!vars) => SyncInv'
  BY StepGood
<1> QED BY <1>1, <1>2, PTL DEF Sync!Spec

\* Types and bounds, among them that only values the script wrote are pending
\* (PlayerState) and that a resend never waits longer than its longest delay.
THEOREM SyncTypes ==
  ASSUME SyncBounds
  PROVE  Sync!Spec => []Sync!TypeOK
<1>1. SyncInv => Sync!TypeOK
  BY DEF SyncInv
<1> QED BY <1>1, SyncInvariant, PTL

\* No player is sent, or made to answer for, what was written for another one
\* (BeginSession), however connections, userids and netchannels follow each other, on
\* every connection that BeginSession can tell from the one before.
THEOREM WritesDoNotLeak ==
  ASSUME SyncBounds
  PROVE  Sync!Spec => []Sync!NoLeak
<1>1. SyncInv => Sync!NoLeak
  BY DEF SyncInv
<1> QED BY <1>1, SyncInvariant, PTL

\* A counter neither falls for the player nor, on one connection, for the server,
\* whatever a level change throws away and however often a write is sent again, if
\* the connection can be told from the one before.
THEOREM CountersDoNotFall ==
  ASSUME SyncBounds
  PROVE  Sync!Spec => Sync!NoRollback
<1>1. SyncInv /\ [Sync!Next]_(Sync!vars) => [Sync!KeepsCounter]_(Sync!vars)
  BY StepGood
<1> QED BY <1>1, SyncInvariant, PTL DEF Sync!Spec, Sync!NoRollback
=============================================================================
