-------------------------- MODULE OverlayMux_proofs --------------------------
(* Theorems about OverlayMux, for every set of handles and every bound. *)
EXTENDS OverlayMux, FiniteSetTheorems, TLAPS


-----------------------------------------------------------------------------
(* Lemmas about the helpers *)

\* g_peers.emplace adds one id and leaves the other peers alone.
LEMMA WithPeerAdds ==
  ASSUME peers \in [Live -> Peer], NEW i, NEW p \in Peer
  PROVE  /\ WithPeer(i, p) \in [Live \cup {i} -> Peer]
         /\ WithPeer(i, p)[i] = p
         /\ \A j \in Live \ {i} : WithPeer(i, p)[j] = peers[j]
  BY DEF WithPeer, Live

\* Refreshing the activity of a peer changes nothing else.
LEMMA TouchedKeeps ==
  ASSUME peers \in [Live -> Peer], NEW i
  PROVE  /\ Touched(i) \in [Live -> Peer]
         /\ \A j \in Live : /\ Touched(i)[j].handle = peers[j].handle
                            /\ Touched(i)[j].route = peers[j].route
  BY DEF Touched, Peer, Live

\* Erasing an id leaves the other peers alone.
LEMMA RestrictKeeps ==
  ASSUME peers \in [Live -> Peer], NEW S
  PROVE  /\ Restrict(peers, Live \ S) \in [Live \ S -> Peer]
         /\ \A j \in Live \ S : Restrict(peers, Live \ S)[j] = peers[j]
  BY DEF Restrict, Live

\* Queueing for the engine keeps a queue a queue, full or not.
LEMMA PushedType ==
  ASSUME MaxQueued \in Nat \ {0}, NEW q \in Seq(Datagram), NEW d \in Datagram
  PROVE  Pushed(q, d) \in Seq(Datagram)
  <1>1. CASE Len(q) >= MaxQueued
    <2>1. q # <<>>
      BY <1>1
    <2>2. Tail(q) \in Seq(Datagram)
      BY <2>1
    <2>3. QED
      BY <2>2, <1>1 DEF Pushed
  <1>2. CASE ~ (Len(q) >= MaxQueued)
    BY <1>2 DEF Pushed
  <1>3. QED
    BY <1>1, <1>2

LEMMA PushPacketType ==
  ASSUME PluginQueueCap \in Nat \ {0}, pluginQ \in [Backends -> Seq(Packet)], NEW p \in Packet,
         PushPacket(p)
  PROVE  pluginQ' \in [Backends -> Seq(Packet)]
  <1> DEFINE b == KindOf[p.handle]
             q == pluginQ[b]
  <1>1. b \in Backends /\ q \in Seq(Packet)
    BY DEF Backends, Packet
  <1> HIDE DEF q
  <1>2. Append(IF Len(q) >= PluginQueueCap THEN Tail(q) ELSE q, p) \in Seq(Packet)
    <2>1. CASE Len(q) >= PluginQueueCap
      <3>1. q # <<>>
        BY <1>1, <2>1
      <3>2. Tail(q) \in Seq(Packet)
        BY <1>1, <3>1
      <3>3. QED
        BY <2>1, <3>2
    <2>2. CASE ~ (Len(q) >= PluginQueueCap)
      BY <1>1, <2>2
    <2>3. QED
      BY <2>1, <2>2
  <1>3. QED
    BY <1>1, <1>2 DEF PushPacket, q


-----------------------------------------------------------------------------
(* The parts of the invariant that only speak of the registry *)

\* A step that touches neither the peers, the records, the pump nor the closing
\* threads keeps everything but the types of what it changes.
LEMMA FrameKeeps ==
  ASSUME MuxInv, UNCHANGED <<muxVars, recordVars, pumpVars, closing>>, TypeOK'
  PROVE  MuxInv'
  <1>1. HandlesMatchPeers'
    BY DEF MuxInv, HandlesMatchPeers, muxVars, Live, None
  <1>2. RecordsBelongToPeers'
    BY DEF MuxInv, RecordsBelongToPeers, muxVars, recordVars, Live
  <1>3. PumpHoldsPeer'
    BY DEF MuxInv, PumpHoldsPeer, muxVars, pumpVars, Live
  <1>4. CheckedStaysIdentified'
    BY DEF MuxInv, CheckedStaysIdentified, pumpVars, recordVars
  <1>5. ClosingIsErased'
    BY DEF MuxInv, ClosingIsErased, muxVars, Live
  <1>6. QED
    BY <1>1, <1>2, <1>3, <1>4, <1>5 DEF MuxInv

LEMMA BackendSteps ==
  ASSUME MuxAssumption, MuxInv, Backend
  PROVE  MuxInv'
  <1>1. CASE \E h \in Handle : AcceptConnection(h) \/ DialConnection(h) \/ BackendClose(h)
    <2> PICK h \in Handle : AcceptConnection(h) \/ DialConnection(h) \/ BackendClose(h)
      BY <1>1
    <2>1. CASE AcceptConnection(h)
      <3>1. TypeOK'
        BY <2>1 DEF MuxInv, TypeOK, AcceptConnection, muxVars, recordVars, pumpVars, Live
      <3>2. QED
        BY <2>1, <3>1, FrameKeeps DEF AcceptConnection
    <2>2. CASE DialConnection(h)
      <3>1. TypeOK'
        BY <2>2 DEF MuxInv, TypeOK, DialConnection, muxVars, recordVars, pumpVars, Live
      <3>2. HandlesMatchPeers'
        BY <2>2 DEF MuxInv, HandlesMatchPeers, DialConnection, Live, None
      <3>3. RecordsBelongToPeers' /\ ClosingIsErased'
        BY <2>2 DEF MuxInv, RecordsBelongToPeers, ClosingIsErased, DialConnection, recordVars, Live
      <3>4. PumpHoldsPeer' /\ CheckedStaysIdentified'
        BY <2>2 DEF MuxInv, PumpHoldsPeer, CheckedStaysIdentified, DialConnection, recordVars,
                    pumpVars, Live
      <3>5. QED
        BY <3>1, <3>2, <3>3, <3>4 DEF MuxInv
    <2>3. CASE BackendClose(h)
      <3>1. TypeOK'
        BY <2>3 DEF MuxInv, TypeOK, BackendClose, muxVars, recordVars, pumpVars, Live
      <3>2. QED
        BY <2>3, <3>1, FrameKeeps DEF BackendClose
    <2>4. QED
      BY <2>1, <2>2, <2>3
  <1>2. ASSUME NEW h \in Handle, NEW kind \in SendKinds, ReadDatagram(h, kind)
        PROVE  MuxInv'
    <2>1. [handle |-> h, incoming |-> conn[h] = "in", kind |-> kind, seq |-> sent[h] + 1] \in Packet
      <3>1. kind \in Kinds /\ sent[h] + 1 \in Nat
        BY <1>2 DEF MuxInv, TypeOK, MuxAssumption
      <3>2. (conn[h] = "in") \in BOOLEAN
        OBVIOUS
      <3>3. QED
        BY <3>1, <3>2 DEF Packet
    <2>2. pluginQ' \in [Backends -> Seq(Packet)]
      BY <1>2, <2>1, PushPacketType DEF MuxInv, TypeOK, MuxAssumption, ReadDatagram
    <2>3. sent' \in [Handle -> Nat]
      BY <1>2 DEF MuxInv, TypeOK, ReadDatagram
    <2>4. TypeOK'
      BY <1>2, <2>2, <2>3 DEF MuxInv, TypeOK, ReadDatagram, muxVars, recordVars, pumpVars, Live
    <2>5. QED
      BY <1>2, <2>4, FrameKeeps DEF ReadDatagram
  <1>3. ASSUME NEW h \in Handle, ReadLoopEnds(h)
        PROVE  MuxInv'
    <2>1. [handle |-> h, incoming |-> conn[h] \in {"in", "closedIn"}, kind |-> "closed",
           seq |-> sent[h]] \in Packet
      BY DEF MuxInv, TypeOK, Packet, Kinds
    <2>2. pluginQ' \in [Backends -> Seq(Packet)]
      BY <1>3, <2>1, PushPacketType DEF MuxInv, TypeOK, MuxAssumption, ReadLoopEnds
    <2>3. TypeOK'
      BY <1>3, <2>2 DEF MuxInv, TypeOK, ReadLoopEnds, muxVars, recordVars, pumpVars, Live
    <2>4. QED
      BY <1>3, <2>3, FrameKeeps DEF ReadLoopEnds
  <1>4. ASSUME NEW h \in Handle, NEW state \in {"out", "gone"}, DialEnds(h, state)
        PROVE  MuxInv'
    <2>1. TypeOK'
      BY <1>4 DEF MuxInv, TypeOK, DialEnds, muxVars, recordVars, pumpVars, Live
    <2>2. QED
      BY <1>4, <2>1, FrameKeeps DEF DialEnds
  <1>5. QED
    BY <1>1, <1>2, <1>3, <1>4 DEF Backend

\* Activity and deadlines of peers are invisible to the registry.
SamePeers ==
  /\ Live' = Live
  /\ \A j \in Live : peers'[j].handle = peers[j].handle /\ peers'[j].route = peers[j].route
  /\ UNCHANGED <<byHandle, nextPeerId, closing>>

LEMMA SamePeersKeeps ==
  ASSUME MuxInv, SamePeers
  PROVE  /\ HandlesMatchPeers'
         /\ ClosingIsErased'
         /\ records' \subseteq records => RecordsBelongToPeers'
         /\ UNCHANGED <<pumpPc, pumpItem>> => PumpHoldsPeer'
  BY DEF MuxInv, SamePeers, HandlesMatchPeers, ClosingIsErased, RecordsBelongToPeers, PumpHoldsPeer,
         None

LEMMA TimeSteps ==
  ASSUME MuxInv, Time
  PROVE  MuxInv'
  <1>1. ASSUME NEW i \in Live, BecomeIdle(i) \/ GraceEnds(i)
        PROVE  MuxInv'
    <2>1. peers' \in [Live -> Peer] /\ SamePeers
      <3>1. peers \in [Live -> Peer] /\ peers[i] \in Peer
        BY DEF MuxInv, TypeOK
      <3>2. PICK p \in Peer : /\ peers' = [peers EXCEPT ![i] = p]
                              /\ p.handle = peers[i].handle /\ p.route = peers[i].route
        <4>1. CASE BecomeIdle(i)
          BY <3>1, <4>1, [peers[i] EXCEPT !.idle = TRUE] \in Peer DEF BecomeIdle, Peer
        <4>2. CASE GraceEnds(i)
          BY <3>1, <4>2, [peers[i] EXCEPT !.graceOver = TRUE] \in Peer DEF GraceEnds, Peer
        <4>3. QED
          BY <1>1, <4>1, <4>2
      <3>3. UNCHANGED <<byHandle, nextPeerId, closing>>
        BY <1>1 DEF BecomeIdle, GraceEnds
      <3>4. QED
        BY <3>1, <3>2, <3>3 DEF SamePeers, Live
    <2>2. TypeOK'
      BY <1>1, <2>1 DEF MuxInv, TypeOK, BecomeIdle, GraceEnds, recordVars, pumpVars,
                        pluginVars, Live
    <2>3. CheckedStaysIdentified' /\ UNCHANGED <<records, pumpPc, pumpItem>>
      BY <1>1 DEF MuxInv, CheckedStaysIdentified, BecomeIdle, GraceEnds, recordVars, pumpVars
    <2>4. QED
      BY <2>1, <2>2, <2>3, SamePeersKeeps DEF MuxInv
  <1>2. ASSUME NEW i \in records, RecordAges(i)
        PROVE  MuxInv'
    <2>1. TypeOK' /\ CheckedStaysIdentified'
      BY <1>2 DEF MuxInv, TypeOK, CheckedStaysIdentified, RecordAges, muxVars, pumpVars,
                  pluginVars, Live
    <2>2. SamePeers /\ UNCHANGED <<records, pumpPc, pumpItem>>
      BY <1>2 DEF RecordAges, SamePeers, muxVars, pumpVars, Live
    <2>3. QED
      BY <2>1, <2>2, SamePeersKeeps DEF MuxInv
  <1>3. QED
    BY <1>1, <1>2 DEF Time

-----------------------------------------------------------------------------
(* Adding and erasing peers *)

\* A fresh id for a handle without one keeps the two maps in step.
LEMMA AddKeeps ==
  ASSUME MuxInv, NEW h \in Handle, NEW r \in Routes, byHandle[h] = None,
         peers' = WithPeer(nextPeerId, NewPeer(h, r)),
         byHandle' = [byHandle EXCEPT ![h] = nextPeerId],
         nextPeerId' = nextPeerId + 1,
         UNCHANGED closing
  PROVE  /\ nextPeerId' \in Nat \ {0}
         /\ Live' \subseteq 1 .. (nextPeerId' - 1)
         /\ peers' \in [Live' -> Peer]
         /\ byHandle' \in [Handle -> Nat]
         /\ Live' = Live \cup {nextPeerId} /\ nextPeerId \notin Live
         /\ peers'[nextPeerId] = NewPeer(h, r)
         /\ \A j \in Live : peers'[j] = peers[j]
         /\ HandlesMatchPeers'
         /\ ClosingIsErased'
  <1> DEFINE n == nextPeerId
  <1>1. n \in Nat \ {0} /\ n \notin Live /\ byHandle \in [Handle -> Nat]
    BY DEF MuxInv, TypeOK
  <1>2. NewPeer(h, r) \in Peer /\ NewPeer(h, r).handle = h
    BY DEF NewPeer, Peer
  <1>3. peers \in [Live -> Peer]
    BY DEF MuxInv, TypeOK
  <1>4. /\ peers' \in [Live \cup {n} -> Peer]
        /\ peers'[n] = NewPeer(h, r)
        /\ \A j \in Live : peers'[j] = peers[j]
    BY <1>1, <1>2, <1>3 DEF WithPeer, Live
  <1>5. Live' = Live \cup {n}
    BY <1>4 DEF Live
  <1>6. Live' \subseteq 1 .. (nextPeerId' - 1)
    BY <1>1, <1>5 DEF MuxInv, TypeOK
  <1>7. byHandle' \in [Handle -> Nat]
    BY <1>1
  <1>8. HandlesMatchPeers'
    <2>1. \A i \in Live : peers[i].handle # h
      BY <1>1 DEF MuxInv, TypeOK, HandlesMatchPeers, None
    <2>2. ASSUME NEW i \in Live'
          PROVE  byHandle'[peers'[i].handle] = i
      <3>1. CASE i = n
        BY <3>1, <1>1, <1>2, <1>4
      <3>2. CASE i # n
        BY <3>2, <1>1, <1>3, <1>4, <1>5, <2>1 DEF MuxInv, HandlesMatchPeers, Peer
      <3>3. QED
        BY <3>1, <3>2
    <2>3. ASSUME NEW g \in Handle, byHandle'[g] # None
          PROVE  byHandle'[g] \in Live' /\ peers'[byHandle'[g]].handle = g
      <3>1. CASE g = h
        BY <3>1, <1>1, <1>2, <1>4, <1>5
      <3>2. CASE g # h
        BY <3>2, <2>3, <1>1, <1>4, <1>5 DEF MuxInv, HandlesMatchPeers
      <3>3. QED
        BY <3>1, <3>2
    <2>4. QED
      BY <2>2, <2>3 DEF HandlesMatchPeers
  <1>9. ClosingIsErased'
    BY <1>1, <1>5 DEF MuxInv, ClosingIsErased
  <1>10. QED
    BY <1>1, <1>4, <1>5, <1>6, <1>7, <1>8, <1>9

\* Erasing a peer and its g_byHandle entry keeps the two maps in step.
LEMMA EraseKeeps ==
  ASSUME MuxInv, NEW i \in Live,
         peers' = Restrict(peers, Live \ {i}),
         byHandle' = [byHandle EXCEPT ![peers[i].handle] = None],
         UNCHANGED nextPeerId
  PROVE  /\ Live' = Live \ {i}
         /\ Live' \subseteq 1 .. (nextPeerId' - 1)
         /\ peers' \in [Live' -> Peer]
         /\ byHandle' \in [Handle -> Nat]
         /\ \A j \in Live' : peers'[j] = peers[j]
         /\ HandlesMatchPeers'
  <1>1. peers \in [Live -> Peer] /\ byHandle \in [Handle -> Nat] /\ Live \subseteq 1 .. (nextPeerId - 1)
    BY DEF MuxInv, TypeOK
  <1>2. peers' \in [Live \ {i} -> Peer] /\ \A j \in Live \ {i} : peers'[j] = peers[j]
    BY <1>1, RestrictKeeps
  <1>3. Live' = Live \ {i}
    BY <1>2 DEF Live
  <1>4. byHandle' \in [Handle -> Nat]
    BY <1>1 DEF None
  <1>5. HandlesMatchPeers'
    <2> DEFINE g == peers[i].handle
    <2>1. g \in Handle /\ byHandle[g] = i
      BY <1>1 DEF MuxInv, HandlesMatchPeers, Peer
    <2>2. /\ byHandle'[g] = None
          /\ \A h \in Handle \ {g} : byHandle'[h] = byHandle[h]
      BY <1>1, <2>1
    <2> HIDE DEF g
    <2>3. ASSUME NEW j \in Live'
          PROVE  byHandle'[peers'[j].handle] = j
      <3>1. j \in Live /\ j # i /\ peers'[j] = peers[j] /\ byHandle[peers[j].handle] = j
        BY <1>2, <1>3 DEF MuxInv, HandlesMatchPeers
      <3>2. peers[j].handle \in Handle \ {g}
        BY <1>1, <2>1, <3>1 DEF Peer
      <3>3. QED
        BY <2>2, <3>1, <3>2
    <2>4. ASSUME NEW h \in Handle, byHandle'[h] # None
          PROVE  byHandle'[h] \in Live' /\ peers'[byHandle'[h]].handle = h
      <3>1. h # g /\ byHandle'[h] = byHandle[h]
        BY <2>2, <2>4
      <3>2. byHandle[h] \in Live /\ peers[byHandle[h]].handle = h
        BY <2>4, <3>1 DEF MuxInv, HandlesMatchPeers
      <3>3. byHandle[h] # i
        BY <3>1, <3>2 DEF g
      <3>4. QED
        BY <1>2, <1>3, <3>1, <3>2, <3>3
    <2>5. QED
      BY <2>3, <2>4 DEF HandlesMatchPeers
  <1>6. QED
    BY <1>1, <1>2, <1>3, <1>4, <1>5

\* ClosePeer by a session (of a Client peer) or by the reaper (when the pump
\* carries no datagram).
LEMMA EraseForCloseStep ==
  ASSUME MuxInv, NEW i, NEW by \in {"pump", "session"}, EraseForClose(i, by),
         \/ peers[i].route = "client"
         \/ pumpPc = "reaping",
         reapList' \subseteq Nat
  PROVE  MuxInv'
  <1>1. i \in Live /\ peers[i] \in Peer
    BY DEF EraseForClose, MuxInv, TypeOK
  <1>2. /\ Live' = Live \ {i}
        /\ Live' \subseteq 1 .. (nextPeerId' - 1)
        /\ peers' \in [Live' -> Peer]
        /\ byHandle' \in [Handle -> Nat]
        /\ \A j \in Live' : peers'[j] = peers[j]
        /\ HandlesMatchPeers'
    BY <1>1, EraseKeeps DEF EraseForClose
  <1>3. closing' \subseteq [id : Nat, handle : Handle, by : {"pump", "session"}]
    <2>1. i \in Nat /\ peers[i].handle \in Handle
      BY <1>1 DEF MuxInv, TypeOK, Peer
    <2>2. QED
      BY <2>1 DEF EraseForClose, MuxInv, TypeOK
  <1>4. TypeOK'
    BY <1>2, <1>3 DEF MuxInv, TypeOK, EraseForClose, recordVars, pluginVars
  <1>5. RecordsBelongToPeers'
    <2>1. [id |-> i, handle |-> peers[i].handle, by |-> by] \in closing' /\ closing \subseteq closing'
      BY DEF EraseForClose
    <2>2. \E c \in closing' : c.id = i
      BY <2>1
    <2>3. ASSUME NEW j \in records', j # i
          PROVE  j \in Live' \/ \E c \in closing' : c.id = j
      BY <1>2, <2>1, <2>3 DEF MuxInv, RecordsBelongToPeers, EraseForClose, recordVars
    <2>4. QED
      BY <2>2, <2>3 DEF RecordsBelongToPeers
  <1>6. PumpHoldsPeer'
    BY <1>1, <1>2 DEF MuxInv, PumpHoldsPeer, EraseForClose
  <1>7. CheckedStaysIdentified'
    BY DEF MuxInv, CheckedStaysIdentified, EraseForClose, recordVars
  <1>8. ClosingIsErased'
    <2>1. i \in 1 .. (nextPeerId' - 1)
      BY <1>1 DEF MuxInv, TypeOK, EraseForClose
    <2>2. QED
      BY <1>2, <2>1 DEF MuxInv, ClosingIsErased, EraseForClose
  <1>9. QED
    BY <1>2, <1>4, <1>5, <1>6, <1>7, <1>8 DEF MuxInv

LEMMA OtherSteps ==
  ASSUME MuxInv, Others
  PROVE  MuxInv'
  <1>1. ASSUME NEW h \in Handle, AddOutgoingPeer(h)
        PROVE  MuxInv'
    <2>1. CASE byHandle[h] # None
      <3>1. TypeOK' /\ SamePeers /\ CheckedStaysIdentified'
        BY <1>1, <2>1 DEF MuxInv, TypeOK, SamePeers, CheckedStaysIdentified, AddOutgoingPeer,
                          recordVars, pumpVars, pluginVars, Live
      <3>2. UNCHANGED <<records, pumpPc, pumpItem>>
        BY <1>1 DEF AddOutgoingPeer, recordVars, pumpVars
      <3>3. QED
        BY <3>1, <3>2, SamePeersKeeps DEF MuxInv
    <2>2. CASE byHandle[h] = None
      <3>1. /\ peers' = WithPeer(nextPeerId, NewPeer(h, "client"))
            /\ byHandle' = [byHandle EXCEPT ![h] = nextPeerId]
            /\ nextPeerId' = nextPeerId + 1
            /\ UNCHANGED closing
        BY <1>1, <2>2 DEF AddOutgoingPeer
      <3>2. /\ nextPeerId' \in Nat \ {0}
            /\ Live' \subseteq 1 .. (nextPeerId' - 1)
            /\ peers' \in [Live' -> Peer]
            /\ byHandle' \in [Handle -> Nat]
            /\ Live' = Live \cup {nextPeerId} /\ nextPeerId \notin Live
            /\ \A j \in Live : peers'[j] = peers[j]
            /\ HandlesMatchPeers'
            /\ ClosingIsErased'
        BY <2>2, <3>1, "client" \in Routes, AddKeeps DEF Routes
      <3>3. TypeOK'
        BY <1>1, <3>2 DEF MuxInv, TypeOK, AddOutgoingPeer, recordVars, pumpVars, pluginVars
      <3>4. RecordsBelongToPeers'
        BY <1>1, <3>2 DEF MuxInv, RecordsBelongToPeers, AddOutgoingPeer, recordVars
      <3>5. PumpHoldsPeer' /\ CheckedStaysIdentified'
        BY <1>1, <3>2 DEF MuxInv, PumpHoldsPeer, CheckedStaysIdentified, AddOutgoingPeer,
                          recordVars, pumpVars
      <3>6. QED
        BY <3>2, <3>3, <3>4, <3>5 DEF MuxInv
    <2>3. QED
      BY <2>1, <2>2
  <1>2. ASSUME NEW i \in Live, ClosePeer(i)
        PROVE  MuxInv'
    <2>1. reapList' \subseteq Nat
      BY <1>2 DEF ClosePeer, MuxInv, TypeOK
    <2>2. QED
      BY <1>2, <2>1, EraseForCloseStep DEF ClosePeer
  <1>3. ASSUME NEW i \in Live, SendToPeer(i)
        PROVE  MuxInv'
    <2>1. peers' \in [Live -> Peer] /\ SamePeers
      BY <1>3, TouchedKeeps DEF SendToPeer, SamePeers, MuxInv, TypeOK, Live
    <2>2. TypeOK' /\ CheckedStaysIdentified' /\ UNCHANGED <<records, pumpPc, pumpItem>>
      BY <1>3, <2>1 DEF MuxInv, TypeOK, CheckedStaysIdentified, SendToPeer, recordVars, pumpVars,
                        pluginVars, Live
    <2>3. QED
      BY <2>1, <2>2, SamePeersKeeps DEF MuxInv
  <1>4. ASSUME NEW c \in closing, FinishClose(c)
        PROVE  MuxInv'
    <2>1. c.id \notin Live /\ c.handle \in Handle
      BY DEF MuxInv, ClosingIsErased, TypeOK
    <2>2. TypeOK'
      BY <1>4, <2>1 DEF MuxInv, TypeOK, FinishClose, muxVars, pluginVars, Live
    <2>3. HandlesMatchPeers' /\ ClosingIsErased'
      BY <1>4 DEF MuxInv, HandlesMatchPeers, ClosingIsErased, FinishClose, muxVars, Live, None
    <2>4. RecordsBelongToPeers'
      BY <1>4 DEF MuxInv, RecordsBelongToPeers, FinishClose, muxVars, Live
    <2>5. PumpHoldsPeer' /\ CheckedStaysIdentified'
      BY <1>4, <2>1 DEF MuxInv, PumpHoldsPeer, CheckedStaysIdentified, FinishClose, muxVars, Live
    <2>6. QED
      BY <2>2, <2>3, <2>4, <2>5 DEF MuxInv
  <1>5. ASSUME NEW r \in Routes, PopQueued(r)
        PROVE  MuxInv'
    <2>1. queues[r] \in Seq(Datagram) /\ queues[r] # <<>>
      BY <1>5 DEF PopQueued, MuxInv, TypeOK
    <2>2. Tail(queues[r]) \in Seq(Datagram) /\ Head(queues[r]) \in Datagram
      BY <2>1
    <2>3. Head(queues[r]).seq \in Nat
      BY <2>2 DEF Datagram
    <2>4. TypeOK'
      BY <1>5, <2>2, <2>3 DEF MuxInv, TypeOK, PopQueued, muxVars, recordVars, pumpVars, pluginVars,
                              Live
    <2>5. QED
      BY <1>5, <2>4, FrameKeeps DEF PopQueued
  <1>6. ASSUME NEW on \in BOOLEAN, SetIdentityEnforcement(on)
        PROVE  MuxInv'
    <2>1. TypeOK'
      BY <1>6 DEF MuxInv, TypeOK, SetIdentityEnforcement, muxVars, recordVars, pumpVars, pluginVars,
                  Live
    <2>2. QED
      BY <1>6, <2>1, FrameKeeps DEF SetIdentityEnforcement
  <1>7. ASSUME PruneRecords
        PROVE  MuxInv'
    <2>1. TypeOK' /\ CheckedStaysIdentified'
      BY <1>7 DEF MuxInv, TypeOK, CheckedStaysIdentified, PruneRecords, muxVars, pumpVars,
                  pluginVars, Live
    <2>2. SamePeers /\ records' \subseteq records /\ UNCHANGED <<pumpPc, pumpItem>>
      BY <1>7 DEF PruneRecords, SamePeers, muxVars, pumpVars, Live
    <2>3. QED
      BY <2>1, <2>2, SamePeersKeeps DEF MuxInv
  <1>8. QED
    BY <1>1, <1>2, <1>3, <1>4, <1>5, <1>6, <1>7 DEF Others

-----------------------------------------------------------------------------
(* The pump *)

\* What the pump finds at the head of the plugin queue.
LEMMA ReceivesPacket ==
  ASSUME MuxInv, NEW p, Receives(p)
  PROVE  /\ p \in Packet /\ p.handle \in Handle /\ p.kind \in Kinds /\ p.seq \in Nat
         /\ pluginQ' \in [Backends -> Seq(Packet)]
  <1>1. PICK b \in Backends : /\ pluginQ[b] # <<>> /\ p = Head(pluginQ[b])
                              /\ pluginQ' = [pluginQ EXCEPT ![b] = Tail(@)]
    BY DEF Receives
  <1>2. pluginQ \in [Backends -> Seq(Packet)] /\ pluginQ[b] \in Seq(Packet)
    BY DEF MuxInv, TypeOK
  <1>3. p \in Packet /\ Tail(pluginQ[b]) \in Seq(Packet)
    BY <1>1, <1>2
  <1>4. pluginQ' \in [Backends -> Seq(Packet)]
    BY <1>1, <1>2, <1>3
  <1>5. QED
    BY <1>3, <1>4 DEF Packet

\* Handing a packet of live peer i on.
LEMMA DispatchesKeeps ==
  ASSUME MuxInv, NEW i \in Live', NEW p \in Packet, NEW r \in Routes, Dispatches(i, r, p),
         Live' \subseteq Nat, peers'[i].route = r, pumpPc = "draining"
  PROVE  /\ pumpPc' \in {"draining", "control"}
         /\ pumpItem' \in Item \cup {NoItem}
         /\ PumpHoldsPeer'
         /\ CheckedStaysIdentified'
  <1>1. CASE p.kind = "part"
    BY <1>1 DEF Dispatches, MuxInv, TypeOK, PumpHoldsPeer, CheckedStaysIdentified
  <1>2. CASE p.kind # "part"
    <2>1. /\ pumpPc' = "control"
          /\ pumpItem' = [peer |-> i, handle |-> p.handle, route |-> r, kind |-> p.kind,
                          seq |-> p.seq, checked |-> FALSE]
      BY <1>2 DEF Dispatches
    <2>2. pumpItem' \in Item
      BY <2>1 DEF Item, Packet
    <2>3. QED
      BY <2>1, <2>2 DEF PumpHoldsPeer, CheckedStaysIdentified
  <1>3. QED
    BY <1>1, <1>2

\* A step that changes neither peers nor records nor the pump's datagram.
LEMMA ReceiveNothingKeeps ==
  ASSUME MuxInv, NEW p, Receives(p), closeCalls' \subseteq Handle,
         UNCHANGED <<peers, byHandle, nextPeerId, recordVars, pumpPc, pumpItem>>
  PROVE  MuxInv'
  <1>1. pluginQ' \in [Backends -> Seq(Packet)]
    BY ReceivesPacket
  <1>2. TypeOK'
    BY <1>1 DEF MuxInv, TypeOK, Receives, recordVars, Live
  <1>3. UNCHANGED <<muxVars, recordVars, pumpVars, closing>>
    BY DEF Receives, muxVars, recordVars, pumpVars
  <1>4. QED
    BY <1>2, <1>3, FrameKeeps

LEMMA ReceiveClosedStep ==
  ASSUME MuxInv, NEW p, ReceiveClosed(p)
  PROVE  MuxInv'
  <1>1. Receives(p) /\ p.handle \in Handle /\ pluginQ' \in [Backends -> Seq(Packet)] /\ pumpPc = "draining"
    BY ReceivesPacket DEF ReceiveClosed, Receives
  <1> DEFINE i == byHandle[p.handle]
  <1>2. CASE i = None
    <2>1. peers' = peers
      <3>1. peers \in [Live -> Peer] /\ i \notin Live
        BY <1>2 DEF MuxInv, TypeOK, None
      <3>2. QED
        BY <3>1 DEF ReceiveClosed, Restrict, Live
    <2>2. byHandle' = byHandle
      BY <1>2, <1>1 DEF ReceiveClosed, MuxInv, TypeOK
    <2>3. i \notin records
      BY <1>2 DEF MuxInv, RecordsBelongToPeers, ClosingIsErased, TypeOK, None
    <2>4. records' = records /\ aged' = aged
      BY <2>3 DEF ReceiveClosed, MuxInv, TypeOK
    <2>5. closeCalls' \subseteq Handle /\ UNCHANGED <<nextPeerId, pumpPc, pumpItem>>
      BY DEF ReceiveClosed, MuxInv, TypeOK
    <2>6. QED
      BY <1>1, <2>1, <2>2, <2>4, <2>5, ReceiveNothingKeeps DEF recordVars
  <1>3. CASE i # None
    <2>1. i \in Live /\ peers[i].handle = p.handle
      BY <1>3, <1>1 DEF MuxInv, HandlesMatchPeers
    <2>2. /\ Live' = Live \ {i}
          /\ Live' \subseteq 1 .. (nextPeerId' - 1)
          /\ peers' \in [Live' -> Peer]
          /\ byHandle' \in [Handle -> Nat]
          /\ HandlesMatchPeers'
      BY <2>1, EraseKeeps DEF ReceiveClosed
    <2>3. TypeOK'
      BY <1>1, <2>2 DEF MuxInv, TypeOK, ReceiveClosed, Receives
    <2>4. RecordsBelongToPeers'
      BY <1>1, <2>2 DEF MuxInv, RecordsBelongToPeers, ReceiveClosed, Receives
    <2>5. PumpHoldsPeer' /\ CheckedStaysIdentified'
      BY <1>1 DEF PumpHoldsPeer, CheckedStaysIdentified, ReceiveClosed
    <2>6. ClosingIsErased'
      BY <1>1, <2>2 DEF MuxInv, ClosingIsErased, ReceiveClosed, Receives
    <2>7. QED
      BY <2>2, <2>3, <2>4, <2>5, <2>6 DEF MuxInv
  <1>4. QED
    BY <1>2, <1>3

LEMMA AcceptIncomingStep ==
  ASSUME MuxInv, NEW p, AcceptIncoming(p)
  PROVE  MuxInv'
  <1>1. Receives(p) /\ p \in Packet /\ p.handle \in Handle /\ pluginQ' \in [Backends -> Seq(Packet)]
    BY ReceivesPacket DEF AcceptIncoming
  <1>2. /\ byHandle[p.handle] = None
        /\ peers' = WithPeer(nextPeerId, NewPeer(p.handle, "server"))
        /\ byHandle' = [byHandle EXCEPT ![p.handle] = nextPeerId]
        /\ nextPeerId' = nextPeerId + 1
        /\ UNCHANGED closing
    BY <1>1 DEF AcceptIncoming, Receives
  <1>3. /\ nextPeerId' \in Nat \ {0}
        /\ Live' \subseteq 1 .. (nextPeerId' - 1)
        /\ peers' \in [Live' -> Peer]
        /\ byHandle' \in [Handle -> Nat]
        /\ Live' = Live \cup {nextPeerId} /\ nextPeerId \notin Live
        /\ peers'[nextPeerId] = NewPeer(p.handle, "server")
        /\ HandlesMatchPeers'
        /\ ClosingIsErased'
    BY <1>1, <1>2, "server" \in Routes, AddKeeps DEF Routes
  <1>4. /\ pumpPc' \in {"draining", "control"}
        /\ pumpItem' \in Item \cup {NoItem}
        /\ PumpHoldsPeer'
        /\ CheckedStaysIdentified'
    <2>1. nextPeerId \in Live' /\ peers'[nextPeerId].route = "server" /\ Live' \subseteq Nat
      BY <1>3 DEF NewPeer
    <2>2. Dispatches(nextPeerId, "server", p) /\ pumpPc = "draining" /\ "server" \in Routes
      BY <1>1 DEF AcceptIncoming, Receives, Routes
    <2>3. QED
      BY <1>1, <2>1, <2>2, DispatchesKeeps
  <1>5. nextPeerId \in Nat /\ records' \subseteq records \cup {nextPeerId} /\ records \subseteq records'
        /\ aged' = aged \ {nextPeerId} /\ UNCHANGED closeCalls
    BY DEF AcceptIncoming, MuxInv, TypeOK
  <1>6. TypeOK'
    BY <1>1, <1>3, <1>4, <1>5 DEF MuxInv, TypeOK, Receives
  <1>7. RecordsBelongToPeers'
    BY <1>2, <1>3, <1>5 DEF MuxInv, RecordsBelongToPeers
  <1>8. QED
    BY <1>3, <1>4, <1>6, <1>7 DEF MuxInv

LEMMA ReceiveKnownStep ==
  ASSUME MuxInv, NEW p, ReceiveKnown(p)
  PROVE  MuxInv'
  <1> DEFINE i == byHandle[p.handle]
  <1>1. Receives(p) /\ p \in Packet /\ p.handle \in Handle /\ pluginQ' \in [Backends -> Seq(Packet)]
    BY ReceivesPacket DEF ReceiveKnown
  <1>2. i \in Live /\ peers[i] \in Peer /\ peers[i].route \in Routes
    BY <1>1 DEF ReceiveKnown, MuxInv, HandlesMatchPeers, TypeOK, Peer
  <1>3. peers' \in [Live -> Peer] /\ peers'[i].route = peers[i].route /\ SamePeers
    BY <1>1, <1>2, TouchedKeeps DEF ReceiveKnown, Receives, SamePeers, MuxInv, TypeOK, Live
  <1>4. /\ pumpPc' \in {"draining", "control"}
        /\ pumpItem' \in Item \cup {NoItem}
        /\ PumpHoldsPeer'
        /\ CheckedStaysIdentified'
    <2>1. i \in Live' /\ Live' \subseteq Nat
      BY <1>2, <1>3 DEF SamePeers, MuxInv, TypeOK
    <2>2. Dispatches(i, peers[i].route, p) /\ pumpPc = "draining"
      BY <1>1 DEF ReceiveKnown, Receives
    <2>3. QED
      BY <1>1, <1>2, <1>3, <2>1, <2>2, DispatchesKeeps
  <1>5. UNCHANGED <<records, aged, closeCalls, byHandle, nextPeerId>>
    BY DEF ReceiveKnown, recordVars
  <1>6. TypeOK'
    BY <1>1, <1>3, <1>4, <1>5 DEF MuxInv, TypeOK, Receives, SamePeers
  <1>7. QED
    BY <1>3, <1>4, <1>5, <1>6, SamePeersKeeps DEF MuxInv

\* Present gives a record only to the peer of the datagram, which is live.
LEMMA HandleControlStep ==
  ASSUME MuxInv, HandleControl
  PROVE  MuxInv'
  <1>1. pumpItem \in Item /\ pumpPc = "control"
    BY DEF HandleControl, MuxInv, PumpHoldsPeer
  <1>2. peers' \in [Live -> Peer] /\ SamePeers
    BY TouchedKeeps DEF HandleControl, SamePeers, MuxInv, TypeOK, Live
  <1>3. /\ pumpPc' \in {"admit", "draining"}
        /\ pumpItem' \in {pumpItem, NoItem}
        /\ pumpPc' = "admit" => pumpItem' = pumpItem
    BY DEF HandleControl
  <1>4. /\ records' \subseteq records \cup {pumpItem.peer}
        /\ aged' \subseteq records'
        /\ ~ (records' \subseteq records) => pumpItem.peer \in Live
    <2>1. CASE UNCHANGED recordVars
      BY <2>1 DEF recordVars, MuxInv, TypeOK
    <2>2. ASSUME NEW verdict, NEW prune, Present(verdict, prune), pumpItem.route = "server"
          PROVE  /\ records' \subseteq records \cup {pumpItem.peer}
                 /\ aged' \subseteq records'
                 /\ pumpItem.peer \in Live
      BY <1>1, <2>2 DEF Present, MuxInv, TypeOK, PumpHoldsPeer
    <2>3. QED
      BY <2>1, <2>2 DEF HandleControl
  <1>5. pumpItem.peer \in Nat
    BY <1>1 DEF Item
  <1>6. TypeOK'
    BY <1>2, <1>3, <1>4, <1>5 DEF HandleControl, MuxInv, TypeOK, pluginVars, SamePeers
  <1>7. HandlesMatchPeers' /\ ClosingIsErased'
    BY <1>2, SamePeersKeeps
  <1>8. RecordsBelongToPeers'
    <2>1. Live' = Live /\ closing' = closing
      BY <1>2 DEF SamePeers
    <2>2. QED
      BY <1>4, <2>1 DEF MuxInv, RecordsBelongToPeers
  <1>9. PumpHoldsPeer' /\ CheckedStaysIdentified'
    BY <1>1, <1>2, <1>3 DEF MuxInv, PumpHoldsPeer, CheckedStaysIdentified, SamePeers
  <1>10. QED
    BY <1>6, <1>7, <1>8, <1>9 DEF MuxInv

\* The admission check leaves a checked datagram with a record just looked up.
LEMMA AdmitStep ==
  ASSUME MuxInv, Admit
  PROVE  MuxInv'
  <1>1. pumpItem \in Item /\ pumpPc = "admit"
    BY DEF Admit, MuxInv, PumpHoldsPeer
  <1>2. SamePeers /\ records' = records /\ aged' \subseteq aged
    BY DEF Admit, SamePeers, muxVars, Live, Refreshed
  <1>3. CASE pumpPc' = "draining"
    <2>1. pumpItem' = NoItem
      BY <1>3 DEF Admit
    <2>2. TypeOK'
      BY <1>2, <1>3, <2>1 DEF Admit, MuxInv, TypeOK, muxVars, pluginVars, Live
    <2>3. PumpHoldsPeer' /\ CheckedStaysIdentified'
      BY <1>3 DEF PumpHoldsPeer, CheckedStaysIdentified
    <2>4. QED
      BY <1>2, <2>2, <2>3, SamePeersKeeps DEF MuxInv
  <1>4. CASE pumpPc' # "draining"
    <2>1. /\ pumpPc' = "push"
          /\ ~ (pumpItem.route = "server" /\ ShouldDropUnidentified(pumpItem.peer))
          /\ pumpItem' = [pumpItem EXCEPT !.checked = enforce /\ pumpItem.route = "server"]
          /\ aged' = IF pumpItem.route = "server" THEN Refreshed({pumpItem.peer}) ELSE aged
      BY <1>4 DEF Admit
    <2>2. /\ pumpItem' \in Item /\ pumpItem'.route = pumpItem.route
          /\ pumpItem'.peer = pumpItem.peer
          /\ pumpItem'.checked = (enforce /\ pumpItem.route = "server")
      <3>1. enforce \in BOOLEAN
        BY DEF MuxInv, TypeOK
      <3>2. (enforce /\ pumpItem.route = "server") \in BOOLEAN
        OBVIOUS
      <3>3. \A b \in BOOLEAN : /\ [pumpItem EXCEPT !.checked = b] \in Item
                              /\ [pumpItem EXCEPT !.checked = b].route = pumpItem.route
                              /\ [pumpItem EXCEPT !.checked = b].peer = pumpItem.peer
                              /\ [pumpItem EXCEPT !.checked = b].checked = b
        BY <1>1 DEF Item
      <3>4. QED
        BY <2>1, <3>2, <3>3
    <2>3. TypeOK'
      BY <1>2, <2>1, <2>2 DEF Admit, MuxInv, TypeOK, muxVars, pluginVars, Live
    <2>4. PumpHoldsPeer'
      BY <1>1, <1>2, <2>1, <2>2 DEF MuxInv, PumpHoldsPeer, SamePeers
    <2>5. CheckedStaysIdentified'
      <3> SUFFICES ASSUME pumpItem'.checked
                   PROVE  pumpItem'.route = "server" /\ pumpItem'.peer \in records' \ aged'
        BY DEF CheckedStaysIdentified
      <3>1. enforce /\ pumpItem.route = "server"
        BY <2>2
      <3>2. pumpItem.peer \in records
        BY <2>1, <3>1 DEF ShouldDropUnidentified
      <3>3. aged' = aged \ {pumpItem.peer}
        BY <2>1, <3>1 DEF Refreshed
      <3>4. QED
        BY <1>2, <2>2, <3>1, <3>2, <3>3
    <2>6. QED
      BY <1>2, <2>3, <2>4, <2>5, SamePeersKeeps DEF MuxInv
  <1>5. QED
    BY <1>3, <1>4

LEMMA PushForEngineStep ==
  ASSUME MuxAssumption, MuxInv, PushForEngine
  PROVE  MuxInv'
  <1>1. pumpItem \in Item
    BY DEF PushForEngine, MuxInv, PumpHoldsPeer
  <1>2. queues' \in [Routes -> Seq(Datagram)]
    <2>1. [peer |-> pumpItem.peer, handle |-> pumpItem.handle, seq |-> pumpItem.seq] \in Datagram
      BY <1>1 DEF Item, Datagram
    <2>2. pumpItem.route \in Routes /\ queues[pumpItem.route] \in Seq(Datagram)
      BY <1>1 DEF Item, MuxInv, TypeOK
    <2>3. Pushed(queues[pumpItem.route],
                 [peer |-> pumpItem.peer, handle |-> pumpItem.handle, seq |-> pumpItem.seq])
            \in Seq(Datagram)
      BY <2>1, <2>2, PushedType DEF MuxAssumption
    <2>4. QED
      BY <2>2, <2>3 DEF PushForEngine, MuxInv, TypeOK
  <1>3. TypeOK'
    BY <1>2 DEF PushForEngine, MuxInv, TypeOK, muxVars, recordVars, pluginVars, Live
  <1>4. SamePeers /\ records' = records
    BY DEF PushForEngine, SamePeers, muxVars, recordVars, Live
  <1>5. PumpHoldsPeer' /\ CheckedStaysIdentified'
    BY DEF PushForEngine, PumpHoldsPeer, CheckedStaysIdentified
  <1>6. QED
    BY <1>3, <1>4, <1>5, SamePeersKeeps DEF MuxInv

\* Steps of the pump that carry no datagram afterwards.
LEMMA EmptyHandedStep ==
  ASSUME MuxInv, PumpBegin \/ PumpEnd \/ ReapCollect \/ \E i \in reapList : ReapSkip(i)
  PROVE  MuxInv'
  <1>1. /\ pumpPc' \in {"free", "draining", "reaping"}
        /\ pumpItem' = pumpItem /\ reapList' \subseteq Nat /\ aged' \subseteq aged
        /\ UNCHANGED <<muxVars, records, queues, enforce, closing, closeCalls, pluginVars, lastPopped>>
    BY DEF PumpBegin, PumpEnd, ReapCollect, ReapSkip, MuxInv, TypeOK, recordVars, Live, Refreshed
  <1>2. TypeOK'
    BY <1>1 DEF MuxInv, TypeOK, muxVars, pluginVars, Live
  <1>3. SamePeers /\ records' = records
    BY <1>1 DEF SamePeers, muxVars, Live
  <1>4. PumpHoldsPeer' /\ CheckedStaysIdentified'
    BY <1>1 DEF PumpHoldsPeer, CheckedStaysIdentified
  <1>5. QED
    BY <1>2, <1>3, <1>4, SamePeersKeeps DEF MuxInv

LEMMA PumpSteps ==
  ASSUME MuxAssumption, MuxInv, Pump
  PROVE  MuxInv'
  <1>1. ASSUME Receive
        PROVE  MuxInv'
    <2>1. PICK p : ReceiveClosed(p) \/ ReceiveStale(p) \/ RefuseOverCap(p) \/ AcceptIncoming(p)
                   \/ ReceiveKnown(p)
      BY <1>1 DEF Receive
    <2>2. ASSUME ReceiveStale(p) \/ RefuseOverCap(p)
          PROVE  MuxInv'
      <3>1. Receives(p) /\ p.handle \in Handle
        BY <2>2, ReceivesPacket DEF ReceiveStale, RefuseOverCap
      <3>2. /\ closeCalls' \subseteq Handle
            /\ UNCHANGED <<peers, byHandle, nextPeerId, recordVars, pumpPc, pumpItem>>
        BY <2>2, <3>1 DEF ReceiveStale, RefuseOverCap, MuxInv, TypeOK
      <3>3. QED
        BY <3>1, <3>2, ReceiveNothingKeeps
    <2>3. QED
      BY <2>1, <2>2, ReceiveClosedStep, AcceptIncomingStep, ReceiveKnownStep
  <1>2. ASSUME NEW i \in reapList, ReapClose(i)
        PROVE  MuxInv'
    <2>1. pumpPc = "reaping" /\ EraseForClose(i, "pump") /\ reapList' \subseteq Nat
      BY <1>2 DEF ReapClose, MuxInv, TypeOK
    <2>2. QED
      BY <2>1, EraseForCloseStep
  <1>3. QED
    BY <1>1, <1>2, HandleControlStep, AdmitStep, PushForEngineStep, EmptyHandedStep DEF Pump

-----------------------------------------------------------------------------
(* Theorems *)

LEMMA InitMuxInv == Init => MuxInv
  <1> SUFFICES ASSUME Init PROVE MuxInv
    OBVIOUS
  <1>1. TypeOK
    <2>1. Live = {} /\ peers \in [Live -> Peer]
      BY DEF Init, Live
    <2>2. /\ byHandle \in [Handle -> Nat] /\ nextPeerId \in Nat \ {0}
          /\ sent \in [Handle -> Nat] /\ lastPopped \in [Handle -> Nat]
          /\ queues \in [Routes -> Seq(Datagram)] /\ pluginQ \in [Backends -> Seq(Packet)]
      BY DEF Init, None
    <2>3. QED
      BY <2>1, <2>2 DEF Init, TypeOK
  <1>2. HandlesMatchPeers
    BY DEF Init, HandlesMatchPeers, Live
  <1>3. RecordsBelongToPeers /\ PumpHoldsPeer /\ CheckedStaysIdentified /\ ClosingIsErased
    BY DEF Init, RecordsBelongToPeers, PumpHoldsPeer, CheckedStaysIdentified, ClosingIsErased
  <1>4. QED
    BY <1>1, <1>2, <1>3 DEF MuxInv

LEMMA StepMuxInv == MuxInv /\ [Next]_vars => MuxInv'
  <1> SUFFICES ASSUME MuxInv, [Next]_vars PROVE MuxInv'
    OBVIOUS
  <1>1. CASE Next
    BY <1>1, MuxAssumption, PumpSteps, OtherSteps, BackendSteps, TimeSteps DEF Next
  <1>2. CASE UNCHANGED vars
    BY <1>2 DEF vars, MuxInv, TypeOK, HandlesMatchPeers, RecordsBelongToPeers, PumpHoldsPeer,
                CheckedStaysIdentified, ClosingIsErased, Live, None
  <1>3. QED
    BY <1>1, <1>2

\* MuxInv holds in every reachable state, with any number of connections, any
\* bounds and any interleaving of the threads.
THEOREM MuxInvariant == Spec => []MuxInv
  BY InitMuxInv, StepMuxInv, PTL DEF Spec

\* The state keeps its types: in particular every live mux id is one that
\* g_nextPeerId has already passed.
THEOREM TypeCorrect == Spec => []TypeOK
  <1>1. MuxInv => TypeOK
    BY DEF MuxInv
  <1>2. QED
    BY <1>1, MuxInvariant, PTL

\* g_byHandle and g_peers always describe the same peers.
THEOREM HandlesAlwaysMatch == Spec => []HandlesMatchPeers
  <1>1. MuxInv => HandlesMatchPeers
    BY DEF MuxInv
  <1>2. QED
    BY <1>1, MuxInvariant, PTL

\* No identity record outlives its overlay peer beyond the call to Forget.
THEOREM NoOrphanIdentity == Spec => []RecordsBelongToPeers
  <1>1. MuxInv => RecordsBelongToPeers
    BY DEF MuxInv
  <1>2. QED
    BY <1>1, MuxInvariant, PTL

\* The check of ShouldDropUnidentified still holds when the datagram is queued.
THEOREM CheckStillHolds == Spec => OnlyAdmittedQueued
  <1>1. MuxInv /\ [Next]_vars =>
          [pumpPc = "push" /\ pumpPc' = "draining" /\ queues' # queues
           => /\ pumpItem.peer \in Live
              /\ pumpItem.checked => pumpItem.peer \in records]_vars
    <2> SUFFICES ASSUME MuxInv, [Next]_vars, pumpPc = "push", pumpPc' = "draining", queues' # queues
                 PROVE  /\ pumpItem.peer \in Live
                        /\ pumpItem.checked => pumpItem.peer \in records
      OBVIOUS
    <2>1. PushForEngine
      <3>1. CASE Pump
        BY <3>1 DEF Pump, PumpBegin, Receive, ReceiveClosed, ReceiveStale, RefuseOverCap,
                    AcceptIncoming, ReceiveKnown, Receives, HandleControl, Admit, ReapCollect,
                    PumpEnd, ReapClose, ReapSkip
      <3>2. CASE Others
        BY <3>2 DEF Others, AddOutgoingPeer, ClosePeer, EraseForClose, SendToPeer, FinishClose,
                    PopQueued, SetIdentityEnforcement, PruneRecords, pumpVars
      <3>3. CASE Backend
        BY <3>3 DEF Backend, AcceptConnection, DialConnection, DialEnds, ReadLoopEnds, BackendClose,
                    ReadDatagram, pumpVars
      <3>4. CASE Time
        BY <3>4 DEF Time, BecomeIdle, GraceEnds, RecordAges, pumpVars
      <3>5. QED
        BY <3>1, <3>2, <3>3, <3>4 DEF Next, vars
    <2>2. pumpItem.peer \in Live
      BY <2>1 DEF PushForEngine
    <2>3. QED
      BY <2>2 DEF MuxInv, CheckedStaysIdentified
  <1>2. QED
    BY <1>1, MuxInvariant, PTL DEF Spec, OnlyAdmittedQueued

-----------------------------------------------------------------------------
(* What a step can do to the set of peers *)

\* A connection without an id gets the next one; incoming ones only below the cap.
Opens(h, r, known) ==
  /\ byHandle[h] = None
  /\ r = "server" => Cardinality(Incoming(KindOf[h])) < MaxIncoming
  /\ peers' = WithPeer(nextPeerId, NewPeer(h, r))
  /\ byHandle' = [byHandle EXCEPT ![h] = nextPeerId]
  /\ nextPeerId' = nextPeerId + 1
  /\ UNCHANGED closing
  /\ records' = IF known THEN records \cup {nextPeerId} ELSE records

Erases(i) ==
  /\ peers' = Restrict(peers, Live \ {i})
  /\ byHandle' = [byHandle EXCEPT ![peers[i].handle] = None]
  /\ UNCHANGED nextPeerId
  /\ records' \in {records, records \ {i}}

KeepsPeers ==
  /\ Live' = Live
  /\ \A j \in Live : peers'[j].handle = peers[j].handle /\ peers'[j].route = peers[j].route
  /\ UNCHANGED nextPeerId

PeerStep ==
  \/ \E h \in Handle, r \in Routes, known \in BOOLEAN : Opens(h, r, known)
  \/ \E i \in Live : Erases(i)
  \/ KeepsPeers

\* Every step opens one peer, erases one, or keeps them all.
LEMMA StepShape ==
  ASSUME MuxInv, Next
  PROVE  PeerStep
  <1>1. ASSUME NEW h \in Handle, AddOutgoingPeer(h)
        PROVE  PeerStep
    <2>1. CASE byHandle[h] # None
      BY <1>1, <2>1 DEF AddOutgoingPeer, KeepsPeers, PeerStep, Live
    <2>2. CASE byHandle[h] = None
      <3>1. Opens(h, "client", FALSE)
        BY <1>1, <2>2 DEF AddOutgoingPeer, recordVars, Opens
      <3>2. QED
        BY <3>1 DEF PeerStep, Routes
    <2>3. QED
      BY <2>1, <2>2
  <1>2. ASSUME NEW i, NEW by, EraseForClose(i, by)
        PROVE  PeerStep
    <2>1. i \in Live /\ Erases(i)
      BY <1>2 DEF EraseForClose, recordVars, Erases
    <2>2. QED
      BY <2>1 DEF PeerStep, Routes
  <1>3. ASSUME NEW p, Receives(p), ReceiveClosed(p)
        PROVE  PeerStep
    <2>1. p.handle \in Handle
      BY <1>3, ReceivesPacket
    <2>2. CASE byHandle[p.handle] = None
      <3>1. Live \ {byHandle[p.handle]} = Live /\ peers \in [Live -> Peer]
        BY <2>2 DEF MuxInv, TypeOK, None
      <3>2. peers' = peers
        BY <1>3, <3>1 DEF ReceiveClosed, Restrict, Live
      <3>3. byHandle' = byHandle
        BY <1>3, <2>1, <2>2 DEF ReceiveClosed, MuxInv, TypeOK
      <3>4. QED
        BY <1>3, <3>2, <3>3 DEF ReceiveClosed, Receives, KeepsPeers, PeerStep, Live
    <2>3. CASE byHandle[p.handle] # None
      <3>1. PICK i \in Live : byHandle[p.handle] = i /\ peers[i].handle = p.handle
        BY <2>1, <2>3 DEF MuxInv, HandlesMatchPeers
      <3>2. Erases(i)
        BY <1>3, <3>1 DEF ReceiveClosed, Erases
      <3>3. QED
        BY <3>1, <3>2 DEF PeerStep, Routes
    <2>4. QED
      BY <2>2, <2>3
  <1>4. ASSUME NEW p, AcceptIncoming(p)
        PROVE  PeerStep
    <2>1. Receives(p) /\ p.handle \in Handle
      BY <1>4, ReceivesPacket DEF AcceptIncoming
    <2>2. CASE KindOf[p.handle] \in TrustedKinds
      <3>1. Opens(p.handle, "server", TRUE)
        BY <1>4, <2>1, <2>2 DEF AcceptIncoming, Receives, Opens
      <3>2. QED
        BY <2>1, <3>1 DEF PeerStep, Routes
    <2>3. CASE KindOf[p.handle] \notin TrustedKinds
      <3>1. Opens(p.handle, "server", FALSE)
        BY <1>4, <2>1, <2>3 DEF AcceptIncoming, Receives, Opens
      <3>2. QED
        BY <2>1, <3>1 DEF PeerStep, Routes
    <2>4. QED
      BY <2>2, <2>3
  <1>5. ASSUME NEW p, ReceiveStale(p) \/ RefuseOverCap(p) \/ ReceiveKnown(p)
        PROVE  PeerStep
    <2>1. KeepsPeers
      BY <1>5, TouchedKeeps DEF ReceiveStale, RefuseOverCap, ReceiveKnown, Receives, KeepsPeers,
                                MuxInv, TypeOK, Live
    <2>2. QED
      BY <2>1 DEF PeerStep, Routes
  <1>6. ASSUME Receive
        PROVE  PeerStep
    BY <1>6, <1>3, <1>4, <1>5 DEF Receive, ReceiveClosed
  <1>7. ASSUME HandleControl \/ Admit \/ PushForEngine \/ PumpBegin \/ PumpEnd \/ ReapCollect
               \/ \E i \in reapList : ReapSkip(i)
        PROVE  PeerStep
    <2>1. KeepsPeers
      BY <1>7, TouchedKeeps DEF HandleControl, Admit, PushForEngine, PumpBegin, PumpEnd, ReapCollect,
                                ReapSkip, KeepsPeers, muxVars, MuxInv, TypeOK, Live
    <2>2. QED
      BY <2>1 DEF PeerStep, Routes
  <1>8. ASSUME Backend
        PROVE  PeerStep
    <2>1. KeepsPeers
      BY <1>8 DEF Backend, AcceptConnection, DialConnection, DialEnds, ReadLoopEnds, BackendClose,
                  ReadDatagram, KeepsPeers, muxVars, Live
    <2>2. QED
      BY <2>1 DEF PeerStep, Routes
  <1>9. ASSUME Time \/ (\E i \in Live : SendToPeer(i))
        PROVE  PeerStep
    <2>1. CASE \E i \in Live : SendToPeer(i)
      <3>1. KeepsPeers
        BY <2>1, TouchedKeeps DEF SendToPeer, KeepsPeers, MuxInv, TypeOK, Live
      <3>2. QED
        BY <3>1 DEF PeerStep, Routes
    <2>2. CASE \E i \in records : RecordAges(i)
      <3>1. KeepsPeers
        BY <2>2 DEF RecordAges, muxVars, KeepsPeers, Live
      <3>2. QED
        BY <3>1 DEF PeerStep, Routes
    <2>3. ASSUME NEW i \in Live, BecomeIdle(i) \/ GraceEnds(i)
          PROVE  PeerStep
      <3>1. peers \in [Live -> Peer] /\ peers[i] \in Peer
        BY DEF MuxInv, TypeOK
      <3>2. PICK p \in Peer : /\ peers' = [peers EXCEPT ![i] = p]
                             /\ p.handle = peers[i].handle /\ p.route = peers[i].route
        <4>1. CASE BecomeIdle(i)
          BY <3>1, <4>1, [peers[i] EXCEPT !.idle = TRUE] \in Peer DEF BecomeIdle, Peer
        <4>2. CASE GraceEnds(i)
          BY <3>1, <4>2, [peers[i] EXCEPT !.graceOver = TRUE] \in Peer DEF GraceEnds, Peer
        <4>3. QED
          BY <2>3, <4>1, <4>2
      <3>3. KeepsPeers
        BY <2>3, <3>1, <3>2 DEF BecomeIdle, GraceEnds, KeepsPeers, Live
      <3>4. QED
        BY <3>3 DEF PeerStep, Routes
    <2>4. QED
      BY <1>9, <2>1, <2>2, <2>3 DEF Time
  <1>10. ASSUME (\E c \in closing : FinishClose(c)) \/ (\E r \in Routes : PopQueued(r))
                \/ (\E on \in BOOLEAN : SetIdentityEnforcement(on)) \/ PruneRecords
        PROVE  PeerStep
    <2>1. KeepsPeers
      BY <1>10 DEF FinishClose, PopQueued, SetIdentityEnforcement, PruneRecords, KeepsPeers,
                   muxVars, Live
    <2>2. QED
      BY <2>1 DEF PeerStep, Routes
  <1>11. CASE Pump
    BY <1>11, <1>2, <1>6, <1>7 DEF Pump, ReapClose
  <1>12. CASE Others
    BY <1>12, <1>1, <1>2, <1>9, <1>10 DEF Others, ClosePeer
  <1>13. QED
    BY <1>8, <1>9, <1>11, <1>12 DEF Next

-----------------------------------------------------------------------------
(* Ids are given out once *)

\* A mux id never comes to stand for another connection, whatever threads add,
\* close and accept meanwhile (p2p_mux.cpp AddOutgoingPeer, the pump's sink,
\* ClosePeer, the reaper).
THEOREM IdsStaySingleUse == Spec => IdsNeverReused
  <1> DEFINE Kept == /\ nextPeerId' >= nextPeerId
                     /\ \A i \in Live \cap Live' : peers'[i].handle = peers[i].handle
                                                  /\ peers'[i].route = peers[i].route
                     /\ \A i \in Live' \ Live : i >= nextPeerId /\ i < nextPeerId'
  <1>1. MuxInv /\ [Next]_vars => [Kept]_vars
    <2> SUFFICES ASSUME MuxInv, Next
                 PROVE  Kept
      OBVIOUS
    <2> nextPeerId \in Nat
      BY DEF MuxInv, TypeOK
    <2>1. ASSUME NEW h \in Handle, NEW r \in Routes, NEW known \in BOOLEAN, Opens(h, r, known)
          PROVE  Kept
      <3>1. /\ Live' = Live \cup {nextPeerId} /\ nextPeerId \in Nat /\ nextPeerId' = nextPeerId + 1
            /\ nextPeerId \notin Live
            /\ \A j \in Live : peers'[j] = peers[j]
        BY <2>1, AddKeeps DEF Opens, MuxInv, TypeOK
      <3>2. QED
        BY <3>1
    <2>2. ASSUME NEW i \in Live, Erases(i)
          PROVE  Kept
      <3>1. /\ Live' = Live \ {i} /\ nextPeerId' = nextPeerId
            /\ \A j \in Live' : peers'[j] = peers[j]
        BY <2>2, EraseKeeps DEF Erases
      <3>2. QED
        BY <3>1
    <2>3. CASE KeepsPeers
      BY <2>3 DEF KeepsPeers
    <2>4. QED
      BY <2>1, <2>2, <2>3, StepShape DEF PeerStep
  <1>2. QED
    BY <1>1, MuxInvariant, PTL DEF Spec, IdsNeverReused

-----------------------------------------------------------------------------
(* The cap on incoming peers *)

\* Only finitely many ids were ever given out, so the peers can be counted.
LEMMA IncomingFinite ==
  ASSUME MuxInv, NEW k
  PROVE  IsFiniteSet(Incoming(k)) /\ Cardinality(Incoming(k)) \in Nat
  <1>1. IsFiniteSet(1 .. (nextPeerId - 1))
    BY FS_Interval DEF MuxInv, TypeOK
  <1>2. Incoming(k) \subseteq 1 .. (nextPeerId - 1)
    BY DEF Incoming, MuxInv, TypeOK
  <1>3. QED
    BY <1>1, <1>2, FS_Subset, FS_CardinalityType

\* However packets, closings and the reaper interleave, a backend never has more
\* than MaxIncoming Server peers: the pump is the only thread that accepts.
THEOREM CapHolds == Spec => []IncomingCapped
    <1>1. Init => IncomingCapped
    <2> SUFFICES ASSUME Init, NEW k \in Backends
                 PROVE  Cardinality(Incoming(k)) <= MaxIncoming
      BY DEF IncomingCapped
    <2>1. Incoming(k) = {}
      BY DEF Init, Incoming, Live
    <2>2. QED
      BY <2>1, FS_EmptySet, MuxAssumption DEF MuxAssumption
  <1>2. MuxInv /\ IncomingCapped /\ [Next]_vars => IncomingCapped'
    <2> SUFFICES ASSUME MuxInv, IncomingCapped, [Next]_vars, NEW k \in Backends
                 PROVE  Cardinality(Incoming(k)') <= MaxIncoming
      BY DEF IncomingCapped
    <2>1. /\ IsFiniteSet(Incoming(k)) /\ Cardinality(Incoming(k)) \in Nat
          /\ Cardinality(Incoming(k)) <= MaxIncoming /\ MaxIncoming \in Nat
      BY IncomingFinite, MuxAssumption DEF IncomingCapped, MuxAssumption
    <2>2. ASSUME Incoming(k)' \subseteq Incoming(k)
          PROVE  Cardinality(Incoming(k)') <= MaxIncoming
      BY <2>1, <2>2, FS_Subset, FS_CardinalityType
    <2>3. ASSUME NEW h \in Handle, NEW r \in Routes, NEW known \in BOOLEAN, Opens(h, r, known)
          PROVE  Cardinality(Incoming(k)') <= MaxIncoming
      <3>1. /\ Live' = Live \cup {nextPeerId} /\ nextPeerId \notin Live
            /\ peers'[nextPeerId] = NewPeer(h, r)
            /\ \A j \in Live : peers'[j] = peers[j]
        BY <2>3, AddKeeps DEF Opens
      <3>2. peers'[nextPeerId].route = r /\ peers'[nextPeerId].handle = h
        BY <3>1 DEF NewPeer
      <3>3. CASE r = "server" /\ KindOf[h] = k
        <4>1. Incoming(k)' = Incoming(k) \cup {nextPeerId} /\ nextPeerId \notin Incoming(k)
          BY <3>1, <3>2, <3>3 DEF Incoming
        <4>2. Cardinality(Incoming(k)) < MaxIncoming
          BY <2>3, <3>3 DEF Opens
        <4>3. Cardinality(Incoming(k)') = Cardinality(Incoming(k)) + 1
          BY <2>1, <4>1, FS_AddElement
        <4>4. QED
          BY <2>1, <4>2, <4>3
      <3>4. CASE ~ (r = "server" /\ KindOf[h] = k)
        <4>1. Incoming(k)' \subseteq Incoming(k)
          BY <3>1, <3>2, <3>4 DEF Incoming
        <4>2. QED
          BY <2>2, <4>1
      <3>5. QED
        BY <3>3, <3>4
    <2>4. ASSUME NEW i \in Live, Erases(i)
          PROVE  Incoming(k)' \subseteq Incoming(k)
      BY <2>4, EraseKeeps DEF Erases, Incoming
    <2>5. ASSUME KeepsPeers
          PROVE  Incoming(k)' \subseteq Incoming(k)
      BY <2>5 DEF KeepsPeers, Incoming
    <2>6. ASSUME UNCHANGED vars
          PROVE  Incoming(k)' \subseteq Incoming(k)
      BY <2>6 DEF vars, Incoming, Live
    <2>7. QED
      BY <2>2, <2>3, <2>4, <2>5, <2>6, StepShape DEF PeerStep
  <1>3. QED
    BY <1>1, <1>2, MuxInvariant, PTL DEF Spec

-----------------------------------------------------------------------------
(* The order of a connection's datagrams.  PopQueued of either route sets   *)
(* lastPopped, so the invariant first says that whatever is known of a      *)
(* handle names one route, and then orders the four places a datagram can   *)
(* be in: the engine, its queue, the pump's hands, the plugin's queue.      *)

\* The pump holds a datagram between two critical sections.
Carrying == pumpPc \in {"control", "admit", "push"}

\* The places that tell on which side a handle is: its connection, its peer,
\* the datagrams on their way.
ConnSide(h, r) ==
  IF r = "server" THEN conn[h] \in {"in", "closedIn"}
                  ELSE h \in dialled \/ conn[h] \in {"dialling", "out", "closedOut"}
PeerSide(h, r) == \E i \in Live : peers[i].handle = h /\ peers[i].route = r
QueueSide(h, r) == \E k \in DOMAIN queues[r] : queues[r][k].handle = h
PumpSide(h, r) == Carrying /\ pumpItem.handle = h /\ pumpItem.route = r
PluginSide(h, r) ==
  \E b \in Backends : \E k \in DOMAIN pluginQ[b] :
    /\ pluginQ[b][k].handle = h
    /\ pluginQ[b][k].incoming <=> r = "server"

Seen(h, r) ==
  ConnSide(h, r) \/ PeerSide(h, r) \/ QueueSide(h, r) \/ PumpSide(h, r) \/ PluginSide(h, r)

\* A handle was dialled or it was accepted, and nothing that is still under way
\* says otherwise, even after its peer and its connection are gone.
OneSide ==
  \A h \in Handle : \A r \in Routes :
    Seen(h, r) => /\ conn[h] # "unused"
                  /\ \A s \in Routes : Seen(h, s) => r = s

\* What waits for the engine is newer than what it has, and in order.
QueuesInOrder ==
  \A r \in Routes : \A k \in DOMAIN queues[r] :
    /\ queues[r][k].seq <= sent[queues[r][k].handle]
    /\ queues[r][k].seq > lastPopped[queues[r][k].handle]
    /\ \A l \in DOMAIN queues[r] :
         l < k /\ queues[r][l].handle = queues[r][k].handle => queues[r][l].seq < queues[r][k].seq

\* What the pump carries is newer than what waits for the engine.
CarriedInOrder ==
  Carrying =>
    /\ pumpItem.seq <= sent[pumpItem.handle]
    /\ pumpItem.seq > lastPopped[pumpItem.handle]
    /\ \A r \in Routes : \A k \in DOMAIN queues[r] :
         queues[r][k].handle = pumpItem.handle => queues[r][k].seq < pumpItem.seq

\* What the plugin holds is newer still, and in order; its last packet, "closed",
\* repeats a number and is never queued for the engine.
PluginInOrder ==
  \A b \in Backends : \A k \in DOMAIN pluginQ[b] :
    LET p == pluginQ[b][k]
    IN  /\ KindOf[p.handle] = b
        /\ p.seq <= sent[p.handle]
        /\ p.kind # "closed" =>
             /\ p.seq > lastPopped[p.handle]
             /\ \A r \in Routes : \A l \in DOMAIN queues[r] :
                  queues[r][l].handle = p.handle => queues[r][l].seq < p.seq
             /\ Carrying /\ pumpItem.handle = p.handle => pumpItem.seq < p.seq
             /\ \A l \in DOMAIN pluginQ[b] :
                  l < k /\ pluginQ[b][l].handle = p.handle /\ pluginQ[b][l].kind # "closed"
                    => pluginQ[b][l].seq < p.seq

\* The engine has nothing that was not sent.
PoppedWereSent == \A h \in Handle : lastPopped[h] <= sent[h]

\* With MuxInv, the inductive invariant of OrderKept.
OrderInv == OneSide /\ QueuesInOrder /\ CarriedInOrder /\ PluginInOrder /\ PoppedWereSent

\* q2 is q without its head.
Cut(q2, q) == \A k \in DOMAIN q2 : k \in Nat /\ k + 1 \in DOMAIN q /\ q2[k] = q[k + 1]

\* q2 is q with e appended, and perhaps without its head.
Grown(q2, q, e) ==
  \E s \in {0, 1}, n \in DOMAIN q2 :
    /\ n \in Nat
    /\ q2[n] = e
    /\ \A k \in DOMAIN q2 \ {n} : k \in Nat /\ k < n /\ k + s \in DOMAIN q /\ q2[k] = q[k + s]

\* Taking the head, as PopQueued and r1p_recv do.
LEMMA TailCuts ==
  ASSUME NEW S, NEW q \in Seq(S), q # <<>>
  PROVE  Cut(Tail(q), q) /\ Head(q) = q[1] /\ 1 \in DOMAIN q /\ \A k \in DOMAIN q : k \in Nat /\ k >= 1
  <1>1. Len(q) \in Nat /\ Len(q) > 0 /\ DOMAIN q = 1 .. Len(q)
    OBVIOUS
  <1>2. Len(Tail(q)) = Len(q) - 1 /\ DOMAIN Tail(q) = 1 .. (Len(q) - 1)
    <2>1. Tail(q) \in Seq(S) /\ Len(Tail(q)) = Len(q) - 1
      OBVIOUS
    <2>2. QED
      BY <2>1
  <1>3. \A k \in 1 .. (Len(q) - 1) : Tail(q)[k] = q[k + 1]
    OBVIOUS
  <1>4. Cut(Tail(q), q)
    BY <1>1, <1>2, <1>3 DEF Cut
  <1>5. QED
    BY <1>1, <1>4

\* Appending to a queue of bounded length, as PushLocked and push_packet do.
LEMMA AppendGrows ==
  ASSUME NEW S, NEW q \in Seq(S), NEW e \in S, NEW full \in BOOLEAN, full => q # <<>>
  PROVE  Grown(Append(IF full THEN Tail(q) ELSE q, e), q, e)
  <1>1. ASSUME NEW t \in Seq(S), NEW s \in {0, 1},
               \A k \in DOMAIN t : k + s \in DOMAIN q /\ t[k] = q[k + s]
        PROVE  Grown(Append(t, e), q, e)
    <2>1. Len(t) \in Nat /\ DOMAIN t = 1 .. Len(t) /\ Append(t, e) \in Seq(S)
      OBVIOUS
    <2>2. DOMAIN Append(t, e) = 1 .. (Len(t) + 1)
      BY <2>1
    <2>3. Append(t, e)[Len(t) + 1] = e /\ \A k \in DOMAIN t : Append(t, e)[k] = t[k]
      OBVIOUS
    <2>4. Len(t) + 1 \in DOMAIN Append(t, e)
      BY <2>1, <2>2
    <2>5. \A k \in DOMAIN Append(t, e) \ {Len(t) + 1} : k \in Nat /\ k < Len(t) + 1 /\ k \in DOMAIN t
      BY <2>1, <2>2
    <2>6. QED
      BY <1>1, <2>1, <2>3, <2>4, <2>5 DEF Grown
  <1>2. CASE full
    <2>1. Tail(q) \in Seq(S) /\ \A k \in DOMAIN Tail(q) : k + 1 \in DOMAIN q /\ Tail(q)[k] = q[k + 1]
      BY <1>2, TailCuts DEF Cut
    <2>2. Grown(Append(Tail(q), e), q, e)
      BY <1>1, <2>1
    <2>3. QED
      BY <1>2, <2>2
  <1>3. CASE ~ full
    <2>1. \A k \in DOMAIN q : k + 0 \in DOMAIN q /\ q[k] = q[k + 0]
      OBVIOUS
    <2>2. Grown(Append(q, e), q, e)
      BY <1>1, <2>1
    <2>3. QED
      BY <1>3, <2>2
  <1>4. QED
    BY <1>2, <1>3

\* The engine's queues and the plugin's.
LEMMA PushedGrows ==
  ASSUME MuxAssumption, NEW q \in Seq(Datagram), NEW d \in Datagram
  PROVE  Grown(Pushed(q, d), q, d)
  <1> DEFINE full == Len(q) >= MaxQueued
  <1>1. full \in BOOLEAN /\ full => q # <<>>
    BY DEF MuxAssumption
  <1>2. Pushed(q, d) = Append(IF full THEN Tail(q) ELSE q, d)
    BY DEF Pushed
  <1> HIDE DEF full
  <1>3. full \in BOOLEAN
    BY DEF full
  <1>4. QED
    BY <1>1, <1>2, <1>3, AppendGrows

LEMMA PushPacketGrows ==
  ASSUME MuxAssumption, MuxInv, NEW p \in Packet, PushPacket(p)
  PROVE  /\ KindOf[p.handle] \in Backends
         /\ Grown(pluginQ'[KindOf[p.handle]], pluginQ[KindOf[p.handle]], p)
         /\ \A b \in Backends \ {KindOf[p.handle]} : pluginQ'[b] = pluginQ[b]
  <1> DEFINE b == KindOf[p.handle]
             q == pluginQ[b]
             full == Len(q) >= PluginQueueCap
  <1>1. b \in Backends /\ pluginQ \in [Backends -> Seq(Packet)]
    BY DEF Backends, Packet, MuxInv, TypeOK
  <1>2. q \in Seq(Packet)
    BY <1>1
  <1>3. full \in BOOLEAN /\ full => q # <<>>
    BY <1>2 DEF MuxAssumption
  <1>4. pluginQ' = [pluginQ EXCEPT ![b] = Append(IF full THEN Tail(q) ELSE q, p)]
    BY DEF PushPacket
  <1>5. full \in BOOLEAN
    OBVIOUS
  <1> HIDE DEF full, q, b
  <1>6. Grown(Append(IF full THEN Tail(q) ELSE q, p), q, p)
    BY <1>2, <1>3, <1>5, AppendGrows
  <1>7. pluginQ'[b] = Append(IF full THEN Tail(q) ELSE q, p) /\ \A c \in Backends \ {b} : pluginQ'[c] = pluginQ[c]
    BY <1>1, <1>4
  <1>8. QED
    BY <1>1, <1>6, <1>7 DEF q, b


\* Nothing new comes to be known of a handle.
SidesShrink == \A h \in Handle, r \in Routes : Seen(h, r)' => Seen(h, r)
\* A handle that was given out stays used up.
StaysUsed == \A h \in Handle : conn[h] # "unused" => conn'[h] # "unused"

\* Steps that only forget keep the sides apart.
LEMMA ShrinkKeeps ==
  ASSUME OneSide, SidesShrink, StaysUsed
  PROVE  OneSide'
  BY DEF OneSide, SidesShrink, StaysUsed

\* A new handle is known on one side.
LEMMA GivenOut ==
  ASSUME OneSide, NEW h \in Handle, conn[h] = "unused", NEW side \in Routes,
         \A g \in Handle, r \in Routes : Seen(g, r)' => Seen(g, r) \/ (g = h /\ r = side),
         conn'[h] # "unused", StaysUsed
  PROVE  OneSide'
  <1>1. \A r \in Routes : ~ Seen(h, r)
    BY DEF OneSide
  <1>2. ASSUME NEW g \in Handle, NEW r \in Routes, Seen(g, r)', NEW s \in Routes
        PROVE  conn'[g] # "unused" /\ (Seen(g, s)' => r = s)
    BY <1>1, <1>2 DEF OneSide, StaysUsed
  <1>3. QED
    BY <1>2 DEF OneSide

\* A step that opens no peer makes no peer visible.
PeersShrink == \A h \in Handle, r \in Routes : PeerSide(h, r)' => PeerSide(h, r)

LEMMA NoneOpened ==
  ASSUME MuxInv, Next, UNCHANGED nextPeerId
  PROVE  PeersShrink
  <1>1. nextPeerId \in Nat
    BY DEF MuxInv, TypeOK
  <1>2. ~ \E h \in Handle, r \in Routes, known \in BOOLEAN : Opens(h, r, known)
    BY <1>1 DEF Opens
  <1>3. CASE \E i \in Live : Erases(i)
    <2>1. PICK i \in Live : Erases(i)
      BY <1>3
    <2>2. Live' \subseteq Live /\ \A j \in Live' : peers'[j] = peers[j]
      BY <2>1, EraseKeeps DEF Erases
    <2>3. QED
      BY <2>2 DEF PeersShrink, PeerSide
  <1>4. CASE KeepsPeers
    BY <1>4 DEF KeepsPeers, PeersShrink, PeerSide
  <1>5. QED
    BY <1>2, <1>3, <1>4, StepShape DEF PeerStep

\* What the pump still carries it carried before.
CarriesOn ==
  Carrying' => Carrying /\ pumpItem'.handle = pumpItem.handle /\ pumpItem'.seq = pumpItem.seq
                        /\ pumpItem'.route = pumpItem.route

Trail == QueuesInOrder /\ CarriedInOrder /\ PluginInOrder /\ PoppedWereSent

\* If no datagram moves, their order stays.
LEMMA TrailFrame ==
  ASSUME Trail, CarriesOn, UNCHANGED <<queues, pluginQ, sent, lastPopped>>
  PROVE  Trail'
  <1>1. QueuesInOrder' /\ PoppedWereSent'
    BY DEF Trail, QueuesInOrder, PoppedWereSent
  <1>2. CarriedInOrder'
    BY DEF Trail, CarriedInOrder, CarriesOn
  <1>3. PluginInOrder'
    BY DEF Trail, PluginInOrder, CarriesOn
  <1>4. QED
    BY <1>1, <1>2, <1>3 DEF Trail

\* Steps that move no datagram.
LEMMA QuietStep ==
  ASSUME MuxInv, OrderInv, Next, CarriesOn, StaysUsed,
         UNCHANGED <<nextPeerId, queues, pluginQ, sent, lastPopped>>,
         \A h \in Handle, r \in Routes : ConnSide(h, r)' => ConnSide(h, r)
  PROVE  OrderInv'
  <1>1. PeersShrink
    BY NoneOpened
  <1>2. \A h \in Handle, r \in Routes : PluginSide(h, r)' => PluginSide(h, r)
    BY DEF PluginSide
  <1>3. \A h \in Handle, r \in Routes : QueueSide(h, r)' => QueueSide(h, r)
    BY DEF QueueSide
  <1>4. \A h \in Handle, r \in Routes : PumpSide(h, r)' => PumpSide(h, r)
    BY DEF PumpSide, CarriesOn
  <1>5. SidesShrink
    BY <1>1, <1>2, <1>3, <1>4 DEF SidesShrink, Seen, PeersShrink
  <1>6. QED
    BY <1>5, ShrinkKeeps, TrailFrame DEF OrderInv, Trail

\* Closing, sending, ageing and the ends of dials move no datagram up.
LEMMA OtherThreadsQuiet ==
  ASSUME MuxInv, OrderInv, Next,
         \/ Time
         \/ \E h \in Handle : BackendClose(h)
         \/ \E h \in Handle, state \in {"out", "gone"} : DialEnds(h, state)
         \/ \E i \in Live : ClosePeer(i) \/ SendToPeer(i)
         \/ \E c \in closing : FinishClose(c)
         \/ \E on \in BOOLEAN : SetIdentityEnforcement(on)
         \/ PruneRecords
  PROVE  OrderInv'
  <1> DEFINE Still == /\ UNCHANGED <<nextPeerId, queues, pluginQ, sent, lastPopped>>
                      /\ UNCHANGED <<pumpPc, pumpItem, dialled>>
             Ends == \A h \in Handle :
                       \/ conn'[h] = conn[h]
                       \/ conn'[h] = "gone"
                       \/ conn[h] = "dialling" /\ conn'[h] = "out"
                       \/ conn[h] = "in" /\ conn'[h] = "closedIn"
                       \/ conn[h] = "out" /\ conn'[h] = "closedOut"
  <1>1. conn \in [Handle -> {"unused", "dialling", "in", "out", "closedIn", "closedOut", "gone"}]
    BY DEF MuxInv, TypeOK
  <1>2. ASSUME NEW h \in Handle, BackendClose(h)
        PROVE  Still /\ Ends
    <2>1. Still
      BY <1>2 DEF BackendClose, muxVars, pumpVars
    <2>2. \A g \in Handle \ {h} : conn'[g] = conn[g]
      BY <1>1, <1>2 DEF BackendClose
    <2>3. conn'[h] = IF KindOf[h] \in TrustedKinds THEN conn[h]
                     ELSE IF conn[h] = "in" THEN "closedIn"
                     ELSE IF conn[h] = "out" THEN "closedOut"
                     ELSE IF conn[h] = "dialling" THEN "gone" ELSE conn[h]
      BY <1>1, <1>2 DEF BackendClose
    <2>4. Ends
      BY <2>2, <2>3
    <2>5. QED
      BY <2>1, <2>4
  <1>3. ASSUME NEW h \in Handle, NEW state \in {"out", "gone"}, DialEnds(h, state)
        PROVE  Still /\ Ends
    <2>1. Still
      BY <1>3 DEF DialEnds, muxVars, pumpVars
    <2>2. conn[h] = "dialling" /\ conn'[h] = state /\ \A g \in Handle \ {h} : conn'[g] = conn[g]
      BY <1>1, <1>3 DEF DialEnds
    <2>3. Ends
      BY <2>2
    <2>4. QED
      BY <2>1, <2>3
  <1>4. ASSUME UNCHANGED conn
        PROVE  Ends
    BY <1>4
  <1>5. ASSUME Time
        PROVE  Still /\ UNCHANGED conn
    BY <1>5 DEF Time, BecomeIdle, GraceEnds, RecordAges, muxVars, pumpVars, pluginVars
  <1>6. ASSUME NEW i \in Live, ClosePeer(i) \/ SendToPeer(i)
        PROVE  Still /\ UNCHANGED conn
    BY <1>6 DEF ClosePeer, SendToPeer, EraseForClose, pumpVars, pluginVars
  <1>7. ASSUME NEW c \in closing, FinishClose(c)
        PROVE  Still /\ UNCHANGED conn
    BY <1>7 DEF FinishClose, muxVars, pluginVars
  <1>8. ASSUME NEW on \in BOOLEAN, SetIdentityEnforcement(on) \/ PruneRecords
        PROVE  Still /\ UNCHANGED conn
    BY <1>8 DEF SetIdentityEnforcement, PruneRecords, muxVars, pumpVars, pluginVars
  <1>9. Still /\ Ends
    BY <1>2, <1>3, <1>4, <1>5, <1>6, <1>7, <1>8
  <1>10. CarriesOn
    BY <1>9 DEF CarriesOn, Carrying
  <1>11. StaysUsed /\ \A h \in Handle, r \in Routes : ConnSide(h, r)' => ConnSide(h, r)
    BY <1>9 DEF ConnSide, StaysUsed
  <1>12. UNCHANGED <<nextPeerId, queues, pluginQ, sent, lastPopped>>
    BY <1>9
  <1> HIDE DEF Still, Ends
  <1>13. QED
    BY <1>10, <1>11, <1>12, QuietStep

\* Neither do the control handler, the admission check and the reaper.
LEMMA PumpQuiet ==
  ASSUME MuxInv, OrderInv, Next,
         \/ PumpBegin \/ PumpEnd \/ ReapCollect \/ HandleControl \/ Admit
         \/ \E i \in reapList : ReapClose(i) \/ ReapSkip(i)
  PROVE  OrderInv'
  <1> DEFINE Quiet == UNCHANGED <<nextPeerId, queues, pluginQ, sent, lastPopped, dialled, conn>>
  <1>1. CASE PumpBegin \/ PumpEnd \/ ReapCollect \/ \E i \in reapList : ReapClose(i) \/ ReapSkip(i)
    <2>1. Quiet
      BY <1>1 DEF PumpBegin, PumpEnd, ReapCollect, ReapClose, ReapSkip, EraseForClose, muxVars, pluginVars
    <2>2. ~ Carrying'
      BY <1>1 DEF PumpBegin, PumpEnd, ReapCollect, ReapClose, ReapSkip, EraseForClose, Carrying
    <2>3. CarriesOn
      BY <2>2 DEF CarriesOn
    <2>4. StaysUsed /\ \A h \in Handle, r \in Routes : ConnSide(h, r)' => ConnSide(h, r)
      BY <2>1 DEF StaysUsed, ConnSide
    <2>5. QED
      BY <2>1, <2>3, <2>4, QuietStep
  <1>2. CASE HandleControl \/ Admit
    <2>1. Quiet
      BY <1>2 DEF HandleControl, Admit, muxVars, pluginVars
    <2>2. Carrying /\ pumpItem \in Item
      BY <1>2 DEF HandleControl, Admit, Carrying, MuxInv, PumpHoldsPeer
    <2>3. Carrying' => \/ pumpItem' = pumpItem
                       \/ \E b : pumpItem' = [pumpItem EXCEPT !.checked = b]
      BY <1>2 DEF HandleControl, Admit, Carrying
    <2>4. CarriesOn
      BY <2>2, <2>3 DEF CarriesOn, Item
    <2>5. StaysUsed /\ \A h \in Handle, r \in Routes : ConnSide(h, r)' => ConnSide(h, r)
      BY <2>1 DEF StaysUsed, ConnSide
    <2>6. QED
      BY <2>1, <2>4, <2>5, QuietStep
  <1>3. QED
    BY <1>1, <1>2

\* A handle given out for the first time takes its side.
LEMMA AcceptOrDial ==
  ASSUME MuxInv, OrderInv, NEW h \in Handle, AcceptConnection(h) \/ DialConnection(h)
  PROVE  OrderInv'
  <1> DEFINE side == IF AcceptConnection(h) THEN "server" ELSE "client"
  <1>1. conn[h] = "unused" /\ conn'[h] \in {"in", "dialling"} /\ \A g \in Handle \ {h} : conn'[g] = conn[g]
    BY DEF AcceptConnection, DialConnection, MuxInv, TypeOK
  <1>2. /\ UNCHANGED <<peers, queues, pumpPc, pumpItem, pluginQ, sent, lastPopped>>
        /\ dialled' \subseteq dialled \cup {h}
    BY DEF AcceptConnection, DialConnection, muxVars, pumpVars
  <1>3. \A g \in Handle, r \in Routes : ConnSide(g, r)' => ConnSide(g, r) \/ (g = h /\ r = side)
    <2>1. CASE AcceptConnection(h)
      <3>1. conn'[h] = "in" /\ dialled' = dialled /\ side = "server"
        BY <2>1 DEF AcceptConnection, muxVars, MuxInv, TypeOK
      <3>2. QED
        BY <1>1, <3>1 DEF ConnSide, Routes
    <2>2. CASE ~ AcceptConnection(h)
      <3>1. conn'[h] = "dialling" /\ side = "client"
        BY <2>2 DEF DialConnection, MuxInv, TypeOK
      <3>2. QED
        BY <1>1, <1>2, <3>1 DEF ConnSide, Routes
    <2>3. QED
      BY <2>1, <2>2
  <1>4. side \in Routes
    BY DEF Routes
  <1>5. \A g \in Handle, r \in Routes :
          /\ PeerSide(g, r)' => PeerSide(g, r)
          /\ QueueSide(g, r)' => QueueSide(g, r)
          /\ PumpSide(g, r)' => PumpSide(g, r)
          /\ PluginSide(g, r)' => PluginSide(g, r)
    BY <1>2 DEF PeerSide, QueueSide, PumpSide, PluginSide, Carrying, Live
  <1> HIDE DEF side
  <1>6. \A g \in Handle, r \in Routes : Seen(g, r)' => Seen(g, r) \/ (g = h /\ r = side)
    BY <1>3, <1>5 DEF Seen
  <1>7. StaysUsed /\ conn'[h] # "unused"
    BY <1>1 DEF StaysUsed
  <1>8. OneSide'
    BY <1>1, <1>4, <1>6, <1>7, GivenOut DEF OrderInv
  <1>9. CarriesOn
    BY <1>2 DEF CarriesOn, Carrying
  <1>10. QED
    BY <1>2, <1>8, <1>9, TrailFrame DEF OrderInv, Trail

\* A dialled handle becomes a Client peer, on the side it has.
LEMMA AddOutgoing ==
  ASSUME MuxInv, OrderInv, NEW h \in Handle, AddOutgoingPeer(h)
  PROVE  OrderInv'
  <1>1. /\ UNCHANGED <<queues, pumpPc, pumpItem, pluginQ, sent, lastPopped, conn>>
        /\ dialled' = dialled \ {h} /\ h \in dialled
    BY DEF AddOutgoingPeer, pumpVars, pluginVars
  <1>2. \A g \in Handle, r \in Routes : PeerSide(g, r)' => PeerSide(g, r) \/ (g = h /\ r = "client")
    <2>1. CASE byHandle[h] # None
      BY <2>1 DEF AddOutgoingPeer, PeerSide, Live
    <2>2. CASE byHandle[h] = None
      <3>1. /\ Live' = Live \cup {nextPeerId}
            /\ peers'[nextPeerId] = NewPeer(h, "client")
            /\ \A j \in Live : peers'[j] = peers[j]
        BY <2>2, "client" \in Routes, AddKeeps DEF AddOutgoingPeer, Routes
      <3>2. QED
        BY <3>1 DEF PeerSide, NewPeer
    <2>3. QED
      BY <2>1, <2>2
  <1>3. Seen(h, "client")
    BY <1>1 DEF Seen, ConnSide
  <1>4. \A g \in Handle, r \in Routes :
          /\ ConnSide(g, r)' => ConnSide(g, r)
          /\ QueueSide(g, r)' => QueueSide(g, r)
          /\ PumpSide(g, r)' => PumpSide(g, r)
          /\ PluginSide(g, r)' => PluginSide(g, r)
    BY <1>1 DEF ConnSide, QueueSide, PumpSide, PluginSide, Carrying
  <1>5. SidesShrink
    BY <1>2, <1>3, <1>4 DEF SidesShrink, Seen
  <1>6. CarriesOn /\ StaysUsed
    BY <1>1 DEF CarriesOn, Carrying, StaysUsed
  <1>7. QED
    BY <1>1, <1>5, <1>6, ShrinkKeeps, TrailFrame DEF OrderInv, Trail

\* Elements of the two kinds of queues.
LEMMA Queued ==
  ASSUME MuxInv, NEW r \in Routes, NEW k \in DOMAIN queues[r]
  PROVE  /\ queues[r][k] \in Datagram
         /\ queues[r][k].handle \in Handle
         /\ queues[r][k].seq \in Nat
         /\ k \in Nat
  <1>1. queues[r] \in Seq(Datagram)
    BY DEF MuxInv, TypeOK
  <1>2. queues[r][k] \in Datagram /\ k \in Nat
    BY <1>1
  <1>3. QED
    BY <1>2 DEF Datagram

LEMMA Waiting ==
  ASSUME MuxInv, NEW b \in Backends, NEW k \in DOMAIN pluginQ[b]
  PROVE  /\ pluginQ[b][k] \in Packet
         /\ pluginQ[b][k].handle \in Handle
         /\ pluginQ[b][k].seq \in Nat
         /\ k \in Nat
  <1>1. pluginQ[b] \in Seq(Packet)
    BY DEF MuxInv, TypeOK
  <1>2. pluginQ[b][k] \in Packet /\ k \in Nat
    BY <1>1
  <1>3. QED
    BY <1>2 DEF Packet

\* A packet goes from the plugin's queue into the pump's hands, or is dropped.
LEMMA ReceivesTrail ==
  ASSUME MuxInv, OrderInv, NEW p, Receives(p),
         Carrying' => pumpItem'.handle = p.handle /\ pumpItem'.seq = p.seq /\ p.kind # "closed"
  PROVE  Trail'
  <1>1. PICK b \in Backends : /\ pluginQ[b] # <<>> /\ p = Head(pluginQ[b])
                              /\ pluginQ' = [pluginQ EXCEPT ![b] = Tail(@)]
    BY DEF Receives
  <1>2. pluginQ \in [Backends -> Seq(Packet)] /\ pluginQ[b] \in Seq(Packet)
    BY DEF MuxInv, TypeOK
  <1>3. /\ Cut(pluginQ'[b], pluginQ[b]) /\ p = pluginQ[b][1] /\ 1 \in DOMAIN pluginQ[b]
        /\ \A c \in Backends \ {b} : pluginQ'[c] = pluginQ[c]
    BY <1>1, <1>2, TailCuts
  <1>4. ~ Carrying /\ UNCHANGED <<queues, sent, lastPopped>>
    BY DEF Receives, Carrying
  <1>5. QueuesInOrder' /\ PoppedWereSent'
    BY <1>4 DEF OrderInv, QueuesInOrder, PoppedWereSent
  <1>6. PluginInOrder
    BY DEF OrderInv
  <1>7. CarriedInOrder'
    <2>1. p.kind # "closed" =>
            /\ p.seq <= sent[p.handle]
            /\ p.seq > lastPopped[p.handle]
            /\ \A r \in Routes : \A l \in DOMAIN queues[r] :
                 queues[r][l].handle = p.handle => queues[r][l].seq < p.seq
      BY <1>3, <1>6 DEF PluginInOrder
    <2>2. QED
      BY <1>4, <2>1 DEF CarriedInOrder
  <1>8. PluginInOrder'
    <2> SUFFICES ASSUME NEW c \in Backends, NEW k \in DOMAIN pluginQ'[c]
                 PROVE  /\ KindOf[pluginQ'[c][k].handle] = c
                        /\ pluginQ'[c][k].seq <= sent[pluginQ'[c][k].handle]
                        /\ pluginQ'[c][k].kind # "closed" =>
                             /\ pluginQ'[c][k].seq > lastPopped[pluginQ'[c][k].handle]
                             /\ \A r \in Routes : \A l \in DOMAIN queues[r] :
                                  queues[r][l].handle = pluginQ'[c][k].handle
                                    => queues[r][l].seq < pluginQ'[c][k].seq
                             /\ Carrying' /\ pumpItem'.handle = pluginQ'[c][k].handle
                                  => pumpItem'.seq < pluginQ'[c][k].seq
                             /\ \A l \in DOMAIN pluginQ'[c] :
                                  l < k /\ pluginQ'[c][l].handle = pluginQ'[c][k].handle
                                  /\ pluginQ'[c][l].kind # "closed"
                                    => pluginQ'[c][l].seq < pluginQ'[c][k].seq
      BY <1>4 DEF PluginInOrder
    <2>1. CASE c # b
      <3>1. pluginQ'[c] = pluginQ[c]
        BY <1>3, <2>1
      <3>2. KindOf[pluginQ[c][k].handle] = c /\ KindOf[p.handle] = b
        BY <1>3, <1>6, <3>1 DEF PluginInOrder
      <3>3. ~ (Carrying' /\ pumpItem'.handle = pluginQ'[c][k].handle)
        BY <2>1, <3>1, <3>2
      <3>4. QED
        BY <1>6, <3>1, <3>3 DEF PluginInOrder
    <2>2. CASE c = b
      <3>1. k \in Nat /\ k + 1 \in DOMAIN pluginQ[b] /\ pluginQ'[b][k] = pluginQ[b][k + 1] /\ k + 1 > 1
        <4>1. k \in Nat /\ k + 1 \in DOMAIN pluginQ[b] /\ pluginQ'[b][k] = pluginQ[b][k + 1]
          BY <1>3, <2>2 DEF Cut
        <4>2. k # 0
          <5>1. Tail(pluginQ[b]) \in Seq(Packet) /\ pluginQ'[b] = Tail(pluginQ[b])
            BY <1>1, <1>2
          <5>2. QED
            BY <5>1, <2>2
        <4>3. QED
          BY <4>1, <4>2
      <3>2. \A l \in DOMAIN pluginQ'[b] : l < k => /\ l + 1 \in DOMAIN pluginQ[b] /\ l + 1 < k + 1
                                                   /\ pluginQ'[b][l] = pluginQ[b][l + 1]
        BY <1>3, <3>1 DEF Cut
      <3>3. QED
        BY <1>3, <1>6, <2>2, <3>1, <3>2 DEF PluginInOrder
    <2>3. QED
      BY <2>1, <2>2
  <1>9. QED
    BY <1>5, <1>7, <1>8 DEF Trail

\* The pump takes a packet: its peer is on the side the packet came from.
LEMMA ReceiveSteps ==
  ASSUME MuxInv, OrderInv, Next, Receive
  PROVE  OrderInv'
  <1>1. PICK p : ReceiveClosed(p) \/ ReceiveStale(p) \/ RefuseOverCap(p) \/ AcceptIncoming(p)
                 \/ ReceiveKnown(p)
    BY DEF Receive
  <1>2. Receives(p) /\ p \in Packet /\ p.handle \in Handle
    BY <1>1, ReceivesPacket DEF ReceiveClosed, ReceiveStale, RefuseOverCap, AcceptIncoming, ReceiveKnown
  <1>3. ~ Carrying /\ UNCHANGED <<dialled, queues, conn, sent, lastPopped>>
    BY <1>2 DEF Receives, Carrying
  <1>4. PICK b \in Backends : /\ pluginQ[b] # <<>> /\ p = Head(pluginQ[b])
                              /\ pluginQ' = [pluginQ EXCEPT ![b] = Tail(@)]
    BY <1>2 DEF Receives
  <1>5. pluginQ \in [Backends -> Seq(Packet)] /\ pluginQ[b] \in Seq(Packet)
    BY DEF MuxInv, TypeOK
  <1>6. /\ Cut(pluginQ'[b], pluginQ[b]) /\ p = pluginQ[b][1] /\ 1 \in DOMAIN pluginQ[b]
        /\ \A c \in Backends \ {b} : pluginQ'[c] = pluginQ[c]
    BY <1>4, <1>5, TailCuts
  <1>7. \A h \in Handle, r \in Routes :
          /\ ConnSide(h, r)' => ConnSide(h, r)
          /\ QueueSide(h, r)' => QueueSide(h, r)
          /\ PluginSide(h, r)' => PluginSide(h, r)
    <2>1. ASSUME NEW h \in Handle, NEW r \in Routes, PluginSide(h, r)'
          PROVE  PluginSide(h, r)
      <3>1. PICK c \in Backends : \E k \in DOMAIN pluginQ'[c] :
                /\ pluginQ'[c][k].handle = h
                /\ pluginQ'[c][k].incoming <=> r = "server"
        BY <2>1 DEF PluginSide
      <3>2. PICK k \in DOMAIN pluginQ'[c] : /\ pluginQ'[c][k].handle = h
                                            /\ pluginQ'[c][k].incoming <=> r = "server"
        BY <3>1
      <3>3. \E l \in DOMAIN pluginQ[c] : pluginQ'[c][k] = pluginQ[c][l]
        BY <1>6 DEF Cut
      <3>4. QED
        BY <3>2, <3>3 DEF PluginSide
    <2>2. QED
      BY <1>3, <2>1 DEF ConnSide, QueueSide
  <1>8. StaysUsed
    BY <1>3 DEF StaysUsed
  <1>9. PluginSide(p.handle, IF p.incoming THEN "server" ELSE "client")
    BY <1>6 DEF PluginSide
  <1>10. CASE ReceiveClosed(p) \/ ReceiveStale(p) \/ RefuseOverCap(p)
    <2>1. UNCHANGED <<nextPeerId, pumpPc, pumpItem>>
      BY <1>10 DEF ReceiveClosed, ReceiveStale, RefuseOverCap
    <2>2. PeersShrink /\ ~ Carrying'
      BY <1>3, <2>1, NoneOpened DEF Carrying
    <2>3. Trail'
      BY <1>2, <2>2, ReceivesTrail
    <2>4. SidesShrink
      BY <1>7, <2>2 DEF SidesShrink, Seen, PeersShrink, PumpSide
    <2>5. QED
      BY <1>8, <2>3, <2>4, ShrinkKeeps DEF OrderInv, Trail
  <1>11. ASSUME NEW i, NEW r \in Routes, Dispatches(i, r, p), p.kind # "closed", Seen(p.handle, r),
                \A h \in Handle, s \in Routes : PeerSide(h, s)' => PeerSide(h, s) \/ (h = p.handle /\ s = r)
         PROVE  OrderInv'
    <2>1. Carrying' => pumpItem'.handle = p.handle /\ pumpItem'.seq = p.seq /\ pumpItem'.route = r
      BY <1>3, <1>11 DEF Dispatches, Carrying
    <2>2. Trail'
      BY <1>2, <1>11, <2>1, ReceivesTrail
    <2>3. \A h \in Handle, s \in Routes : PumpSide(h, s)' => h = p.handle /\ s = r
      BY <2>1 DEF PumpSide
    <2>4. SidesShrink
      BY <1>7, <1>11, <2>3 DEF SidesShrink, Seen
    <2>5. QED
      BY <1>8, <2>2, <2>4, ShrinkKeeps DEF OrderInv, Trail
  <1>12. CASE AcceptIncoming(p)
    <2>1. "server" \in Routes /\ Dispatches(nextPeerId, "server", p) /\ p.kind # "closed" /\ p.incoming
      BY <1>12 DEF AcceptIncoming, Routes
    <2>2. Seen(p.handle, "server")
      BY <1>9, <2>1 DEF Seen
    <2>3. /\ Live' = Live \cup {nextPeerId}
          /\ peers'[nextPeerId] = NewPeer(p.handle, "server")
          /\ \A j \in Live : peers'[j] = peers[j]
      BY <1>2, <1>12, <2>1, AddKeeps DEF AcceptIncoming, Receives
    <2>4. \A h \in Handle, s \in Routes : PeerSide(h, s)' => PeerSide(h, s) \/ (h = p.handle /\ s = "server")
      BY <2>3 DEF PeerSide, NewPeer
    <2>5. QED
      BY <1>11, <2>1, <2>2, <2>4
  <1>13. CASE ReceiveKnown(p)
    <2> DEFINE i == byHandle[p.handle]
    <2>1. i \in Live /\ peers[i] \in Peer /\ peers[i].handle = p.handle
      BY <1>2, <1>13 DEF ReceiveKnown, MuxInv, HandlesMatchPeers, TypeOK
    <2>2. peers[i].route \in Routes /\ Seen(p.handle, peers[i].route)
      BY <2>1 DEF Peer, Seen, PeerSide
    <2>3. Dispatches(i, peers[i].route, p) /\ p.kind # "closed" /\ UNCHANGED nextPeerId
      BY <1>13 DEF ReceiveKnown
    <2>4. PeersShrink
      BY <2>3, NoneOpened
    <2>5. QED
      BY <1>11, <2>2, <2>3, <2>4 DEF PeersShrink
  <1>14. QED
    BY <1>1, <1>10, <1>12, <1>13

\* PopQueued: only one route has datagrams of that handle.
LEMMA PopStep ==
  ASSUME MuxInv, OrderInv, Next, NEW r \in Routes, PopQueued(r)
  PROVE  OrderInv'
  <1> DEFINE d == queues[r][1]
  <1>1. queues \in [Routes -> Seq(Datagram)] /\ queues[r] \in Seq(Datagram) /\ lastPopped \in [Handle -> Nat]
    BY DEF MuxInv, TypeOK
  <1>2. /\ Cut(queues'[r], queues[r]) /\ Head(queues[r]) = d /\ 1 \in DOMAIN queues[r]
        /\ \A s \in Routes \ {r} : queues'[s] = queues[s]
    BY <1>1, TailCuts DEF PopQueued
  <1>3. d \in Datagram /\ d.handle \in Handle /\ d.seq \in Nat
    BY <1>2, Queued
  <1>4. /\ lastPopped'[d.handle] = d.seq
        /\ \A h \in Handle \ {d.handle} : lastPopped'[h] = lastPopped[h]
    BY <1>1, <1>2, <1>3 DEF PopQueued
  <1>5. UNCHANGED <<conn, dialled, peers, nextPeerId, pumpPc, pumpItem, pluginQ, sent>>
    BY DEF PopQueued, muxVars, pumpVars, pluginVars
  <1> HIDE DEF d
  <1>6. \A h \in Handle, s \in Routes :
          /\ ConnSide(h, s)' => ConnSide(h, s)
          /\ PeerSide(h, s)' => PeerSide(h, s)
          /\ PumpSide(h, s)' => PumpSide(h, s)
          /\ PluginSide(h, s)' => PluginSide(h, s)
    BY <1>5 DEF ConnSide, PeerSide, PumpSide, PluginSide, Carrying, Live
  <1>7. ASSUME NEW s \in Routes, NEW k \in DOMAIN queues'[s]
        PROVE  \E j \in DOMAIN queues[s] : queues'[s][k] = queues[s][j]
    BY <1>2 DEF Cut
  <1>8. \A h \in Handle, s \in Routes : QueueSide(h, s)' => QueueSide(h, s)
    BY <1>7 DEF QueueSide
  <1>9. OneSide'
    <2>1. SidesShrink /\ StaysUsed
      BY <1>5, <1>6, <1>8 DEF SidesShrink, Seen, StaysUsed
    <2>2. QED
      BY <2>1, ShrinkKeeps DEF OrderInv
  <1>10. \A s \in Routes : \A j \in DOMAIN queues[s] : queues[s][j].handle = d.handle => s = r
    <2>1. ASSUME NEW s \in Routes, NEW j \in DOMAIN queues[s], queues[s][j].handle = d.handle
          PROVE  s = r
      <3>1. QueueSide(d.handle, s) /\ QueueSide(d.handle, r)
        BY <1>2, <2>1 DEF QueueSide, d
      <3>2. QED
        BY <1>3, <3>1 DEF OrderInv, OneSide, Seen
    <2>2. QED
      BY <2>1
  <1>11. \A s \in Routes : \A j \in DOMAIN queues[s] : queues[s][j] \in Datagram /\ queues[s][j].handle \in Handle
    BY Queued
  <1>12. ASSUME NEW s \in Routes, NEW k \in DOMAIN queues'[s]
         PROVE  /\ queues'[s][k].seq <= sent[queues'[s][k].handle]
                /\ queues'[s][k].seq > lastPopped'[queues'[s][k].handle]
                /\ \A l \in DOMAIN queues'[s] :
                     l < k /\ queues'[s][l].handle = queues'[s][k].handle
                       => queues'[s][l].seq < queues'[s][k].seq
    <2>1. QueuesInOrder
      BY DEF OrderInv
    <2>2. CASE s # r
      <3>1. queues'[s] = queues[s]
        BY <1>2, <2>2
      <3>2. queues[s][k].handle # d.handle /\ queues[s][k].handle \in Handle
        BY <1>10, <1>11, <2>2, <3>1
      <3>3. QED
        BY <1>4, <2>1, <3>1, <3>2 DEF QueuesInOrder
    <2>3. CASE s = r
      <3>1. k \in Nat /\ k + 1 \in DOMAIN queues[r] /\ queues'[r][k] = queues[r][k + 1]
        BY <1>2, <2>3 DEF Cut
      <3>2. k >= 1
        <4>1. Tail(queues[r]) \in Seq(Datagram) /\ queues'[r] = Tail(queues[r])
          BY <1>1 DEF PopQueued
        <4>2. QED
          BY <4>1, <2>3
      <3>3. queues[r][k + 1].handle = d.handle => d.seq < queues[r][k + 1].seq
        BY <1>2, <2>1, <3>1, <3>2 DEF QueuesInOrder, d
      <3>4. queues[r][k + 1].seq > lastPopped'[queues[r][k + 1].handle]
        BY <1>4, <1>11, <2>1, <3>1, <3>3 DEF QueuesInOrder
      <3>5. \A l \in DOMAIN queues'[r] : l < k => /\ l + 1 \in DOMAIN queues[r] /\ l + 1 < k + 1
                                                  /\ queues'[r][l] = queues[r][l + 1]
        BY <1>2, <3>1 DEF Cut
      <3>6. QED
        BY <2>1, <2>3, <3>1, <3>4, <3>5 DEF QueuesInOrder
    <2>4. QED
      BY <2>2, <2>3
  <1>13. QueuesInOrder'
    BY <1>5, <1>12 DEF QueuesInOrder
  <1>14. CarriedInOrder'
    <2> SUFFICES ASSUME Carrying
                 PROVE  /\ pumpItem.seq <= sent[pumpItem.handle]
                        /\ pumpItem.seq > lastPopped'[pumpItem.handle]
                        /\ \A s \in Routes : \A k \in DOMAIN queues'[s] :
                             queues'[s][k].handle = pumpItem.handle => queues'[s][k].seq < pumpItem.seq
      BY <1>5 DEF CarriedInOrder, Carrying
    <2>1. CarriedInOrder /\ pumpItem.handle \in Handle
      BY DEF OrderInv, MuxInv, PumpHoldsPeer, Carrying, Item
    <2>2. pumpItem.seq > lastPopped'[pumpItem.handle]
      BY <1>2, <1>4, <2>1 DEF CarriedInOrder, d
    <2>3. QED
      BY <1>7, <2>1, <2>2 DEF CarriedInOrder
  <1>15. PluginInOrder'
    <2> SUFFICES ASSUME NEW b \in Backends, NEW k \in DOMAIN pluginQ[b], pluginQ[b][k].kind # "closed"
                 PROVE  /\ pluginQ[b][k].seq > lastPopped'[pluginQ[b][k].handle]
                        /\ \A s \in Routes : \A l \in DOMAIN queues'[s] :
                             queues'[s][l].handle = pluginQ[b][k].handle
                               => queues'[s][l].seq < pluginQ[b][k].seq
      BY <1>5 DEF PluginInOrder, OrderInv, Carrying
    <2>1. PluginInOrder /\ pluginQ[b][k] \in Packet /\ pluginQ[b][k].handle \in Handle
      BY Waiting DEF OrderInv
    <2>2. pluginQ[b][k].seq > lastPopped'[pluginQ[b][k].handle]
      BY <1>2, <1>4, <2>1 DEF PluginInOrder, d
    <2>3. QED
      BY <1>7, <2>1, <2>2 DEF PluginInOrder
  <1>16. PoppedWereSent'
    BY <1>2, <1>3, <1>4, <1>5 DEF PoppedWereSent, OrderInv, QueuesInOrder, d
  <1>17. QED
    BY <1>9, <1>13, <1>14, <1>15, <1>16 DEF OrderInv

\* PushForEngine: what the pump carried is now the newest in the queue.
LEMMA PushStep ==
  ASSUME MuxAssumption, MuxInv, OrderInv, Next, PushForEngine
  PROVE  OrderInv'
  <1> DEFINE d == [peer |-> pumpItem.peer, handle |-> pumpItem.handle, seq |-> pumpItem.seq]
             r == pumpItem.route
  <1>1. Carrying /\ ~ Carrying' /\ pumpItem \in Item
    BY DEF PushForEngine, Carrying, MuxInv, PumpHoldsPeer
  <1>2. /\ UNCHANGED <<conn, dialled, peers, nextPeerId, pluginQ, sent, lastPopped>>
        /\ r \in Routes /\ d \in Datagram /\ d.handle = pumpItem.handle /\ d.seq = pumpItem.seq
        /\ pumpItem.handle \in Handle
    BY <1>1 DEF PushForEngine, muxVars, pluginVars, Item, Datagram
  <1>3. CASE pumpItem.peer \notin Live
    <2>1. UNCHANGED queues /\ CarriesOn /\ StaysUsed
      BY <1>1, <1>2, <1>3 DEF PushForEngine, CarriesOn, StaysUsed
    <2>2. \A h \in Handle, s \in Routes : ConnSide(h, s)' => ConnSide(h, s)
      BY <1>2 DEF ConnSide
    <2>3. QED
      BY <1>2, <2>1, <2>2, QuietStep
  <1>4. CASE pumpItem.peer \in Live
    <2>1. queues \in [Routes -> Seq(Datagram)] /\ queues[r] \in Seq(Datagram)
      BY <1>2 DEF MuxInv, TypeOK
    <2>2. queues' = [queues EXCEPT ![r] = Pushed(queues[r], d)]
      BY <1>4 DEF PushForEngine
    <2> HIDE DEF d, r
    <2>3. Grown(queues'[r], queues[r], d) /\ \A s \in Routes \ {r} : queues'[s] = queues[s]
      BY <1>2, <2>1, <2>2, PushedGrows
    <2>4. PICK b \in {0, 1} : \E n \in DOMAIN queues'[r] :
              /\ n \in Nat
              /\ queues'[r][n] = d
              /\ \A k \in DOMAIN queues'[r] \ {n} :
                   k \in Nat /\ k < n /\ k + b \in DOMAIN queues[r] /\ queues'[r][k] = queues[r][k + b]
      BY <2>3 DEF Grown
    <2>5. PICK n \in DOMAIN queues'[r] :
              /\ n \in Nat
              /\ queues'[r][n] = d
              /\ \A k \in DOMAIN queues'[r] \ {n} :
                   k \in Nat /\ k < n /\ k + b \in DOMAIN queues[r] /\ queues'[r][k] = queues[r][k + b]
      BY <2>4
    <2>6. ASSUME NEW s \in Routes, NEW k \in DOMAIN queues'[s]
          PROVE  \/ queues'[s][k] = d /\ s = r
                 \/ \E j \in DOMAIN queues[s] : queues'[s][k] = queues[s][j]
      BY <2>3, <2>5
    <2>7. OneSide'
      <3>1. \A h \in Handle, s \in Routes : QueueSide(h, s)' => QueueSide(h, s) \/ PumpSide(h, s)
        BY <1>1, <1>2, <2>6 DEF QueueSide, PumpSide, r
      <3>2. \A h \in Handle, s \in Routes :
              /\ ConnSide(h, s)' => ConnSide(h, s)
              /\ PeerSide(h, s)' => PeerSide(h, s)
              /\ ~ PumpSide(h, s)'
              /\ PluginSide(h, s)' => PluginSide(h, s)
        BY <1>1, <1>2 DEF ConnSide, PeerSide, PumpSide, PluginSide, Live
      <3>3. SidesShrink /\ StaysUsed
        BY <1>2, <3>1, <3>2 DEF SidesShrink, Seen, StaysUsed
      <3>4. QED
        BY <3>3, ShrinkKeeps DEF OrderInv
    <2>8. /\ d.seq <= sent[d.handle]
          /\ d.seq > lastPopped[d.handle]
          /\ \A s \in Routes : \A k \in DOMAIN queues[s] : queues[s][k].handle = d.handle => queues[s][k].seq < d.seq
      BY <1>1, <1>2 DEF OrderInv, CarriedInOrder
    <2>9. ASSUME NEW s \in Routes, NEW k \in DOMAIN queues'[s]
          PROVE  /\ queues'[s][k].seq <= sent[queues'[s][k].handle]
                 /\ queues'[s][k].seq > lastPopped[queues'[s][k].handle]
                 /\ \A l \in DOMAIN queues'[s] :
                      l < k /\ queues'[s][l].handle = queues'[s][k].handle
                        => queues'[s][l].seq < queues'[s][k].seq
      <3>1. QueuesInOrder
        BY DEF OrderInv
      <3>2. CASE s # r
        BY <2>3, <3>1, <3>2 DEF QueuesInOrder
      <3>3. CASE s = r /\ k = n
        <4>1. \A l \in DOMAIN queues'[r] : l < n => l # n /\ l + b \in DOMAIN queues[r] /\ queues'[r][l] = queues[r][l + b]
          BY <2>5
        <4>2. QED
          BY <1>2, <2>5, <2>8, <3>3, <4>1
      <3>4. CASE s = r /\ k # n
        <4>1. k \in Nat /\ k < n /\ k + b \in DOMAIN queues[r] /\ queues'[r][k] = queues[r][k + b]
          BY <2>5, <3>4
        <4>2. \A l \in DOMAIN queues'[r] : l < k => /\ l + b \in DOMAIN queues[r] /\ l + b < k + b
                                                    /\ queues'[r][l] = queues[r][l + b]
          BY <2>5, <4>1
        <4>3. QED
          BY <3>1, <3>4, <4>1, <4>2 DEF QueuesInOrder
      <3>5. QED
        BY <3>2, <3>3, <3>4
    <2>10. QueuesInOrder'
      BY <1>2, <2>9 DEF QueuesInOrder
    <2>11. CarriedInOrder' /\ PoppedWereSent'
      BY <1>1, <1>2 DEF CarriedInOrder, PoppedWereSent, OrderInv
    <2>12. PluginInOrder'
      <3> SUFFICES ASSUME NEW c \in Backends, NEW k \in DOMAIN pluginQ[c], pluginQ[c][k].kind # "closed",
                          NEW s \in Routes, NEW l \in DOMAIN queues'[s],
                          queues'[s][l].handle = pluginQ[c][k].handle
                   PROVE  queues'[s][l].seq < pluginQ[c][k].seq
        BY <1>1, <1>2 DEF PluginInOrder, OrderInv
      <3>1. PluginInOrder
        BY DEF OrderInv
      <3>2. d.handle = pluginQ[c][k].handle => d.seq < pluginQ[c][k].seq
        BY <1>1, <1>2, <3>1 DEF PluginInOrder
      <3>3. QED
        BY <2>6, <3>1, <3>2 DEF PluginInOrder
    <2>13. QED
      BY <2>7, <2>10, <2>11, <2>12 DEF OrderInv
  <1>5. QED
    BY <1>3, <1>4

\* A packet of an open connection joins the plugin's queue.
LEMMA PluginGrows ==
  ASSUME MuxAssumption, MuxInv, OrderInv, NEW h \in Handle, NEW p \in Packet,
         p.handle = h, PushPacket(p), Seen(h, IF p.incoming THEN "server" ELSE "client"),
         UNCHANGED <<dialled, peers, pumpPc, pumpItem, queues, lastPopped>>, StaysUsed,
         \A g \in Handle, r \in Routes : ConnSide(g, r)' => ConnSide(g, r),
         sent' \in [Handle -> Nat], \A g \in Handle : sent[g] <= sent'[g],
         p.seq <= sent'[h],
         p.kind # "closed" => p.seq > sent[h]
  PROVE  OrderInv'
  <1> DEFINE b == KindOf[h]
  <1>1. b \in Backends /\ Grown(pluginQ'[b], pluginQ[b], p) /\ \A c \in Backends \ {b} : pluginQ'[c] = pluginQ[c]
    BY PushPacketGrows
  <1>2. sent \in [Handle -> Nat] /\ lastPopped \in [Handle -> Nat] /\ p.seq \in Nat
    BY DEF MuxInv, TypeOK, Packet
  <1> HIDE DEF b
  <1>3. PICK d \in {0, 1} : \E n \in DOMAIN pluginQ'[b] :
            /\ n \in Nat
            /\ pluginQ'[b][n] = p
            /\ \A k \in DOMAIN pluginQ'[b] \ {n} :
                 k \in Nat /\ k < n /\ k + d \in DOMAIN pluginQ[b] /\ pluginQ'[b][k] = pluginQ[b][k + d]
    BY <1>1 DEF Grown
  <1>4. PICK n \in DOMAIN pluginQ'[b] :
            /\ n \in Nat
            /\ pluginQ'[b][n] = p
            /\ \A k \in DOMAIN pluginQ'[b] \ {n} :
                 k \in Nat /\ k < n /\ k + d \in DOMAIN pluginQ[b] /\ pluginQ'[b][k] = pluginQ[b][k + d]
    BY <1>3
  <1>5. ASSUME NEW c \in Backends, NEW k \in DOMAIN pluginQ'[c]
        PROVE  \/ pluginQ'[c][k] = p /\ c = b
               \/ \E j \in DOMAIN pluginQ[c] : pluginQ'[c][k] = pluginQ[c][j]
    BY <1>1, <1>4
  <1>6. OneSide'
    <2>1. \A g \in Handle, r \in Routes : PluginSide(g, r)' => PluginSide(g, r) \/ (g = h /\ (p.incoming <=> r = "server"))
      BY <1>5 DEF PluginSide
    <2>2. p.incoming \in BOOLEAN
      BY DEF Packet
    <2>3. \A r \in Routes : (p.incoming <=> r = "server") => Seen(h, r)
      BY <2>2 DEF Routes
    <2>4. \A g \in Handle, r \in Routes :
            /\ PeerSide(g, r)' => PeerSide(g, r)
            /\ QueueSide(g, r)' => QueueSide(g, r)
            /\ PumpSide(g, r)' => PumpSide(g, r)
      BY DEF PeerSide, QueueSide, PumpSide, Carrying, Live
    <2>5. SidesShrink
      BY <2>1, <2>3, <2>4 DEF SidesShrink, Seen
    <2>6. QED
      BY <2>5, ShrinkKeeps DEF OrderInv
  <1>7. QueuesInOrder' /\ PoppedWereSent'
    <2>1. QueuesInOrder'
      <3> SUFFICES ASSUME NEW r \in Routes, NEW k \in DOMAIN queues[r]
                   PROVE  queues[r][k].seq <= sent'[queues[r][k].handle]
        BY DEF QueuesInOrder, OrderInv
      <3>1. queues[r][k].seq <= sent[queues[r][k].handle]
        BY DEF QueuesInOrder, OrderInv
      <3>2. queues[r][k].seq \in Nat /\ queues[r][k].handle \in Handle
        BY Queued
      <3>3. QED
        BY <1>2, <3>1, <3>2
    <2>2. PoppedWereSent'
      BY <1>2 DEF PoppedWereSent, OrderInv
    <2>3. QED
      BY <2>1, <2>2
  <1>8. CarriedInOrder'
    <2> SUFFICES ASSUME Carrying
                 PROVE  pumpItem.seq <= sent'[pumpItem.handle]
      BY DEF CarriedInOrder, OrderInv, Carrying
    <2>1. pumpItem.seq <= sent[pumpItem.handle] /\ pumpItem.seq \in Nat /\ pumpItem.handle \in Handle
      BY DEF CarriedInOrder, OrderInv, MuxInv, PumpHoldsPeer, Carrying, Item
    <2>2. QED
      BY <1>2, <2>1
  <1>9. PluginInOrder
    BY DEF OrderInv
  <1>10. p.kind # "closed" =>
           /\ p.seq > lastPopped[h]
           /\ \A r \in Routes : \A l \in DOMAIN queues[r] : queues[r][l].handle = h => queues[r][l].seq < p.seq
           /\ Carrying /\ pumpItem.handle = h => pumpItem.seq < p.seq
           /\ \A c \in Backends : \A l \in DOMAIN pluginQ[c] :
                pluginQ[c][l].handle = h => pluginQ[c][l].seq < p.seq
    <2> SUFFICES ASSUME p.kind # "closed"
                 PROVE  /\ p.seq > lastPopped[h]
                        /\ \A r \in Routes : \A l \in DOMAIN queues[r] : queues[r][l].handle = h => queues[r][l].seq < p.seq
                        /\ Carrying /\ pumpItem.handle = h => pumpItem.seq < p.seq
                        /\ \A c \in Backends : \A l \in DOMAIN pluginQ[c] :
                             pluginQ[c][l].handle = h => pluginQ[c][l].seq < p.seq
      OBVIOUS
    <2>1. p.seq > sent[h] /\ sent[h] \in Nat /\ lastPopped[h] \in Nat /\ lastPopped[h] <= sent[h]
      BY <1>2 DEF OrderInv, PoppedWereSent
    <2>2. p.seq > lastPopped[h]
      BY <1>2, <2>1
    <2>3. ASSUME NEW r \in Routes, NEW l \in DOMAIN queues[r], queues[r][l].handle = h
          PROVE  queues[r][l].seq < p.seq
      <3>1. queues[r][l].seq <= sent[h] /\ queues[r][l].seq \in Nat
        BY <2>3, Queued DEF OrderInv, QueuesInOrder
      <3>2. QED
        BY <1>2, <2>1, <3>1
    <2>4. ASSUME Carrying, pumpItem.handle = h
          PROVE  pumpItem.seq < p.seq
      <3>1. pumpItem.seq <= sent[h] /\ pumpItem.seq \in Nat
        BY <2>4 DEF OrderInv, CarriedInOrder, MuxInv, PumpHoldsPeer, Carrying, Item
      <3>2. QED
        BY <1>2, <2>1, <3>1
    <2>5. ASSUME NEW c \in Backends, NEW l \in DOMAIN pluginQ[c], pluginQ[c][l].handle = h
          PROVE  pluginQ[c][l].seq < p.seq
      <3>1. pluginQ[c][l].seq <= sent[h] /\ pluginQ[c][l].seq \in Nat
        BY <1>9, <2>5, Waiting DEF PluginInOrder
      <3>2. QED
        BY <1>2, <2>1, <3>1
    <2>6. QED
      BY <2>2, <2>3, <2>4, <2>5
  <1>11. ASSUME NEW c \in Backends, NEW k \in DOMAIN pluginQ'[c]
         PROVE  /\ KindOf[pluginQ'[c][k].handle] = c
                /\ pluginQ'[c][k].seq <= sent'[pluginQ'[c][k].handle]
                /\ pluginQ'[c][k].kind # "closed" =>
                     /\ pluginQ'[c][k].seq > lastPopped[pluginQ'[c][k].handle]
                     /\ \A r \in Routes : \A l \in DOMAIN queues[r] :
                          queues[r][l].handle = pluginQ'[c][k].handle
                            => queues[r][l].seq < pluginQ'[c][k].seq
                     /\ Carrying /\ pumpItem.handle = pluginQ'[c][k].handle
                          => pumpItem.seq < pluginQ'[c][k].seq
                     /\ \A l \in DOMAIN pluginQ'[c] :
                          l < k /\ pluginQ'[c][l].handle = pluginQ'[c][k].handle
                          /\ pluginQ'[c][l].kind # "closed"
                            => pluginQ'[c][l].seq < pluginQ'[c][k].seq
    <2>1. ASSUME NEW j \in DOMAIN pluginQ[c], pluginQ'[c][k] = pluginQ[c][j]
          PROVE  pluginQ'[c][k].seq <= sent'[pluginQ'[c][k].handle]
      <3>1. pluginQ[c][j].seq <= sent[pluginQ[c][j].handle] /\ pluginQ[c][j].seq \in Nat /\ pluginQ[c][j].handle \in Handle
        BY <1>9, Waiting DEF PluginInOrder
      <3>2. QED
        BY <1>2, <2>1, <3>1
    <2>2. CASE c # b
      <3>1. pluginQ'[c] = pluginQ[c]
        BY <1>1, <2>2
      <3>2. QED
        BY <1>9, <2>1, <3>1 DEF PluginInOrder
    <2>3. CASE c = b /\ k = n
      <3>1. pluginQ'[c][k] = p
        BY <1>4, <2>3
      <3>2. \A l \in DOMAIN pluginQ'[c] : l < k => \E j \in DOMAIN pluginQ[c] : pluginQ'[c][l] = pluginQ[c][j]
        BY <1>4, <2>3
      <3>3. QED
        BY <1>10, <2>3, <3>1, <3>2 DEF b
    <2>4. CASE c = b /\ k # n
      <3>1. k \in Nat /\ k < n /\ k + d \in DOMAIN pluginQ[c] /\ pluginQ'[c][k] = pluginQ[c][k + d]
        BY <1>4, <2>4
      <3>2. \A l \in DOMAIN pluginQ'[c] : l < k => /\ l + d \in DOMAIN pluginQ[c] /\ l + d < k + d
                                                   /\ pluginQ'[c][l] = pluginQ[c][l + d]
        BY <1>4, <2>4, <3>1
      <3>3. QED
        BY <1>9, <2>1, <3>1, <3>2 DEF PluginInOrder
    <2>5. QED
      BY <2>2, <2>3, <2>4
  <1>12. PluginInOrder'
    BY <1>11 DEF PluginInOrder, Carrying
  <1>13. QED
    BY <1>6, <1>7, <1>8, <1>12 DEF OrderInv

\* The read loops number what they queue.
LEMMA ReadSteps ==
  ASSUME MuxAssumption, MuxInv, OrderInv, NEW h \in Handle,
         (\E kind \in SendKinds : ReadDatagram(h, kind)) \/ ReadLoopEnds(h)
  PROVE  OrderInv'
  <1>1. /\ conn \in [Handle -> {"unused", "dialling", "in", "out", "closedIn", "closedOut", "gone"}]
        /\ sent \in [Handle -> Nat]
    BY DEF MuxInv, TypeOK
  <1>2. ASSUME NEW kind \in SendKinds, ReadDatagram(h, kind)
        PROVE  OrderInv'
    <2> DEFINE p == [handle |-> h, incoming |-> conn[h] = "in", kind |-> kind, seq |-> sent[h] + 1]
    <2>1. (conn[h] = "in") \in BOOLEAN /\ kind \in Kinds /\ sent[h] + 1 \in Nat
      BY <1>1 DEF MuxAssumption
    <2>2. p \in Packet /\ p.handle = h /\ p.incoming = (conn[h] = "in") /\ p.seq = sent[h] + 1
      BY <2>1 DEF Packet
    <2>3. PushPacket(p) /\ conn[h] \in {"in", "out"} /\ sent' = [sent EXCEPT ![h] = sent[h] + 1]
      BY <1>2 DEF ReadDatagram
    <2>4. UNCHANGED <<dialled, peers, pumpPc, pumpItem, queues, lastPopped, conn>>
      BY <1>2 DEF ReadDatagram, muxVars, pumpVars
    <2> HIDE DEF p
    <2>5. Seen(h, IF p.incoming THEN "server" ELSE "client")
      BY <2>2, <2>3 DEF Seen, ConnSide
    <2>6. sent' \in [Handle -> Nat] /\ (\A g \in Handle : sent[g] <= sent'[g]) /\ sent'[h] = sent[h] + 1
      BY <1>1, <2>3
    <2>7. StaysUsed /\ \A g \in Handle, r \in Routes : ConnSide(g, r)' => ConnSide(g, r)
      BY <2>4 DEF StaysUsed, ConnSide
    <2>8. p.seq <= sent'[h] /\ p.seq > sent[h]
      BY <1>1, <2>2, <2>6
    <2>9. QED
      BY <2>2, <2>3, <2>4, <2>5, <2>6, <2>7, <2>8, PluginGrows
  <1>3. ASSUME ReadLoopEnds(h)
        PROVE  OrderInv'
    <2> DEFINE p == [handle |-> h, incoming |-> conn[h] \in {"in", "closedIn"}, kind |-> "closed", seq |-> sent[h]]
    <2>1. (conn[h] \in {"in", "closedIn"}) \in BOOLEAN /\ "closed" \in Kinds /\ sent[h] \in Nat
      BY <1>1 DEF Kinds
    <2>2. p \in Packet /\ p.handle = h /\ p.incoming = (conn[h] \in {"in", "closedIn"}) /\ p.seq = sent[h]
          /\ p.kind = "closed"
      BY <2>1 DEF Packet
    <2>3. PushPacket(p) /\ conn[h] \in {"in", "out", "closedIn", "closedOut"} /\ conn' = [conn EXCEPT ![h] = "gone"]
      BY <1>3 DEF ReadLoopEnds
    <2>4. UNCHANGED <<dialled, peers, pumpPc, pumpItem, queues, lastPopped, sent>>
      BY <1>3 DEF ReadLoopEnds, muxVars, pumpVars
    <2> HIDE DEF p
    <2>5. Seen(h, IF p.incoming THEN "server" ELSE "client")
      BY <2>2, <2>3 DEF Seen, ConnSide
    <2>6. conn'[h] = "gone" /\ \A g \in Handle \ {h} : conn'[g] = conn[g]
      BY <1>1, <2>3
    <2>7. StaysUsed /\ \A g \in Handle, r \in Routes : ConnSide(g, r)' => ConnSide(g, r)
      BY <2>4, <2>6 DEF StaysUsed, ConnSide
    <2>8. sent' \in [Handle -> Nat] /\ (\A g \in Handle : sent[g] <= sent'[g]) /\ p.seq <= sent'[h]
      BY <1>1, <2>2, <2>4
    <2>9. QED
      BY <2>2, <2>3, <2>4, <2>5, <2>7, <2>8, PluginGrows
  <1>4. QED
    BY <1>2, <1>3

LEMMA StepOrderInv == MuxInv /\ OrderInv /\ [Next]_vars => OrderInv'
  <1> SUFFICES ASSUME MuxInv, OrderInv, [Next]_vars PROVE OrderInv'
    OBVIOUS
  <1>1. CASE UNCHANGED vars
    <2>1. \A h \in Handle, r \in Routes : Seen(h, r)' => Seen(h, r)
      BY <1>1 DEF vars, Seen, ConnSide, PeerSide, QueueSide, PumpSide, PluginSide, Carrying, Live
    <2>2. SidesShrink /\ StaysUsed /\ CarriesOn
      BY <1>1, <2>1 DEF vars, SidesShrink, StaysUsed, CarriesOn, Carrying
    <2>3. UNCHANGED <<queues, pluginQ, sent, lastPopped>>
      BY <1>1 DEF vars
    <2>4. QED
      BY <2>2, <2>3, ShrinkKeeps, TrailFrame DEF OrderInv, Trail
  <1>2. CASE Next
    <2>1. CASE Pump
      BY <1>2, <2>1, MuxAssumption, ReceiveSteps, PumpQuiet, PushStep DEF Pump
    <2>2. CASE Others
      BY <1>2, <2>2, AddOutgoing, PopStep, OtherThreadsQuiet DEF Others
    <2>3. CASE Backend
      BY <1>2, <2>3, MuxAssumption, AcceptOrDial, ReadSteps, OtherThreadsQuiet DEF Backend
    <2>4. CASE Time
      BY <1>2, <2>4, OtherThreadsQuiet
    <2>5. QED
      BY <1>2, <2>1, <2>2, <2>3, <2>4 DEF Next
  <1>3. QED
    BY <1>1, <1>2

LEMMA InitOrderInv == Init => OrderInv
  <1> SUFFICES ASSUME Init PROVE OrderInv
    OBVIOUS
  <1>1. /\ \A r \in Routes : DOMAIN queues[r] = {}
        /\ \A b \in Backends : DOMAIN pluginQ[b] = {}
        /\ ~ Carrying /\ Live = {}
    BY DEF Init, Carrying, Live
  <1>2. \A h \in Handle, r \in Routes : ~ Seen(h, r)
    BY <1>1 DEF Init, Seen, ConnSide, PeerSide, QueueSide, PumpSide, PluginSide
  <1>3. OneSide
    BY <1>2 DEF OneSide
  <1>4. QueuesInOrder /\ CarriedInOrder /\ PluginInOrder
    BY <1>1 DEF QueuesInOrder, CarriedInOrder, PluginInOrder
  <1>5. PoppedWereSent
    BY DEF Init, PoppedWereSent
  <1>6. QED
    BY <1>3, <1>4, <1>5 DEF OrderInv

\* The engine gets the datagrams of a connection in the order it sent them, none
\* twice, with any number of connections and threads, any queue lengths, and
\* peers closed and accepted again while datagrams are on their way (the pump's
\* sink, PushLocked, PopQueued and push_packet).
THEOREM OrderKept == Spec => []InOrder
  <1>1. MuxInv /\ OrderInv => InOrder
    <2> SUFFICES ASSUME MuxInv, OrderInv, NEW r \in Routes, NEW k \in 1 .. Len(queues[r])
                 PROVE  /\ queues[r][k].seq > lastPopped[queues[r][k].handle]
                        /\ \A l \in 1 .. (k - 1) : queues[r][l].handle = queues[r][k].handle
                                                     => queues[r][l].seq < queues[r][k].seq
      BY DEF InOrder
    <2>1. queues[r] \in Seq(Datagram)
      BY DEF MuxInv, TypeOK
    <2>2. k \in DOMAIN queues[r] /\ \A l \in 1 .. (k - 1) : l \in DOMAIN queues[r] /\ l < k
      BY <2>1
    <2>3. QED
      BY <2>2 DEF OrderInv, QueuesInOrder
  <1>2. QED
    BY <1>1, InitMuxInv, StepMuxInv, InitOrderInv, StepOrderInv, PTL DEF Spec

-----------------------------------------------------------------------------
(* OverlayMux implements PeerRegistry *)

\* A fresh id for a handle without one opens it in the registry.
LEMMA AddOpens ==
  ASSUME MuxInv, NEW h \in Handle, NEW r \in Routes, NEW known \in BOOLEAN,
         Opens(h, r, known)
  PROVE  Registry!Open(h, known)
  <1>1. /\ Live' = Live \cup {nextPeerId} /\ nextPeerId \notin Live
        /\ peers'[nextPeerId] = NewPeer(h, r)
        /\ \A j \in Live : peers'[j] = peers[j]
    BY AddKeeps DEF Opens
  <1>2. \A i \in Live : peers[i].handle # h
    BY DEF Opens, MuxInv, TypeOK, HandlesMatchPeers, None
  <1>3. nextPeerId \notin records
    BY <1>1 DEF MuxInv, RecordsBelongToPeers, ClosingIsErased, TypeOK
  <1>4. NewPeer(h, r).handle = h
    BY DEF NewPeer
  <1>5. [i \in Live |-> peers[i].handle]' =
          [i \in Live \cup {nextPeerId} |-> IF i = nextPeerId THEN h
                                            ELSE [j \in Live |-> peers[j].handle][i]]
    BY <1>1, <1>4
  <1>6. (records \cap Live)' = IF known THEN (records \cap Live) \cup {nextPeerId}
                                        ELSE records \cap Live
    BY <1>1, <1>3 DEF Opens
  <1>7. QED
    BY <1>2, <1>5, <1>6 DEF Opens, Registry!Open

\* Erasing a peer closes it in the registry.
LEMMA EraseCloses ==
  ASSUME MuxInv, NEW i \in Live, Erases(i)
  PROVE  Registry!Close(i)
  <1>1. Live' = Live \ {i} /\ \A j \in Live' : peers'[j] = peers[j]
    BY EraseKeeps DEF Erases
  <1>2. [j \in Live |-> peers[j].handle]' =
          [k \in Live \ {i} |-> [j \in Live |-> peers[j].handle][k]]
    BY <1>1
  <1>3. (records \cap Live)' = (records \cap Live) \ {i}
    BY <1>1 DEF Erases
  <1>4. QED
    BY <1>2, <1>3 DEF Erases, Registry!Close, Registry!Restrict

\* Whatever else happens is at most a change of attestations.
LEMMA SamePeersAttest ==
  ASSUME KeepsPeers
  PROVE  Registry!Next
  <1>1. Registry!Attest((records \cap Live)')
    <2>1. (records \cap Live)' \subseteq Live /\ UNCHANGED nextPeerId
      BY DEF KeepsPeers
    <2>2. [j \in Live |-> peers[j].handle]' = [j \in Live |-> peers[j].handle]
      BY DEF KeepsPeers
    <2>3. QED
      BY <2>1, <2>2 DEF Registry!Attest
  <1>2. (records \cap Live)' \in SUBSET Live
    BY DEF KeepsPeers
  <1>3. QED
    BY <1>1, <1>2 DEF Registry!Next

\* Whatever the threads do, callers of p2p_mux.h see the registry it promises.
THEOREM MuxImplementsRegistry == Spec => ImplementsRegistry
  <1>1. Init => Registry!Init
    BY DEF Init, Registry!Init, Live
  <1>2. MuxInv /\ [Next]_vars => [Registry!Next]_(Registry!vars)
    <2>1. CASE Next
      <3>1. CASE \E h \in Handle, r \in Routes, known \in BOOLEAN : Opens(h, r, known)
        BY <3>1, AddOpens DEF Registry!Next
      <3>2. CASE \E i \in Live : Erases(i)
        BY <3>2, EraseCloses DEF Registry!Next
      <3>3. CASE KeepsPeers
        BY <3>3, SamePeersAttest
      <3>4. QED
        BY <2>1, <3>1, <3>2, <3>3, StepShape DEF PeerStep
    <2>2. CASE UNCHANGED vars
      BY <2>2 DEF vars, Registry!vars, Live
    <2>3. QED
      BY <2>1, <2>2
  <1>3. QED
    BY <1>1, <1>2, MuxInvariant, PTL DEF Spec, ImplementsRegistry, Registry!Spec

=============================================================================
