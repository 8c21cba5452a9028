----------------------------- MODULE OverlayMux -----------------------------
(***************************************************************************)
(* The transport multiplexer of p2p/p2p_mux.cpp together with the identity *)
(* records it reads (p2p/p2p_identity.cpp) and the plugin side of an       *)
(* overlay backend (p2p/plugins/iroh/src/lib.rs).                          *)
(*                                                                         *)
(* Several threads share the mux.  Whichever thread wins g_pumpMutex is    *)
(* "the pump": it drains the plugin queue one datagram at a time, handles  *)
(* control packets, admits game traffic and, every few seconds, reaps      *)
(* peers.  Between two critical sections of g_mutex it holds a datagram    *)
(* whose peer other threads may close.  Session threads add and close      *)
(* outgoing peers, the engine thread sends and pops, detached threads run  *)
(* the plugin's Close, and the plugin's own read loops fill the queue.     *)
(*                                                                         *)
(* A step below is one critical section, or one call made outside it.      *)
(* Time is abstracted to the three deadlines the code compares against:    *)
(* a peer is idle, its identify grace is over, a record is aged.           *)
(***************************************************************************)
EXTENDS Naturals, Sequences, FiniteSets, Functions

CONSTANTS
  Handle,        \* connection handles the backends may ever give out
  KindOf,        \* KindOf[h]: the backend (iroh, tailcat, turn) owning h
  TrustedKinds,  \* backends whose TrustedPeerIpv4 succeeds (TURN)
  MaxIncoming,   \* kMaxIncomingPeersPerBackend
  MaxQueued,     \* kMaxQueuedPerRoute
  PluginQueueCap,\* MAX_QUEUED_PACKETS of the plugin
  SendKinds,     \* what remote peers send
  MaxSend        \* bound: datagrams one remote peer sends

Routes == {"client", "server"}
Kinds == {"game", "part", "ping", "identify", "closed"}
None == 0        \* no mux id: AddOutgoingPeer's failure value
Backends == {KindOf[h] : h \in Handle}

ASSUME MuxAssumption ==
  /\ MaxIncoming \in Nat \ {0}
  /\ MaxQueued \in Nat \ {0}
  /\ PluginQueueCap \in Nat \ {0}
  /\ MaxSend \in Nat
  /\ SendKinds \subseteq Kinds \ {"closed"}

VARIABLES
  peers,       \* g_peers: mux id -> [handle, route, idle, graceOver]
  byHandle,    \* g_byHandle, None where there is no entry
  nextPeerId,  \* g_nextPeerId
  queues,      \* g_queues[route]: datagrams waiting for the engine
  records,     \* mux ids whose overlay address has an identity record
  aged,        \* those of them not looked up for kRecordIdleSeconds
  enforce,     \* g_enforce
  pumpPc,      \* where the owner of g_pumpMutex is, "free" if nobody is
  pumpItem,    \* the datagram it carries between critical sections
  reapList,    \* `idle` of the reaper: ids still to be closed
  closing,     \* peers erased by ClosePeer but not yet forgotten
  closeCalls,  \* handles a detached CloseAsync thread will close
  dialled,     \* handles Connect returned to a session, not yet added
  conn,        \* plugin: connection state of each handle
  pluginQ,     \* queue of each backend, behind r1p_recv
  sent,        \* bound counter: datagrams each remote peer has sent
  lastPopped   \* history: last datagram of each handle the engine got

muxVars == <<peers, byHandle, nextPeerId, dialled>>
recordVars == <<records, aged>>
pumpVars == <<pumpPc, pumpItem, reapList>>
pluginVars == <<conn, pluginQ, sent>>
vars == <<peers, byHandle, nextPeerId, queues, records, aged, enforce,
          pumpPc, pumpItem, reapList, closing, closeCalls,
          dialled, conn, pluginQ, sent, lastPopped>>

-----------------------------------------------------------------------------
(* State and helpers *)

Peer == [handle : Handle, route : Routes, idle : BOOLEAN, graceOver : BOOLEAN]
Packet == [handle : Handle, incoming : BOOLEAN, kind : Kinds, seq : Nat]
Item == [peer : Nat, handle : Handle, route : Routes, kind : Kinds, seq : Nat,
         checked : BOOLEAN]
Datagram == [peer : Nat, handle : Handle, seq : Nat]

Live == DOMAIN peers
NewPeer(h, r) == [handle |-> h, route |-> r, idle |-> FALSE, graceOver |-> FALSE]

\* peer.lastActivity = now, for a peer that is still registered.
Touched(i) == IF i \in Live THEN [peers EXCEPT ![i].idle = FALSE] ELSE peers

\* g_peers.emplace(id, peer)
WithPeer(i, p) == [j \in Live \cup {i} |-> IF j = i THEN p ELSE peers[j]]

\* IncomingPeerCountLocked
Incoming(kind) == {i \in Live : peers[i].route = "server" /\ KindOf[peers[i].handle] = kind}

\* PushLocked: a full queue drops its oldest datagram.
Pushed(q, d) == Append(IF Len(q) >= MaxQueued THEN Tail(q) ELSE q, d)

\* ShouldDropUnidentified; when it lets the peer through under enforcement it
\* has refreshed the record (Lookup), which the callers model with Refreshed.
ShouldDropUnidentified(i) == enforce /\ i \notin records
Refreshed(S) == IF enforce THEN aged \ S ELSE aged

NoItem == [peer |-> None, kind |-> "closed", seq |-> 0, checked |-> FALSE]

Init ==
  /\ peers = [i \in {} |-> None]
  /\ byHandle = [h \in Handle |-> None]
  /\ nextPeerId = 1
  /\ queues = [r \in Routes |-> <<>>]
  /\ records = {}
  /\ aged = {}
  /\ enforce = FALSE
  /\ pumpPc = "free"
  /\ pumpItem = NoItem
  /\ reapList = {}
  /\ closing = {}
  /\ closeCalls = {}
  /\ dialled = {}
  /\ conn = [h \in Handle |-> "unused"]
  /\ pluginQ = [b \in Backends |-> <<>>]
  /\ sent = [h \in Handle |-> 0]
  /\ lastPopped = [h \in Handle |-> 0]

-----------------------------------------------------------------------------
(* The backend: connections and the queue its read loops fill *)

\* push_packet: a full queue drops its oldest packet, whatever it is.
PushPacket(p) ==
  LET b == KindOf[p.handle]
      q == pluginQ[b]
  IN  pluginQ' = [pluginQ EXCEPT ![b] =
                    Append(IF Len(q) >= PluginQueueCap THEN Tail(q) ELSE q, p)]

\* accept_loop / r1p_connect: a handle is never given out twice.
AcceptConnection(h) ==
  /\ conn[h] = "unused"
  /\ conn' = [conn EXCEPT ![h] = "in"]
  /\ UNCHANGED <<muxVars, queues, recordVars, enforce, pumpVars, closing, closeCalls,
                 pluginQ, sent, lastPopped>>

DialConnection(h) ==
  /\ conn[h] = "unused"
  /\ KindOf[h] \notin TrustedKinds  \* the TURN client only ever accepts
  /\ conn' = [conn EXCEPT ![h] = "dialling"]
  /\ dialled' = dialled \cup {h}
  /\ UNCHANGED <<peers, byHandle, nextPeerId, queues, recordVars, enforce, pumpVars, closing, closeCalls,
                 pluginQ, sent, lastPopped>>

\* The dial completes or fails.  A failed dial queues no packet: the mux does
\* not hear of it.
DialEnds(h, state) ==
  /\ conn[h] = "dialling"
  /\ conn' = [conn EXCEPT ![h] = state]
  /\ UNCHANGED <<muxVars, queues, recordVars, enforce, pumpVars, closing, closeCalls,
                 pluginQ, sent, lastPopped>>

\* read_loop: a datagram of an open connection.
ReadDatagram(h, kind) ==
  /\ conn[h] \in {"in", "out"}
  /\ sent[h] < MaxSend
  /\ sent' = [sent EXCEPT ![h] = @ + 1]
  /\ PushPacket([handle |-> h, incoming |-> conn[h] = "in", kind |-> kind, seq |-> sent[h] + 1])
  /\ UNCHANGED <<muxVars, queues, recordVars, enforce, pumpVars, closing, closeCalls,
                 conn, lastPopped>>

\* read_loop: the connection failed, because of the remote side or of
\* r1p_close_peer, and the loop queues its last packet.  TURN has no such event.
ReadLoopEnds(h) ==
  /\ conn[h] \in {"in", "out", "closedIn", "closedOut"}
  /\ KindOf[h] \notin TrustedKinds
  /\ conn' = [conn EXCEPT ![h] = "gone"]
  /\ PushPacket([handle |-> h, incoming |-> conn[h] \in {"in", "closedIn"},
                 kind |-> "closed", seq |-> sent[h]])
  /\ UNCHANGED <<muxVars, queues, recordVars, enforce, pumpVars, closing, closeCalls,
                 sent, lastPopped>>

\* The detached thread of CloseAsync runs backend->Close: r1p_close_peer closes
\* the connection and its read loop will notice, a dial still under way ends
\* without a trace; TurnClient::Close does nothing.
BackendClose(h) ==
  /\ h \in closeCalls
  /\ closeCalls' = closeCalls \ {h}
  /\ conn' = [conn EXCEPT ![h] = IF KindOf[h] \in TrustedKinds THEN @
                                 ELSE IF @ = "in" THEN "closedIn"
                                 ELSE IF @ = "out" THEN "closedOut"
                                 ELSE IF @ = "dialling" THEN "gone" ELSE @]
  /\ UNCHANGED <<muxVars, queues, recordVars, enforce, pumpVars, closing,
                 pluginQ, sent, lastPopped>>

-----------------------------------------------------------------------------
(* Session threads, the engine thread, the heartbeat thread *)

\* AddOutgoingPeer: a session calls it once with the handle Connect gave it,
\* however long that took and whatever became of the connection meanwhile.
AddOutgoingPeer(h) ==
  /\ h \in dialled
  /\ dialled' = dialled \ {h}
  /\ IF byHandle[h] # None
     THEN UNCHANGED <<peers, byHandle, nextPeerId>>
     ELSE /\ peers' = WithPeer(nextPeerId, NewPeer(h, "client"))
          /\ byHandle' = [byHandle EXCEPT ![h] = nextPeerId]
          /\ nextPeerId' = nextPeerId + 1
  /\ UNCHANGED <<queues, recordVars, enforce, pumpVars, closing, closeCalls,
                 pluginVars, lastPopped>>

\* Mutants: the g_byHandle entry stays; the id becomes free again.
EraseForClose_KeepsHandle(i, by) ==
  /\ i \in Live
  /\ peers' = Restrict(peers, Live \ {i})
  /\ closing' = closing \cup {[id |-> i, handle |-> peers[i].handle, by |-> by]}
  /\ UNCHANGED <<byHandle, nextPeerId, dialled, queues, recordVars, enforce, pumpPc, pumpItem,
                 closeCalls, pluginVars, lastPopped>>

EraseForClose_FreesId(i, by) ==
  /\ i \in Live
  /\ peers' = Restrict(peers, Live \ {i})
  /\ byHandle' = [byHandle EXCEPT ![peers[i].handle] = None]
  /\ nextPeerId' = IF i = nextPeerId - 1 THEN i ELSE nextPeerId
  /\ closing' = closing \cup {[id |-> i, handle |-> peers[i].handle, by |-> by]}
  /\ UNCHANGED <<dialled, queues, recordVars, enforce, pumpPc, pumpItem,
                 closeCalls, pluginVars, lastPopped>>

\* ClosePeer, the part under g_mutex.
EraseForClose(i, by) ==
  /\ i \in Live
  /\ peers' = Restrict(peers, Live \ {i})
  /\ byHandle' = [byHandle EXCEPT ![peers[i].handle] = None]
  /\ closing' = closing \cup {[id |-> i, handle |-> peers[i].handle, by |-> by]}
  /\ UNCHANGED <<nextPeerId, dialled, queues, recordVars, enforce, pumpPc, pumpItem,
                 closeCalls, pluginVars, lastPopped>>

\* Sessions close losers, superseded candidates and the previous overlay peer.
ClosePeer(i) ==
  /\ i \in Live
  /\ peers[i].route = "client"
  /\ EraseForClose(i, "session")
  /\ UNCHANGED reapList

\* ClosePeer, the rest: Identities().Forget, then CloseAsync.
FinishClose(c) ==
  /\ c \in closing
  /\ closing' = closing \ {c}
  /\ records' = records \ {c.id}
  /\ aged' = aged \ {c.id}
  /\ closeCalls' = closeCalls \cup {c.handle}
  /\ reapList' = IF c.by = "pump" THEN reapList \ {c.id} ELSE reapList
  /\ UNCHANGED <<muxVars, queues, enforce, pumpPc, pumpItem, pluginVars, lastPopped>>

\* SendToPeer: traffic towards a peer also counts as activity.
SendToPeer(i) ==
  /\ i \in Live
  /\ peers[i].idle
  /\ peers' = Touched(i)
  /\ UNCHANGED <<byHandle, nextPeerId, dialled, queues, recordVars, enforce, pumpVars,
                 closing, closeCalls, pluginVars, lastPopped>>

\* Mutant: takes the newest one.
PopQueued_Newest(r) ==
  LET n == Len(queues[r])
  IN  /\ n > 0
      /\ queues' = [queues EXCEPT ![r] = SubSeq(@, 1, n - 1)]
      /\ lastPopped' = [lastPopped EXCEPT ![queues[r][n].handle] = queues[r][n].seq]
      /\ UNCHANGED <<muxVars, recordVars, enforce, pumpVars, closing, closeCalls, pluginVars>>

\* PopQueued takes the oldest datagram of the route.
PopQueued(r) ==
  /\ queues[r] # <<>>
  /\ queues' = [queues EXCEPT ![r] = Tail(@)]
  /\ lastPopped' = [lastPopped EXCEPT ![Head(queues[r]).handle] = Head(queues[r]).seq]
  /\ UNCHANGED <<muxVars, recordVars, enforce, pumpVars, closing, closeCalls, pluginVars>>

\* Heartbeat response and settings refresh.
SetIdentityEnforcement(on) ==
  /\ enforce # on
  /\ enforce' = on
  /\ UNCHANGED <<muxVars, queues, recordVars, pumpVars, closing, closeCalls,
                 pluginVars, lastPopped>>

\* Present for a source that is not an overlay peer (EOS, LAN), on another
\* thread: of our records it only prunes the aged ones.
PruneRecords ==
  /\ aged # {}
  /\ records' = records \ aged
  /\ aged' = {}
  /\ UNCHANGED <<muxVars, queues, enforce, pumpVars, closing, closeCalls,
                 pluginVars, lastPopped>>

-----------------------------------------------------------------------------
(* Time *)

\* kPeerIdleTimeout without traffic.
BecomeIdle(i) ==
  /\ i \in Live
  /\ ~ peers[i].idle
  /\ peers' = [peers EXCEPT ![i].idle = TRUE]
  /\ UNCHANGED <<byHandle, nextPeerId, dialled, queues, recordVars, enforce, pumpVars,
                 closing, closeCalls, pluginVars, lastPopped>>

\* kIdentifyGrace since the peer was created.
GraceEnds(i) ==
  /\ i \in Live
  /\ ~ peers[i].graceOver
  /\ peers' = [peers EXCEPT ![i].graceOver = TRUE]
  /\ UNCHANGED <<byHandle, nextPeerId, dialled, queues, recordVars, enforce, pumpVars,
                 closing, closeCalls, pluginVars, lastPopped>>

\* kRecordIdleSeconds without a lookup; hours do not pass inside one sink call.
RecordAges(i) ==
  /\ i \in records \ aged
  /\ pumpPc # "push"
  /\ aged' = aged \cup {i}
  /\ UNCHANGED <<muxVars, queues, records, enforce, pumpVars, closing, closeCalls,
                 pluginVars, lastPopped>>

-----------------------------------------------------------------------------
(* PumpBackends: only the thread that won g_pumpMutex takes these steps *)

\* try_to_lock succeeds; a thread for which it fails returns at once.
PumpBegin ==
  /\ pumpPc = "free"
  /\ pumpPc' = "draining"
  /\ UNCHANGED <<muxVars, queues, recordVars, enforce, pumpItem, reapList, closing,
                 closeCalls, pluginVars, lastPopped>>

\* r1p_recv: the pump takes the packet at the head of the plugin queue.
Receives(p) ==
  /\ pumpPc = "draining"
  /\ \E b \in Backends : /\ pluginQ[b] # <<>>
                         /\ p = Head(pluginQ[b])
                         /\ pluginQ' = [pluginQ EXCEPT ![b] = Tail(@)]
  /\ UNCHANGED <<dialled, queues, enforce, reapList, closing, conn, sent, lastPopped>>

\* The sink goes on with packet p of peer i; a fragment that completes no
\* datagram stops in the reassembler.
Dispatches(i, r, p) ==
  IF p.kind = "part"
  THEN UNCHANGED <<pumpPc, pumpItem>>
  ELSE /\ pumpPc' = "control"
       /\ pumpItem' = [peer |-> i, handle |-> p.handle, route |-> r, kind |-> p.kind,
                       seq |-> p.seq, checked |-> FALSE]

\* Mutants: the identity is not forgotten; the event is ignored.
ReceiveClosed_NoForget(p) ==
  /\ Receives(p)
  /\ p.kind = "closed"
  /\ peers' = Restrict(peers, Live \ {byHandle[p.handle]})
  /\ byHandle' = [byHandle EXCEPT ![p.handle] = None]
  /\ UNCHANGED <<nextPeerId, recordVars, pumpPc, pumpItem, closeCalls>>

ReceiveClosed_Ignored(p) ==
  /\ Receives(p)
  /\ p.kind = "closed"
  /\ UNCHANGED <<peers, byHandle, nextPeerId, recordVars, pumpPc, pumpItem, closeCalls>>

\* kPeerClosed: erase and forget in one critical section.
ReceiveClosed(p) ==
  /\ Receives(p)
  /\ p.kind = "closed"
  /\ peers' = Restrict(peers, Live \ {byHandle[p.handle]})
  /\ byHandle' = [byHandle EXCEPT ![p.handle] = None]
  /\ records' = records \ {byHandle[p.handle]}
  /\ aged' = aged \ {byHandle[p.handle]}
  /\ UNCHANGED <<nextPeerId, pumpPc, pumpItem, closeCalls>>

\* Unknown handle, not incoming: a stale outgoing peer, already closed.
ReceiveStale(p) ==
  /\ Receives(p)
  /\ p.kind # "closed"
  /\ byHandle[p.handle] = None
  /\ ~ p.incoming
  /\ UNCHANGED <<peers, byHandle, nextPeerId, recordVars, pumpPc, pumpItem, closeCalls>>

\* Unknown incoming handle while the backend is at its cap.
RefuseOverCap(p) ==
  /\ Receives(p)
  /\ p.kind # "closed"
  /\ byHandle[p.handle] = None
  /\ p.incoming
  /\ Cardinality(Incoming(KindOf[p.handle])) >= MaxIncoming
  /\ closeCalls' = closeCalls \cup {p.handle}
  /\ UNCHANGED <<peers, byHandle, nextPeerId, recordVars, pumpPc, pumpItem>>

\* Mutants: off by one at the cap; the id counter does not advance.
AcceptIncoming_OverCap(p) ==
  /\ Receives(p)
  /\ p.kind # "closed"
  /\ byHandle[p.handle] = None
  /\ p.incoming
  /\ Cardinality(Incoming(KindOf[p.handle])) <= MaxIncoming
  /\ peers' = WithPeer(nextPeerId, NewPeer(p.handle, "server"))
  /\ byHandle' = [byHandle EXCEPT ![p.handle] = nextPeerId]
  /\ nextPeerId' = nextPeerId + 1
  /\ records' = IF KindOf[p.handle] \in TrustedKinds THEN records \cup {nextPeerId} ELSE records
  /\ aged' = aged \ {nextPeerId}
  /\ Dispatches(nextPeerId, "server", p)
  /\ UNCHANGED closeCalls

AcceptIncoming_SameId(p) ==
  /\ Receives(p)
  /\ p.kind # "closed"
  /\ byHandle[p.handle] = None
  /\ p.incoming
  /\ Cardinality(Incoming(KindOf[p.handle])) < MaxIncoming
  /\ peers' = WithPeer(nextPeerId, NewPeer(p.handle, "server"))
  /\ byHandle' = [byHandle EXCEPT ![p.handle] = nextPeerId]
  /\ UNCHANGED nextPeerId
  /\ records' = IF KindOf[p.handle] \in TrustedKinds THEN records \cup {nextPeerId} ELSE records
  /\ aged' = aged \ {nextPeerId}
  /\ Dispatches(nextPeerId, "server", p)
  /\ UNCHANGED closeCalls

\* First packet of an incoming handle: a new Server peer.  The relay vouches
\* for the address of a TURN peer.
AcceptIncoming(p) ==
  /\ Receives(p)
  /\ p.kind # "closed"
  /\ byHandle[p.handle] = None
  /\ p.incoming
  /\ Cardinality(Incoming(KindOf[p.handle])) < MaxIncoming
  /\ peers' = WithPeer(nextPeerId, NewPeer(p.handle, "server"))
  /\ byHandle' = [byHandle EXCEPT ![p.handle] = nextPeerId]
  /\ nextPeerId' = nextPeerId + 1
  /\ records' = IF KindOf[p.handle] \in TrustedKinds THEN records \cup {nextPeerId} ELSE records
  /\ aged' = aged \ {nextPeerId}
  /\ Dispatches(nextPeerId, "server", p)
  /\ UNCHANGED closeCalls

ReceiveKnown(p) ==
  /\ Receives(p)
  /\ p.kind # "closed"
  /\ byHandle[p.handle] # None
  /\ peers' = Touched(byHandle[p.handle])
  /\ Dispatches(byHandle[p.handle], peers[byHandle[p.handle]].route, p)
  /\ UNCHANGED <<byHandle, nextPeerId, recordVars, closeCalls>>

\* IdentityTable::Present for pumpItem.peer: prune (at most once a minute),
\* then record the peer if the nonce is its own.
Present(verdict, prune) ==
  LET kept == IF verdict # "refused" /\ prune THEN records \ aged ELSE records
      old  == IF verdict # "refused" /\ prune THEN {} ELSE aged
  IN  IF verdict = "accepted"
      THEN records' = kept \cup {pumpItem.peer} /\ aged' = old \ {pumpItem.peer}
      ELSE records' = kept /\ aged' = old

\* TryConsumeControl: outside g_mutex.  Only the server route answers, with a
\* SendToPeer to wherever the packet came from.
HandleControl ==
  /\ pumpPc = "control"
  /\ IF pumpItem.kind = "game"
     THEN pumpPc' = "admit" /\ UNCHANGED <<peers, recordVars, pumpItem>>
     ELSE /\ pumpPc' = "draining"
          /\ pumpItem' = NoItem
          /\ peers' = IF pumpItem.route = "server" THEN Touched(pumpItem.peer) ELSE peers
          /\ IF pumpItem.kind = "identify" /\ pumpItem.route = "server"
             THEN \E verdict \in {"accepted", "replayed", "refused"}, prune \in BOOLEAN :
                    Present(verdict, prune)
             ELSE UNCHANGED recordVars
  /\ UNCHANGED <<byHandle, nextPeerId, dialled, queues, enforce, reapList, closing,
                 closeCalls, pluginVars, lastPopped>>

\* Game traffic of a Server peer passes only if it is identified.
Admit ==
  /\ pumpPc = "admit"
  /\ IF pumpItem.route = "server" /\ ShouldDropUnidentified(pumpItem.peer)
     THEN pumpPc' = "draining" /\ pumpItem' = NoItem /\ UNCHANGED aged
     ELSE /\ pumpPc' = "push"
          /\ pumpItem' = [pumpItem EXCEPT !.checked = enforce /\ pumpItem.route = "server"]
          /\ aged' = IF pumpItem.route = "server" THEN Refreshed({pumpItem.peer}) ELSE aged
  /\ UNCHANGED <<muxVars, queues, records, enforce, reapList, closing, closeCalls,
                 pluginVars, lastPopped>>

\* Mutant: the peer is not looked up again.
PushForEngine_NoLookup ==
  /\ pumpPc = "push"
  /\ pumpPc' = "draining"
  /\ pumpItem' = NoItem
  /\ queues' = [queues EXCEPT ![pumpItem.route] =
                  Pushed(@, [peer |-> pumpItem.peer, handle |-> pumpItem.handle,
                             seq |-> pumpItem.seq])]
  /\ UNCHANGED <<muxVars, recordVars, enforce, reapList, closing, closeCalls,
                 pluginVars, lastPopped>>

\* Back under g_mutex: the peer may have been closed since.
PushForEngine ==
  /\ pumpPc = "push"
  /\ pumpPc' = "draining"
  /\ pumpItem' = NoItem
  /\ queues' = IF pumpItem.peer \in Live
               THEN [queues EXCEPT ![pumpItem.route] =
                       Pushed(@, [peer |-> pumpItem.peer, handle |-> pumpItem.handle,
                                  seq |-> pumpItem.seq])]
               ELSE queues
  /\ UNCHANGED <<muxVars, recordVars, enforce, reapList, closing, closeCalls,
                 pluginVars, lastPopped>>

\* End of the pump, kReapInterval not over (each pump drains a bounded number
\* of packets, so the plugin queue need not be empty).
PumpEnd ==
  /\ \/ pumpPc = "draining"
     \/ pumpPc = "reaping" /\ reapList = {}
  /\ pumpPc' = "free"
  /\ UNCHANGED <<muxVars, queues, recordVars, enforce, pumpItem, reapList, closing,
                 closeCalls, pluginVars, lastPopped>>

\* The reaper collects its victims under g_mutex ...
NeverIdentified(i) ==
  peers[i].route = "server" /\ peers[i].graceOver /\ ShouldDropUnidentified(i)

\* (Mutants: one of the two conditions is missing.)
ReapCollect_NotIdle ==
  /\ pumpPc = "draining"
  /\ pumpPc' = "reaping"
  /\ reapList' = {i \in Live : NeverIdentified(i)}
  /\ aged' = Refreshed({i \in Live : peers[i].route = "server" /\ peers[i].graceOver})
  /\ UNCHANGED <<muxVars, queues, records, enforce, pumpItem, closing, closeCalls,
                 pluginVars, lastPopped>>

ReapCollect_OnlyIdle ==
  /\ pumpPc = "draining"
  /\ pumpPc' = "reaping"
  /\ reapList' = {i \in Live : peers[i].idle}
  /\ UNCHANGED <<muxVars, queues, recordVars, enforce, pumpItem, closing, closeCalls,
                 pluginVars, lastPopped>>

ReapCollect ==
  /\ pumpPc = "draining"
  /\ pumpPc' = "reaping"
  /\ reapList' = {i \in Live : peers[i].idle \/ NeverIdentified(i)}
  /\ aged' = Refreshed({i \in Live : peers[i].route = "server" /\ peers[i].graceOver})
  /\ UNCHANGED <<muxVars, queues, records, enforce, pumpItem, closing, closeCalls,
                 pluginVars, lastPopped>>

\* ... and closes them one by one after unlocking it.
ReapClose(i) ==
  /\ pumpPc = "reaping"
  /\ i \in reapList
  /\ ~ \E c \in closing : c.by = "pump"
  /\ EraseForClose(i, "pump")
  /\ UNCHANGED reapList

\* A session closed it first: ClosePeer finds nothing.
ReapSkip(i) ==
  /\ pumpPc = "reaping"
  /\ i \in reapList \ Live
  /\ ~ \E c \in closing : c.by = "pump"
  /\ reapList' = reapList \ {i}
  /\ UNCHANGED <<muxVars, queues, recordVars, enforce, pumpPc, pumpItem, closing,
                 closeCalls, pluginVars, lastPopped>>

-----------------------------------------------------------------------------
Receive ==
  \E b \in Backends :
    /\ pluginQ[b] # <<>>
    /\ LET p == Head(pluginQ[b])
       IN  ReceiveClosed(p) \/ ReceiveStale(p) \/ RefuseOverCap(p) \/ AcceptIncoming(p)
           \/ ReceiveKnown(p)

Pump ==
  \/ PumpBegin \/ Receive \/ HandleControl \/ Admit \/ PushForEngine
  \/ ReapCollect \/ PumpEnd
  \/ \E i \in reapList : ReapClose(i) \/ ReapSkip(i)

Others ==
  \/ \E h \in Handle : AddOutgoingPeer(h)
  \/ \E i \in Live : ClosePeer(i) \/ SendToPeer(i)
  \/ \E c \in closing : FinishClose(c)
  \/ \E r \in Routes : PopQueued(r)
  \/ \E on \in BOOLEAN : SetIdentityEnforcement(on)
  \/ PruneRecords

Backend ==
  \/ \E h \in Handle : AcceptConnection(h) \/ DialConnection(h) \/ ReadLoopEnds(h)
                       \/ BackendClose(h)
  \/ \E h \in Handle, state \in {"out", "gone"} : DialEnds(h, state)
  \/ \E h \in Handle, kind \in SendKinds : ReadDatagram(h, kind)

Time ==
  \/ \E i \in Live : BecomeIdle(i) \/ GraceEnds(i)
  \/ \E i \in records : RecordAges(i)

Next == Pump \/ Others \/ Backend \/ Time

Spec == Init /\ [][Next]_vars

-----------------------------------------------------------------------------
(* Properties *)

TypeOK ==
  /\ nextPeerId \in Nat \ {0}
  /\ Live \subseteq 1 .. (nextPeerId - 1)
  /\ peers \in [Live -> Peer]
  /\ byHandle \in [Handle -> Nat]
  /\ queues \in [Routes -> Seq(Datagram)]
  /\ records \subseteq Nat
  /\ aged \subseteq records
  /\ enforce \in BOOLEAN
  /\ pumpPc \in {"free", "draining", "control", "admit", "push", "reaping"}
  /\ pumpItem \in Item \cup {NoItem}
  /\ reapList \subseteq Nat
  /\ closing \subseteq [id : Nat, handle : Handle, by : {"pump", "session"}]
  /\ closeCalls \subseteq Handle
  /\ dialled \subseteq Handle
  /\ conn \in [Handle -> {"unused", "dialling", "in", "out", "closedIn", "closedOut", "gone"}]
  /\ pluginQ \in [Backends -> Seq(Packet)]
  /\ sent \in [Handle -> Nat]
  /\ lastPopped \in [Handle -> Nat]

\* g_byHandle and g_peers describe the same peers: every entry leads to a live
\* peer with that handle and every live peer is found through its handle,
\* whichever thread added or closed it (the two containers are updated in five
\* places).
HandlesMatchPeers ==
  /\ \A i \in Live : byHandle[peers[i].handle] = i
  /\ \A h \in Handle : byHandle[h] # None => byHandle[h] \in Live /\ peers[byHandle[h]].handle = h

\* An identity record never outlives its overlay peer: the record of a closed
\* mux id exists at most until the thread that erased the peer has called
\* Forget.  The pump presents identities outside g_mutex, so this rests on the
\* pump alone closing Server peers.
RecordsBelongToPeers ==
  \A i \in records : i \in Live \/ \E c \in closing : c.id = i

\* kMaxIncomingPeersPerBackend bounds what strangers can make the mux hold.
IncomingCapped ==
  \A k \in Backends : Cardinality(Incoming(k)) <= MaxIncoming

\* Why the check-then-queue of the pump is sound: a Server peer whose datagram
\* the pump carries stays registered, and a record just looked up stays.
PumpHoldsPeer ==
  pumpPc \in {"control", "admit", "push"} =>
    /\ pumpItem \in Item
    /\ pumpItem.route = "server" => /\ pumpItem.peer \in Live
                                    /\ peers[pumpItem.peer].route = "server"

CheckedStaysIdentified ==
  pumpPc = "push" /\ pumpItem.checked =>
    pumpItem.route = "server" /\ pumpItem.peer \in records \ aged

\* A peer being closed is out of the mux and its id stays used up.
ClosingIsErased ==
  \A c \in closing : c.id \in 1 .. (nextPeerId - 1) /\ c.id \notin Live

\* The inductive invariant of the proofs.
MuxInv ==
  /\ TypeOK
  /\ HandlesMatchPeers
  /\ RecordsBelongToPeers
  /\ PumpHoldsPeer
  /\ CheckedStaysIdentified
  /\ ClosingIsErased

\* The engine gets the datagrams of a connection in the order it sent them and
\* none twice, although several threads pump, a full queue drops from the front
\* and a peer may be closed and accepted again.
InOrder ==
  \A r \in Routes : \A k \in 1..Len(queues[r]) :
    /\ queues[r][k].seq > lastPopped[queues[r][k].handle]
    /\ \A l \in 1..(k - 1) : queues[r][l].handle = queues[r][k].handle
                              => queues[r][l].seq < queues[r][k].seq

\* Whatever is queued for the engine comes from a peer that is live at that
\* moment and, while identities are enforced, is then still identified: the
\* check was made outside g_mutex, and other threads close peers meanwhile.
OnlyAdmittedQueued ==
  [][pumpPc = "push" /\ pumpPc' = "draining" /\ queues' # queues
     => /\ pumpItem.peer \in Live
        /\ pumpItem.checked => pumpItem.peer \in records]_vars

\* A mux id is given to one connection, once: a fake address the engine
\* remembers never comes to mean another peer.
IdsNeverReused ==
  [][/\ nextPeerId' >= nextPeerId
     /\ \A i \in Live \cap Live' : peers'[i].handle = peers[i].handle
                                   /\ peers'[i].route = peers[i].route
     /\ \A i \in Live' \ Live : i >= nextPeerId /\ i < nextPeerId']_vars

\* Every thread that is inside the mux goes on; somebody pumps again and again
\* (the engine polls its sockets every frame), each pump drains at least the
\* first packets, and time passes, so that the reaper's turn keeps coming.
Fairness ==
  /\ WF_vars(PumpBegin) /\ SF_vars(Receive) /\ WF_vars(HandleControl) /\ WF_vars(Admit)
  /\ WF_vars(PushForEngine) /\ SF_vars(ReapCollect) /\ WF_vars(PumpEnd)
  /\ WF_vars(\E i \in reapList : ReapClose(i) \/ ReapSkip(i))
  /\ WF_vars(\E c \in closing : FinishClose(c))
  /\ \A h \in Handle : WF_vars(BackendClose(h))
  /\ \A h \in Handle : WF_vars(conn[h] \in {"closedIn", "closedOut"} /\ ReadLoopEnds(h))

FairSpec == Spec /\ Fairness

\* A peer without traffic for two minutes is closed, unless traffic resumes.
IdleReaped ==
  \A i \in 1 .. (2 * Cardinality(Handle) * MaxSend + Cardinality(Handle)) :
    (i \in Live /\ peers[i].idle) ~> ~ (i \in Live /\ peers[i].idle)

\* p2p/README.md: peers that do not identify within 20 s are closed.
UnidentifiedReaped ==
  \A i \in 1 .. (2 * Cardinality(Handle) * MaxSend + Cardinality(Handle)) :
    (i \in Live /\ NeverIdentified(i)) ~> ~ (i \in Live /\ NeverIdentified(i))

\* A connection the mux closed does not stay behind as a peer: packets that were
\* still queued may bring it back under a new id, but it leaves again for good
\* (with a plugin queue that never overflowed, else its last packet is lost).
ClosedConnectionForgotten ==
  \A h \in Handle :
    conn[h] \in {"closedIn", "closedOut"} ~> [](byHandle[h] = None)

-----------------------------------------------------------------------------
(* The mux implements the registry of p2p_mux.h: an id is open while its peer *)
(* is in g_peers, and attested while it also has an identity record.          *)

Registry == INSTANCE PeerRegistry WITH
  open <- [i \in Live |-> peers[i].handle],
  attested <- records \cap Live,
  nextId <- nextPeerId

\* Every step of any thread is a step of the registry or invisible to it.
ImplementsRegistry == Registry!Spec

=============================================================================
