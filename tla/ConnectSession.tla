--------------------------- MODULE ConnectSession ---------------------------
(***************************************************************************)
(* delta_connect (p2p/p2p_connect.cpp): connection attempts as the player  *)
(* makes them.  Each attempt has a session thread (RunSession); each of    *)
(* its overlay candidates is prepared by a detached thread                 *)
(* (PrepareOverlay) that opens a peer in the multiplexer.  The engine      *)
(* thread starts attempts; a newer attempt supersedes the older ones,      *)
(* which notice it where they call StillCurrent.                           *)
(*                                                                         *)
(* The multiplexer is the one PeerRegistry specifies and OverlayMux        *)
(* implements.  How a route is measured is the subject of RouteProbe; here *)
(* a candidate answers or not.                                             *)
(***************************************************************************)
EXTENDS Naturals, Sequences, FiniteSets

CONSTANTS
  MaxAttempts,  \* bound: attempts the player makes
  UdpCand,      \* candidates probed over UDP (direct, LAN, TURN, ...)
  EosCand,      \* candidates that need the EOS SDK
  OverlayCand   \* candidates that need a plugin and a peer of the mux

Attempt == 1 .. MaxAttempts
Cand == UdpCand \cup EosCand \cup OverlayCand
Handle == Attempt \X OverlayCand
NoPeer == 0

ASSUME ConnectAssumption ==
  /\ MaxAttempts \in Nat
  /\ UdpCand \cap (EosCand \cup OverlayCand) = {} /\ EosCand \cap OverlayCand = {}
  /\ {"none", "fallback"} \cap Cand = {}

VARIABLES
  generation,  \* g_generation
  active,      \* g_activeOverlayPeer
  engine,      \* the engine thread inside ConnectBest / ConnectOverlay; kind: of the last attempt
  pc,          \* where the thread of each session is
  sock,        \* the probe socket: the engine's, or a private one
  cand,        \* candidates of each session: [state, muxId]
  prep,        \* the PrepareOverlay threads: [at, peer]
  timeUp,      \* the overall deadline of a session has passed
  toClose,     \* mux ids a session thread has collected for ClosePeer
  plan,        \* the candidate a session chose, "fallback" or "none"
  cmds,        \* attempts in whose name Cbuf_AddText was called
  excused,     \* history: ids that escaped, see Explained
  open, attested, nextId  \* the multiplexer

registryVars == <<open, attested, nextId>>
engineVars == <<generation, engine>>
vars == <<generation, active, engine, pc, sock, cand, prep, timeUp, toClose, plan,
          cmds, excused, open, attested, nextId>>

Registry == INSTANCE PeerRegistry

-----------------------------------------------------------------------------
Absent == [state |-> "absent", muxId |-> NoPeer]
CandStates == {"absent", "preparing", "probing", "answered", "failed"}
Idle == [at |-> "idle", kind |-> "none", prev |-> NoPeer]

Init ==
  /\ generation = 0
  /\ active = NoPeer
  /\ engine = Idle
  /\ pc = [g \in Attempt |-> "none"]
  /\ sock = [g \in Attempt |-> "none"]
  /\ cand = [g \in Attempt |-> [c \in Cand |-> Absent]]
  /\ prep = [g \in Attempt |-> [c \in Cand |-> [at |-> "none", peer |-> NoPeer]]]
  /\ timeUp = [g \in Attempt |-> FALSE]
  /\ toClose = [g \in Attempt |-> {}]
  /\ plan = [g \in Attempt |-> "none"]
  /\ cmds = <<>>
  /\ excused = {}
  /\ Registry!Init

StillCurrent(g) == generation = g

\* g_session: the session created last.
CurrentSession(g) == pc[g] # "none" /\ \A h \in Attempt : h > g => pc[h] = "none"

\* p2p_mux.h ClosePeer: an id that is not open any more is ignored.
ClosePeer(i) == IF i \in DOMAIN open THEN Registry!Close(i) ELSE UNCHANGED registryVars

\* closesocket, if the socket is a private one.
ReleaseSocket(g) == [sock EXCEPT ![g] = IF @ = "open" THEN "closed" ELSE @]

MuxIds(g) == {cand[g][c].muxId : c \in Cand} \ {NoPeer}
Chosen(g) == IF plan[g] \in OverlayCand THEN cand[g][plan[g]].muxId ELSE NoPeer

-----------------------------------------------------------------------------
(* The engine thread *)

\* ConnectBest for a target without routes ("plain") bumps the generation
\* first; the other two kinds go through NewSession.
StartAttempt(kind) ==
  /\ engine.at = "idle"
  /\ generation < MaxAttempts
  /\ kind = "overlay" => OverlayCand # {}
  /\ engine' = [at |-> "release", kind |-> kind, prev |-> NoPeer]
  /\ generation' = IF kind = "plain" THEN generation + 1 ELSE generation
  /\ UNCHANGED <<active, pc, sock, cand, prep, timeUp, toClose, plan, cmds, excused, registryVars>>

\* ReleaseActiveOverlay, under g_mutex ...
TakeActive ==
  /\ engine.at = "release"
  /\ engine' = [engine EXCEPT !.at = "close", !.prev = active]
  /\ active' = NoPeer
  /\ UNCHANGED <<generation, pc, sock, cand, prep, timeUp, toClose, plan, cmds, excused, registryVars>>

\* Mutant: the previous route is only forgotten.
CloseActive_Forgotten ==
  /\ engine.at = "close"
  /\ engine' = [engine EXCEPT !.at = "start", !.prev = NoPeer]
  /\ UNCHANGED <<generation, active, pc, sock, cand, prep, timeUp, toClose, plan, cmds, excused, registryVars>>

\* ... and after it.
CloseActive ==
  /\ engine.at = "close"
  /\ engine' = [engine EXCEPT !.at = "start", !.prev = NoPeer]
  /\ ClosePeer(engine.prev)
  /\ UNCHANGED <<generation, active, pc, sock, cand, prep, timeUp, toClose, plan, cmds, excused>>

\* "plain": straight to the engine.
ConnectPlain ==
  /\ engine.at = "start"
  /\ engine.kind = "plain"
  /\ engine' = [engine EXCEPT !.at = "idle"]
  /\ cmds' = Append(cmds, generation)
  /\ UNCHANGED <<generation, active, pc, sock, cand, prep, timeUp, toClose, plan, excused, registryVars>>

\* The rest of NewSession.  Without an engine socket the session gets its own.
CreateSession ==
  /\ engine.at = "start"
  /\ engine.kind # "plain"
  /\ engine' = [engine EXCEPT !.at = "idle"]
  /\ generation' = generation + 1
  /\ pc' = [pc EXCEPT ![generation'] = IF engine.kind = "best" THEN "query" ELSE "attest"]
  /\ \E s \in {"engine", "open"} : sock' = [sock EXCEPT ![generation'] = s]
  /\ UNCHANGED <<active, cand, prep, timeUp, toClose, plan, cmds, excused, registryVars>>

-----------------------------------------------------------------------------
(* PrepareOverlay *)

\* Without a peer of the mux: a registered EOS peer is probed; any preparation may fail.
PrepareEnds(g, c) ==
  /\ prep[g][c].at = "working"
  /\ prep' = [prep EXCEPT ![g][c].at = "done"]
  /\ \E state \in IF c \in EosCand THEN {"probing", "failed"} ELSE {"failed"} :
       cand' = [cand EXCEPT ![g][c].state = state]
  /\ UNCHANGED <<engineVars, active, pc, sock, timeUp, toClose, plan, cmds, excused, registryVars>>

\* plugin.Connect returned a handle: AddOutgoingPeer.
PrepareOpens(g, c) ==
  /\ prep[g][c].at = "working"
  /\ c \in OverlayCand
  /\ Registry!Open(<<g, c>>, FALSE)
  /\ prep' = [prep EXCEPT ![g][c] = [at |-> "opened", peer |-> nextId]]
  /\ UNCHANGED <<engineVars, active, pc, sock, cand, timeUp, toClose, plan, cmds, excused>>

\* c.muxId = muxId, under the session's mutex.  Nobody asks whether the session
\* still wants it.
PrepareRecords(g, c) ==
  /\ prep[g][c].at = "opened"
  /\ prep' = [prep EXCEPT ![g][c].at = "done"]
  /\ cand' = [cand EXCEPT ![g][c].muxId = prep[g][c].peer]
  /\ excused' = IF pc[g] \in {"probing", "pick"} THEN excused ELSE excused \cup {prep[g][c].peer}
  /\ UNCHANGED <<engineVars, active, pc, sock, timeUp, toClose, plan, cmds, registryVars>>

-----------------------------------------------------------------------------
(* The session thread: RunSession and the lambdas that call it *)

\* Mutant: the private socket is not closed.
GiveUpEarly_KeepsSocket(g) ==
  /\ pc[g] \in {"query", "attest"}
  /\ ~ StillCurrent(g)
  /\ pc' = [pc EXCEPT ![g] = "done"]
  /\ UNCHANGED <<engineVars, active, sock, cand, prep, timeUp, toClose, plan, cmds, excused, registryVars>>

\* The master answered (or not) and the attempt is superseded.
GiveUpEarly(g) ==
  /\ pc[g] \in {"query", "attest"}
  /\ ~ StillCurrent(g)
  /\ pc' = [pc EXCEPT ![g] = "done"]
  /\ sock' = ReleaseSocket(g)
  /\ UNCHANGED <<engineVars, active, cand, prep, timeUp, toClose, plan, cmds, excused, registryVars>>

\* The server offers no routes: behave like "connect".
NoRoutes(g) ==
  /\ pc[g] = "query"
  /\ StillCurrent(g)
  /\ pc' = [pc EXCEPT ![g] = "publish"]
  /\ sock' = ReleaseSocket(g)
  /\ plan' = [plan EXCEPT ![g] = "fallback"]
  /\ UNCHANGED <<engineVars, active, cand, prep, timeUp, toClose, cmds, excused, registryVars>>

\* BuildCandidates: the UDP ones can be probed at once, the others are prepared.
\* A session for an overlay address has only that candidate.
StartProbing(g) ==
  /\ pc[g] \in {"query", "attest"}
  /\ StillCurrent(g)
  /\ \E S \in SUBSET Cand :
       /\ pc[g] = "query" => UdpCand \cap S # {}
       /\ pc[g] = "attest" => S \subseteq OverlayCand /\ Cardinality(S) = 1
       /\ cand' = [cand EXCEPT ![g] = [c \in Cand |->
                     [state |-> IF c \notin S THEN "absent"
                                ELSE IF c \in UdpCand THEN "probing" ELSE "preparing",
                      muxId |-> NoPeer]]]
       /\ prep' = [prep EXCEPT ![g] = [c \in Cand |->
                     [at |-> IF c \in S \ UdpCand THEN "working" ELSE "none", peer |-> NoPeer]]]
       /\ plan' = [plan EXCEPT ![g] = IF pc[g] = "query" THEN "fallback" ELSE "none"]
  /\ pc' = [pc EXCEPT ![g] = "probing"]
  /\ UNCHANGED <<engineVars, active, sock, timeUp, toClose, cmds, excused, registryVars>>

\* PeerStatus of a plugin connection, asked once its handle is recorded.
PollStatus(g, c, state) ==
  /\ pc[g] = "probing"
  /\ c \in OverlayCand
  /\ prep[g][c].at = "done"
  /\ cand[g][c].state \in (IF state = "probing" THEN {"preparing"}
                           ELSE {"preparing", "probing", "answered"})
  /\ cand' = [cand EXCEPT ![g][c].state = state]
  /\ UNCHANGED <<engineVars, active, pc, sock, prep, timeUp, toClose, plan, cmds, excused, registryVars>>

\* ClientOnPong, on whatever thread reads the packet: only the session created
\* last listens.
Pong(g, c) ==
  /\ pc[g] \in {"probing", "pick"}
  /\ CurrentSession(g)
  /\ cand[g][c].state = "probing"
  /\ cand' = [cand EXCEPT ![g][c].state = "answered"]
  /\ UNCHANGED <<engineVars, active, pc, sock, prep, timeUp, toClose, plan, cmds, excused, registryVars>>

\* The window of a candidate is over.
NoAnswer(g, c) ==
  /\ pc[g] = "probing"
  /\ cand[g][c].state = "probing"
  /\ cand' = [cand EXCEPT ![g][c].state = "failed"]
  /\ UNCHANGED <<engineVars, active, pc, sock, prep, timeUp, toClose, plan, cmds, excused, registryVars>>

Deadline(g) ==
  /\ pc[g] = "probing"
  /\ ~ timeUp[g]
  /\ timeUp' = [timeUp EXCEPT ![g] = TRUE]
  /\ UNCHANGED <<engineVars, active, pc, sock, cand, prep, toClose, plan, cmds, excused, registryVars>>

\* Mutant: the deadline is not looked at.
ProbeEnds_NoDeadline(g) ==
  /\ pc[g] = "probing"
  /\ StillCurrent(g)
  /\ \A c \in Cand : cand[g][c].state \in {"absent", "answered", "failed"}
  /\ pc' = [pc EXCEPT ![g] = "pick"]
  /\ UNCHANGED <<engineVars, active, sock, cand, prep, timeUp, toClose, plan, cmds, excused, registryVars>>

\* Everything measured, or the deadline passed; StillCurrent said yes.
ProbeEnds(g) ==
  /\ pc[g] = "probing"
  /\ StillCurrent(g)
  /\ timeUp[g] \/ \A c \in Cand : cand[g][c].state \in {"absent", "answered", "failed"}
  /\ pc' = [pc EXCEPT ![g] = "pick"]
  /\ UNCHANGED <<engineVars, active, sock, cand, prep, timeUp, toClose, plan, cmds, excused, registryVars>>

\* StillCurrent said no, in the loop or after it.
Superseded(g) ==
  /\ pc[g] = "probing"
  /\ ~ StillCurrent(g)
  /\ pc' = [pc EXCEPT ![g] = "cleanup"]
  /\ toClose' = [toClose EXCEPT ![g] = MuxIds(g)]
  /\ UNCHANGED <<engineVars, active, sock, cand, prep, timeUp, plan, cmds, excused, registryVars>>

\* Mutants: the winner is among the losers; a failed overlay candidate is not.
Losers_All(g, c) == MuxIds(g)
Losers_Answered(g, c) == {cand[g][d].muxId : d \in {d \in Cand \ {c} : cand[g][d].state # "failed"}} \ {NoPeer}

\* Peers of the candidates that were not chosen.
Losers(g, c) == {cand[g][d].muxId : d \in Cand \ {c}} \ {NoPeer}

\* One critical section of the session's mutex (and g_mutex): the best answered
\* candidate, if there is one, wins.
PickWinner(g) ==
  /\ pc[g] = "pick"
  /\ LET answered == {c \in Cand : cand[g][c].state = "answered"}
     IN  IF answered = {}
         THEN /\ toClose' = [toClose EXCEPT ![g] = Losers(g, "none")]
              /\ UNCHANGED <<plan, active, excused>>
         ELSE \E c \in answered :
                /\ plan' = [plan EXCEPT ![g] = c]
                /\ toClose' = [toClose EXCEPT ![g] = Losers(g, c)]
                /\ IF c \in OverlayCand
                   THEN /\ active' = cand[g][c].muxId
                        /\ excused' = excused \cup {active}
                   ELSE UNCHANGED <<active, excused>>
  /\ pc' = [pc EXCEPT ![g] = "losers"]
  /\ UNCHANGED <<engineVars, sock, cand, prep, timeUp, cmds, registryVars>>

CloseCollected(g, i) ==
  /\ pc[g] \in {"losers", "cleanup"}
  /\ i \in toClose[g]
  /\ toClose' = [toClose EXCEPT ![g] = @ \ {i}]
  /\ ClosePeer(i)
  /\ UNCHANGED <<engineVars, active, pc, sock, cand, prep, timeUp, plan, cmds, excused>>

CleanupDone(g) ==
  /\ pc[g] = "cleanup"
  /\ toClose[g] = {}
  /\ pc' = [pc EXCEPT ![g] = "done"]
  /\ sock' = ReleaseSocket(g)
  /\ UNCHANGED <<engineVars, active, cand, prep, timeUp, toClose, plan, cmds, excused, registryVars>>

\* Mutant: the socket goes before the identity exchange.
LosersClosed_NoSocket(g) ==
  /\ pc[g] = "losers"
  /\ toClose[g] = {}
  /\ pc' = [pc EXCEPT ![g] = "identify"]
  /\ sock' = ReleaseSocket(g)
  /\ UNCHANGED <<engineVars, active, cand, prep, timeUp, toClose, plan, cmds, excused, registryVars>>

LosersClosed(g) ==
  /\ pc[g] = "losers"
  /\ toClose[g] = {}
  /\ pc' = [pc EXCEPT ![g] = "identify"]
  /\ UNCHANGED <<engineVars, active, sock, cand, prep, timeUp, toClose, plan, cmds, excused, registryVars>>

\* Mutant: only a measured route is worth a command.
IdentifyEnds_NoFallback(g) ==
  /\ pc[g] = "identify"
  /\ pc' = [pc EXCEPT ![g] = IF plan[g] \in Cand THEN "publish" ELSE "done"]
  /\ sock' = ReleaseSocket(g)
  /\ UNCHANGED <<engineVars, active, cand, prep, timeUp, toClose, plan, cmds, excused, registryVars>>

\* IDENTIFY over the chosen route until it is acknowledged, 1.5 s passed or the
\* attempt is superseded; then the private socket has served its purpose.
IdentifyEnds(g) ==
  /\ pc[g] = "identify"
  /\ pc' = [pc EXCEPT ![g] = IF plan[g] = "none" THEN "done" ELSE "publish"]
  /\ sock' = ReleaseSocket(g)
  /\ UNCHANGED <<engineVars, active, cand, prep, timeUp, toClose, plan, cmds, excused, registryVars>>

\* The last StillCurrent ...
CheckCurrent(g) ==
  /\ pc[g] = "publish"
  /\ pc' = [pc EXCEPT ![g] = IF StillCurrent(g) THEN "command" ELSE "done"]
  /\ UNCHANGED <<engineVars, active, sock, cand, prep, timeUp, toClose, plan, cmds, excused, registryVars>>

\* ... and the command.
Command(g) ==
  /\ pc[g] = "command"
  /\ pc' = [pc EXCEPT ![g] = "done"]
  /\ cmds' = Append(cmds, g)
  /\ UNCHANGED <<engineVars, active, sock, cand, prep, timeUp, toClose, plan, excused, registryVars>>

\* The remote side, or the reaper of the mux, closes a peer.
PeerLost(i) ==
  /\ Registry!Close(i)
  /\ UNCHANGED <<engineVars, active, pc, sock, cand, prep, timeUp, toClose, plan, cmds, excused>>

-----------------------------------------------------------------------------
Engine ==
  \/ \E kind \in {"plain", "best", "overlay"} : StartAttempt(kind)
  \/ TakeActive \/ CloseActive \/ ConnectPlain \/ CreateSession

Prepare(g) ==
  \E c \in Cand : PrepareEnds(g, c) \/ PrepareOpens(g, c) \/ PrepareRecords(g, c)

Measure(g) ==
  \E c \in Cand : \/ Pong(g, c) \/ NoAnswer(g, c)
                  \/ \E state \in {"probing", "failed"} : PollStatus(g, c, state)

Thread(g) ==
  \/ GiveUpEarly(g) \/ NoRoutes(g) \/ StartProbing(g) \/ ProbeEnds(g) \/ Superseded(g)
  \/ PickWinner(g) \/ CleanupDone(g) \/ LosersClosed(g) \/ IdentifyEnds(g) \/ CheckCurrent(g)
  \/ Command(g)
  \/ \E i \in toClose[g] : CloseCollected(g, i)

Next ==
  \/ Engine
  \/ \E g \in Attempt : Prepare(g) \/ Measure(g) \/ Deadline(g) \/ Thread(g)
  \/ \E i \in DOMAIN open : PeerLost(i)

Spec == Init /\ [][Next]_vars

-----------------------------------------------------------------------------
(* Properties *)

Pcs == {"none", "query", "attest", "probing", "pick", "losers", "cleanup", "identify",
        "publish", "command", "done"}

TypeOK ==
  /\ generation \in 0 .. MaxAttempts
  /\ active \in 0 .. nextId - 1
  /\ engine \in [at : {"idle", "release", "close", "start"},
                 kind : {"none", "plain", "best", "overlay"}, prev : 0 .. nextId - 1]
  /\ pc \in [Attempt -> Pcs]
  /\ sock \in [Attempt -> {"none", "engine", "open", "closed"}]
  /\ cand \in [Attempt -> [Cand -> [state : CandStates, muxId : 0 .. nextId - 1]]]
  /\ prep \in [Attempt -> [Cand -> [at : {"none", "working", "opened", "done"},
                                     peer : 0 .. nextId - 1]]]
  /\ timeUp \in [Attempt -> BOOLEAN]
  /\ toClose \in [Attempt -> SUBSET (1 .. nextId - 1)]
  /\ plan \in [Attempt -> Cand \cup {"none", "fallback"}]
  /\ cmds \in Seq(Attempt)
  /\ excused \subseteq 0 .. nextId - 1

\* A private probe socket is closed on every way a session can end, and not
\* before the identity exchange that still sends through it is over.
ProbeSocketLifetime ==
  \A g \in Attempt :
    /\ pc[g] = "done" => sock[g] # "open"
    /\ pc[g] \in {"query", "attest", "probing", "pick", "losers", "identify"}
         => sock[g] \in {"engine", "open"}

\* No thread of delta_connect has anything left to do.
Quiet ==
  /\ engine.at = "idle"
  /\ \A g \in Attempt : /\ pc[g] \in {"none", "done"}
                        /\ \A c \in Cand : prep[g][c].at \notin {"working", "opened"}

\* When everything is over, the only overlay peer left is the route of the
\* connection, except for those the code is known to lose: a peer whose
\* PrepareOverlay came after its session had collected what to close, and a
\* recorded route that another session overwrote with its own.
Explained ==
  Quiet => DOMAIN open \subseteq {active} \cup excused

\* Whatever happened to the probes, the player's latest "connect" or
\* "delta_connect <ip>" has reached the engine exactly once in the end: older
\* attempts neither swallow it nor does the fallback double it.
LatestAttemptConnects ==
  Quiet /\ engine.kind \in {"plain", "best"} =>
    Cardinality({n \in DOMAIN cmds : cmds[n] = generation}) = 1

\* The route a session has chosen, and later told the engine to use, is closed
\* by nobody but the remote side as long as no newer attempt began: neither by
\* the session's own clean-up nor by that of the sessions it superseded.
ChosenRouteKept ==
  [][\A g \in Attempt :
       (/\ StillCurrent(g) /\ engine.at = "idle"
        /\ Chosen(g) \in DOMAIN open) =>
          \/ Chosen(g) \in DOMAIN open'
          \/ PeerLost(Chosen(g))]_vars

\* "A new connection attempt replaces whatever overlay route the previous
\* connection used" (p2p_connect.cpp:863): once NewSession has returned, the
\* recorded route is not that of an older attempt.
NoOlderRoute ==
  engine.at = "idle" /\ active \in DOMAIN open => open[active][1] = generation

\* Session threads, timers and the engine thread go on.  The threads of
\* PrepareOverlay may hang in a plugin for good.
Fairness ==
  /\ WF_vars(TakeActive) /\ WF_vars(CloseActive) /\ WF_vars(ConnectPlain) /\ WF_vars(CreateSession)
  /\ \A g \in Attempt : WF_vars(Deadline(g)) /\ WF_vars(Thread(g))

FairSpec == Spec /\ Fairness

\* Every attempt comes to an end, whatever the plugins, the network and the
\* player do.
AttemptEnds == \A g \in Attempt : pc[g] # "none" ~> pc[g] = "done"

=============================================================================
