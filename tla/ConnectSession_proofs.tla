------------------------ MODULE ConnectSession_proofs ------------------------
(***************************************************************************)
(* Proofs about ConnectSession for any number of attempts and candidates:  *)
(* what becomes of the probe socket, of the peers opened in the            *)
(* multiplexer and of the command that tells the engine to connect.        *)
(***************************************************************************)
EXTENDS ConnectSession, FiniteSetTheorems, TLAPS

CandRec == [state : CandStates, muxId : Nat]
PrepRec == [at : {"none", "working", "opened", "done"}, peer : Nat]

-----------------------------------------------------------------------------
(* The inductive invariant *)

Types ==
  /\ generation \in 0 .. MaxAttempts
  /\ active \in Nat
  /\ engine \in [at : {"idle", "release", "close", "start"},
                 kind : {"none", "plain", "best", "overlay"}, prev : Nat]
  /\ pc \in [Attempt -> Pcs]
  /\ sock \in [Attempt -> {"none", "engine", "open", "closed"}]
  /\ cand \in [Attempt -> [Cand -> CandRec]]
  /\ prep \in [Attempt -> [Cand -> PrepRec]]
  /\ timeUp \in [Attempt -> BOOLEAN]
  /\ toClose \in [Attempt -> SUBSET Nat]
  /\ plan \in [Attempt -> Cand \cup {"none", "fallback"}]
  /\ cmds \in Seq(Attempt)
  /\ excused \subseteq Nat
  /\ nextId \in Nat \ {0}

\* Ids that somebody remembers have been given out.
Past ==
  /\ active < nextId /\ engine.prev < nextId
  /\ \A i \in DOMAIN open : i \in Nat \ {0} /\ i < nextId
  /\ \A g \in Attempt, c \in Cand : prep[g][c].peer < nextId
  /\ \A i \in excused : i < nextId

\* Attempts to come have no session, and the engine has one left for the attempt
\* it is starting.
Attempts ==
  /\ \A g \in Attempt : g > generation => pc[g] = "none"
  /\ engine.at # "idle" =>
       IF engine.kind = "plain" THEN generation \in Attempt /\ pc[generation] = "none"
       ELSE engine.kind # "none" /\ generation < MaxAttempts

\* A session that has given its socket back does not have it any more.
Sockets ==
  \A g \in Attempt :
    /\ pc[g] \in {"publish", "command", "done"} => sock[g] # "open"
    /\ pc[g] \in {"query", "attest", "probing", "pick", "losers", "identify"}
         => sock[g] \in {"engine", "open"}

\* A candidate's peer is the one its preparation opened, once that has recorded it;
\* no two preparations open the same.
Recorded ==
  \A g \in Attempt, c \in Cand :
    /\ cand[g][c].muxId = IF prep[g][c].at = "done" THEN prep[g][c].peer ELSE NoPeer
    /\ prep[g][c].at \in {"none", "working"} \/ c \notin OverlayCand => prep[g][c].peer = NoPeer
    /\ pc[g] \in {"none", "query", "attest"} => prep[g][c].at = "none"

Unique ==
  \A g, h \in Attempt, c, d \in Cand :
    prep[g][c].peer = prep[h][d].peer /\ prep[g][c].peer # NoPeer => g = h /\ c = d

\* Nothing is chosen before the winner is picked, and what is closed then is not it.
Early == {"none", "query", "attest", "probing", "pick", "cleanup"}
Collected ==
  \A g \in Attempt :
    /\ pc[g] \in Early => plan[g] \notin Cand
    /\ pc[g] \notin {"losers", "cleanup"} => toClose[g] = {}
    /\ \A i \in toClose[g] : i # NoPeer /\ \E d \in Cand \ {plan[g]} : i = cand[g][d].muxId

\* Somebody will close each open peer, or it is the active route, or it escaped.
HeldBy(i) ==
  \/ i = active \/ i \in excused
  \/ engine.at = "close" /\ i = engine.prev
  \/ \E g \in Attempt, c \in Cand : prep[g][c].at = "opened" /\ prep[g][c].peer = i
  \/ \E g \in Attempt, c \in Cand : pc[g] \in {"probing", "pick"} /\ cand[g][c].muxId = i
  \/ \E g \in Attempt : i \in toClose[g]
Held == \A i \in DOMAIN open : HeldBy(i)

\* Nobody's command is repeated, an ended attempt that asked for the engine's own way
\* has got its command, and a running one still comes to it.
Commands ==
  /\ \A n \in DOMAIN cmds : cmds[n] <= generation /\ pc[cmds[n]] \in {"none", "done"}
  /\ \A m, n \in DOMAIN cmds : cmds[m] = cmds[n] => m = n
  /\ engine.kind = "plain" =>
       IF engine.at = "idle" THEN \E n \in DOMAIN cmds : cmds[n] = generation
       ELSE \A n \in DOMAIN cmds : cmds[n] # generation
  /\ engine.at = "idle" /\ engine.kind = "best" =>
       /\ generation \in Attempt
       /\ pc[generation] \in Pcs \ {"none", "attest", "cleanup"}
       /\ pc[generation] = "done" => \E n \in DOMAIN cmds : cmds[n] = generation
       /\ pc[generation] \in {"probing", "pick", "losers", "identify"} =>
            plan[generation] # "none"

ConnectInv ==
  Types /\ Past /\ Attempts /\ Sockets /\ Recorded /\ Unique /\ Collected /\ Held /\ Commands


-----------------------------------------------------------------------------
(* Steps *)

USE ConnectAssumption DEF Attempt, NoPeer, engineVars, registryVars

LEMMA Closed ==
  ASSUME NEW i, ClosePeer(i) \/ Registry!Close(i)
  PROVE  nextId' = nextId /\ DOMAIN open' \subseteq DOMAIN open /\ i \notin DOMAIN open'
         /\ \A j \in DOMAIN open : j # i => j \in DOMAIN open'
BY DEF ClosePeer, Registry!Close, Registry!Restrict

LEMMA Appended ==
  ASSUME NEW S, NEW s \in Seq(S), NEW e \in S
  PROVE  /\ Append(s, e) \in Seq(S)
         /\ DOMAIN Append(s, e) = DOMAIN s \cup {Len(s) + 1}
         /\ Len(s) + 1 \notin DOMAIN s
         /\ Append(s, e)[Len(s) + 1] = e
         /\ \A n \in DOMAIN s : Append(s, e)[n] = s[n]
OBVIOUS

\* A candidate gets another state.
LEMMA StateSet ==
  ASSUME Types, NEW g \in Attempt, NEW c \in Cand, NEW s \in CandStates,
         cand' = [cand EXCEPT ![g][c].state = s]
  PROVE  /\ cand' \in [Attempt -> [Cand -> CandRec]]
         /\ \A h \in Attempt, d \in Cand : cand'[h][d].muxId = cand[h][d].muxId
<1>1. cand \in [Attempt -> [Cand -> CandRec]]
  BY DEF Types
<1>2. cand[g] \in [Cand -> CandRec] /\ cand[g][c] \in CandRec
  BY <1>1
<1> DEFINE r == [cand[g][c] EXCEPT !.state = s]
<1>3. r \in CandRec /\ r.muxId = cand[g][c].muxId
  BY <1>2 DEF CandRec
<1> DEFINE f == [cand[g] EXCEPT ![c] = r]
<1>4. f \in [Cand -> CandRec] /\ \A d \in Cand : f[d].muxId = cand[g][d].muxId
  BY <1>2, <1>3
<1>5. cand' = [cand EXCEPT ![g] = f]
  OBVIOUS
<1> HIDE DEF f
<1> QED BY <1>1, <1>4, <1>5

\* A preparation ends without another peer.
EndsPreparation(g, c) ==
  /\ prep' \in [Attempt -> [Cand -> PrepRec]]
  /\ \A h \in Attempt, d \in Cand :
       /\ prep'[h][d].peer = prep[h][d].peer
       /\ prep'[h][d].at = IF h = g /\ d = c THEN "done" ELSE prep[h][d].at

LEMMA PrepareDone ==
  ASSUME Types, NEW g \in Attempt, NEW c \in Cand,
         prep' = [prep EXCEPT ![g][c].at = "done"]
  PROVE  EndsPreparation(g, c)
<1>1. prep \in [Attempt -> [Cand -> PrepRec]]
  BY DEF Types
<1>2. prep[g] \in [Cand -> PrepRec] /\ prep[g][c] \in PrepRec
  BY <1>1
<1> DEFINE r == [prep[g][c] EXCEPT !.at = "done"]
<1>3. r \in PrepRec /\ r.peer = prep[g][c].peer /\ r.at = "done"
  BY <1>2 DEF PrepRec
<1> DEFINE f == [prep[g] EXCEPT ![c] = r]
<1>4. /\ f \in [Cand -> PrepRec]
      /\ \A d \in Cand : f[d].peer = prep[g][d].peer /\ f[d].at = IF d = c THEN "done" ELSE prep[g][d].at
  <2> HIDE DEF r
  <2> QED BY <1>2, <1>3
<1>5. prep' = [prep EXCEPT ![g] = f]
  OBVIOUS
<1> HIDE DEF f
<1> QED BY <1>1, <1>4, <1>5 DEF EndsPreparation

\* Who holds a peer goes on holding it.
LEMMA HoldersStay ==
  ASSUME Past, Held, DOMAIN open' \subseteq DOMAIN open,
         active' = active, excused \subseteq excused',
         engine.at = "close" /\ engine.prev \in DOMAIN open' =>
           engine'.at = "close" /\ engine'.prev = engine.prev,
         \A g \in Attempt, c \in Cand :
           prep[g][c].at = "opened" =>
             prep'[g][c].at = "opened" /\ prep'[g][c].peer = prep[g][c].peer,
         \A g \in Attempt, c \in Cand :
           pc[g] \in {"probing", "pick"} =>
             pc'[g] \in {"probing", "pick"} /\ cand'[g][c].muxId = cand[g][c].muxId,
         \A g \in Attempt, i \in DOMAIN open' : i \in toClose[g] => i \in toClose'[g]
  PROVE  Held'
<1> SUFFICES ASSUME NEW i \in DOMAIN open' PROVE HeldBy(i)'
  BY DEF Held
<1>1. HeldBy(i)
  BY DEF Held
<1> QED BY <1>1 DEF HeldBy

LEMMA StartAttemptKeeps ==
  ASSUME ConnectInv, NEW kind \in {"plain", "best", "overlay"},
         StartAttempt(kind)
  PROVE  ConnectInv'
<1> USE DEF ConnectInv, StartAttempt
<1>1. Types' BY DEF Types
<1>2. Past' BY DEF Past, Types
<1>3. Attempts' BY DEF Attempts, Types
<1>4. Sockets' BY DEF Sockets
<1>5. Recorded' BY DEF Recorded
<1>6. Unique' BY DEF Unique
<1>7. Collected' BY DEF Collected
<1>8. Held'
  BY HoldersStay DEF Types, Collected
<1>9. Commands' BY DEF Commands, Types
<1> QED BY <1>1, <1>2, <1>3, <1>4, <1>5, <1>6, <1>7, <1>8, <1>9

LEMMA TakeActiveKeeps ==
  ASSUME ConnectInv,
         TakeActive
  PROVE  ConnectInv'
<1> USE DEF ConnectInv, TakeActive
<1>1. Types' BY DEF Types
<1>2. Past' BY DEF Past, Types
<1>3. Attempts' BY DEF Attempts
<1>4. Sockets' BY DEF Sockets
<1>5. Recorded' BY DEF Recorded
<1>6. Unique' BY DEF Unique
<1>7. Collected' BY DEF Collected
<1>8. Held'
  <2> SUFFICES ASSUME NEW i \in DOMAIN open' PROVE HeldBy(i)'
    BY DEF Held
  <2>1. HeldBy(i)
    BY DEF Held
  <2>2. engine.at = "release" /\ engine'.at = "close" /\ engine'.prev = active
    BY DEF Types
  <2> QED BY <2>1, <2>2 DEF HeldBy
<1>9. Commands' BY DEF Commands
<1> QED BY <1>1, <1>2, <1>3, <1>4, <1>5, <1>6, <1>7, <1>8, <1>9

LEMMA CloseActiveKeeps ==
  ASSUME ConnectInv,
         CloseActive
  PROVE  ConnectInv'
<1> USE DEF ConnectInv, CloseActive
<1>0. /\ nextId' = nextId /\ DOMAIN open' \subseteq DOMAIN open
      /\ engine.prev \notin DOMAIN open'
  BY Closed
<1>1. Types' BY <1>0 DEF Types
<1>2. Past' BY <1>0 DEF Past, Types
<1>3. Attempts' BY DEF Attempts
<1>4. Sockets' BY DEF Sockets
<1>5. Recorded' BY DEF Recorded
<1>6. Unique' BY DEF Unique
<1>7. Collected' BY DEF Collected
<1>8. Held'
  BY <1>0, HoldersStay DEF Types, Collected
<1>9. Commands' BY DEF Commands
<1> QED BY <1>1, <1>2, <1>3, <1>4, <1>5, <1>6, <1>7, <1>8, <1>9

LEMMA ConnectPlainKeeps ==
  ASSUME ConnectInv,
         ConnectPlain
  PROVE  ConnectInv'
<1> USE DEF ConnectInv, ConnectPlain
<1>a. generation \in Attempt /\ pc[generation] = "none" /\ cmds \in Seq(Attempt)
  BY DEF Attempts, Types
<1>b. cmds' = Append(cmds, generation) /\ generation' = generation /\ pc' = pc
  OBVIOUS
<1>c. engine'.at = "idle" /\ engine'.kind = "plain"
  BY DEF Types
<1>1. Types'
  <2>1. cmds' \in Seq(Attempt)
    BY <1>a, <1>b, Appended
  <2>2. engine' \in [at : {"idle", "release", "close", "start"},
                    kind : {"none", "plain", "best", "overlay"}, prev : Nat]
    BY DEF Types
  <2>3. UNCHANGED <<generation, active, pc, sock, cand, prep, timeUp, toClose, plan, excused, nextId>>
    OBVIOUS
  <2> HIDE DEF ConnectPlain
  <2> QED BY <2>1, <2>2, <2>3 DEF Types
<1>2. Past' BY DEF Past
<1>3. Attempts' BY DEF Attempts
<1>4. Sockets' BY DEF Sockets
<1>5. Recorded' BY DEF Recorded
<1>6. Unique' BY DEF Unique
<1>7. Collected' BY DEF Collected
<1>8. Held'
  BY HoldersStay DEF Types, Collected
<1>9. Commands'
  <2>1. /\ DOMAIN cmds' = DOMAIN cmds \cup {Len(cmds) + 1}
        /\ cmds'[Len(cmds) + 1] = generation
        /\ \A n \in DOMAIN cmds : cmds'[n] = cmds[n] /\ cmds[n] # generation
    BY <1>a, <1>b, Appended DEF Commands
  <2> QED BY <1>a, <1>b, <1>c, <2>1 DEF Commands
<1> QED BY <1>1, <1>2, <1>3, <1>4, <1>5, <1>6, <1>7, <1>8, <1>9

LEMMA CreateSessionKeeps ==
  ASSUME ConnectInv,
         CreateSession
  PROVE  ConnectInv'
<1> USE DEF ConnectInv, CreateSession
<1>a. /\ generation + 1 \in Attempt /\ generation' = generation + 1 /\ pc[generation + 1] = "none"
      /\ engine.at = "start" /\ engine'.at = "idle"
      /\ engine' \in [at : {"idle", "release", "close", "start"},
                     kind : {"none", "plain", "best", "overlay"}, prev : Nat]
  BY SMTT(30) DEF Attempts, Types
<1>b. /\ pc' \in [Attempt -> Pcs]
      /\ pc'[generation + 1] \in {"query", "attest"}
      /\ \A h \in Attempt : h # generation + 1 => pc'[h] = pc[h]
  <2>1. PICK p \in {"query", "attest"} : pc' = [pc EXCEPT ![generation'] = p]
    OBVIOUS
  <2> QED BY <1>a, <2>1 DEF Types, Pcs
<1>c. sock' \in [Attempt -> {"none", "engine", "open", "closed"}]
  BY <1>a DEF Types
<1>1. Types'
  BY <1>a, <1>b, <1>c DEF Types
<1>2. Past' BY DEF Past
<1>3. Attempts' BY DEF Attempts, Types
<1>4. Sockets' BY DEF Sockets, Types
<1>5. Recorded'
  <2>1. UNCHANGED <<cand, prep>>
    OBVIOUS
  <2> QED BY <1>a, <1>b, <2>1 DEF Recorded
<1>6. Unique' BY DEF Unique
<1>7. Collected'
  <2>1. UNCHANGED <<cand, plan, toClose>>
    OBVIOUS
  <2> QED BY <1>a, <1>b, <2>1 DEF Collected, Early
<1>8. Held'
  BY <1>a, <1>b, HoldersStay DEF Types, Collected
<1>9. Commands' BY DEF Commands, Types, Attempts, Pcs
<1> QED BY <1>1, <1>2, <1>3, <1>4, <1>5, <1>6, <1>7, <1>8, <1>9

LEMMA PrepareEndsKeeps ==
  ASSUME ConnectInv, NEW g \in Attempt, NEW c \in Cand,
         PrepareEnds(g, c)
  PROVE  ConnectInv'
<1> USE DEF ConnectInv, PrepareEnds
<1>a. /\ cand' \in [Attempt -> [Cand -> CandRec]]
      /\ \A h \in Attempt, d \in Cand : cand'[h][d].muxId = cand[h][d].muxId
  BY StateSet DEF CandStates
<1>b. /\ prep' \in [Attempt -> [Cand -> PrepRec]]
      /\ \A h \in Attempt, d \in Cand :
           /\ prep'[h][d].peer = prep[h][d].peer
           /\ prep'[h][d].at = IF h = g /\ d = c THEN "done" ELSE prep[h][d].at
  <2>1. Types /\ prep' = [prep EXCEPT ![g][c].at = "done"]
    OBVIOUS
  <2>2. EndsPreparation(g, c)
    BY <2>1, PrepareDone, Zenon
  <2> QED BY <2>2 DEF EndsPreparation
<1>1. Types'
  BY <1>a, <1>b DEF Types
<1>2. Past' BY DEF Past
<1>3. Attempts' BY DEF Attempts
<1>4. Sockets' BY DEF Sockets
<1>5. Recorded' BY DEF Recorded
<1>6. Unique'
  BY <1>b DEF Unique
<1>7. Collected' BY DEF Collected
<1>8. Held'
  BY <1>a, <1>b, HoldersStay DEF Types, Collected
<1>9. Commands' BY DEF Commands
<1> QED BY <1>1, <1>2, <1>3, <1>4, <1>5, <1>6, <1>7, <1>8, <1>9

LEMMA PrepareOpensKeeps ==
  ASSUME ConnectInv, NEW g \in Attempt, NEW c \in Cand,
         PrepareOpens(g, c)
  PROVE  ConnectInv'
<1> USE DEF ConnectInv, PrepareOpens
<1>0. nextId' = nextId + 1 /\ DOMAIN open' = DOMAIN open \cup {nextId}
  BY DEF Registry!Open
<1>a. prep \in [Attempt -> [Cand -> PrepRec]] /\ nextId \in Nat \ {0}
  BY DEF Types
<1>b. /\ prep' \in [Attempt -> [Cand -> PrepRec]]
      /\ \A h \in Attempt, d \in Cand :
           prep'[h][d] = IF h = g /\ d = c THEN [at |-> "opened", peer |-> nextId] ELSE prep[h][d]
  <2> DEFINE r == [at |-> "opened", peer |-> nextId]
  <2>1. r \in PrepRec
    BY <1>a DEF PrepRec
  <2> DEFINE f == [prep[g] EXCEPT ![c] = r]
  <2>2. f \in [Cand -> PrepRec] /\ \A d \in Cand : f[d] = IF d = c THEN r ELSE prep[g][d]
    <3> HIDE DEF r
    <3> QED BY <1>a, <2>1
  <2>3. prep' = [prep EXCEPT ![g] = f]
    OBVIOUS
  <2> HIDE DEF f
  <2> QED BY <1>a, <2>2, <2>3
<1>1. Types'
  BY <1>0, <1>a, <1>b DEF Types
<1>2. Past'
  <2>1. \A h \in Attempt, d \in Cand : prep'[h][d].peer < nextId'
    BY <1>0, <1>a, <1>b DEF Past, PrepRec
  <2>2. active < nextId' /\ engine.prev < nextId' /\ \A i \in excused : i < nextId'
    BY <1>0, <1>a DEF Past, Types
  <2>3. \A i \in DOMAIN open' : i \in Nat \ {0} /\ i < nextId'
    BY <1>0, <1>a DEF Past
  <2> QED BY <2>1, <2>2, <2>3 DEF Past
<1>3. Attempts' BY DEF Attempts
<1>4. Sockets' BY DEF Sockets
<1>5. Recorded'
  BY <1>b DEF Recorded
<1>6. Unique'
  <2>1. \A h \in Attempt, d \in Cand : prep[h][d].peer # nextId
    BY <1>a DEF Past, PrepRec
  <2> QED BY <1>b, <2>1 DEF Unique
<1>7. Collected' BY DEF Collected
<1>8. Held'
  <2> SUFFICES ASSUME NEW i \in DOMAIN open' PROVE HeldBy(i)'
    BY DEF Held
  <2>1. CASE i = nextId
    <3>1. prep'[g][c].at = "opened" /\ prep'[g][c].peer = nextId
      BY <1>b
    <3> QED BY <2>1, <3>1 DEF HeldBy
  <2>2. CASE i # nextId
    <3>1. HeldBy(i)
      BY <1>0, <2>2 DEF Held
    <3>2. \A h \in Attempt, d \in Cand : prep[h][d].at = "opened" => prep'[h][d] = prep[h][d]
      BY <1>b
    <3> QED BY <3>1, <3>2 DEF HeldBy
  <2> QED BY <2>1, <2>2
<1>9. Commands' BY DEF Commands
<1> QED BY <1>1, <1>2, <1>3, <1>4, <1>5, <1>6, <1>7, <1>8, <1>9

LEMMA PrepareRecordsKeeps ==
  ASSUME ConnectInv, NEW g \in Attempt, NEW c \in Cand,
         PrepareRecords(g, c)
  PROVE  ConnectInv'
<1> USE DEF ConnectInv, PrepareRecords
<1>b. /\ prep' \in [Attempt -> [Cand -> PrepRec]]
      /\ \A h \in Attempt, d \in Cand :
           /\ prep'[h][d].peer = prep[h][d].peer
           /\ prep'[h][d].at = IF h = g /\ d = c THEN "done" ELSE prep[h][d].at
  <2>1. Types /\ prep' = [prep EXCEPT ![g][c].at = "done"]
    OBVIOUS
  <2>2. EndsPreparation(g, c)
    BY <2>1, PrepareDone, Zenon
  <2> QED BY <2>2 DEF EndsPreparation
<1>a. /\ prep[g][c] \in PrepRec /\ cand \in [Attempt -> [Cand -> CandRec]]
      /\ prep[g][c].peer \in Nat /\ cand[g][c].muxId = NoPeer
  BY DEF Types, Recorded, PrepRec
<1>c. /\ cand' \in [Attempt -> [Cand -> CandRec]]
      /\ \A h \in Attempt, d \in Cand :
           cand'[h][d].muxId = IF h = g /\ d = c THEN prep[g][c].peer ELSE cand[h][d].muxId
  <2> DEFINE r == [cand[g][c] EXCEPT !.muxId = prep[g][c].peer]
  <2>1. r \in CandRec /\ r.muxId = prep[g][c].peer
    BY <1>a, SMTT(30) DEF CandRec
  <2> DEFINE f == [cand[g] EXCEPT ![c] = r]
  <2>2. /\ f \in [Cand -> CandRec]
        /\ \A d \in Cand : f[d].muxId = IF d = c THEN prep[g][c].peer ELSE cand[g][d].muxId
    <3> HIDE DEF r
    <3> QED BY <1>a, <2>1
  <2>3. cand' = [cand EXCEPT ![g] = f]
    OBVIOUS
  <2> HIDE DEF f
  <2> QED BY <1>a, <2>2, <2>3
<1>1. Types'
  BY <1>a, <1>b, <1>c DEF Types
<1>2. Past' BY DEF Past
<1>3. Attempts' BY DEF Attempts
<1>4. Sockets' BY DEF Sockets
<1>5. Recorded' BY DEF Recorded, Types
<1>6. Unique'
  BY <1>b DEF Unique
<1>7. Collected' BY DEF Collected, Types, Recorded, Early, CandRec, PrepRec
<1>8. Held'
  <2> SUFFICES ASSUME NEW i \in DOMAIN open' PROVE HeldBy(i)'
    BY DEF Held
  <2>1. HeldBy(i) /\ i # NoPeer
    BY DEF Held, Past
  <2>2. CASE i = prep[g][c].peer
    <3>1. CASE pc[g] \in {"probing", "pick"}
      BY <2>2, <3>1, <1>c DEF HeldBy
    <3>2. CASE pc[g] \notin {"probing", "pick"}
      BY <2>2, <3>2 DEF HeldBy
    <3> QED BY <3>1, <3>2
  <2>3. CASE i # prep[g][c].peer
    <3>1. \A h \in Attempt, d \in Cand :
            prep[h][d].at = "opened" /\ prep[h][d].peer = i => prep'[h][d].at = "opened"
      BY <2>3, <1>b
    <3>2. \A h \in Attempt, d \in Cand : cand[h][d].muxId = i => cand'[h][d].muxId = i
      BY <2>1, <1>a, <1>c
    <3>3. excused \subseteq excused'
      OBVIOUS
    <3> QED BY <2>1, <3>1, <3>2, <3>3, <1>b DEF HeldBy
  <2> QED BY <2>2, <2>3
<1>9. Commands' BY DEF Commands
<1> QED BY <1>1, <1>2, <1>3, <1>4, <1>5, <1>6, <1>7, <1>8, <1>9

LEMMA PongKeeps ==
  ASSUME ConnectInv, NEW g \in Attempt, NEW c \in Cand,
         Pong(g, c)
  PROVE  ConnectInv'
<1> USE DEF ConnectInv, Pong
<1>a. /\ cand' \in [Attempt -> [Cand -> CandRec]]
      /\ \A h \in Attempt, d \in Cand : cand'[h][d].muxId = cand[h][d].muxId
  BY StateSet DEF CandStates
<1>1. Types'
  BY <1>a DEF Types
<1>2. Past' BY DEF Past
<1>3. Attempts' BY DEF Attempts
<1>4. Sockets' BY DEF Sockets
<1>5. Recorded' BY DEF Recorded
<1>6. Unique'
  BY DEF Unique
<1>7. Collected' BY DEF Collected
<1>8. Held'
  BY <1>a, HoldersStay DEF Types, Collected
<1>9. Commands' BY DEF Commands
<1> QED BY <1>1, <1>2, <1>3, <1>4, <1>5, <1>6, <1>7, <1>8, <1>9

LEMMA NoAnswerKeeps ==
  ASSUME ConnectInv, NEW g \in Attempt, NEW c \in Cand,
         NoAnswer(g, c)
  PROVE  ConnectInv'
<1> USE DEF ConnectInv, NoAnswer
<1>a. /\ cand' \in [Attempt -> [Cand -> CandRec]]
      /\ \A h \in Attempt, d \in Cand : cand'[h][d].muxId = cand[h][d].muxId
  BY StateSet DEF CandStates
<1>1. Types'
  BY <1>a DEF Types
<1>2. Past' BY DEF Past
<1>3. Attempts' BY DEF Attempts
<1>4. Sockets' BY DEF Sockets
<1>5. Recorded' BY DEF Recorded
<1>6. Unique'
  BY DEF Unique
<1>7. Collected' BY DEF Collected
<1>8. Held'
  BY <1>a, HoldersStay DEF Types, Collected
<1>9. Commands' BY DEF Commands
<1> QED BY <1>1, <1>2, <1>3, <1>4, <1>5, <1>6, <1>7, <1>8, <1>9

LEMMA PollStatusKeeps ==
  ASSUME ConnectInv, NEW g \in Attempt, NEW c \in Cand, NEW state \in {"probing", "failed"},
         PollStatus(g, c, state)
  PROVE  ConnectInv'
<1> USE DEF ConnectInv, PollStatus
<1>a. /\ cand' \in [Attempt -> [Cand -> CandRec]]
      /\ \A h \in Attempt, d \in Cand : cand'[h][d].muxId = cand[h][d].muxId
  BY StateSet DEF CandStates
<1>1. Types'
  BY <1>a DEF Types
<1>2. Past' BY DEF Past
<1>3. Attempts' BY DEF Attempts
<1>4. Sockets' BY DEF Sockets
<1>5. Recorded' BY DEF Recorded
<1>6. Unique'
  BY DEF Unique
<1>7. Collected' BY DEF Collected
<1>8. Held'
  BY <1>a, HoldersStay DEF Types, Collected
<1>9. Commands' BY DEF Commands
<1> QED BY <1>1, <1>2, <1>3, <1>4, <1>5, <1>6, <1>7, <1>8, <1>9

LEMMA DeadlineKeeps ==
  ASSUME ConnectInv, NEW g \in Attempt,
         Deadline(g)
  PROVE  ConnectInv'
<1> USE DEF ConnectInv, Deadline
<1>1. Types' BY DEF Types
<1>2. Past' BY DEF Past
<1>3. Attempts' BY DEF Attempts
<1>4. Sockets' BY DEF Sockets
<1>5. Recorded' BY DEF Recorded
<1>6. Unique' BY DEF Unique
<1>7. Collected' BY DEF Collected
<1>8. Held'
  BY HoldersStay DEF Types, Collected
<1>9. Commands' BY DEF Commands
<1> QED BY <1>1, <1>2, <1>3, <1>4, <1>5, <1>6, <1>7, <1>8, <1>9

LEMMA GiveUpEarlyKeeps ==
  ASSUME ConnectInv, NEW g \in Attempt,
         GiveUpEarly(g)
  PROVE  ConnectInv'
<1> USE DEF ConnectInv, GiveUpEarly
<1>1. Types' BY DEF Types, CandRec, PrepRec, CandStates, Pcs, ReleaseSocket
<1>2. Past' BY DEF Past
<1>3. Attempts' BY DEF Attempts
<1>4. Sockets' BY DEF Sockets, Types, ReleaseSocket
<1>5. Recorded' BY DEF Recorded
<1>6. Unique' BY DEF Unique
<1>7. Collected' BY DEF Collected, Types, Recorded, Early, CandRec, PrepRec, ReleaseSocket
<1>8. Held'
  BY HoldersStay DEF Types, Collected
<1>9. Commands' BY DEF Commands, StillCurrent
<1> QED BY <1>1, <1>2, <1>3, <1>4, <1>5, <1>6, <1>7, <1>8, <1>9

LEMMA NoRoutesKeeps ==
  ASSUME ConnectInv, NEW g \in Attempt,
         NoRoutes(g)
  PROVE  ConnectInv'
<1> USE DEF ConnectInv, NoRoutes
<1>1. Types' BY DEF Types, CandRec, PrepRec, CandStates, Pcs, ReleaseSocket
<1>2. Past' BY DEF Past
<1>3. Attempts' BY DEF Attempts
<1>4. Sockets' BY DEF Sockets, Types, ReleaseSocket
<1>5. Recorded' BY DEF Recorded
<1>6. Unique' BY DEF Unique
<1>7. Collected' BY DEF Collected, Types
<1>8. Held'
  BY HoldersStay DEF Types, Collected
<1>9. Commands' BY DEF Commands, Types, Attempts, Pcs
<1> QED BY <1>1, <1>2, <1>3, <1>4, <1>5, <1>6, <1>7, <1>8, <1>9

LEMMA StartProbingKeeps ==
  ASSUME ConnectInv, NEW g \in Attempt,
         StartProbing(g)
  PROVE  ConnectInv'
<1> USE DEF ConnectInv, StartProbing
<1>a. /\ pc[g] \in {"query", "attest"} /\ pc' = [pc EXCEPT ![g] = "probing"]
      /\ toClose[g] = {} /\ toClose' = toClose
      /\ \A c \in Cand : prep[g][c].at = "none"
  <2>1. pc[g] \in {"query", "attest"} /\ pc' = [pc EXCEPT ![g] = "probing"] /\ toClose' = toClose
    OBVIOUS
  <2> HIDE DEF StartProbing
  <2>2. toClose[g] = {}
    BY <2>1 DEF Collected
  <2>3. \A c \in Cand : prep[g][c].at = "none"
    BY <2>1 DEF Recorded
  <2> QED BY <2>1, <2>2, <2>3
<1>b. /\ \A h \in Attempt : h # g => cand'[h] = cand[h] /\ prep'[h] = prep[h] /\ plan'[h] = plan[h]
      /\ plan'[g] \in {"none", "fallback"}
  <2>1. PICK f, q, p :
          /\ cand' = [cand EXCEPT ![g] = f] /\ prep' = [prep EXCEPT ![g] = q]
          /\ plan' = [plan EXCEPT ![g] = p] /\ p \in {"none", "fallback"}
    OBVIOUS
  <2> HIDE DEF StartProbing
  <2> QED BY <2>1 DEF Types
<1>1. Types' BY DEF Types, CandRec, PrepRec, CandStates, Pcs
<1>2. Past' BY DEF Past, Types
<1>3. Attempts' BY DEF Attempts
<1>4. Sockets' BY DEF Sockets
<1>5. Recorded' BY DEF Recorded, Types
<1>6. Unique' BY DEF Unique
<1>7. Collected'
  <2>1. plan'[g] \notin Cand /\ toClose'[g] = {} /\ pc'[g] = "probing"
    BY <1>a, <1>b DEF Types
  <2>2. ASSUME NEW h \in Attempt, h # g
        PROVE  pc'[h] = pc[h] /\ plan'[h] = plan[h] /\ toClose'[h] = toClose[h] /\ cand'[h] = cand[h]
    BY <1>a, <1>b, <2>2 DEF Types
  <2> HIDE DEF StartProbing
  <2> QED BY <2>1, <2>2 DEF Collected, Early
<1>8. Held'
  BY <1>a, <1>b, HoldersStay DEF Types, Collected
<1>9. Commands' BY DEF Commands, Types, Attempts, Pcs
<1> QED BY <1>1, <1>2, <1>3, <1>4, <1>5, <1>6, <1>7, <1>8, <1>9

LEMMA ProbeEndsKeeps ==
  ASSUME ConnectInv, NEW g \in Attempt,
         ProbeEnds(g)
  PROVE  ConnectInv'
<1> USE DEF ConnectInv, ProbeEnds
<1>1. Types' BY DEF Types, CandRec, PrepRec, CandStates, Pcs
<1>2. Past' BY DEF Past
<1>3. Attempts' BY DEF Attempts
<1>4. Sockets' BY DEF Sockets
<1>5. Recorded' BY DEF Recorded
<1>6. Unique' BY DEF Unique
<1>7. Collected' BY DEF Collected, Types, Recorded, Early, CandRec, PrepRec
<1>8. Held'
  BY HoldersStay DEF Types, Collected
<1>9. Commands' BY DEF Commands, Types, Attempts, Pcs
<1> QED BY <1>1, <1>2, <1>3, <1>4, <1>5, <1>6, <1>7, <1>8, <1>9

LEMMA SupersededKeeps ==
  ASSUME ConnectInv, NEW g \in Attempt,
         Superseded(g)
  PROVE  ConnectInv'
<1> USE DEF ConnectInv, Superseded
<1>1. Types' BY DEF Types, CandRec, PrepRec, CandStates, Pcs, MuxIds
<1>2. Past' BY DEF Past
<1>3. Attempts' BY DEF Attempts
<1>4. Sockets' BY DEF Sockets
<1>5. Recorded' BY DEF Recorded
<1>6. Unique' BY DEF Unique
<1>7. Collected' BY DEF Collected, Types, Recorded, Early, CandRec, PrepRec, MuxIds
<1>8. Held'
  <2> SUFFICES ASSUME NEW i \in DOMAIN open' PROVE HeldBy(i)'
    BY DEF Held
  <2>1. HeldBy(i) /\ i # NoPeer
    BY DEF Held, Past
  <2>2. toClose'[g] = MuxIds(g) /\ \A h \in Attempt : h # g => toClose'[h] = toClose[h] /\ pc'[h] = pc[h]
    BY DEF Types
  <2>3. toClose[g] = {}
    BY DEF Collected
  <2>4. CASE \E c \in Cand : cand[g][c].muxId = i
    BY <2>1, <2>2, <2>4 DEF MuxIds, HeldBy
  <2>5. CASE ~ \E c \in Cand : cand[g][c].muxId = i
    BY <2>1, <2>2, <2>3, <2>5 DEF HeldBy
  <2> QED BY <2>4, <2>5
<1>9. Commands' BY DEF Commands, StillCurrent
<1> QED BY <1>1, <1>2, <1>3, <1>4, <1>5, <1>6, <1>7, <1>8, <1>9

LEMMA PickWinnerKeeps ==
  ASSUME ConnectInv, NEW g \in Attempt,
         PickWinner(g)
  PROVE  ConnectInv'
<1> USE DEF ConnectInv, PickWinner
<1>a. /\ pc[g] = "pick" /\ pc' = [pc EXCEPT ![g] = "losers"] /\ toClose[g] = {}
      /\ plan[g] \notin Cand
  BY DEF Collected, Early
<1>b. PICK w : /\ w = "none" \/ w \in Cand
               /\ toClose' = [toClose EXCEPT ![g] = Losers(g, w)]
               /\ IF w \in Cand THEN plan' = [plan EXCEPT ![g] = w] ELSE plan' = plan
               /\ IF w \in OverlayCand
                  THEN active' = cand[g][w].muxId /\ excused' = excused \cup {active}
                  ELSE active' = active /\ excused' = excused
  <2>1. CASE {c \in Cand : cand[g][c].state = "answered"} = {}
    <3>1. toClose' = [toClose EXCEPT ![g] = Losers(g, "none")] /\ UNCHANGED <<plan, active, excused>>
      BY <2>1
    <3> QED BY <3>1 DEF Cand
  <2>2. CASE {c \in Cand : cand[g][c].state = "answered"} # {}
    <3>1. PICK c \in Cand :
            /\ plan' = [plan EXCEPT ![g] = c]
            /\ toClose' = [toClose EXCEPT ![g] = Losers(g, c)]
            /\ IF c \in OverlayCand
               THEN active' = cand[g][c].muxId /\ excused' = excused \cup {active}
               ELSE UNCHANGED <<active, excused>>
      BY <2>2
    <3> QED BY <3>1
  <2> QED BY <2>1, <2>2
<1>f. /\ cand' = cand /\ prep' = prep /\ open' = open /\ nextId' = nextId /\ engine' = engine
      /\ generation' = generation
  OBVIOUS
<1>c. /\ \A c \in Cand : cand[g][c].muxId \in Nat /\ cand[g][c].muxId < nextId
      /\ cand' = cand /\ prep' = prep /\ open' = open /\ nextId' = nextId /\ engine' = engine
  <2>1. ASSUME NEW c \in Cand
        PROVE  cand[g][c].muxId \in Nat /\ cand[g][c].muxId < nextId
    <3>1. cand[g][c] \in CandRec /\ prep[g][c].peer < nextId /\ nextId \in Nat \ {0}
      BY DEF Types, Past
    <3>2. cand[g][c].muxId = prep[g][c].peer \/ cand[g][c].muxId = NoPeer
      BY DEF Recorded
    <3>3. cand[g][c].muxId \in Nat
      BY <3>1 DEF CandRec
    <3> HIDE DEF PickWinner, ConnectInv
    <3> QED BY <3>1, <3>2, <3>3
  <2> QED BY <2>1, <1>f
<1>d. Losers(g, w) \subseteq Nat
  BY <1>c DEF Losers
<1>e. /\ toClose'[g] = Losers(g, w)
      /\ \A h \in Attempt : h # g => toClose'[h] = toClose[h] /\ plan'[h] = plan[h] /\ pc'[h] = pc[h]
      /\ pc'[g] = "losers"
      /\ plan'[g] = w \/ (w = "none" /\ plan'[g] = plan[g])
  BY <1>a, <1>b DEF Types
<1>1. Types'
  <2>1. toClose' \in [Attempt -> SUBSET Nat]
    BY <1>b, <1>d DEF Types
  <2>2. plan' \in [Attempt -> Cand \cup {"none", "fallback"}]
    BY <1>b DEF Types
  <2>3. active' \in Nat /\ excused' \subseteq Nat
    <3>1. active \in Nat /\ excused \subseteq Nat
      BY DEF Types
    <3>2. w \in OverlayCand => w \in Cand
      BY DEF Cand
    <3> HIDE DEF PickWinner, ConnectInv
    <3> QED BY <1>b, <1>c, <3>1, <3>2
  <2>4. pc' \in [Attempt -> Pcs]
    BY <1>a DEF Types, Pcs
  <2> QED BY <2>1, <2>2, <2>3, <2>4 DEF Types
<1>2. Past'
  <2>1. active' < nextId' /\ \A i \in excused' : i < nextId'
    BY <1>b, <1>c DEF Past, Cand
  <2> QED BY <1>c, <2>1 DEF Past
<1>3. Attempts' BY DEF Attempts
<1>4. Sockets' BY DEF Sockets
<1>5. Recorded' BY DEF Recorded
<1>6. Unique' BY DEF Unique
<1>7. Collected'
  <2>1. \A i \in toClose'[g] : i # NoPeer /\ \E d \in Cand \ {plan'[g]} : i = cand'[g][d].muxId
    BY <1>a, <1>c, <1>e DEF Losers
  <2> HIDE DEF PickWinner
  <2> QED BY <1>a, <1>c, <1>e, <2>1 DEF Collected, Early
<1>8. Held'
  <2> SUFFICES ASSUME NEW i \in DOMAIN open' PROVE HeldBy(i)'
    BY DEF Held
  <2>1. HeldBy(i) /\ i # NoPeer
    BY <1>c DEF Held, Past
  <2>2. CASE \E c \in Cand : cand[g][c].muxId = i
    <3>1. PICK c \in Cand : cand[g][c].muxId = i
      BY <2>2
    <3>2. CASE c # w
      <4>1. i \in toClose'[g]
        BY <1>e, <2>1, <3>1, <3>2 DEF Losers
      <4> QED BY <4>1 DEF HeldBy
    <3>3. CASE c = w
      <4>1. c \in OverlayCand
        BY <2>1, <3>1 DEF Recorded
      <4>2. i = active'
        BY <1>b, <3>1, <3>3, <4>1
      <4> QED BY <4>2 DEF HeldBy
    <3> QED BY <3>2, <3>3
  <2>3. CASE ~ \E c \in Cand : cand[g][c].muxId = i
    <3>1. i = active \/ i \in excused => i = active' \/ i \in excused'
      BY <1>b
    <3> HIDE DEF PickWinner
    <3> QED BY <1>a, <1>c, <1>e, <2>1, <2>3, <3>1 DEF HeldBy
  <2> QED BY <2>2, <2>3
<1>9. Commands' BY DEF Commands, Types, Attempts, Pcs
<1> QED BY <1>1, <1>2, <1>3, <1>4, <1>5, <1>6, <1>7, <1>8, <1>9

LEMMA CleanupDoneKeeps ==
  ASSUME ConnectInv, NEW g \in Attempt,
         CleanupDone(g)
  PROVE  ConnectInv'
<1> USE DEF ConnectInv, CleanupDone
<1>1. Types' BY DEF Types, CandRec, PrepRec, CandStates, Pcs, ReleaseSocket
<1>2. Past' BY DEF Past
<1>3. Attempts' BY DEF Attempts
<1>4. Sockets' BY DEF Sockets, Types, ReleaseSocket
<1>5. Recorded' BY DEF Recorded
<1>6. Unique' BY DEF Unique
<1>7. Collected' BY DEF Collected, Types, Recorded, Early, CandRec, PrepRec, ReleaseSocket
<1>8. Held'
  BY HoldersStay DEF Types, Collected
<1>9. Commands' BY DEF Commands
<1> QED BY <1>1, <1>2, <1>3, <1>4, <1>5, <1>6, <1>7, <1>8, <1>9

LEMMA LosersClosedKeeps ==
  ASSUME ConnectInv, NEW g \in Attempt,
         LosersClosed(g)
  PROVE  ConnectInv'
<1> USE DEF ConnectInv, LosersClosed
<1>1. Types' BY DEF Types, CandRec, PrepRec, CandStates, Pcs
<1>2. Past' BY DEF Past
<1>3. Attempts' BY DEF Attempts
<1>4. Sockets' BY DEF Sockets
<1>5. Recorded' BY DEF Recorded
<1>6. Unique' BY DEF Unique
<1>7. Collected' BY DEF Collected, Types, Recorded, Early, CandRec, PrepRec
<1>8. Held'
  BY HoldersStay DEF Types, Collected
<1>9. Commands' BY DEF Commands, Types, Attempts, Pcs
<1> QED BY <1>1, <1>2, <1>3, <1>4, <1>5, <1>6, <1>7, <1>8, <1>9

LEMMA IdentifyEndsKeeps ==
  ASSUME ConnectInv, NEW g \in Attempt,
         IdentifyEnds(g)
  PROVE  ConnectInv'
<1> USE DEF ConnectInv, IdentifyEnds
<1>1. Types' BY DEF Types, CandRec, PrepRec, CandStates, Pcs, ReleaseSocket
<1>2. Past' BY DEF Past
<1>3. Attempts' BY DEF Attempts
<1>4. Sockets' BY DEF Sockets, Types, ReleaseSocket
<1>5. Recorded' BY DEF Recorded
<1>6. Unique' BY DEF Unique
<1>7. Collected' BY DEF Collected, Types, Recorded, Early, CandRec, PrepRec, ReleaseSocket
<1>8. Held'
  BY HoldersStay DEF Types, Collected
<1>9. Commands' BY DEF Commands, Types, Attempts, Pcs
<1> QED BY <1>1, <1>2, <1>3, <1>4, <1>5, <1>6, <1>7, <1>8, <1>9

LEMMA CheckCurrentKeeps ==
  ASSUME ConnectInv, NEW g \in Attempt,
         CheckCurrent(g)
  PROVE  ConnectInv'
<1> USE DEF ConnectInv, CheckCurrent
<1>1. Types' BY DEF Types, CandRec, PrepRec, CandStates, Pcs
<1>2. Past' BY DEF Past
<1>3. Attempts' BY DEF Attempts
<1>4. Sockets' BY DEF Sockets
<1>5. Recorded' BY DEF Recorded
<1>6. Unique' BY DEF Unique
<1>7. Collected' BY DEF Collected, Types, Recorded, Early, CandRec, PrepRec
<1>8. Held'
  BY HoldersStay DEF Types, Collected
<1>9. Commands' BY DEF Commands, Types, Attempts, Pcs, StillCurrent
<1> QED BY <1>1, <1>2, <1>3, <1>4, <1>5, <1>6, <1>7, <1>8, <1>9

LEMMA CommandKeeps ==
  ASSUME ConnectInv, NEW g \in Attempt,
         Command(g)
  PROVE  ConnectInv'
<1> USE DEF ConnectInv, Command
<1>a. cmds \in Seq(Attempt) /\ generation \in Nat
  BY DEF Types
<1>b. cmds' = Append(cmds, g) /\ generation' = generation /\ engine' = engine /\ plan' = plan
  OBVIOUS
<1>c. /\ pc[g] = "command" /\ pc'[g] = "done" /\ g <= generation
      /\ \A h \in Attempt : h # g => pc'[h] = pc[h]
  BY DEF Types, Attempts
<1>1. Types' BY DEF Types, CandRec, PrepRec, CandStates, Pcs
<1>2. Past' BY DEF Past
<1>3. Attempts' BY DEF Attempts
<1>4. Sockets' BY DEF Sockets
<1>5. Recorded' BY DEF Recorded
<1>6. Unique' BY DEF Unique
<1>7. Collected' BY DEF Collected, Types, Recorded, Early, CandRec, PrepRec
<1>8. Held'
  BY HoldersStay DEF Types, Collected
<1>9. Commands'
  <2>1. /\ DOMAIN cmds' = DOMAIN cmds \cup {Len(cmds) + 1}
        /\ cmds'[Len(cmds) + 1] = g
        /\ \A n \in DOMAIN cmds : cmds'[n] = cmds[n] /\ cmds[n] # g /\ cmds[n] \in Attempt
    BY <1>a, <1>b, <1>c, Appended, SMTT(30) DEF Commands
  <2>2. /\ \A n \in DOMAIN cmds' : cmds'[n] <= generation' /\ pc'[cmds'[n]] \in {"none", "done"}
        /\ \A m, n \in DOMAIN cmds' : cmds'[m] = cmds'[n] => m = n
    BY <1>b, <1>c, <2>1 DEF Commands
  <2>3. (engine.kind = "plain" =>
           IF engine.at = "idle" THEN \E n \in DOMAIN cmds' : cmds'[n] = generation
           ELSE \A n \in DOMAIN cmds' : cmds'[n] # generation)
    BY <1>c, <2>1 DEF Commands, Attempts
  <2>4. CASE generation = g
    BY <1>b, <1>c, <2>1, <2>2, <2>3, <2>4 DEF Commands, Pcs
  <2>5. CASE generation # g
    <3>1. (engine.at = "idle" /\ engine.kind = "best") =>
            generation \in Attempt /\ pc'[generation] = pc[generation]
      BY <1>c, <2>5 DEF Commands
    <3> QED BY <1>b, <2>1, <2>2, <2>3, <3>1 DEF Commands
  <2> QED BY <2>4, <2>5
<1> QED BY <1>1, <1>2, <1>3, <1>4, <1>5, <1>6, <1>7, <1>8, <1>9

LEMMA CloseCollectedKeeps ==
  ASSUME ConnectInv, NEW g \in Attempt, NEW i \in toClose[g],
         CloseCollected(g, i)
  PROVE  ConnectInv'
<1> USE DEF ConnectInv, CloseCollected
<1>0. /\ nextId' = nextId /\ DOMAIN open' \subseteq DOMAIN open
      /\ i \notin DOMAIN open'
  BY Closed
<1>1. Types' BY <1>0 DEF Types
<1>2. Past' BY <1>0 DEF Past
<1>3. Attempts' BY DEF Attempts
<1>4. Sockets' BY DEF Sockets
<1>5. Recorded' BY DEF Recorded
<1>6. Unique' BY DEF Unique
<1>7. Collected' BY DEF Collected
<1>8. Held'
  BY <1>0, HoldersStay DEF Types, Collected
<1>9. Commands' BY DEF Commands
<1> QED BY <1>1, <1>2, <1>3, <1>4, <1>5, <1>6, <1>7, <1>8, <1>9

LEMMA PeerLostKeeps ==
  ASSUME ConnectInv, NEW i \in DOMAIN open,
         PeerLost(i)
  PROVE  ConnectInv'
<1> USE DEF ConnectInv, PeerLost
<1>0. /\ nextId' = nextId /\ DOMAIN open' \subseteq DOMAIN open
      /\ i \notin DOMAIN open'
  BY Closed
<1>1. Types' BY <1>0 DEF Types
<1>2. Past' BY <1>0 DEF Past
<1>3. Attempts' BY DEF Attempts
<1>4. Sockets' BY DEF Sockets
<1>5. Recorded' BY DEF Recorded
<1>6. Unique' BY DEF Unique
<1>7. Collected' BY DEF Collected
<1>8. Held'
  BY <1>0, HoldersStay DEF Types, Collected
<1>9. Commands' BY DEF Commands
<1> QED BY <1>1, <1>2, <1>3, <1>4, <1>5, <1>6, <1>7, <1>8, <1>9

-----------------------------------------------------------------------------
(* Theorems *)

LEMMA InitInv == Init => ConnectInv
<1> SUFFICES ASSUME Init PROVE ConnectInv
  OBVIOUS
<1>1. Types
  BY DEF Init, Types, CandRec, PrepRec, CandStates, Pcs, Absent, Idle, Registry!Init
<1>2. Past /\ Held
  <2>1. DOMAIN open = {} /\ nextId = 1
    BY DEF Init, Registry!Init
  <2> QED BY <2>1 DEF Init, Past, Held, Idle
<1>3. Attempts /\ Sockets /\ Recorded /\ Unique
  BY DEF Init, Attempts, Sockets, Recorded, Unique, Idle, Absent
<1>4. Collected
  BY DEF Init, Collected
<1>5. Commands
  BY DEF Init, Commands, Idle
<1> QED BY <1>1, <1>2, <1>3, <1>4, <1>5 DEF ConnectInv

LEMMA NextInv == ConnectInv /\ [Next]_vars => ConnectInv'
<1> SUFFICES ASSUME ConnectInv, [Next]_vars PROVE ConnectInv'
  OBVIOUS
<1>1. CASE UNCHANGED vars
  <2>1. UNCHANGED <<generation, active, engine, pc, sock, cand, prep, timeUp, toClose, plan, cmds,
                    excused, open, nextId>>
    BY <1>1 DEF vars
  <2> QED BY <2>1 DEF ConnectInv, Types, Past, Attempts, Sockets, Recorded, Unique, Collected, Held,
                      HeldBy, Commands
<1>2. CASE Engine
  BY <1>2, StartAttemptKeeps, TakeActiveKeeps, CloseActiveKeeps, ConnectPlainKeeps,
     CreateSessionKeeps DEF Engine
<1>3. ASSUME NEW g \in Attempt, Prepare(g) PROVE ConnectInv'
  BY <1>3, PrepareEndsKeeps, PrepareOpensKeeps, PrepareRecordsKeeps DEF Prepare
<1>4. ASSUME NEW g \in Attempt, Measure(g) PROVE ConnectInv'
  BY <1>4, PongKeeps, NoAnswerKeeps, PollStatusKeeps DEF Measure
<1>5. ASSUME NEW g \in Attempt, Thread(g) PROVE ConnectInv'
  BY <1>5, GiveUpEarlyKeeps, NoRoutesKeeps, StartProbingKeeps, ProbeEndsKeeps, SupersededKeeps,
     PickWinnerKeeps, CleanupDoneKeeps, LosersClosedKeeps, IdentifyEndsKeeps, CheckCurrentKeeps,
     CommandKeeps, CloseCollectedKeeps DEF Thread
<1> QED BY <1>1, <1>2, <1>3, <1>4, <1>5, DeadlineKeeps, PeerLostKeeps DEF Next

\* The inductive invariant holds for every number of attempts and candidates
\* (delta_connect, RunSession, PrepareOverlay).
THEOREM ConnectInvariant == Spec => []ConnectInv
<1> QED BY InitInv, NextInv, PTL DEF Spec

\* Types, and ids that are remembered have been given out by the multiplexer
\* (AddOutgoingPeer).
THEOREM ConnectTypes == Spec => []TypeOK
<1>1. ConnectInv => TypeOK
  <2> SUFFICES ASSUME ConnectInv PROVE TypeOK
    OBVIOUS
  <2> USE DEF ConnectInv
  <2>1. nextId \in Nat \ {0} /\ nextId - 1 \in Nat
    BY DEF Types
  <2>2. active \in 0 .. nextId - 1 /\ engine.prev \in 0 .. nextId - 1 /\ excused \subseteq 0 .. nextId - 1
    BY <2>1 DEF Types, Past
  <2>3. engine \in [at : {"idle", "release", "close", "start"},
                    kind : {"none", "plain", "best", "overlay"}, prev : 0 .. nextId - 1]
    BY <2>2 DEF Types
  <2>4. ASSUME NEW g \in Attempt, NEW c \in Cand
        PROVE  /\ prep[g][c] \in [at : {"none", "working", "opened", "done"}, peer : 0 .. nextId - 1]
               /\ cand[g][c] \in [state : CandStates, muxId : 0 .. nextId - 1]
    <3>1. prep[g][c] \in PrepRec /\ cand[g][c] \in CandRec /\ prep[g][c].peer < nextId
      BY DEF Types, Past
    <3>2. cand[g][c].muxId = prep[g][c].peer \/ cand[g][c].muxId = NoPeer
      BY DEF Recorded
    <3> QED BY <2>1, <3>1, <3>2 DEF PrepRec, CandRec
  <2>5. prep \in [Attempt -> [Cand -> [at : {"none", "working", "opened", "done"},
                                       peer : 0 .. nextId - 1]]]
    BY <2>4 DEF Types
  <2>6. cand \in [Attempt -> [Cand -> [state : CandStates, muxId : 0 .. nextId - 1]]]
    BY <2>4 DEF Types
  <2>7. toClose \in [Attempt -> SUBSET (1 .. nextId - 1)]
    <3>1. ASSUME NEW g \in Attempt, NEW i \in toClose[g]
          PROVE  i \in 1 .. nextId - 1
      <4>1. i # 0 /\ \E d \in Cand : i = cand[g][d].muxId
        BY DEF Collected
      <4>2. \A d \in Cand : cand[g][d].muxId \in 0 .. nextId - 1
        BY <2>4
      <4> QED BY <2>1, <4>1, <4>2
    <3> QED BY <3>1 DEF Types
  <2>8. /\ generation \in 0 .. MaxAttempts /\ pc \in [Attempt -> Pcs]
        /\ sock \in [Attempt -> {"none", "engine", "open", "closed"}]
        /\ timeUp \in [Attempt -> BOOLEAN] /\ plan \in [Attempt -> Cand \cup {"none", "fallback"}]
        /\ cmds \in Seq(Attempt)
    BY DEF Types
  <2> QED BY <2>2, <2>3, <2>5, <2>6, <2>7, <2>8, Zenon DEF TypeOK
<1> QED BY <1>1, ConnectInvariant, PTL

\* RunSession has its private socket as long as it may send through it, and has
\* given it back on every way to its end.
THEOREM SocketGivenBack == Spec => []ProbeSocketLifetime
<1>1. ConnectInv => ProbeSocketLifetime
  BY DEF ConnectInv, Sockets, ProbeSocketLifetime
<1> QED BY <1>1, ConnectInvariant, PTL

\* When everything has ended, a peer that is still open is the active route or
\* escaped through one of the two windows of PrepareOverlay and RunSession.
THEOREM PeersExplained == Spec => []Explained
<1>1. ConnectInv => Explained
  <2> SUFFICES ASSUME ConnectInv, Quiet, NEW i \in DOMAIN open PROVE i = active \/ i \in excused
    BY DEF Explained
  <2>1. HeldBy(i)
    BY DEF ConnectInv, Held
  <2>2. /\ engine.at # "close"
        /\ \A g \in Attempt : toClose[g] = {}
        /\ \A g \in Attempt : pc[g] \notin {"probing", "pick"}
        /\ \A g \in Attempt, c \in Cand : prep[g][c].at # "opened"
    BY DEF ConnectInv, Quiet, Collected
  <2> QED BY <2>1, <2>2 DEF HeldBy
<1> QED BY <1>1, ConnectInvariant, PTL

\* The player's latest "connect" or "delta_connect" reaches the engine exactly once
\* (Cbuf_AddText), whatever happened to the probes and to older attempts.
THEOREM LatestConnects == Spec => []LatestAttemptConnects
<1>1. ConnectInv => LatestAttemptConnects
  <2> SUFFICES ASSUME ConnectInv, Quiet, engine.kind \in {"plain", "best"}
               PROVE  Cardinality({n \in DOMAIN cmds : cmds[n] = generation}) = 1
    BY DEF LatestAttemptConnects
  <2>1. PICK n \in DOMAIN cmds : cmds[n] = generation
    BY DEF ConnectInv, Quiet, Commands
  <2>2. {m \in DOMAIN cmds : cmds[m] = generation} = {n}
    BY <2>1 DEF ConnectInv, Commands
  <2> QED BY <2>2, FS_Singleton
<1> QED BY <1>1, ConnectInvariant, PTL

\* Only the remote side closes the route a session has chosen: neither its own
\* clean-up nor that of the sessions it superseded (RunSession) names it.
THEOREM RouteKept == Spec => ChosenRouteKept
<1> DEFINE Kept(g) == (/\ StillCurrent(g) /\ engine.at = "idle"
                       /\ Chosen(g) \in DOMAIN open) =>
                         \/ Chosen(g) \in DOMAIN open'
                         \/ PeerLost(Chosen(g))
<1>1. ASSUME ConnectInv, Next, NEW g \in Attempt
      PROVE  Kept(g)
  <2> SUFFICES ASSUME engine.at = "idle", Chosen(g) \in DOMAIN open, Chosen(g) \notin DOMAIN open'
               PROVE  PeerLost(Chosen(g))
    OBVIOUS
  <2>1. \/ \E h \in Attempt : \E i \in toClose[h] : CloseCollected(h, i)
        \/ \E i \in DOMAIN open : PeerLost(i)
        \/ DOMAIN open \subseteq DOMAIN open'
    <3>1. CASE Engine
      BY <3>1 DEF Engine, StartAttempt, TakeActive, CloseActive, ConnectPlain, CreateSession
    <3>2. ASSUME NEW h \in Attempt, Prepare(h) PROVE DOMAIN open \subseteq DOMAIN open'
      BY <3>2 DEF Prepare, PrepareEnds, PrepareOpens, PrepareRecords, Registry!Open
    <3>3. ASSUME NEW h \in Attempt, Measure(h) \/ Deadline(h) PROVE open' = open
      BY <3>3 DEF Measure, Pong, NoAnswer, PollStatus, Deadline
    <3>4. ASSUME NEW h \in Attempt, Thread(h)
          PROVE  open' = open \/ \E i \in toClose[h] : CloseCollected(h, i)
      BY <3>4 DEF Thread, GiveUpEarly, NoRoutes, StartProbing, ProbeEnds, Superseded, PickWinner,
         CleanupDone, LosersClosed, IdentifyEnds, CheckCurrent, Command
    <3> QED BY <1>1, <3>1, <3>2, <3>3, <3>4 DEF Next
  <2>2. ASSUME NEW h \in Attempt, NEW i \in toClose[h], CloseCollected(h, i)
        PROVE  FALSE
    <3>1. i = Chosen(g)
      BY <2>2, Closed DEF CloseCollected
    <3>2. PICK d \in Cand \ {plan[h]} : i # NoPeer /\ i = cand[h][d].muxId
      BY <1>1 DEF ConnectInv, Collected
    <3>3. plan[g] \in Cand /\ i = cand[g][plan[g]].muxId
      BY <3>1, <3>2 DEF Chosen, Cand
    <3>4. prep[h][d].peer = i /\ prep[g][plan[g]].peer = i
      BY <1>1, <3>2, <3>3 DEF ConnectInv, Recorded
    <3>5. h = g /\ d = plan[g]
      BY <1>1, <3>2, <3>3, <3>4 DEF ConnectInv, Unique
    <3> QED BY <3>2, <3>5
  <2>3. ASSUME NEW i \in DOMAIN open, PeerLost(i)
        PROVE  i = Chosen(g)
    BY <2>3, Closed DEF PeerLost
  <2> QED BY <2>1, <2>2, <2>3
<1>2. ASSUME ConnectInv, UNCHANGED vars PROVE UNCHANGED vars
  BY <1>2
<1>3. ConnectInv /\ [Next]_vars => [\A g \in Attempt : Kept(g)]_vars
  BY <1>1
<1> QED BY <1>3, ConnectInvariant, PTL DEF Spec, ChosenRouteKept
=============================================================================
