----------------------- MODULE HeartbeatThread_proofs -----------------------
(***************************************************************************)
(* The safety of HeartbeatThread for any number of games and threads.      *)
(*                                                                         *)
(* What keeps a removed server off the list is an argument about two       *)
(* locks-and-flags protocols at once: a post was licensed under httpMutex, *)
(* where the server was public and the thread current (Licensed), nobody   *)
(* can remove the entry or end the game's generation without that lock     *)
(* (RequestsExclusive), and no generation a left-over thread carries is    *)
(* ever current again, because a stop takes a generation too (Retired).    *)
(***************************************************************************)
EXTENDS HeartbeatThread, TLAPS

PublicKnown == running /\ ~ hidden => public
Licensed == \A g \in Gen : pc[g] = "post" => public /\ ended < g
RunningFlag ==
  /\ engine \in {"stop", "wait", "delete"} => ~ running
  /\ engine = "start" => running
Retired ==
  (~ running /\ engine # "stop") \/ engine = "start" =>
    \A g \in Gen : pc[g] # "none" => g < generation
Room == engine \in {"start", "stop"} => generation < MaxGeneration
EndedBehind == running /\ engine # "start" => ended < generation

IInv ==
  /\ TypeOK /\ RequestsExclusive /\ NotRelisted
  /\ PublicKnown /\ Licensed /\ RunningFlag /\ Retired /\ EndedBehind /\ Room

LEMMA HeartbeatInitial == Init => IInv
<1> USE HeartbeatAssumption DEF HeartbeatAssumption, Gen, Engine, Nobody
<1> SUFFICES ASSUME Init PROVE IInv
  OBVIOUS
<1>1. TypeOK
  <2>1. /\ generation \in 0 .. MaxGeneration /\ ended \in 0 .. generation
        /\ mutex \in Gen \cup {Engine, Nobody}
    BY DEF Init
  <2>2. pc \in [Gen -> Pcs] /\ \A h \in Gen : pc[h] # "none" => h <= generation
    BY DEF Init, Pcs
  <2> QED
    BY <2>1, <2>2 DEF Init, TypeOK
<1>2. RequestsExclusive
  BY DEF Init, RequestsExclusive
<1> QED
  BY <1>1, <1>2 DEF Init, IInv, NotRelisted, PublicKnown, Licensed, RunningFlag, Retired,
    EndedBehind, Room

\* The engine thread's own steps.
LEMMA EngineKeeps ==
  ASSUME IInv,
         \/ StartRunning \/ StopRunning \/ EngineStep
         \/ \E value \in BOOLEAN : SetHidden(value)
  PROVE  IInv'
<1> USE HeartbeatAssumption DEF HeartbeatAssumption, Gen, Engine, Nobody
<1>1. CASE StartRunning
  <2>1. TypeOK'
    BY <1>1 DEF IInv, StartRunning, threadVars, TypeOK, Room, Pcs
  <2>2. RequestsExclusive'
    BY <1>1 DEF IInv, StartRunning, threadVars, TypeOK, RequestsExclusive
  <2>3. NotRelisted'
    BY <1>1 DEF IInv, StartRunning, threadVars, NotRelisted, TypeOK, Licensed
  <2>4. PublicKnown'
    BY <1>1 DEF IInv, StartRunning, threadVars, PublicKnown, TypeOK, RunningFlag
  <2>5. Licensed'
    BY <1>1 DEF IInv, StartRunning, threadVars, TypeOK, Licensed, PublicKnown, EndedBehind, RequestsExclusive, Retired
  <2>6. RunningFlag' /\ EndedBehind' /\ Room'
    BY <1>1 DEF IInv, StartRunning, threadVars, RunningFlag, TypeOK, EndedBehind, Room
  <2>7. Retired'
    BY <1>1 DEF IInv, StartRunning, threadVars, Retired, TypeOK, RunningFlag
  <2> QED
    BY <2>1, <2>2, <2>3, <2>4, <2>5, <2>6, <2>7 DEF IInv
<1>2. CASE StopRunning
  <2>1. TypeOK'
    BY <1>2 DEF IInv, StopRunning, threadVars, TypeOK, Room, Pcs
  <2>2. RequestsExclusive'
    BY <1>2 DEF IInv, StopRunning, threadVars, TypeOK, RequestsExclusive
  <2>3. NotRelisted'
    BY <1>2 DEF IInv, StopRunning, threadVars, NotRelisted, TypeOK, Licensed
  <2>4. PublicKnown'
    BY <1>2 DEF IInv, StopRunning, threadVars, PublicKnown, TypeOK, RunningFlag
  <2>5. Licensed'
    BY <1>2 DEF IInv, StopRunning, threadVars, TypeOK, Licensed, PublicKnown, EndedBehind, RequestsExclusive, Retired
  <2>6. RunningFlag' /\ EndedBehind' /\ Room'
    BY <1>2 DEF IInv, StopRunning, threadVars, RunningFlag, TypeOK, EndedBehind, Room
  <2>7. Retired'
    BY <1>2 DEF IInv, StopRunning, threadVars, Retired, TypeOK, RunningFlag
  <2> QED
    BY <2>1, <2>2, <2>3, <2>4, <2>5, <2>6, <2>7 DEF IInv
<1>3. CASE StartThread
  <2>1. TypeOK'
    <3>1. /\ generation' \in 0 .. MaxGeneration /\ ended' \in 0 .. generation'
          /\ mutex' \in Gen \cup {Engine, Nobody}
      BY <1>3 DEF IInv, StartThread, TypeOK, Room
    <3>2. \A h \in Gen : h <= generation => h <= generation'
      BY <1>3 DEF IInv, StartThread, TypeOK
    <3>3. pc' \in [Gen -> Pcs] /\ \A h \in Gen : pc'[h] # "none" => h <= generation'
      <4>1. \A h \in Gen : pc'[h] = pc[h] \/ h = generation'
        BY <1>3, <3>1 DEF IInv, StartThread, TypeOK
      <4>2. \A h \in Gen : h = generation' => h <= generation'
        OBVIOUS
      <4>3. pc' \in [Gen -> Pcs]
        BY <1>3 DEF IInv, StartThread, TypeOK, Pcs
      <4> QED
        BY <3>2, <4>1, <4>2, <4>3 DEF IInv, TypeOK
    <3>4. /\ running' \in BOOLEAN /\ listed' \in BOOLEAN /\ hidden' \in BOOLEAN
          /\ wasHidden' \in [Gen -> BOOLEAN] /\ due' \in [Gen -> BOOLEAN]
          /\ entry' \in BOOLEAN /\ public' \in BOOLEAN
          /\ engine' \in {"idle", "start", "stop", "wait", "delete"}
      BY <1>3 DEF IInv, StartThread, TypeOK
    <3> QED
      BY <3>1, <3>3, <3>4 DEF TypeOK
  <2>2. RequestsExclusive'
    BY <1>3 DEF IInv, StartThread, TypeOK, RequestsExclusive
  <2>3. NotRelisted'
    BY <1>3 DEF IInv, StartThread, NotRelisted, TypeOK, Licensed
  <2>4. PublicKnown'
    BY <1>3 DEF IInv, StartThread, PublicKnown, TypeOK, RunningFlag
  <2>5. Licensed'
    BY <1>3 DEF IInv, StartThread, TypeOK, Licensed, PublicKnown, EndedBehind, RequestsExclusive, Retired
  <2>6. RunningFlag' /\ EndedBehind' /\ Room'
    BY <1>3 DEF IInv, StartThread, RunningFlag, TypeOK, EndedBehind, Room
  <2>7. Retired'
    <3>1. running' /\ engine' = "idle"
      BY <1>3 DEF IInv, StartThread, RunningFlag
    <3> QED
      BY <3>1 DEF Retired
  <2> QED
    BY <2>1, <2>2, <2>3, <2>4, <2>5, <2>6, <2>7 DEF IInv
<1>4. CASE StopThread
  <2>1. TypeOK'
    <3>1. /\ generation' \in 0 .. MaxGeneration /\ ended' \in 0 .. generation'
          /\ mutex' \in Gen \cup {Engine, Nobody}
      BY <1>4 DEF IInv, StopThread, threadVars, TypeOK, Room
    <3>2. \A h \in Gen : h <= generation => h <= generation'
      BY <1>4 DEF IInv, StopThread, threadVars, TypeOK
    <3>3. pc' \in [Gen -> Pcs] /\ \A h \in Gen : pc'[h] # "none" => h <= generation'
      <4>1. \A h \in Gen : pc'[h] = pc[h] \/ h = generation'
        BY <1>4, <3>1 DEF IInv, StopThread, threadVars, TypeOK
      <4>2. \A h \in Gen : h = generation' => h <= generation'
        OBVIOUS
      <4>3. pc' \in [Gen -> Pcs]
        BY <1>4 DEF IInv, StopThread, threadVars, TypeOK, Pcs
      <4> QED
        BY <3>2, <4>1, <4>2, <4>3 DEF IInv, TypeOK
    <3>4. /\ running' \in BOOLEAN /\ listed' \in BOOLEAN /\ hidden' \in BOOLEAN
          /\ wasHidden' \in [Gen -> BOOLEAN] /\ due' \in [Gen -> BOOLEAN]
          /\ entry' \in BOOLEAN /\ public' \in BOOLEAN
          /\ engine' \in {"idle", "start", "stop", "wait", "delete"}
      BY <1>4 DEF IInv, StopThread, threadVars, TypeOK
    <3> QED
      BY <3>1, <3>3, <3>4 DEF TypeOK
  <2>2. RequestsExclusive'
    BY <1>4 DEF IInv, StopThread, threadVars, TypeOK, RequestsExclusive
  <2>3. NotRelisted'
    BY <1>4 DEF IInv, StopThread, threadVars, NotRelisted, TypeOK, Licensed
  <2>4. PublicKnown'
    BY <1>4 DEF IInv, StopThread, threadVars, PublicKnown, TypeOK, RunningFlag
  <2>5. Licensed'
    BY <1>4 DEF IInv, StopThread, threadVars, TypeOK, Licensed, PublicKnown, EndedBehind, RequestsExclusive, Retired
  <2>6. RunningFlag' /\ EndedBehind' /\ Room'
    BY <1>4 DEF IInv, StopThread, threadVars, RunningFlag, TypeOK, EndedBehind, Room
  <2>7. Retired'
    BY <1>4 DEF IInv, StopThread, threadVars, Retired, TypeOK, RunningFlag
  <2> QED
    BY <2>1, <2>2, <2>3, <2>4, <2>5, <2>6, <2>7 DEF IInv
<1>5. CASE EngineLocks
  <2>1. TypeOK'
    BY <1>5 DEF IInv, EngineLocks, threadVars, TypeOK, Room, Pcs
  <2>2. RequestsExclusive'
    BY <1>5 DEF IInv, EngineLocks, threadVars, TypeOK, RequestsExclusive
  <2>3. NotRelisted'
    BY <1>5 DEF IInv, EngineLocks, threadVars, NotRelisted, TypeOK, Licensed
  <2>4. PublicKnown'
    BY <1>5 DEF IInv, EngineLocks, threadVars, PublicKnown, TypeOK, RunningFlag
  <2>5. Licensed'
    BY <1>5 DEF IInv, EngineLocks, threadVars, TypeOK, Licensed, PublicKnown, EndedBehind, RequestsExclusive, Retired
  <2>6. RunningFlag' /\ EndedBehind' /\ Room'
    BY <1>5 DEF IInv, EngineLocks, threadVars, RunningFlag, TypeOK, EndedBehind, Room
  <2>7. Retired'
    BY <1>5 DEF IInv, EngineLocks, threadVars, Retired, TypeOK, RunningFlag
  <2> QED
    BY <2>1, <2>2, <2>3, <2>4, <2>5, <2>6, <2>7 DEF IInv
<1>6. ASSUME NEW o \in outcomes, EngineDeletes(o) PROVE IInv'
  <2>1. TypeOK'
    <3>1. /\ generation' \in 0 .. MaxGeneration /\ ended' \in 0 .. generation'
          /\ mutex' \in Gen \cup {Engine, Nobody}
      BY <1>6 DEF IInv, EngineDeletes, Deletes, Arrives, threadVars, TypeOK, Room
    <3>2. \A h \in Gen : h <= generation => h <= generation'
      BY <1>6 DEF IInv, EngineDeletes, Deletes, Arrives, threadVars, TypeOK
    <3>3. pc' \in [Gen -> Pcs] /\ \A h \in Gen : pc'[h] # "none" => h <= generation'
      <4>1. \A h \in Gen : pc'[h] = pc[h] \/ h = generation'
        BY <1>6, <3>1 DEF IInv, EngineDeletes, Deletes, Arrives, threadVars, TypeOK
      <4>2. \A h \in Gen : h = generation' => h <= generation'
        OBVIOUS
      <4>3. pc' \in [Gen -> Pcs]
        BY <1>6 DEF IInv, EngineDeletes, Deletes, Arrives, threadVars, TypeOK, Pcs
      <4> QED
        BY <3>2, <4>1, <4>2, <4>3 DEF IInv, TypeOK
    <3>4. /\ running' \in BOOLEAN /\ listed' \in BOOLEAN /\ hidden' \in BOOLEAN
          /\ wasHidden' \in [Gen -> BOOLEAN] /\ due' \in [Gen -> BOOLEAN]
          /\ entry' \in BOOLEAN /\ public' \in BOOLEAN
          /\ engine' \in {"idle", "start", "stop", "wait", "delete"}
      BY <1>6 DEF IInv, EngineDeletes, Deletes, Arrives, threadVars, TypeOK
    <3> QED
      BY <3>1, <3>3, <3>4 DEF TypeOK
  <2>2. RequestsExclusive'
    BY <1>6 DEF IInv, EngineDeletes, Deletes, Arrives, threadVars, TypeOK, RequestsExclusive
  <2>3. NotRelisted'
    BY <1>6 DEF IInv, EngineDeletes, Deletes, Arrives, threadVars, NotRelisted, TypeOK, Licensed
  <2>4. PublicKnown'
    BY <1>6 DEF IInv, EngineDeletes, Deletes, Arrives, threadVars, PublicKnown, TypeOK, RunningFlag
  <2>5. Licensed'
    BY <1>6 DEF IInv, EngineDeletes, Deletes, Arrives, threadVars, TypeOK, Licensed, PublicKnown, EndedBehind, RequestsExclusive, Retired
  <2>6. RunningFlag' /\ EndedBehind' /\ Room'
    BY <1>6 DEF IInv, EngineDeletes, Deletes, Arrives, threadVars, RunningFlag, TypeOK, EndedBehind, Room
  <2>7. Retired'
    BY <1>6 DEF IInv, EngineDeletes, Deletes, Arrives, threadVars, Retired, TypeOK, RunningFlag
  <2> QED
    BY <2>1, <2>2, <2>3, <2>4, <2>5, <2>6, <2>7 DEF IInv
<1>7. ASSUME NEW value \in BOOLEAN, SetHidden(value) PROVE IInv'
  BY <1>7 DEF SetHidden, threadVars, IInv, TypeOK, Pcs, RequestsExclusive, NotRelisted, PublicKnown, Licensed,
    RunningFlag, Retired, EndedBehind, Room
<1> QED
  BY <1>1, <1>2, <1>3, <1>4, <1>5, <1>6, <1>7 DEF EngineStep

\* The steps of a heartbeat thread.
LEMMA ThreadKeeps ==
  ASSUME IInv, NEW g \in Gen, Thread(g)
  PROVE  IInv'
<1> USE HeartbeatAssumption DEF HeartbeatAssumption, Gen, Engine, Nobody
<1>1. CASE Begin(g)
  BY <1>1 DEF Begin, IInv, TypeOK, Pcs, RequestsExclusive, NotRelisted, PublicKnown, Licensed,
    RunningFlag, Retired, EndedBehind, Room
<1>2. CASE LoopHead(g)
  BY <1>2 DEF LoopHead, IInv, TypeOK, Pcs, RequestsExclusive, NotRelisted, PublicKnown, Licensed,
    RunningFlag, Retired, EndedBehind, Room
<1>3. CASE Poll(g)
  BY <1>3 DEF Poll, IInv, TypeOK, Pcs, RequestsExclusive, NotRelisted, PublicKnown, Licensed,
    RunningFlag, Retired, EndedBehind, Room
<1>4. CASE Hide(g)
  BY <1>4 DEF Hide, IInv, TypeOK, Pcs, RequestsExclusive, NotRelisted, PublicKnown, Licensed,
    RunningFlag, Retired, EndedBehind, Room
<1>5. CASE DelistLocks(g)
  <2>1. TypeOK'
    BY <1>5 DEF IInv, DelistLocks, TypeOK, Room, Pcs
  <2>2. RequestsExclusive'
    <3>1. \A h \in Gen : h # Nobody /\ h # Engine
      OBVIOUS
    <3>2. \A h \in Gen : pc[h] \notin {"delete", "check", "post"}
      BY <1>5, <3>1 DEF IInv, DelistLocks, RequestsExclusive
    <3>3. mutex' = g /\ mutex' # Engine /\ pc'[g] \in {"delete", "check", "post"}
      BY <1>5, <3>1 DEF IInv, DelistLocks, TypeOK
    <3>4. \A h \in Gen : h # g => pc'[h] = pc[h]
      BY <1>5 DEF IInv, DelistLocks, TypeOK
    <3>5. Nobody # Engine
      OBVIOUS
    <3>6. engine' # "delete"
      BY <1>5, <3>5 DEF IInv, DelistLocks, RequestsExclusive
    <3> QED
      BY <3>2, <3>3, <3>4, <3>6 DEF RequestsExclusive
  <2>3. NotRelisted'
    BY <1>5 DEF IInv, DelistLocks, NotRelisted, TypeOK, Licensed
  <2>4. PublicKnown'
    BY <1>5 DEF IInv, DelistLocks, PublicKnown, TypeOK, RunningFlag
  <2>5. Licensed'
    BY <1>5 DEF IInv, DelistLocks, TypeOK, Licensed, PublicKnown, EndedBehind, RequestsExclusive, Retired
  <2>6. RunningFlag' /\ EndedBehind' /\ Room'
    BY <1>5 DEF IInv, DelistLocks, RunningFlag, TypeOK, EndedBehind, Room
  <2>7. Retired'
    BY <1>5 DEF IInv, DelistLocks, Retired, TypeOK, RunningFlag
  <2> QED
    BY <2>1, <2>2, <2>3, <2>4, <2>5, <2>6, <2>7 DEF IInv
<1>6. CASE HeartbeatLocks(g)
  <2>1. TypeOK'
    BY <1>6 DEF IInv, HeartbeatLocks, TypeOK, Room, Pcs
  <2>2. RequestsExclusive'
    <3>1. \A h \in Gen : h # Nobody /\ h # Engine
      OBVIOUS
    <3>2. \A h \in Gen : pc[h] \notin {"delete", "check", "post"}
      BY <1>6, <3>1 DEF IInv, HeartbeatLocks, RequestsExclusive
    <3>3. mutex' = g /\ mutex' # Engine /\ pc'[g] \in {"delete", "check", "post"}
      BY <1>6, <3>1 DEF IInv, HeartbeatLocks, TypeOK
    <3>4. \A h \in Gen : h # g => pc'[h] = pc[h]
      BY <1>6 DEF IInv, HeartbeatLocks, TypeOK
    <3>5. Nobody # Engine
      OBVIOUS
    <3>6. engine' # "delete"
      BY <1>6, <3>5 DEF IInv, HeartbeatLocks, RequestsExclusive
    <3> QED
      BY <3>2, <3>3, <3>4, <3>6 DEF RequestsExclusive
  <2>3. NotRelisted'
    BY <1>6 DEF IInv, HeartbeatLocks, NotRelisted, TypeOK, Licensed
  <2>4. PublicKnown'
    BY <1>6 DEF IInv, HeartbeatLocks, PublicKnown, TypeOK, RunningFlag
  <2>5. Licensed'
    BY <1>6 DEF IInv, HeartbeatLocks, TypeOK, Licensed, PublicKnown, EndedBehind, RequestsExclusive, Retired
  <2>6. RunningFlag' /\ EndedBehind' /\ Room'
    BY <1>6 DEF IInv, HeartbeatLocks, RunningFlag, TypeOK, EndedBehind, Room
  <2>7. Retired'
    BY <1>6 DEF IInv, HeartbeatLocks, Retired, TypeOK, RunningFlag
  <2> QED
    BY <2>1, <2>2, <2>3, <2>4, <2>5, <2>6, <2>7 DEF IInv
<1>7. CASE HeartbeatCheck(g)
  <2>1. TypeOK'
    BY <1>7 DEF IInv, HeartbeatCheck, IsCurrentHeartbeatThread, TypeOK, Room, Pcs
  <2>2. RequestsExclusive'
    BY <1>7 DEF IInv, HeartbeatCheck, IsCurrentHeartbeatThread, TypeOK, RequestsExclusive
  <2>3. NotRelisted'
    BY <1>7 DEF IInv, HeartbeatCheck, IsCurrentHeartbeatThread, NotRelisted, TypeOK, Licensed
  <2>4. PublicKnown'
    BY <1>7 DEF IInv, HeartbeatCheck, IsCurrentHeartbeatThread, PublicKnown, TypeOK, RunningFlag
  <2>5. Licensed'
    BY <1>7 DEF IInv, HeartbeatCheck, IsCurrentHeartbeatThread, TypeOK, Licensed, PublicKnown, EndedBehind, RequestsExclusive, Retired
  <2>6. RunningFlag' /\ EndedBehind' /\ Room'
    BY <1>7 DEF IInv, HeartbeatCheck, IsCurrentHeartbeatThread, RunningFlag, TypeOK, EndedBehind, Room
  <2>7. Retired'
    BY <1>7 DEF IInv, HeartbeatCheck, IsCurrentHeartbeatThread, Retired, TypeOK, RunningFlag
  <2> QED
    BY <2>1, <2>2, <2>3, <2>4, <2>5, <2>6, <2>7 DEF IInv
<1>8. ASSUME NEW o \in outcomes, Delist(g, o) PROVE IInv'
  <2>1. TypeOK'
    BY <1>8 DEF IInv, Delist, Deletes, Arrives, TypeOK, Room, Pcs
  <2>2. RequestsExclusive'
    BY <1>8 DEF IInv, Delist, Deletes, Arrives, TypeOK, RequestsExclusive
  <2>3. NotRelisted'
    BY <1>8 DEF IInv, Delist, Deletes, Arrives, NotRelisted, TypeOK, Licensed
  <2>4. PublicKnown'
    BY <1>8 DEF IInv, Delist, Deletes, Arrives, PublicKnown, TypeOK, RunningFlag
  <2>5. Licensed'
    BY <1>8 DEF IInv, Delist, Deletes, Arrives, TypeOK, Licensed, PublicKnown, EndedBehind, RequestsExclusive, Retired
  <2>6. RunningFlag' /\ EndedBehind' /\ Room'
    BY <1>8 DEF IInv, Delist, Deletes, Arrives, RunningFlag, TypeOK, EndedBehind, Room
  <2>7. Retired'
    BY <1>8 DEF IInv, Delist, Deletes, Arrives, Retired, TypeOK, RunningFlag
  <2> QED
    BY <2>1, <2>2, <2>3, <2>4, <2>5, <2>6, <2>7 DEF IInv
<1>9. ASSUME NEW o \in outcomes, Heartbeat(g, o) PROVE IInv'
  <2>1. TypeOK'
    BY <1>9 DEF IInv, Heartbeat, Arrives, TypeOK, Room, Pcs
  <2>2. RequestsExclusive'
    BY <1>9 DEF IInv, Heartbeat, Arrives, TypeOK, RequestsExclusive
  <2>3. NotRelisted'
    BY <1>9 DEF IInv, Heartbeat, Arrives, NotRelisted, TypeOK, Licensed
  <2>4. PublicKnown'
    BY <1>9 DEF IInv, Heartbeat, Arrives, PublicKnown, TypeOK, RunningFlag
  <2>5. Licensed'
    BY <1>9 DEF IInv, Heartbeat, Arrives, TypeOK, Licensed, PublicKnown, EndedBehind, RequestsExclusive, Retired
  <2>6. RunningFlag' /\ EndedBehind' /\ Room'
    BY <1>9 DEF IInv, Heartbeat, Arrives, RunningFlag, TypeOK, EndedBehind, Room
  <2>7. Retired'
    BY <1>9 DEF IInv, Heartbeat, Arrives, Retired, TypeOK, RunningFlag
  <2> QED
    BY <2>1, <2>2, <2>3, <2>4, <2>5, <2>6, <2>7 DEF IInv
<1> QED
  BY <1>1, <1>2, <1>3, <1>4, <1>5, <1>6, <1>7, <1>8, <1>9 DEF Thread

LEMMA HeartbeatStep == IInv /\ [Next]_vars => IInv'
<1> SUFFICES ASSUME IInv, [Next]_vars PROVE IInv'
  OBVIOUS
<1>1. ASSUME NEW g \in Gen, Due(g) PROVE IInv'
  BY <1>1, HeartbeatAssumption DEF HeartbeatAssumption, Due, IInv, TypeOK, Pcs, RequestsExclusive, NotRelisted,
    PublicKnown, Licensed, RunningFlag, Retired, EndedBehind, Room
<1>2. CASE Expire
  BY <1>2 DEF Expire, threadVars, IInv, TypeOK, RequestsExclusive, NotRelisted, PublicKnown,
    Licensed, RunningFlag, Retired, EndedBehind, Room
<1>3. CASE UNCHANGED vars
  BY <1>3 DEF vars, IInv, TypeOK, RequestsExclusive, NotRelisted, PublicKnown, Licensed,
    RunningFlag, Retired, EndedBehind, Room
<1> QED
  BY <1>1, <1>2, <1>3, EngineKeeps, ThreadKeeps DEF Next

\* The inductive invariant holds in every reachable state.
THEOREM HeartbeatInvariant == Spec => []IInv
BY HeartbeatInitial, HeartbeatStep, PTL DEF Spec

\* Every variable keeps its type, and no thread carries a generation that was
\* not handed out yet.
THEOREM HeartbeatTypes == Spec => []TypeOK
<1>1. IInv => TypeOK
  BY DEF IInv
<1> QED
  BY <1>1, HeartbeatInvariant, PTL

\* A server that was removed from the master because it was hidden or shut
\* down is only listed again after it was up and public (masterserver.cpp:190).
THEOREM RemovalSticks == Spec => []NotRelisted
<1>1. IInv => NotRelisted
  BY DEF IInv
<1> QED
  BY <1>1, HeartbeatInvariant, PTL

\* No thread of a game that was shut down posts a heartbeat any more.
THEOREM ShutdownEndsHeartbeats == Spec => []NoHeartbeatAfterShutdown
<1>1. IInv => NoHeartbeatAfterShutdown
  BY DEF IInv, Licensed, NoHeartbeatAfterShutdown
<1> QED
  BY <1>1, HeartbeatInvariant, PTL

\* Requests to the master are made one at a time.
THEOREM OneRequestAtATime == Spec => []RequestsExclusive
<1>1. IInv => RequestsExclusive
  BY DEF IInv
<1> QED
  BY <1>1, HeartbeatInvariant, PTL
=============================================================================
