------------------------- MODULE TurnClient_proofs -------------------------
(***************************************************************************)
(* The safety of TurnClient for any number of allocation threads, detached *)
(* Stops, relays and users.                                                *)
(*                                                                         *)
(* Until two threads have once been alive together (Solo), the socket is   *)
(* that of the one thread between opening and releasing it (Owner), an     *)
(* allocation is only announced while there is such a socket (Announced),  *)
(* and an allocation the relay still keeps is announced (Held): the        *)
(* release at the end of the thread then finds and returns it.             *)
(***************************************************************************)
EXTENDS TurnClient, TLAPS

Serving == {"loop", "receive", "tick", "release"}

\* Start is on its way to a launch it has room for.
Room == starter.at # "idle" => generation < MaxGeneration /\ starter.creds \in Credentials
Taken == starter.at \in {"join", "launch"} => handle = None

Started == \A g \in Gen : pc[g] # "none" => g <= generation
Solo == ~ overlapped => \A g, h \in Gen : Alive(g) /\ Alive(h) => g = h
Owner == ~ overlapped => \A g \in Gen : pc[g] \in Serving <=> socket = g
Announced == ~ overlapped /\ state = "Allocated" => socket # None
Held == ~ overlapped /\ held # {} => state = "Allocated" /\ held = {socket}
Relay == Started /\ Solo /\ Owner /\ Announced /\ Held

\* The types, in three parts.
ObjectType ==
  /\ running \in BOOLEAN
  /\ generation \in 0 .. MaxGeneration /\ handle \in 0 .. generation
  /\ creds \in Credentials \cup {NoCreds} /\ (generation > 0 => creds # NoCreds)
  /\ pendingCreds \in Credentials \cup {NoCreds}
  /\ state \in States
  /\ socket \in 0 .. generation
ThreadType ==
  /\ overlapped \in BOOLEAN /\ held \subseteq Gen
  /\ pc \in [Gen -> Pcs]
  /\ given \in [Gen -> Credentials \cup {NoCreds}]
Requests == pending \subseteq [method : {"allocate", "refresh", "release"}, via : 0 .. generation]
CallerType ==
  /\ starter \in [at : {"idle", "stop", "join", "launch"}, creds : Credentials \cup {NoCreds},
                  joins : 0 .. generation]
  /\ stopper \in [Stopper -> [at : {"none", "stop", "join", "done"}, joins : 0 .. generation]]

LEMMA TypeParts == TypeOK <=> ObjectType /\ ThreadType /\ Requests /\ CallerType
  BY DEF TypeOK, ObjectType, ThreadType, Requests, CallerType

\* The inductive invariant.
IInv == ObjectType /\ ThreadType /\ Requests /\ CallerType /\ Room /\ Taken /\ Relay

-----------------------------------------------------------------------------
LEMMA TurnInitial == Init => IInv
<1> USE TurnAssumption DEF TurnAssumption, Gen, None
<1> SUFFICES ASSUME Init PROVE IInv
  OBVIOUS
<1>1. ObjectType /\ Requests
  <2>1. /\ generation \in 0 .. MaxGeneration /\ handle \in 0 .. generation
        /\ socket \in 0 .. generation /\ ~ (generation > 0)
    BY DEF Init
  <2>2. /\ running \in BOOLEAN /\ state \in States /\ pending = {}
        /\ creds \in Credentials \cup {NoCreds} /\ pendingCreds \in Credentials \cup {NoCreds}
    BY DEF Init, States
  <2> QED
    BY <2>1, <2>2 DEF ObjectType, Requests
<1>2. ThreadType
  BY DEF Init, ThreadType, Pcs
<1>3. CallerType
  <2>1. NoCreds \in Credentials \cup {NoCreds} /\ None \in 0 .. generation
    BY DEF Init
  <2> QED
    BY <2>1 DEF Init, CallerType, IdleStarter
<1>4. Room /\ Taken
  BY DEF Init, Room, Taken, IdleStarter
<1>5. Relay
  BY DEF Init, Relay, Started, Solo, Owner, Announced, Held, Serving, Alive
<1> QED
  BY <1>1, <1>2, <1>3, <1>4, <1>5 DEF IInv

-----------------------------------------------------------------------------
(* What the callers and the threads leave alone *)

\* Start and Stop up to the launch do not touch the threads' side.
LEMMA CallersKeepRelay ==
  ASSUME Relay, UNCHANGED <<pc, socket, state, held, overlapped, generation>>
  PROVE  Relay'
  BY DEF Relay, Started, Solo, Owner, Announced, Held, Alive

\* A thread does not touch the callers' side.
LEMMA ThreadsKeepCallers ==
  ASSUME CallerType, Room, Taken, UNCHANGED <<generation, handle, starter, stopper>>
  PROVE  CallerType' /\ Room' /\ Taken'
  BY DEF CallerType, Room, Taken

\* Sending requests, again or for the first time, keeps the requests well typed.
LEMMA SendingTyped ==
  ASSUME ObjectType, Requests
  PROVE  /\ \A m \in {"allocate", "refresh", "release"} :
              Request(m) \in [method : {"allocate", "refresh", "release"}, via : 0 .. generation]
         /\ \A R \in SUBSET pending :
              Resent(R) \subseteq [method : {"allocate", "refresh", "release"}, via : 0 .. generation]
<1>1. \A m \in {"allocate", "refresh", "release"} :
        Request(m) \in [method : {"allocate", "refresh", "release"}, via : 0 .. generation]
  BY DEF ObjectType, Request
<1>2. \A r \in pending : r.method \in {"allocate", "refresh", "release"}
  BY DEF Requests
<1> QED
  BY <1>1, <1>2 DEF Resent


-----------------------------------------------------------------------------
(* Start and Stop *)

LEMMA StartKeepsKeeps ==
  ASSUME IInv, NEW c \in Credentials, StartKeeps(c)
  PROVE  IInv'
<1> USE TurnAssumption DEF TurnAssumption, Gen, None
<1>1. ObjectType' /\ ThreadType' /\ Requests'
  BY DEF IInv, StartKeeps, history, callers, ObjectType, ThreadType, Requests
<1>2. CallerType'
  BY DEF IInv, StartKeeps, history, callers, ObjectType, CallerType
<1>3. Room' /\ Taken'
  BY DEF IInv, StartKeeps, history, callers, ObjectType, CallerType, Room, Taken
<1>4. Relay'
  BY CallersKeepRelay DEF IInv, StartKeeps, history, callers
<1> QED
  BY <1>1, <1>2, <1>3, <1>4 DEF IInv

LEMMA StartRestartsKeeps ==
  ASSUME IInv, NEW c \in Credentials, StartRestarts(c)
  PROVE  IInv'
<1> USE TurnAssumption DEF TurnAssumption, Gen, None
<1>1. ObjectType' /\ ThreadType' /\ Requests'
  BY DEF IInv, StartRestarts, objectVars, history, ObjectType, ThreadType, Requests
<1>2. CallerType'
  BY DEF IInv, StartRestarts, objectVars, history, ObjectType, CallerType
<1>3. Room' /\ Taken'
  BY DEF IInv, StartRestarts, objectVars, history, ObjectType, CallerType, Room, Taken
<1>4. Relay'
  BY CallersKeepRelay DEF IInv, StartRestarts, objectVars, history
<1> QED
  BY <1>1, <1>2, <1>3, <1>4 DEF IInv

LEMMA StarterStopsKeeps ==
  ASSUME IInv, StarterStops
  PROVE  IInv'
<1> USE TurnAssumption DEF TurnAssumption, Gen, None
<1>1. ObjectType' /\ ThreadType' /\ Requests'
  <2>1. None \in 0 .. generation
    BY DEF IInv, ObjectType
  <2>2. ObjectType'
    BY <2>1 DEF IInv, StarterStops, objectVars, history, ObjectType
  <2>3. ThreadType' /\ Requests'
    BY DEF IInv, StarterStops, objectVars, history, ThreadType, Requests
  <2> QED
    BY <2>2, <2>3
<1>2. CallerType'
  BY DEF IInv, StarterStops, objectVars, history, ObjectType, CallerType
<1>3. Room' /\ Taken'
  BY DEF IInv, StarterStops, objectVars, history, ObjectType, CallerType, Room, Taken
<1>4. Relay'
  BY CallersKeepRelay DEF IInv, StarterStops, objectVars, history
<1> QED
  BY <1>1, <1>2, <1>3, <1>4 DEF IInv

LEMMA StarterJoinsKeeps ==
  ASSUME IInv, StarterJoins
  PROVE  IInv'
<1> USE TurnAssumption DEF TurnAssumption, Gen, None
<1>1. ObjectType' /\ ThreadType' /\ Requests'
  BY DEF IInv, StarterJoins, objectVars, history, ObjectType, ThreadType, Requests
<1>2. CallerType'
  BY DEF IInv, StarterJoins, objectVars, history, ObjectType, CallerType
<1>3. Room' /\ Taken'
  BY DEF IInv, StarterJoins, objectVars, history, ObjectType, CallerType, Room, Taken
<1>4. Relay'
  BY CallersKeepRelay DEF IInv, StarterJoins, objectVars, history
<1> QED
  BY <1>1, <1>2, <1>3, <1>4 DEF IInv

LEMMA ServiceFindsIdleKeeps ==
  ASSUME IInv, NEW s \in Stopper, ServiceFindsIdle(s)
  PROVE  IInv'
<1> USE TurnAssumption DEF TurnAssumption, Gen, None
<1>1. ObjectType' /\ ThreadType' /\ Requests'
  BY DEF IInv, ServiceFindsIdle, objectVars, history, ObjectType, ThreadType, Requests
<1>2. CallerType'
  BY DEF IInv, ServiceFindsIdle, objectVars, history, ObjectType, CallerType
<1>3. Room' /\ Taken'
  BY DEF IInv, ServiceFindsIdle, objectVars, history, ObjectType, CallerType, Room, Taken
<1>4. Relay'
  BY CallersKeepRelay DEF IInv, ServiceFindsIdle, objectVars, history
<1> QED
  BY <1>1, <1>2, <1>3, <1>4 DEF IInv

LEMMA StopperStopsKeeps ==
  ASSUME IInv, NEW s \in Stopper, StopperStops(s)
  PROVE  IInv'
<1> USE TurnAssumption DEF TurnAssumption, Gen, None
<1>1. ObjectType' /\ ThreadType' /\ Requests'
  <2>1. None \in 0 .. generation
    BY DEF IInv, ObjectType
  <2>2. ObjectType'
    BY <2>1 DEF IInv, StopperStops, objectVars, history, ObjectType
  <2>3. ThreadType' /\ Requests'
    BY DEF IInv, StopperStops, objectVars, history, ThreadType, Requests
  <2> QED
    BY <2>2, <2>3
<1>2. CallerType'
  BY DEF IInv, StopperStops, objectVars, history, ObjectType, CallerType
<1>3. Room' /\ Taken'
  BY DEF IInv, StopperStops, objectVars, history, ObjectType, CallerType, Room, Taken
<1>4. Relay'
  BY CallersKeepRelay DEF IInv, StopperStops, objectVars, history
<1> QED
  BY <1>1, <1>2, <1>3, <1>4 DEF IInv

LEMMA StopperJoinsKeeps ==
  ASSUME IInv, NEW s \in Stopper, StopperJoins(s)
  PROVE  IInv'
<1> USE TurnAssumption DEF TurnAssumption, Gen, None
<1>1. ObjectType' /\ ThreadType' /\ Requests'
  BY DEF IInv, StopperJoins, objectVars, history, ObjectType, ThreadType, Requests
<1>2. CallerType'
  BY DEF IInv, StopperJoins, objectVars, history, ObjectType, CallerType
<1>3. Room' /\ Taken'
  BY DEF IInv, StopperJoins, objectVars, history, ObjectType, CallerType, Room, Taken
<1>4. Relay'
  BY CallersKeepRelay DEF IInv, StopperJoins, objectVars, history
<1> QED
  BY <1>1, <1>2, <1>3, <1>4 DEF IInv

\* The new thread is the only one alive, or the threads overlap from now on.
LEMMA LaunchKeeps ==
  ASSUME IInv, Launch
  PROVE  IInv'
<1> USE TurnAssumption DEF TurnAssumption, Gen, None
<1>1. generation' \in Gen /\ generation' = generation + 1 /\ generation \in 0 .. MaxGeneration
      /\ starter.creds \in Credentials
  BY DEF IInv, Launch, ObjectType, Room
<1>2. 0 .. generation \subseteq 0 .. generation'
  BY <1>1
<1>3. ObjectType' /\ ThreadType'
  <2>1. \A c \in Credentials : c # NoCreds
    BY DEF Credentials, NoCreds
  <2>2. ObjectType'
    BY <1>1, <1>2, <2>1 DEF IInv, Launch, ObjectType
  <2>3. ThreadType'
    BY <1>1 DEF IInv, Launch, ThreadType, Pcs
  <2> QED
    BY <2>2, <2>3
<1>4. Requests'
  BY <1>2 DEF IInv, Launch, Requests
<1>5. CallerType'
  <2>1. starter' \in [at : {"idle", "stop", "join", "launch"}, creds : Credentials \cup {NoCreds},
                      joins : 0 .. generation']
    BY <1>1 DEF Launch, IdleStarter
  <2>2. stopper' \in [Stopper -> [at : {"none", "stop", "join", "done"}, joins : 0 .. generation']]
    BY <1>2 DEF IInv, Launch, CallerType
  <2> QED
    BY <2>1, <2>2 DEF CallerType
<1>6. Room' /\ Taken'
  BY DEF Launch, Room, Taken, IdleStarter
<1>7. Started'
  BY <1>1 DEF IInv, Launch, ThreadType, Relay, Started
<1>8. Solo'
  BY <1>1 DEF IInv, Launch, ThreadType, Relay, Solo, Alive
<1>9. Owner' /\ Announced' /\ Held'
  <2>1. \A g \in Gen : pc'[g] \in Serving <=> pc[g] \in Serving
    <3>1. pc[generation'] = "none"
      BY <1>1 DEF IInv, Relay, Started
    <3> QED
      BY <1>1, <3>1 DEF IInv, Launch, ThreadType, Serving
  <2> QED
    BY <2>1 DEF IInv, Launch, ThreadType, Relay, Owner, Announced, Held
<1> QED
  BY <1>3, <1>4, <1>5, <1>6, <1>7, <1>8, <1>9 DEF IInv, Relay

-----------------------------------------------------------------------------
(* Run *)

LEMMA ResetKeeps ==
  ASSUME IInv, NEW g \in Gen, Reset(g)
  PROVE  IInv'
<1> USE TurnAssumption DEF TurnAssumption, Gen, None
<1>1. ObjectType' /\ ThreadType'
  BY DEF IInv, Reset, history, callers, ObjectType, ThreadType, States, Pcs
<1>2. Requests'
  BY SendingTyped DEF IInv, Reset, history, callers, ObjectType, Requests
<1>3. CallerType' /\ Room' /\ Taken'
  BY ThreadsKeepCallers DEF IInv, Reset, history, callers
<1>4. Started' /\ Solo'
  BY DEF IInv, Reset, history, callers, ThreadType, Relay, Started, Solo, Alive, Pcs
<1>5. Owner' /\ Announced' /\ Held'
  BY DEF IInv, Reset, history, callers, ObjectType, ThreadType, Relay, Solo, Owner, Announced, Held, Alive, Serving, Pcs
<1> QED
  BY <1>1, <1>2, <1>3, <1>4, <1>5 DEF IInv, Relay

LEMMA SetUpFailsKeeps ==
  ASSUME IInv, NEW g \in Gen, SetUpFails(g)
  PROVE  IInv'
<1> USE TurnAssumption DEF TurnAssumption, Gen, None
<1>1. ObjectType' /\ ThreadType'
  BY DEF IInv, SetUpFails, history, callers, ObjectType, ThreadType, States, Pcs
<1>2. Requests'
  BY SendingTyped DEF IInv, SetUpFails, history, callers, ObjectType, Requests
<1>3. CallerType' /\ Room' /\ Taken'
  BY ThreadsKeepCallers DEF IInv, SetUpFails, history, callers
<1>4. Started' /\ Solo'
  BY DEF IInv, SetUpFails, history, callers, ThreadType, Relay, Started, Solo, Alive, Pcs
<1>5. Owner' /\ Announced' /\ Held'
  BY DEF IInv, SetUpFails, history, callers, ObjectType, ThreadType, Relay, Solo, Owner, Announced, Held, Alive, Serving, Pcs
<1> QED
  BY <1>1, <1>2, <1>3, <1>4, <1>5 DEF IInv, Relay

LEMMA OpensKeeps ==
  ASSUME IInv, NEW g \in Gen, Opens(g)
  PROVE  IInv'
<1> USE TurnAssumption DEF TurnAssumption, Gen, None
<1>1. g \in 0 .. generation /\ [method |-> "allocate", via |-> g] \in
                       [method : {"allocate", "refresh", "release"}, via : 0 .. generation]
  BY DEF IInv, Opens, ObjectType, Relay, Started
<1>2. ObjectType' /\ ThreadType'
  <2>1. ObjectType'
    BY <1>1 DEF IInv, Opens, ObjectType, States
  <2>2. ThreadType'
    BY DEF IInv, Opens, ThreadType, Pcs, history
  <2> QED
    BY <2>1, <2>2
<1>3. Requests'
  BY <1>1 DEF IInv, Opens, Requests
<1>4. CallerType' /\ Room' /\ Taken'
  BY ThreadsKeepCallers DEF IInv, Opens, callers
<1>5. Started' /\ Solo'
  BY DEF IInv, Opens, history, ThreadType, Relay, Started, Solo, Alive, Pcs
<1>6. Owner' /\ Announced' /\ Held'
  BY DEF IInv, Opens, history, ThreadType, Relay, Solo, Owner, Announced, Held, Alive, Serving, Pcs
<1> QED
  BY <1>2, <1>3, <1>4, <1>5, <1>6 DEF IInv, Relay

LEMMA LoopHeadKeeps ==
  ASSUME IInv, NEW g \in Gen, LoopHead(g)
  PROVE  IInv'
<1> USE TurnAssumption DEF TurnAssumption, Gen, None
<1>1. ObjectType' /\ ThreadType'
  BY DEF IInv, LoopHead, objectVars, history, callers, ObjectType, ThreadType, States, Pcs
<1>2. Requests'
  BY SendingTyped DEF IInv, LoopHead, objectVars, history, callers, ObjectType, Requests
<1>3. CallerType' /\ Room' /\ Taken'
  BY ThreadsKeepCallers DEF IInv, LoopHead, objectVars, history, callers
<1>4. Started' /\ Solo'
  BY DEF IInv, LoopHead, objectVars, history, callers, ThreadType, Relay, Started, Solo, Alive, Pcs
<1>5. Owner' /\ Announced' /\ Held'
  BY DEF IInv, LoopHead, objectVars, history, callers, ObjectType, ThreadType, Relay, Solo, Owner, Announced, Held, Alive, Serving, Pcs
<1> QED
  BY <1>1, <1>2, <1>3, <1>4, <1>5 DEF IInv, Relay

LEMMA QuietKeeps ==
  ASSUME IInv, NEW g \in Gen, Quiet(g)
  PROVE  IInv'
<1> USE TurnAssumption DEF TurnAssumption, Gen, None
<1>1. ObjectType' /\ ThreadType'
  BY DEF IInv, Quiet, objectVars, history, callers, ObjectType, ThreadType, States, Pcs
<1>2. Requests'
  BY SendingTyped DEF IInv, Quiet, objectVars, history, callers, ObjectType, Requests
<1>3. CallerType' /\ Room' /\ Taken'
  BY ThreadsKeepCallers DEF IInv, Quiet, objectVars, history, callers
<1>4. Started' /\ Solo'
  BY DEF IInv, Quiet, objectVars, history, callers, ThreadType, Relay, Started, Solo, Alive, Pcs
<1>5. Owner' /\ Announced' /\ Held'
  BY DEF IInv, Quiet, objectVars, history, callers, ObjectType, ThreadType, Relay, Solo, Owner, Announced, Held, Alive, Serving, Pcs
<1> QED
  BY <1>1, <1>2, <1>3, <1>4, <1>5 DEF IInv, Relay

LEMMA GrantedKeeps ==
  ASSUME IInv, NEW g \in Gen, NEW r \in pending, Granted(g, r)
  PROVE  IInv'
<1> USE TurnAssumption DEF TurnAssumption, Gen, None
<1>1. ObjectType' /\ ThreadType'
  BY DEF IInv, Granted, callers, ObjectType, ThreadType, States, Pcs
<1>2. Requests'
  BY SendingTyped DEF IInv, Granted, callers, ObjectType, Requests
<1>3. CallerType' /\ Room' /\ Taken'
  BY ThreadsKeepCallers DEF IInv, Granted, callers
<1>4. Started' /\ Solo'
  BY DEF IInv, Granted, callers, ThreadType, Relay, Started, Solo, Alive, Pcs
<1>5. Owner' /\ Announced' /\ Held'
  BY DEF IInv, Granted, callers, ObjectType, ThreadType, Relay, Solo, Owner, Announced, Held, Alive, Serving, Pcs
<1> QED
  BY <1>1, <1>2, <1>3, <1>4, <1>5 DEF IInv, Relay

LEMMA ChallengedKeeps ==
  ASSUME IInv, NEW g \in Gen, NEW r \in pending, Challenged(g, r)
  PROVE  IInv'
<1> USE TurnAssumption DEF TurnAssumption, Gen, None
<1>1. ObjectType' /\ ThreadType'
  BY DEF IInv, Challenged, history, callers, ObjectType, ThreadType, States, Pcs
<1>2. Requests'
  BY SendingTyped DEF IInv, Challenged, history, callers, ObjectType, Requests
<1>3. CallerType' /\ Room' /\ Taken'
  BY ThreadsKeepCallers DEF IInv, Challenged, history, callers
<1>4. Started' /\ Solo'
  BY DEF IInv, Challenged, history, callers, ThreadType, Relay, Started, Solo, Alive, Pcs
<1>5. Owner' /\ Announced' /\ Held'
  BY DEF IInv, Challenged, history, callers, ObjectType, ThreadType, Relay, Solo, Owner, Announced, Held, Alive, Serving, Pcs
<1> QED
  BY <1>1, <1>2, <1>3, <1>4, <1>5 DEF IInv, Relay

LEMMA RefusedKeeps ==
  ASSUME IInv, NEW g \in Gen, NEW r \in pending, Refused(g, r)
  PROVE  IInv'
<1> USE TurnAssumption DEF TurnAssumption, Gen, None
<1>1. ObjectType' /\ ThreadType'
  BY DEF IInv, Refused, callers, ObjectType, ThreadType, States, Pcs
<1>2. Requests'
  BY SendingTyped DEF IInv, Refused, callers, ObjectType, Requests
<1>3. CallerType' /\ Room' /\ Taken'
  BY ThreadsKeepCallers DEF IInv, Refused, callers
<1>4. Started' /\ Solo'
  BY DEF IInv, Refused, callers, ThreadType, Relay, Started, Solo, Alive, Pcs
<1>5. Owner' /\ Announced' /\ Held'
  BY DEF IInv, Refused, callers, ObjectType, ThreadType, Relay, Solo, Owner, Announced, Held, Alive, Serving, Pcs
<1> QED
  BY <1>1, <1>2, <1>3, <1>4, <1>5 DEF IInv, Relay

LEMMA ReleaseKeeps ==
  ASSUME IInv, NEW g \in Gen, Release(g)
  PROVE  IInv'
<1> USE TurnAssumption DEF TurnAssumption, Gen, None
<1>1. ObjectType' /\ ThreadType'
  BY DEF IInv, Release, callers, ObjectType, ThreadType, States, Pcs
<1>2. Requests'
  BY SendingTyped DEF IInv, Release, callers, ObjectType, Requests
<1>3. CallerType' /\ Room' /\ Taken'
  BY ThreadsKeepCallers DEF IInv, Release, callers
<1>4. Started' /\ Solo'
  BY DEF IInv, Release, callers, ThreadType, Relay, Started, Solo, Alive, Pcs
<1>5. Owner' /\ Announced' /\ Held'
  BY DEF IInv, Release, callers, ObjectType, ThreadType, Relay, Solo, Owner, Announced, Held, Alive, Serving, Pcs
<1> QED
  BY <1>1, <1>2, <1>3, <1>4, <1>5 DEF IInv, Relay

LEMMA CloseKeeps ==
  ASSUME IInv, NEW g \in Gen, Close(g)
  PROVE  IInv'
<1> USE TurnAssumption DEF TurnAssumption, Gen, None
<1>1. ObjectType' /\ ThreadType'
  BY DEF IInv, Close, objectVars, history, callers, ObjectType, ThreadType, States, Pcs
<1>2. Requests'
  BY SendingTyped DEF IInv, Close, objectVars, history, callers, ObjectType, Requests
<1>3. CallerType' /\ Room' /\ Taken'
  BY ThreadsKeepCallers DEF IInv, Close, objectVars, history, callers
<1>4. Started' /\ Solo'
  BY DEF IInv, Close, objectVars, history, callers, ThreadType, Relay, Started, Solo, Alive, Pcs
<1>5. Owner' /\ Announced' /\ Held'
  BY DEF IInv, Close, objectVars, history, callers, ObjectType, ThreadType, Relay, Solo, Owner, Announced, Held, Alive, Serving, Pcs
<1> QED
  BY <1>1, <1>2, <1>3, <1>4, <1>5 DEF IInv, Relay

LEMMA TickKeeps ==
  ASSUME IInv, NEW g \in Gen, Tick(g)
  PROVE  IInv'
<1> USE TurnAssumption DEF TurnAssumption, Gen, None
<1> PICK timedOut \in SUBSET pending :
           \E again \in SUBSET (pending \ timedOut) :
             TickFailed(Kept(timedOut, again)) \/ TickAlive(Kept(timedOut, again))
  BY DEF Tick
<1> PICK again \in SUBSET (pending \ timedOut) :
           TickFailed(Kept(timedOut, again)) \/ TickAlive(Kept(timedOut, again))
  OBVIOUS
<1> DEFINE left == Kept(timedOut, again)
<1>0. left \subseteq [method : {"allocate", "refresh", "release"}, via : 0 .. generation]
  BY SendingTyped DEF IInv, Requests, Kept
<1> HIDE DEF left
<1>1. ObjectType' /\ ThreadType'
  <2>1. /\ creds' \in {creds, pendingCreds} /\ (creds' = creds \/ creds' # NoCreds)
        /\ pendingCreds' \in {pendingCreds, NoCreds}
        /\ state' \in {state, "Failed", "Allocating"}
        /\ held' \subseteq held
    BY DEF TickFailed, TickAlive
  <2>2. ObjectType'
    BY <2>1 DEF IInv, Tick, ObjectType, States
  <2>3. ThreadType'
    BY <2>1 DEF IInv, Tick, ThreadType, Pcs, callers
  <2> QED
    BY <2>2, <2>3
<1>2. Requests'
  <2>1. pending' \in {left, {Request("allocate")}, left \cup {Request("refresh")}}
    BY DEF TickFailed, TickAlive, left
  <2>2. generation' = generation
    BY DEF Tick
  <2>3. CASE pending' = left
    BY <1>0, <2>2, <2>3 DEF Requests
  <2>4. CASE pending' = {Request("allocate")}
    BY <2>2, <2>4, SendingTyped DEF IInv, Requests
  <2>5. CASE pending' = left \cup {Request("refresh")}
    BY <1>0, <2>2, <2>5, SendingTyped DEF IInv, Requests
  <2> QED
    BY <2>1, <2>3, <2>4, <2>5
<1>3. CallerType' /\ Room' /\ Taken'
  BY ThreadsKeepCallers DEF IInv, Tick, callers
<1>4. Started' /\ Solo'
  BY DEF IInv, Tick, ThreadType, Relay, Started, Solo, Alive, Pcs
<1>5. Owner' /\ Announced' /\ Held'
  <2>1. \/ state' # "Allocated" /\ held' = {}
        \/ state' = state /\ held' = held
    BY DEF TickFailed, TickAlive
  <2>2. Owner'
    BY DEF IInv, Tick, ThreadType, Relay, Owner, Serving
  <2>3. Announced' /\ Held'
    BY <2>1 DEF IInv, Tick, Relay, Announced, Held
  <2> QED
    BY <2>2, <2>3
<1> QED
  BY <1>1, <1>2, <1>3, <1>4, <1>5 DEF IInv, Relay

-----------------------------------------------------------------------------
LEMMA TurnStep == IInv /\ [Next]_vars => IInv'
<1> SUFFICES ASSUME IInv, [Next]_vars PROVE IInv'
  OBVIOUS
<1>1. CASE Start
  BY <1>1, StartKeepsKeeps, StartRestartsKeeps DEF Start
<1>2. CASE Starting
  BY <1>2, StarterStopsKeeps, StarterJoinsKeeps, LaunchKeeps DEF Starting
<1>3. CASE \E s \in Stopper : ServiceFindsIdle(s) \/ Stopping(s)
  BY <1>3, ServiceFindsIdleKeeps, StopperStopsKeeps, StopperJoinsKeeps DEF Stopping
<1>4. CASE \E g \in Gen : Run(g)
  <2> PICK g \in Gen : Run(g)
    BY <1>4
  <2>1. CASE Reset(g) \/ SetUpFails(g) \/ Opens(g)
    BY <2>1, ResetKeeps, SetUpFailsKeeps, OpensKeeps
  <2>2. CASE LoopHead(g) \/ Quiet(g) \/ Tick(g)
    BY <2>2, LoopHeadKeeps, QuietKeeps, TickKeeps
  <2>3. CASE Release(g) \/ Close(g)
    BY <2>3, ReleaseKeeps, CloseKeeps
  <2>4. CASE \E r \in pending : Granted(g, r) \/ Challenged(g, r) \/ Refused(g, r)
    BY <2>4, GrantedKeeps, ChallengedKeeps, RefusedKeeps
  <2> QED
    BY <2>1, <2>2, <2>3, <2>4 DEF Run
<1>5. CASE UNCHANGED vars
  <2>1. ObjectType' /\ ThreadType' /\ Requests' /\ CallerType' /\ Room' /\ Taken'
    BY <1>5 DEF vars, IInv, ObjectType, ThreadType, Requests, CallerType, Room, Taken
  <2>2. Relay'
    BY <1>5, CallersKeepRelay DEF vars, IInv
  <2> QED
    BY <2>1, <2>2 DEF IInv
<1> QED
  BY <1>1, <1>2, <1>3, <1>4, <1>5 DEF Next

\* Every state of the TURN client satisfies the inductive invariant.
THEOREM TurnInvariant == Spec => []IInv
<1>1. Init => IInv
  BY TurnInitial
<1>2. IInv /\ [Next]_vars => IInv'
  BY TurnStep
<1> QED
  BY <1>1, <1>2, PTL DEF Spec

\* Every member keeps its type, and once a relay was started there are
\* credentials to retry with.
THEOREM TurnTypes == Spec => []TypeOK
<1>1. IInv => TypeOK
  BY TypeParts DEF IInv
<1> QED
  BY <1>1, TurnInvariant, PTL

\* Start never assigns to a joinable thread object.
THEOREM LaunchFindsNoThread == Spec => []HandleFree
<1>1. IInv => HandleFree
  BY DEF IInv, Taken, HandleFree
<1> QED
  BY <1>1, TurnInvariant, PTL

\* A relay the heartbeats advertise is served by a live thread.
THEOREM RelayServed == Spec => []AdvertisedRelayServed
<1>1. IInv => AdvertisedRelayServed
  BY TurnAssumption DEF TurnAssumption, IInv, ObjectType, Relay, Announced, Owner, Serving,
     AdvertisedRelayServed, Gen, None
<1> QED
  BY <1>1, TurnInvariant, PTL

\* A thread that ends has given its allocation back.
THEOREM AllocationReturned == Spec => []AloneGivesBack
<1>1. IInv => AloneGivesBack
  BY DEF IInv, Relay, Held, Owner, Serving, AloneGivesBack, AllocationsGivenBack, GivesBack
<1> QED
  BY <1>1, TurnInvariant, PTL
=============================================================================
