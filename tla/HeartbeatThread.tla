-------------------------- MODULE HeartbeatThread --------------------------
(***************************************************************************)
(* The server's entry on the master server (engine/net/masterserver.cpp).  *)
(* The engine thread starts a heartbeat thread when the script reports a   *)
(* heartbeat, and stops it and removes the entry when the game shuts down. *)
(* A heartbeat thread re-posts the entry while the server is public and    *)
(* removes it once the server is hidden.  Threads of earlier games may     *)
(* still be inside their last round.                                       *)
(*                                                                         *)
(* Left out: the contents of a heartbeat, IsValidHeartBeat (only shown on  *)
(* Discord) and a missing master URL or port.                              *)
(***************************************************************************)
EXTENDS Naturals

CONSTANTS
  MaxGeneration,  \* bound on heartbeatThreadGeneration
  Networks        \* the networks considered, each a set of outcomes of a request

OutcomeKinds == {"ok", "lost", "unheard"}  \* "unheard": it arrived, its reply did not

ASSUME HeartbeatAssumption ==
  /\ MaxGeneration \in Nat
  /\ Networks \subseteq SUBSET OutcomeKinds

Gen == 1 .. MaxGeneration  \* a thread is named by the generation it was started with
Engine == 0                \* the engine thread, as holder of httpMutex
Nobody == MaxGeneration + 1

VARIABLES
  outcomes,    \* what may become of a request in this network
  running,     \* heartbeatThreadRunning
  generation,  \* heartbeatThreadGeneration
  listed,      \* listedOnMaster
  hidden,      \* IsServerVisibilityHidden
  mutex,       \* holder of httpMutex
  engine,      \* where the engine thread is
  pc,          \* where each heartbeat thread is
  wasHidden,   \* local of each thread
  due,         \* nextHeartbeat of each thread has come
  entry,       \* the master server has an entry for us
  public,      \* history: the server was up and public since the last removal
  ended        \* history: generations up to this one ended with a shutdown delist

threadVars == <<pc, wasHidden, due>>
vars == <<outcomes, running, generation, listed, hidden, mutex, engine, pc, wasHidden, due, entry, public, ended>>

-----------------------------------------------------------------------------
Init ==
  /\ outcomes \in Networks
  /\ running = FALSE
  /\ generation = 0
  /\ listed = FALSE
  /\ hidden \in BOOLEAN
  /\ mutex = Nobody
  /\ engine = "idle"
  /\ pc = [g \in Gen |-> "none"]
  /\ wasHidden = [g \in Gen |-> FALSE]
  /\ due = [g \in Gen |-> FALSE]
  /\ entry = FALSE
  /\ public = FALSE
  /\ ended = 0

IsCurrentHeartbeatThread(g) == running /\ generation = g

Arrives(outcome) == outcome # "lost"

\* DELETE: the entry goes if the request arrives.
Deletes(outcome) ==
  IF Arrives(outcome)
  THEN entry' = FALSE /\ public' = (running /\ ~ hidden)
  ELSE UNCHANGED <<entry, public>>

-----------------------------------------------------------------------------
(* The engine thread *)

\* hide_server changes.
SetHidden(value) ==
  /\ engine = "idle"
  /\ hidden # value
  /\ hidden' = value
  /\ public' = (public \/ (running /\ ~ value))
  /\ UNCHANGED <<outcomes, running, generation, listed, mutex, engine, threadVars, entry, ended>>

\* GetServerHeartbeat: StartHeartbeatThread, unless one is running ...
StartRunning ==
  /\ engine = "idle"
  /\ ~ running
  /\ generation + 2 <= MaxGeneration
  /\ running' = TRUE
  /\ engine' = "start"
  /\ public' = (public \/ ~ hidden)
  /\ UNCHANGED <<outcomes, generation, listed, hidden, mutex, threadVars, entry, ended>>

StartThread ==
  /\ engine = "start"
  /\ generation' = generation + 1
  /\ pc' = [pc EXCEPT ![generation'] = "begin"]
  /\ engine' = "idle"
  /\ UNCHANGED <<outcomes, running, listed, hidden, mutex, wasHidden, due, entry, public, ended>>

\* Hk_CHostState__State_GameShutdown: OnServerShutdown.  A game that never sent
\* a heartbeat is shut down the same way.
StopRunning ==
  /\ engine = "idle"
  /\ generation < MaxGeneration
  /\ running' = FALSE
  /\ engine' = "stop"
  /\ UNCHANGED <<outcomes, generation, listed, hidden, mutex, threadVars, entry, public, ended>>

StopThread ==
  /\ engine = "stop"
  /\ generation' = generation + 1
  /\ engine' = "wait"
  /\ UNCHANGED <<outcomes, running, listed, hidden, mutex, threadVars, entry, public, ended>>

\* SendServerDelist: lock, forget ...
EngineLocks ==
  /\ engine = "wait"
  /\ mutex = Nobody
  /\ mutex' = Engine
  /\ listed' = FALSE
  /\ engine' = "delete"
  /\ UNCHANGED <<outcomes, running, generation, hidden, threadVars, entry, public, ended>>

\* ... send, unlock.  A game hosted by a client leaves hide_server set.
EngineDeletes(outcome) ==
  /\ engine = "delete"
  /\ Deletes(outcome)
  /\ mutex' = Nobody
  /\ hidden' \in {hidden, TRUE}
  /\ ended' = generation
  /\ engine' = "idle"
  /\ UNCHANGED <<outcomes, running, generation, listed, threadVars>>

-----------------------------------------------------------------------------
(* A heartbeat thread *)

Begin(g) ==
  /\ pc[g] = "begin"
  /\ pc' = [pc EXCEPT ![g] = "loop"]
  /\ wasHidden' = [wasHidden EXCEPT ![g] = hidden]
  /\ UNCHANGED <<outcomes, running, generation, listed, hidden, mutex, engine, due, entry, public, ended>>

\* The head of the loop ...
LoopHead(g) ==
  /\ pc[g] = "loop"
  /\ pc' = [pc EXCEPT ![g] = IF IsCurrentHeartbeatThread(g) THEN "poll" ELSE "done"]
  /\ UNCHANGED <<outcomes, running, generation, listed, hidden, mutex, engine, wasHidden, due, entry, public, ended>>

\* Mutant: heartbeats are sent when the server is shown and not again.
Poll_OnlyWhenShown(g) ==
  /\ pc[g] = "poll"
  /\ wasHidden' = [wasHidden EXCEPT ![g] = hidden]
  /\ pc' = [pc EXCEPT ![g] = IF hidden THEN "hide" ELSE IF wasHidden[g] THEN "wait post" ELSE "loop"]
  /\ UNCHANGED <<outcomes, running, generation, listed, hidden, mutex, engine, due, entry, public, ended>>

\* ... one look at hide_server: showing the server makes a heartbeat due ...
Poll(g) ==
  /\ pc[g] = "poll"
  /\ wasHidden' = [wasHidden EXCEPT ![g] = hidden]
  /\ due' = [due EXCEPT ![g] = @ \/ (wasHidden[g] /\ ~ hidden)]
  /\ pc' = [pc EXCEPT ![g] = IF hidden THEN "hide" ELSE IF due'[g] THEN "wait post" ELSE "loop"]
  /\ UNCHANGED <<outcomes, running, generation, listed, hidden, mutex, engine, entry, public, ended>>

\* Mutant: a thread that finds the server listed leaves it to somebody else.
Hide_Once(g) ==
  /\ pc[g] = "hide"
  /\ pc' = [pc EXCEPT ![g] = "loop"]
  /\ UNCHANGED <<outcomes, running, generation, listed, hidden, mutex, engine, wasHidden, due, entry, public, ended>>

\* ... while hidden, an entry we know of is removed.
Hide(g) ==
  /\ pc[g] = "hide"
  /\ pc' = [pc EXCEPT ![g] = IF listed THEN "wait delete" ELSE "loop"]
  /\ UNCHANGED <<outcomes, running, generation, listed, hidden, mutex, engine, wasHidden, due, entry, public, ended>>

DelistLocks(g) ==
  /\ pc[g] = "wait delete"
  /\ mutex = Nobody
  /\ mutex' = g
  /\ listed' = FALSE
  /\ pc' = [pc EXCEPT ![g] = "delete"]
  /\ UNCHANGED <<outcomes, running, generation, hidden, engine, wasHidden, due, entry, public, ended>>

Delist(g, outcome) ==
  /\ pc[g] = "delete"
  /\ Deletes(outcome)
  /\ mutex' = Nobody
  /\ pc' = [pc EXCEPT ![g] = "loop"]
  /\ UNCHANGED <<outcomes, running, generation, listed, hidden, engine, wasHidden, due, ended>>

\* Mutants: the test comes before the lock; only the generation is tested.
HeartbeatLocks_Unchecked(g) ==
  /\ pc[g] = "wait post"
  /\ mutex = Nobody
  /\ mutex' = g
  /\ pc' = [pc EXCEPT ![g] = "post"]
  /\ UNCHANGED <<outcomes, running, generation, listed, hidden, engine, wasHidden, due, entry, public, ended>>

HeartbeatCheck_NotHidden(g) ==
  /\ pc[g] = "check"
  /\ IF IsCurrentHeartbeatThread(g)
     THEN pc' = [pc EXCEPT ![g] = "post"] /\ UNCHANGED <<mutex, due>>
     ELSE /\ pc' = [pc EXCEPT ![g] = "loop"]
          /\ mutex' = Nobody
          /\ due' = [due EXCEPT ![g] = FALSE]
  /\ UNCHANGED <<outcomes, running, generation, listed, hidden, engine, wasHidden, entry, public, ended>>

\* SendServerHeartbeat: lock ...
HeartbeatLocks(g) ==
  /\ pc[g] = "wait post"
  /\ mutex = Nobody
  /\ mutex' = g
  /\ pc' = [pc EXCEPT ![g] = "check"]
  /\ UNCHANGED <<outcomes, running, generation, listed, hidden, engine, wasHidden, due, entry, public, ended>>

\* ... ask again under the lock ...
HeartbeatCheck(g) ==
  /\ pc[g] = "check"
  /\ IF IsCurrentHeartbeatThread(g) /\ ~ hidden
     THEN pc' = [pc EXCEPT ![g] = "post"] /\ UNCHANGED <<mutex, due>>
     ELSE /\ pc' = [pc EXCEPT ![g] = "loop"]
          /\ mutex' = Nobody
          /\ due' = [due EXCEPT ![g] = FALSE]
  /\ UNCHANGED <<outcomes, running, generation, listed, hidden, engine, wasHidden, entry, public, ended>>

\* ... post, unlock and wait for the next one.
Heartbeat(g, outcome) ==
  /\ pc[g] = "post"
  /\ entry' = (entry \/ Arrives(outcome))
  /\ listed' = (listed \/ outcome = "ok")
  /\ mutex' = Nobody
  /\ pc' = [pc EXCEPT ![g] = "loop"]
  /\ due' = [due EXCEPT ![g] = FALSE]
  /\ UNCHANGED <<outcomes, running, generation, hidden, engine, wasHidden, public, ended>>

\* nextHeartbeat comes.
Due(g) ==
  /\ pc[g] \notin {"none", "done"}
  /\ ~ due[g]
  /\ due' = [due EXCEPT ![g] = TRUE]
  /\ UNCHANGED <<outcomes, running, generation, listed, hidden, mutex, engine, pc, wasHidden, entry, public, ended>>

-----------------------------------------------------------------------------
\* The master drops an entry it has not heard of for 90 s.
Expire ==
  /\ entry
  /\ entry' = FALSE
  /\ UNCHANGED <<outcomes, running, generation, listed, hidden, mutex, engine, threadVars, public, ended>>

EngineStep ==
  \/ StartThread \/ StopThread \/ EngineLocks
  \/ \E o \in outcomes : EngineDeletes(o)

Thread(g) ==
  \/ Begin(g) \/ LoopHead(g) \/ Poll(g) \/ Hide(g) \/ DelistLocks(g)
  \/ HeartbeatLocks(g) \/ HeartbeatCheck(g)
  \/ \E o \in outcomes : Delist(g, o) \/ Heartbeat(g, o)

Next ==
  \/ StartRunning \/ StopRunning \/ EngineStep
  \/ \E value \in BOOLEAN : SetHidden(value)
  \/ \E g \in Gen : Thread(g) \/ Due(g)
  \/ Expire

Spec == Init /\ [][Next]_vars

\* Threads go on, the lock is handed out, time passes.  The player need not
\* start, stop, hide or show anything and the master need not forget.
Fairness ==
  /\ WF_vars(EngineStep)
  /\ \A g \in Gen :
       /\ WF_vars(Thread(g)) /\ WF_vars(Due(g))
       /\ SF_vars(DelistLocks(g)) /\ SF_vars(HeartbeatLocks(g))

FairSpec == Spec /\ Fairness

-----------------------------------------------------------------------------
(* Properties *)

Pcs == {"none", "begin", "loop", "poll", "hide", "wait delete", "delete",
        "wait post", "check", "post", "done"}

TypeOK ==
  /\ running \in BOOLEAN /\ listed \in BOOLEAN /\ hidden \in BOOLEAN
  /\ generation \in 0 .. MaxGeneration
  /\ mutex \in Gen \cup {Engine, Nobody}
  /\ engine \in {"idle", "start", "stop", "wait", "delete"}
  /\ pc \in [Gen -> Pcs]
  /\ \A g \in Gen : pc[g] # "none" => g <= generation
  /\ wasHidden \in [Gen -> BOOLEAN] /\ due \in [Gen -> BOOLEAN]
  /\ entry \in BOOLEAN /\ public \in BOOLEAN
  /\ ended \in 0 .. generation

\* "a heartbeat that lost the race with a shutdown or a hide must not re-list
\* the server after it was removed" (masterserver.cpp:190): the master only has
\* an entry if the server has been up and public since the last removal that
\* reached the master, whichever thread sent that.
NotRelisted == entry => public

\* No thread of a game that ended with its shutdown delist posts a heartbeat
\* any more.
NoHeartbeatAfterShutdown ==
  \A g \in Gen : pc[g] = "post" => ended < g

\* A thread is only ever inside a request while it holds httpMutex.
RequestsExclusive ==
  /\ \A g \in Gen : pc[g] \in {"delete", "check", "post"} <=> mutex = g
  /\ engine = "delete" <=> mutex = Engine

\* A comment says that listedOnMaster is "whether the master server currently
\* has an entry for us, so hiding knows to delist" (masterserver.cpp:145).
HidingKnowsToDelist == entry /\ mutex = Nobody => listed

\* In a network that loses nothing, a server that is up and stays hidden is
\* not on the master's list for long; one that stays public is always listed
\* again, even if a left-over thread sends a DELETE after the shutdown's, which
\* the comment at masterserver.cpp:142 rules out and the code does not.
HidingDelists ==
  outcomes = {"ok"} /\ <>[](running /\ hidden) => <>[](~ entry)
ShowingLists ==
  outcomes = {"ok"} /\ <>[](running /\ ~ hidden) => []<>entry
=============================================================================
