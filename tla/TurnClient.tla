----------------------------- MODULE TurnClient -----------------------------
(***************************************************************************)
(* The TURN client of a game server (p2p/p2p_turn.cpp): one object, and    *)
(* around it the thread that handles heartbeat responses and calls Start,  *)
(* the detached threads in which the service loop calls Stop when nobody   *)
(* uses the relay, and the allocation threads (Run) that Start launches,   *)
(* all of which share the object's state under m_mutex.                    *)
(* Heartbeat responses are handled under httpMutex (masterserver.cpp:250), *)
(* so one Start runs at a time and a Start that hangs keeps the engine's    *)
(* requests to the master server waiting.                                  *)
(*                                                                         *)
(* Of the TURN protocol the allocation is kept: an allocate or a refresh   *)
(* is in flight, answered, refused or timed out.  Permissions, channels    *)
(* and relayed data are left out.                                          *)
(***************************************************************************)
EXTENDS FiniteSets, Naturals

CONSTANTS
  MaxGeneration,  \* bound: allocation threads launched
  MaxStops,       \* bound: times the service loop finds the relay idle
  Host, User      \* TURN servers and user names of the credentials

ASSUME TurnAssumption ==
  /\ MaxGeneration \in Nat /\ MaxStops \in Nat
  /\ "none" \notin Host  \* it stands for no credentials

Gen == 1 .. MaxGeneration
Stopper == 1 .. MaxStops
None == 0
Credentials == [host : Host, user : User]
NoCreds == [host |-> "none", user |-> "none"]

VARIABLES
  running,       \* m_running
  generation,    \* m_generation
  handle,        \* m_thread: the thread it can join, or None
  creds,         \* m_creds
  pendingCreds,  \* m_pendingCreds
  state,         \* m_state
  socket,        \* m_socket: the thread that opened it, or None
  pending,       \* m_pending: requests in flight, each with the socket it left by
  pc,            \* where each allocation thread is
  given,         \* the credentials each was launched with
  starter,       \* the thread inside Start
  stopper,       \* the detached threads inside Stop
  overlapped,    \* history: a thread was launched while another was alive
  held           \* history: threads whose allocation lives on, as far as they were told

objectVars == <<creds, pendingCreds, state, socket, pending>>
callers == <<starter, stopper>>
history == <<overlapped, held>>
vars == <<running, generation, handle, creds, pendingCreds, state, socket, pending, pc, given,
          starter, stopper, overlapped, held>>

-----------------------------------------------------------------------------
IdleStarter == [at |-> "idle", creds |-> NoCreds, joins |-> None]

Init ==
  /\ running = FALSE
  /\ generation = 0
  /\ handle = None
  /\ creds = NoCreds
  /\ pendingCreds = NoCreds
  /\ state = "Idle"
  /\ socket = None
  /\ pending = {}
  /\ pc = [g \in Gen |-> "none"]
  /\ given = [g \in Gen |-> NoCreds]
  /\ starter = IdleStarter
  /\ stopper = [s \in Stopper |-> [at |-> "none", joins |-> None]]
  /\ overlapped = FALSE
  /\ held = {}

Alive(g) == pc[g] \notin {"none", "done"}
Looping(g) == pc[g] \in {"loop", "receive", "tick"}
Joinable(g) == g # None => pc[g] = "done"

\* SendRequest, and every retransmission, through whatever m_socket is.
Request(method) == [method |-> method, via |-> socket]
Resent(requests) == {Request(r.method) : r \in requests}

-----------------------------------------------------------------------------
(* Start and Stop *)

\* Same relay, new credentials: kept for the next allocation.
StartKeeps(c) ==
  /\ starter.at = "idle"
  /\ running /\ creds # c /\ creds.host = c.host
  /\ pendingCreds' = c
  /\ UNCHANGED <<running, generation, handle, creds, state, socket, pending, pc, given, callers, history>>

\* Not running, or another relay.
StartRestarts(c) ==
  /\ starter.at = "idle"
  /\ ~ (running /\ creds.host = c.host)
  /\ generation < MaxGeneration
  /\ starter' = [at |-> "stop", creds |-> c, joins |-> None]
  /\ UNCHANGED <<running, generation, handle, objectVars, pc, given, stopper, history>>

\* Mutant: the thread object stays where it is.
StarterStops_Copies ==
  /\ starter.at = "stop"
  /\ running' = FALSE
  /\ starter' = [starter EXCEPT !.at = "join", !.joins = handle]
  /\ UNCHANGED <<generation, handle, objectVars, pc, given, stopper, history>>

\* Stop, called by Start: take the thread under the mutex ...
StarterStops ==
  /\ starter.at = "stop"
  /\ running' = FALSE
  /\ starter' = [starter EXCEPT !.at = "join", !.joins = handle]
  /\ handle' = None
  /\ UNCHANGED <<generation, objectVars, pc, given, stopper, history>>

\* ... and join it.
StarterJoins ==
  /\ starter.at = "join"
  /\ Joinable(starter.joins)
  /\ starter' = [starter EXCEPT !.at = "launch"]
  /\ UNCHANGED <<running, generation, handle, objectVars, pc, given, stopper, history>>

\* The second half of Start.
Launch ==
  /\ starter.at = "launch"
  /\ creds' = starter.creds
  /\ running' = TRUE
  /\ generation' = generation + 1
  /\ handle' = generation'
  /\ pc' = [pc EXCEPT ![generation'] = "reset"]
  /\ given' = [given EXCEPT ![generation'] = starter.creds]
  /\ starter' = IdleStarter
  /\ overlapped' = (overlapped \/ \E g \in Gen : Alive(g))
  /\ UNCHANGED <<pendingCreds, state, socket, pending, stopper, held>>

\* ServiceLoop: running, no heartbeat and no traffic for minutes.
ServiceFindsIdle(s) ==
  /\ stopper[s].at = "none"
  /\ running
  /\ stopper' = [stopper EXCEPT ![s].at = "stop"]
  /\ UNCHANGED <<running, generation, handle, objectVars, pc, given, starter, history>>

StopperStops(s) ==
  /\ stopper[s].at = "stop"
  /\ running' = FALSE
  /\ stopper' = [stopper EXCEPT ![s] = [at |-> "join", joins |-> handle]]
  /\ handle' = None
  /\ UNCHANGED <<generation, objectVars, pc, given, starter, history>>

StopperJoins(s) ==
  /\ stopper[s].at = "join"
  /\ Joinable(stopper[s].joins)
  /\ stopper' = [stopper EXCEPT ![s].at = "done"]
  /\ UNCHANGED <<running, generation, handle, objectVars, pc, given, starter, history>>

-----------------------------------------------------------------------------
(* Run *)

Reset(g) ==
  /\ pc[g] = "reset"
  /\ pc' = [pc EXCEPT ![g] = "resolve"]
  /\ state' = "Resolving"
  /\ pending' = {}
  /\ UNCHANGED <<running, generation, handle, creds, pendingCreds, socket, given, callers, history>>

\* No address or no socket.
SetUpFails(g) ==
  /\ pc[g] = "resolve"
  /\ pc' = [pc EXCEPT ![g] = "done"]
  /\ state' = "Failed"
  /\ running' = FALSE
  /\ UNCHANGED <<generation, handle, creds, pendingCreds, socket, pending, given, callers, history>>

\* m_socket = s, and SendAllocate.
Opens(g) ==
  /\ pc[g] = "resolve"
  /\ pc' = [pc EXCEPT ![g] = "loop"]
  /\ socket' = g
  /\ state' = "Allocating"
  /\ pending' = pending \cup {[method |-> "allocate", via |-> g]}
  /\ UNCHANGED <<running, generation, handle, creds, pendingCreds, given, callers, history>>

\* Mutant: only the flag is looked at.
LoopHead_NoGeneration(g) ==
  /\ pc[g] = "loop"
  /\ pc' = [pc EXCEPT ![g] = IF running THEN "receive" ELSE "release"]
  /\ UNCHANGED <<running, generation, handle, objectVars, given, callers, history>>

\* Mutant: only the generation is looked at.
LoopHead_NoFlag(g) ==
  /\ pc[g] = "loop"
  /\ pc' = [pc EXCEPT ![g] = IF generation = g THEN "receive" ELSE "release"]
  /\ UNCHANGED <<running, generation, handle, objectVars, given, callers, history>>

LoopHead(g) ==
  /\ pc[g] = "loop"
  /\ pc' = [pc EXCEPT ![g] = IF running /\ generation = g THEN "receive" ELSE "release"]
  /\ UNCHANGED <<running, generation, handle, objectVars, given, callers, history>>

\* select returns nothing of interest.
Quiet(g) ==
  /\ pc[g] = "receive"
  /\ pc' = [pc EXCEPT ![g] = "tick"]
  /\ UNCHANGED <<running, generation, handle, objectVars, given, callers, history>>

\* HandleResponse, success: a server only knows its own users, and answers the
\* socket it was asked from.  An allocate may be answered without an address.
Granted(g, r) ==
  /\ pc[g] = "receive"
  /\ r \in pending /\ r.via = g
  /\ creds.host = given[g].host
  /\ pending' = pending \ {r}
  /\ state' \in {state} \cup (IF r.method = "allocate" THEN {"Allocated"} ELSE {})
  /\ held' = IF state' = "Allocated" THEN held \cup {g} ELSE held
  /\ pc' = [pc EXCEPT ![g] = "tick"]
  /\ UNCHANGED <<running, generation, handle, creds, pendingCreds, socket, given, callers, overlapped>>

\* HandleResponse, 401 or 438: the same request again, with the new nonce.
Challenged(g, r) ==
  /\ pc[g] = "receive"
  /\ r \in pending /\ r.via = g
  /\ pending' = (pending \ {r}) \cup Resent({r})
  /\ pc' = [pc EXCEPT ![g] = "tick"]
  /\ UNCHANGED <<running, generation, handle, creds, pendingCreds, state, socket, given, callers, history>>

\* HandleResponse, any other error: MarkFailed.  Failing to give back an
\* allocation only counts when the credentials are what is wrong.
Refused(g, r) ==
  /\ pc[g] = "receive"
  /\ r \in pending /\ r.via = g
  /\ pending' = pending \ {r}
  /\ state' \in {"Failed"} \cup (IF r.method = "release" THEN {state} ELSE {})
  /\ held' = IF state' = "Failed" THEN {} ELSE held
  /\ pc' = [pc EXCEPT ![g] = "tick"]
  /\ UNCHANGED <<running, generation, handle, creds, pendingCreds, socket, given, callers, overlapped>>

\* Tick, requests: some are given up, some sent again.
Kept(timedOut, again) == ((pending \ timedOut) \ again) \cup Resent(again)

\* Tick while the allocation has failed: nothing, or after a while another
\* attempt, with the newer credentials if there are any.
TickFailed(left) ==
  /\ held' = {}
  /\ \/ state' = "Failed" /\ pending' = left /\ UNCHANGED <<creds, pendingCreds>>
     \/ /\ state' = "Allocating"
        /\ pending' = {Request("allocate")}
        /\ creds' = IF pendingCreds = NoCreds THEN creds ELSE pendingCreds
        /\ pendingCreds' = NoCreds

\* Tick otherwise: an allocation is refreshed at half its lifetime.
TickAlive(left) ==
  /\ \/ pending' = left
     \/ state = "Allocated" /\ pending' = left \cup {Request("refresh")}
  /\ UNCHANGED <<state, creds, pendingCreds, held>>

Tick(g) ==
  /\ pc[g] = "tick"
  /\ pc' = [pc EXCEPT ![g] = "loop"]
  /\ \E timedOut \in SUBSET pending : \E again \in SUBSET (pending \ timedOut) :
       IF state = "Failed" \/ \E r \in timedOut : r.method # "release"
       THEN TickFailed(Kept(timedOut, again)) ELSE TickAlive(Kept(timedOut, again))
  /\ UNCHANGED <<running, generation, handle, socket, given, callers, overlapped>>

\* Mutant: the relay is still advertised.
Release_KeepsState(g) ==
  /\ pc[g] = "release"
  /\ socket' = None
  /\ pc' = [pc EXCEPT ![g] = "close"]
  /\ UNCHANGED <<running, generation, handle, creds, pendingCreds, state, pending, given, callers, history>>

\* Mutant: the state is reset before it is looked at.
Release_ResetsFirst(g) ==
  /\ pc[g] = "release"
  /\ state' = "Idle"
  /\ socket' = None
  /\ pc' = [pc EXCEPT ![g] = "close"]
  /\ UNCHANGED <<running, generation, handle, creds, pendingCreds, pending, given, callers, history>>

\* After the loop: the allocation is given back and the object reset ...
Release(g) ==
  /\ pc[g] = "release"
  /\ state' = "Idle"
  /\ socket' = None
  /\ pending' = IF state = "Allocated" THEN pending \cup {Request("release")} ELSE pending
  /\ held' = IF state = "Allocated" /\ socket = g THEN held \ {g} ELSE held
  /\ pc' = [pc EXCEPT ![g] = "close"]
  /\ UNCHANGED <<running, generation, handle, creds, pendingCreds, given, callers, overlapped>>

\* ... and the socket closed.
Close(g) ==
  /\ pc[g] = "close"
  /\ pc' = [pc EXCEPT ![g] = "done"]
  /\ UNCHANGED <<running, generation, handle, objectVars, given, callers, history>>

-----------------------------------------------------------------------------
Start == \E c \in Credentials : StartKeeps(c) \/ StartRestarts(c)
Starting == StarterStops \/ StarterJoins \/ Launch
Stopping(s) == StopperStops(s) \/ StopperJoins(s)

Run(g) ==
  \/ Reset(g) \/ SetUpFails(g) \/ Opens(g) \/ LoopHead(g) \/ Quiet(g) \/ Tick(g)
  \/ Release(g) \/ Close(g)
  \/ \E r \in pending : Granted(g, r) \/ Challenged(g, r) \/ Refused(g, r)

Next ==
  \/ Start \/ Starting
  \/ \E s \in Stopper : ServiceFindsIdle(s) \/ Stopping(s)
  \/ \E g \in Gen : Run(g)

Spec == Init /\ [][Next]_vars

\* Every thread that can go on does.
Fairness ==
  /\ WF_vars(Starting)
  /\ \A s \in Stopper : WF_vars(Stopping(s))
  /\ \A g \in Gen : WF_vars(Run(g))

FairSpec == Spec /\ Fairness

-----------------------------------------------------------------------------
(* Properties *)

States == {"Idle", "Resolving", "Allocating", "Allocated", "Failed"}
Pcs == {"none", "reset", "resolve", "loop", "receive", "tick", "release", "close", "done"}

TypeOK ==
  /\ running \in BOOLEAN /\ overlapped \in BOOLEAN /\ held \subseteq Gen
  /\ generation \in 0 .. MaxGeneration
  /\ handle \in 0 .. generation
  /\ creds \in Credentials \cup {NoCreds} /\ (generation > 0 => creds # NoCreds)
  /\ pendingCreds \in Credentials \cup {NoCreds}
  /\ state \in States
  /\ socket \in 0 .. generation
  /\ pending \subseteq [method : {"allocate", "refresh", "release"}, via : 0 .. generation]
  /\ pc \in [Gen -> Pcs]
  /\ given \in [Gen -> Credentials \cup {NoCreds}]
  /\ starter \in [at : {"idle", "stop", "join", "launch"}, creds : Credentials \cup {NoCreds},
                  joins : 0 .. generation]
  /\ stopper \in [Stopper -> [at : {"none", "stop", "join", "done"}, joins : 0 .. generation]]

\* Start never assigns to a std::thread that is still joinable, which would
\* end the process: every thread is taken out of m_thread by one Stop, and
\* nothing is put there between Start's own Stop and its launch.
HandleFree == starter.at = "launch" => handle = None

\* A relay the heartbeats advertise (Relayed) is served: its socket is the one
\* a live thread reads, unless two threads have once been alive together.
AdvertisedRelayServed ==
  ~ overlapped /\ state = "Allocated" => socket # None /\ pc[socket] \in {"loop", "receive", "tick", "release"}

\* "Release the allocation so the relay stops forwarding (and billing)"
\* (p2p_turn.cpp:329): a thread that ends has told the relay so, through the
\* socket the allocation belongs to.
GivesBack(g) == pc[g] \in {"close", "done"} => g \notin held
AllocationsGivenBack == \A g \in Gen : GivesBack(g)

\* It does as long as threads never overlapped.
AloneGivesBack == ~ overlapped => AllocationsGivenBack

\* "Same relay, new credentials" (p2p_turn.cpp:90): credentials kept for later
\* are used with the relay they are for.
CredentialsMatchRelay ==
  \A g \in Gen : Looping(g) /\ generation = g => creds.host = given[g].host

\* Neither Start nor a detached Stop waits for ever, whatever the relay does
\* and although a later Start may set m_running again.
StartReturns == starter.at # "idle" ~> starter.at = "idle"
StopReturns == \A s \in Stopper : stopper[s].at = "stop" ~> stopper[s].at = "done"
=============================================================================
