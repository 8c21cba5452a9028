--------------------------- MODULE PersistentSync ---------------------------
(***************************************************************************)
(* One slot of the server-side view of persistent player data              *)
(* (shared/persistentdata_state.h and the server half of                   *)
(* shared/persistentdata.cpp), the reliable stream to the client in that   *)
(* slot, and the client's own copy.  The server sends its writes as        *)
(* commands and keeps each one pending until the client echoes its value.  *)
(* The stream is thrown away when the client is reconnected for a level    *)
(* change, after which the client reports everything it has, and says so   *)
(* unless it has nothing.                                                  *)
(*                                                                         *)
(* One key stands for all: batches are reconciled key by key.  Left out:   *)
(* writes that change nothing on the client and are not sent on ("nosend"),*)
(* values the schema rejects and bots.                                     *)
(***************************************************************************)
EXTENDS Naturals, Sequences

CONSTANTS
  MaxValue,    \* values are 1 .. MaxValue
  MaxTimed,    \* kMaxTimedResends
  MaxWrites,   \* bound: writes by the server's scripts and by the client
  MaxClears,   \* bound: level changes
  MaxDrops,    \* bound: commands lost otherwise
  MaxConns,    \* bound: connections the slot sees
  KeyKinds     \* which kinds of keys are considered

Value == 1 .. MaxValue
Unset == 0
NoWrite == [value |-> Unset, timed |-> 0, now |-> FALSE, by |-> 0]
Player == {1, 2}
Address == {"a", "b"}  \* where the engine may allocate a netchannel
Unknown == 0           \* a userid the engine has not assigned yet (-1)
NoSession == [nc |-> "none", user |-> Unknown]
AllKinds == {"counter",  \* only the server writes it, and it grows
             "state",    \* only the server writes it
             "setting"}  \* the player writes it too

VARIABLES
  mirror,   \* ServerKeepsMirror: the values live in the PlayerState
  kind,     \* of the key
  session,  \* state.session
  pending,  \* state.pending of the key
  stored,   \* the key in the engine's userinfo table, or in state.values
  conn,     \* the connection in the slot: whose, netchannel, userid and whether it
            \* is known, whether the client has reported; history: whether BeginSession
            \* could tell it from the one before when it came, and whether the client
            \* came, or came back, with a full snapshot
  last,     \* history: the server's last write on the connection
  up,       \* the slot can be resolved: the level change is over
  toClient, \* commands on their way, each with the connection it was written for
  toServer, \* reports on their way
  profile,  \* each player's own copy
  writes, clears, drops  \* bound counters

counters == <<writes, clears, drops>>
kinds == <<mirror, kind>>
stateVars == <<session, pending, stored>>
vars == <<mirror, kind, session, pending, stored, conn, last, up, toClient, toServer, profile,
          writes, clears, drops>>

-----------------------------------------------------------------------------
Report(full, v) == [full |-> full, value |-> v]

\* A client that comes reports all it has: NET_SetConVar marks that as a full
\* snapshot unless no persistent value is in it, and there may be other keys.
Arrivals(v) == {Report(full, v) : full \in IF v = Unset THEN BOOLEAN ELSE {TRUE}}

Init ==
  /\ mirror \in BOOLEAN /\ kind \in KeyKinds
  /\ session = NoSession /\ pending = NoWrite /\ stored = Unset
  /\ \E report \in Arrivals(Unset) : toServer = <<report>>
  /\ conn = [player |-> 1, nc |-> "a", user |-> 1, known |-> TRUE, met |-> FALSE,
             told |-> TRUE, full |-> toServer[1].full]
  /\ last = Unset
  /\ up = TRUE
  /\ profile = [p \in Player |-> Unset]
  /\ toClient = <<>>
  /\ writes = 0 /\ clears = 0 /\ drops = 0

\* Mutant: a session is told by its netchannel alone.
SameConnection_ByChannel == session.nc = conn.nc

\* BeginSession: a netchannel at another address or another userid is another
\* connection; what the state knows about the one before is wiped.
SameConnection ==
  /\ session.nc = conn.nc
  /\ conn.known /\ session.user # Unknown => session.user = conn.user

\* The session afterwards; a userid that came late completes it.
Bound == [nc |-> conn.nc,
          user |-> IF conn.known THEN conn.user
                   ELSE IF SameConnection THEN session.user ELSE Unknown]
BoundPending == IF SameConnection THEN pending ELSE NoWrite
BoundStored == IF mirror /\ ~ SameConnection THEN Unset ELSE stored

\* ServerReadPersistent: a pending write, else the mirror or the engine.
View == IF BoundPending # NoWrite THEN BoundPending.value ELSE BoundStored

Command(w) == [value |-> w.value, by |-> w.by]

\* Mutant: the timer is asked for ever.
Timers_Unlimited(w) == {FALSE, TRUE}

\* Whether the back-off timer of a write may be over; it is asked at most
\* kMaxTimedResends times.
Timers(w) == IF w.timed < MaxTimed THEN {FALSE, TRUE} ELSE {FALSE}

\* CollectResends and SendResends on a write.
Resend(w, timer) ==
  IF w # NoWrite /\ (w.now \/ timer)
  THEN /\ pending' = [w EXCEPT !.timed = IF w.now THEN @ ELSE @ + 1, !.now = FALSE]
       /\ toClient' = Append(toClient, Command(w))
  ELSE pending' = w /\ UNCHANGED toClient

-----------------------------------------------------------------------------
(* The server *)

\* ServerWritePersistent and RecordServerWrite.  A value the server already
\* holds is not written.  Scripts know a player once its signon report was read.
ServerWrite(v) ==
  /\ up
  /\ conn.met
  /\ writes < MaxWrites
  /\ kind = "counter" => v > View
  /\ session' = Bound
  /\ writes' = writes + 1
  /\ last' = v
  /\ IF v = View
     THEN /\ pending' = BoundPending /\ stored' = BoundStored
          /\ UNCHANGED toClient
     ELSE LET w == [value |-> v, timed |-> 0, now |-> FALSE, by |-> conn.user]
          IN  /\ pending' = w
              /\ stored' = v
              /\ toClient' = Append(toClient, Command(w))
  /\ UNCHANGED <<kinds, conn, up, toServer, profile, clears, drops>>

\* ServiceServerPlayers.
Service ==
  /\ up
  /\ pending # NoWrite
  /\ session' = Bound
  /\ stored' = BoundStored
  /\ \E timer \in Timers(BoundPending) : Resend(BoundPending, timer)
  /\ UNCHANGED <<kinds, conn, last, up, toServer, profile, counters>>

\* Mutant: the echo of an older write acknowledges a newer one.
Acknowledges_Older(report) == report.value # Unset

\* ApplyClientUpdate: the value the engine is handed in place of the client's.
\* A full snapshot without the key has it added, another batch has not.
Reconciled(report) ==
  IF report.full \/ report.value # Unset THEN BoundPending.value ELSE BoundStored
Acknowledges(report) == report.value = BoundPending.value

\* Mutant: a snapshot does not hurry the write.
AfterReport_NotResent(report) == IF Acknowledges(report) THEN NoWrite ELSE BoundPending

\* What is pending after a report: a snapshot that still lacks it has the
\* command sent again, as often as it takes.
AfterReport(report) ==
  IF Acknowledges(report) THEN NoWrite
  ELSE IF report.full THEN [BoundPending EXCEPT !.now = TRUE, !.timed = 0]
  ELSE BoundPending

\* PData_ServerReconcileIncoming.
ServerReceives ==
  /\ up
  /\ toServer # <<>>
  /\ LET report == Head(toServer)
     IN  IF BoundPending = NoWrite
         THEN /\ pending' = NoWrite
              /\ stored' = IF report.value # Unset \/ (mirror /\ report.full)
                           THEN report.value ELSE BoundStored
              /\ UNCHANGED toClient
         ELSE /\ stored' = Reconciled(report)
              /\ \E timer \in Timers(BoundPending) : Resend(AfterReport(report), timer)
  /\ session' = Bound
  /\ conn' = [conn EXCEPT !.met = TRUE]
  /\ toServer' = Tail(toServer)
  /\ UNCHANGED <<kinds, last, up, profile, counters>>

-----------------------------------------------------------------------------
(* The client *)

\* setinfopersist_cmd: a changed value is reported by the engine.
Set(p, v) ==
  /\ profile' = [profile EXCEPT ![p] = v]
  /\ toServer' = IF v = profile[p] THEN toServer ELSE Append(toServer, Report(FALSE, v))

ClientReceives ==
  /\ up
  /\ toClient # <<>>
  /\ Set(conn.player, Head(toClient).value)
  /\ toClient' = Tail(toClient)
  /\ UNCHANGED <<kinds, stateVars, conn, last, up, counters>>

\* The player's own choice.
ClientWrites(v) ==
  /\ up
  /\ kind = "setting"
  /\ writes < MaxWrites
  /\ v # profile[conn.player]
  /\ Set(conn.player, v)
  /\ writes' = writes + 1
  /\ UNCHANGED <<kinds, stateVars, conn, last, up, toClient, clears, drops>>

-----------------------------------------------------------------------------
(* The connection *)

\* A level change clears the netchannel, both ways ...
Clear ==
  /\ up
  /\ clears < MaxClears
  /\ clears' = clears + 1
  /\ up' = FALSE
  /\ toClient' = <<>> /\ toServer' = <<>>
  /\ UNCHANGED <<kinds, stateVars, conn, last, profile, writes, drops>>

\* ... and the client comes back on it with all it has.
Return ==
  /\ ~ up
  /\ up' = TRUE
  /\ \E report \in Arrivals(profile[conn.player]) :
       toServer' = <<report>> /\ conn' = [conn EXCEPT !.full = report.full]
  /\ UNCHANGED <<kinds, stateVars, last, toClient, profile, counters>>

\* "In case it was dropped for any other reason."
Drop ==
  /\ toClient # <<>>
  /\ drops < MaxDrops
  /\ drops' = drops + 1
  /\ toClient' = Tail(toClient)
  /\ UNCHANGED <<kinds, stateVars, conn, last, up, toServer, profile, writes, clears>>

\* Somebody leaves and the next one takes the slot.  The engine's table starts
\* empty; the netchannel may be where the old one was, and BeginSession cannot
\* tell the two apart when one of their userids is not known.
Join(p, nc, known) ==
  /\ conn.user < MaxConns
  /\ \E report \in Arrivals(profile[p]) :
       /\ toServer' = <<report>>
       /\ conn' = [player |-> p, nc |-> nc, user |-> conn.user + 1, known |-> known,
                   met |-> FALSE, told |-> nc = session.nc => known /\ session.user # Unknown,
                   full |-> report.full]
  /\ last' = Unset
  /\ up' = TRUE
  /\ toClient' = <<>>
  /\ stored' = IF mirror THEN stored ELSE Unset
  /\ UNCHANGED <<kinds, session, pending, profile, counters>>

\* "The engine can assign the userid after the first client payload."
AssignUserId ==
  /\ ~ conn.known
  /\ conn' = [conn EXCEPT !.known = TRUE]
  /\ UNCHANGED <<kinds, stateVars, last, up, toClient, toServer, profile, counters>>

-----------------------------------------------------------------------------
Next ==
  \/ \E v \in Value : ServerWrite(v) \/ ClientWrites(v)
  \/ Service \/ ServerReceives \/ ClientReceives
  \/ Clear \/ Return \/ Drop
  \/ AssignUserId
  \/ \E p \in Player, nc \in Address, known \in BOOLEAN : Join(p, nc, known)

Spec == Init /\ [][Next]_vars

\* The stream moves, the frame hook runs and its timers run out.
Fairness ==
  /\ WF_vars(ServerReceives) /\ WF_vars(ClientReceives) /\ WF_vars(Return)
  /\ WF_vars(Service /\ toClient' # toClient)

FairSpec == Spec /\ Fairness

-----------------------------------------------------------------------------
(* Properties *)

TypeOK ==
  /\ mirror \in BOOLEAN /\ kind \in AllKinds /\ up \in BOOLEAN
  /\ session \in [nc : Address \cup {"none"}, user : 0 .. MaxConns]
  /\ pending \in [value : Value \cup {Unset}, timed : 0 .. MaxTimed, now : BOOLEAN,
                  by : 0 .. MaxConns]
  /\ stored \in Value \cup {Unset}
  /\ conn \in [player : Player, nc : Address, user : 1 .. MaxConns, known : BOOLEAN,
             met : BOOLEAN, told : BOOLEAN, full : BOOLEAN]
  /\ last \in Value \cup {Unset}
  /\ toClient \in Seq([value : Value, by : 1 .. MaxConns])
  /\ toServer \in Seq([full : BOOLEAN, value : Value \cup {Unset}])
  /\ profile \in [Player -> Value \cup {Unset}]

\* "One player's writes can never leak into the next player's profile"
\* (persistentdata_state.h:76): what is sent to a client was written for the
\* connection it is on, and so is what it is made to answer for, unless the
\* netchannel is where the last one was and one of the two userids was unknown.
NoLeak ==
  conn.told =>
    /\ \A n \in DOMAIN toClient : toClient[n].by = conn.user
    /\ BoundPending # NoWrite => BoundPending.by = conn.user

\* The roll-back on a level change that pending writes exist to prevent: for a
\* key that only the server raises, neither what the server reads for one
\* connection nor what the player keeps ever falls, whatever is cleared, lost
\* or sent twice, as long as the connection can be told from the one before.
KeepsCounter ==
  kind = "counter" /\ conn.told =>
    /\ \A p \in Player : profile'[p] >= profile[p]
    /\ conn.met /\ conn'.user = conn.user => View' >= View
NoRollback == [][KeepsCounter]_vars

\* "To make server writes durable for the lifetime of the connection, every write
\* stays *pending* until the client echoes the same value back"
\* (persistentdata_state.h:14): once nothing is on its way or pending, a client
\* that writes nothing itself has the server's last write.
LastWriteKept ==
  (/\ kind # "setting" /\ up /\ last # Unset
   /\ BoundPending = NoWrite /\ toClient = <<>> /\ toServer = <<>>)
     => profile[conn.player] = last

\* A client that came with nothing made no full snapshot: once the timed resends
\* of a write are used up nothing has it sent again.
GivenUp == ~ conn.full /\ pending.timed = MaxTimed

\* Server and client agree in the end, whoever wrote last, on a connection that
\* can be told from the one before.
Agrees == up /\ (conn.told /\ ~ GivenUp => profile[conn.player] = View)
Agreement == <>[]Agrees
=============================================================================
