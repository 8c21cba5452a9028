# R1Delta in TLA+

R1Delta puts new networking, filesystem, telemetry and launcher code around the
closed-source engine of a game. This directory holds TLA+ models of the parts
whose correctness depends on the order in which threads, callbacks and messages
happen to run, the TLC configurations that check them, and TLAPS proofs of the
most important results. Paths below are relative to the root of the repository;
`PROJECT.json` names, for every definition that models code, the lines it
stands for.

## 1. The system

### Inventory

| Component | State it keeps | Operations | What is hard | What makes it correct |
|---|---|---|---|---|
| Overlay multiplexer `p2p/p2p_mux.cpp` | peers by id, ids by handle, two engine queues, `g_enforce` | `AddOutgoingPeer`, `ClosePeer`, `SendToPeer`, pump, `PopQueued`, reaper | engine thread, session threads, detached closers and the pump share it, in several critical sections per operation | the maps stay inverse, ids are single use, only admitted datagrams reach the engine, per-connection order, dead peers go away |
| Plugins `p2p/plugins/iroh`, `tailcat`, loader `p2p_plugin.cpp` | connection table, bounded packet queue | connect, accept, send, receive, close, read loops | packets queued behind a close, overflow drops the close itself | a close is finally known to the mux |
| Route selection `p2p/p2p_connect.cpp` | `g_generation`, `g_session`, `g_activeOverlayPeer`, candidates per session | `delta_connect`, `NewSession`, `PrepareOverlay`, `RunSession`, pongs | a newer attempt supersedes older threads that only notice it here and there; preparation may hang | the newest attempt connects; sockets and peers do not leak; the chosen route is never closed as a loser; every attempt ends |
| TURN client `p2p/p2p_turn.cpp` | one object: credentials, allocation state, socket, pending requests, permissions, channels | `Start`, `Stop`, `Run`, `Tick`, responses | detached `Stop`, threads that overlap, rotated credentials | one owner of the socket, an advertised relay is served, allocations are given back |
| Server services `p2p/p2p_server.cpp` | rendezvous registration, punch list, reachability | heartbeat response, register acks, punch requests, service loop | lost acknowledgements, capped queues | registered again after loss, every punch repeated its number of times |
| Identity `p2p/p2p_identity.cpp` | nonces, attested records | `Present`, `Lookup`, `Forget`, prune | clocks read in different threads, expiry against replay | one nonce, one peer; a record ends with its peer |
| Control dispatch `p2p/p2p.cpp` | settings snapshot, rate limiter | control packets, pongs | limiter table cleared when full | pongs stay bounded |
| Framing `p2p/p2p_protocol.cpp` | reassembly slots per peer | fragment, reassemble, expire | 8 and 16-bit counters, eviction | what is delivered is what was sent |
| Port mapper `p2p/p2p_upnp.cpp` | mapping, lease | renew thread, stop | retry and removal on shutdown | a mapping is renewed or removed |
| EOS transport `eos/*.cpp` | fake address table, start-up state | hooks on `sendto`/`recvfrom` | callbacks of the SDK, lazy start | an address always means one user |
| Master server client `engine/net/masterserver.cpp` | running, generation, listed and hidden flags, HTTP client | start and stop of the heartbeat thread, hide, delist, shutdown | requests of left-over threads, lost requests and replies | a removed server stays removed, a public one is listed |
| Script error telemetry `engine/net/script_error_telemetry.cpp`, `script-error-service/` | captures and notifications per context, bounded queue; reports and limits | capture, upload, notify, store | late answers, nested error blocks, limits, partial storage | no report twice, no unbounded queue, each code beside its error |
| VPK precache `engine/filesystem/vpk_async_precache_*.cpp` | claims of paths, calls per thread, deferred items, the engine's count | claim, read, defer, replay | engine calls run further items on the same thread, which may want the same path | no item lost or done twice, no thread waits for another in a circle |
| File cache `engine/filesystem/filecache.cpp`, `addonlist_state.cpp` | snapshot, generations, nested updates | scan, begin and end an update, publish, wait | updates overlap each other and the scanner; waking sleepers | an ended update is visible, nobody waits for ever |
| Persistent data, server's view `shared/persistentdata_state.h`, `persistentdata.cpp` | session, pending writes and values per slot | assign, edit, reconcile, resend | the reliable stream is thrown away on a level change, slots are reused, echoes come late | a write lasts until the client has it; a player's data is his own |
| Persistent data, client's store `shared/persistentdata_store.h`, `persistentdata.cpp` | entries, dirty flag, three files, `profile.cfg` | load, import, change, save, quit | the process dies or a call fails between two steps of a save; damaged files | progress that was saved is found again |
| Graphics flight recorder `client/rendering/graphics_flight_recorder*` | rings of slots, texture identities, freeze flags | record, look up, freeze, read | no locks: writers, readers and a freeze meet at any access | no mixed record, a sealed slot stays, a looked-up identity is current |
| Launcher `launcher_ex/FastDownloadService.cs` | download process, progress | start, pause, stop | process exit against commands | finished or resumable |
| Physics guard, allocators, hooks, codecs, UI | — | — | see `PROJECT.json`, status and reason per part | — |

### How the parts interact

The engine thread runs everything that hooks Winsock: it polls
`recvfrom`, which pumps the multiplexer, which reads the plugins' queues and the
TURN client, hands control packets to the dispatcher (identity, ping, pong) and
queues the rest for the engine. `delta_connect` starts a detached session
thread; that one starts detached preparation threads which call into plugins or
EOS and add peers to the multiplexer, and finally puts a `connect` command into
the console buffer. On a server the script's heartbeat starts the heartbeat
thread; its HTTP response is handled under `httpMutex` and starts or feeds the
TURN client, the punch service and identity enforcement. The service loop is a
thread of its own and stops an idle TURN client from a detached thread.

Player data lives in three places. The server's scripts write it into the view
of a slot; each write travels to the client in the reliable stream of the
netchannel, and the client answers with what it has now. The client keeps what it
has in a store, saved to a file some time after a change and when the game quits.
Only that file and the master's list outlive the process.

The file cache has a scanner thread; the engine's hook for search paths, which any
thread may come through, suspends the scanner, may publish a snapshot of its own
and waits for the scanner in the end. VPK items are handed by the engine to its
worker threads. The renderer's threads write to the flight recorder, and the crash
handler freezes and reads it. These share no state with each other nor with the
network parts.

## 2. Plan

Done, in this order:

1. `PeerRegistry` — abstract: what the multiplexer promises.
2. `OverlayMux` — the multiplexer, its plugins and the identity records; refines
   `PeerRegistry`. `OverlayMux_proofs`.
3. `ConnectSession` — route selection, composed with `PeerRegistry` in the place
   of the multiplexer (what 2 shows is what 3 may use). `ConnectSession_proofs`.
4. `HeartbeatThread` — the server's entry on the master. `HeartbeatThread_proofs`.
5. `TurnClient` — the relay's allocation threads. `TurnClient_proofs`.
6. `PersistentSync` — player data between server and client, over level changes
   and changes of the player in a slot. Proofs in `Transfers_proofs`.
7. `ClientStore` — the client's save file, over crashes, failed calls, damage and
   older builds. Proofs in `Files_proofs`.
8. `FlightSlot`, and on it `FlightRing` (event rings, freeze, report)
   and `FlightIdentity` (texture identities and lookups). Proofs in `Diagnostics_proofs`.
9. `VpkPrecache` — claims, nesting and deferral. Proofs in `Files_proofs`.
10. `FileCache` — scanner, search path updates, publication. Proofs in `Files_proofs`.
11. `Reassembler` — fragments of datagrams, with lossy transports and message
    numbers that wrap around. Proofs in `Transfers_proofs`.
12. `ScriptErrorTelemetry` — error blocks, report queue, worker and notifications.
    Proofs in `Diagnostics_proofs`.
13. `Subsystems` — 6 to 12 side by side; `MCSubsystems` checks it,
    `Subsystems_proofs` carries the theorems of the parts over to it.

To come, the most valuable first:

- `RouteProbe` — one session's measurement on discrete time: ping intervals,
  grace, punches, scores; ConnectSession's "answered or not" is its abstraction.
- `IdentityTable` — nonces, records, expiry and prune with clocks read before
  the lock; refines the admission part of OverlayMux.
- `PunchService` — registration, retry, punch list, reachability; client and
  rendezvous with lossy messages.
- `PortMapper`, `EosLayer`, the pong limiter; the report service behind
  `ScriptErrorTelemetry`; the download service.

Theorems planned: what of the liveness properties is safety, as invariants that a thread
which waits is always waited for by somebody who can go on (behind `UpdateEnds`, that a
sleeper's condition is false or a waker is on its way; behind `WorkEnds`, that a precache with work left
has a thread that is not blocked); the safety properties of `IdentityTable` and `PunchService`
when they exist.

## 3. Modules and their correspondence to the code

Conventions. One action is one critical section, one call of a library or one
stretch of a thread between two points where others can interfere. A `pc` value
is a place between two such stretches. Values read before a lock and used after
it are carried in variables (`pumpItem`, `reapList`, `toClose`, `wasHidden`).
Clocks are not modelled (but in `Reassembler`, which is about one): that a duration has passed is an
action of its own (`BecomeIdle`, `GraceEnds`, `Due`, `Deadline`) or a
nondeterministic choice (`Tick`), so every order of a time-out and an event is
covered. History variables are called so where they are declared and no action
of the code reads them. Definitions whose comment starts with "Mutant" are not
part of any specification: they are wrong variants that show a property can fail.

**PeerRegistry.** Open ids with their connection handle, attested ids, the next
unused id. Ids are never reused; attestation ends with the id.

**OverlayMux.** `peers`, `byHandle`, `nextPeerId`, `queues` are the variables of
`p2p_mux.cpp` of these names, `records`/`aged` the identity table as far as
overlay peers are concerned, `conn`/`pluginQ` the plugin behind the function
table. `PumpBegin` .. `PumpEnd` is `Pump` under `g_pumpMutex` (a `try_lock`: a
second caller returns, and so is no step): `Receive*`, `RefuseOverCap`,
`AcceptIncoming` and `ReceiveKnown` are the outcomes of the first critical
section for one datagram, `HandleControl` and `Admit` run outside the lock,
`PushForEngine` is the second critical section, `ReapCollect`, `ReapClose`,
`ReapSkip` the reaper. `AddOutgoingPeer`, `EraseForClose`/`FinishClose`,
`SendToPeer`, `PopQueued` and `SetIdentityEnforcement` are called by others at
any moment. `Refreshed` carries the side effect of a lookup on a record's age.
Not modelled: `MarkOutgoing`/`IsOutgoing` in `ShouldDropUnidentified` (only EOS
addresses are ever marked), the contents of datagrams, reassembly except that a fragment may
complete nothing, and the UDP side of the hook.

**ConnectSession.** The engine thread's part of `delta_connect` is `StartAttempt`,
`TakeActive`, `CloseActive`, `CreateSession` (the increment of `g_generation` and
the assignment of `g_session` are under one lock), `GiveUpEarly`, `NoRoutes` and
`StartProbing`; `Prepare*` is a detached preparation thread; `Pong`, `NoAnswer`,
`Deadline`, `ProbeEnds`, `Superseded`, `PickWinner`, `CloseCollected`,
`LosersClosed`, `IdentifyEnds`, `CheckCurrent`, `Command` follow `RunSession` from
top to bottom. `open`, `attested`, `nextId` are the registry's, changed through its
actions; `PeerLost` is a plugin or the reaper closing a peer.

**HeartbeatThread.** The flags are the globals of `masterserver.cpp`; `mutex` is
`httpMutex`; `StartRunning`/`StartThread` and `StopRunning`/`StopThread` are the
two statements of starting and stopping, `EngineLocks`/`EngineDeletes` the shutdown's
DELETE; `Begin`, `LoopHead`, `Poll`, `Hide`, `DelistLocks`, `Delist`,
`HeartbeatLocks`, `HeartbeatCheck`, `Heartbeat` follow a thread through one round.
A request arrives and is answered ("ok"), does not arrive ("lost"), or arrives and
its reply does not ("unheard"). `Expire` is the master's 90 seconds. `public` and
`ended` are history. What may become of a request is the constant `Networks`: a
behaviour has one of these sets of outcomes for good, so one run covers lossy and
reliable networks.

**TurnClient.** The variables are the members of `p2p::TurnClient`; `socket` names
the thread that opened it, so a request also records through whose socket it left.
`StartKeeps`, `StartRestarts`, `StarterStops`, `StarterJoins`, `Launch` are `Start`
with the `Stop` inside; `ServiceFindsIdle`, `StopperStops`, `StopperJoins` the
detached `Stop` of the service loop; `Reset` .. `Close` are `Run`, with the socket
wait (`Quiet`, `Granted`, `Challenged`, `Refused`) and `Tick` as separate critical
sections of one round. One `Start` runs at a time because heartbeat responses are
handled under `httpMutex`. `overlapped` and `held` are history.

**PersistentSync.** One key of one slot. `session`, `pending` and `stored` are the
members of the slot's `PlayerState` (`stored` is the engine's table where the server
keeps no mirror), `toClient` and `toServer` the two directions of the reliable
stream, `profile` what each player has on his machine. `ServerWrite` is a write
from a script, `Service` the frame hook that resends when the timer has run out or
an answer showed another value, `ServerReceives` the reconciliation of a report (a
full snapshot or single keys), `ClientReceives` the command and the echo,
`Clear`/`Return` the reconnection for a level change, after which the client reports
everything, `Join` another connection in the slot and `AssignUserId` the engine's
late assignment of a userid. A client that comes, or comes back, marks its report as a full
snapshot unless it has no persistent value at all (`Arrivals`). Bindings are lazy: `Bound`, `BoundPending` and
`BoundStored` are what the next access will find. Three kinds of keys: a counter
that only the server raises, a state that only the server writes, a setting that the
player writes as well. `by` (who a command was written for), `last`, `conn.told` and
`conn.full` are history. A netchannel address may be reused at any time, also while one
of the two userids is unknown; `conn.told` remembers whether `BeginSession` could tell
the connection from the one before when it came, and the properties are about those
it could.

**ClientStore.** The contents of a file are a version number; a torn file has no
valid trailer, and what can be salvaged of it is any earlier version. `SaveCreates`,
`SaveWrites`, `BackUp`, `MoveIn` are the steps of `SaveStoreNow`, `SaveWriteFails` and
`StepFails` its error paths, `Start` is loading with the choice between the three
files and the import from `profile.cfg`, `Change`, `FrameSaves`, `ProfileWrite`,
`Quit` what the running game does. `Crash` may happen anywhere; `OlderBuild` is a game
without this store that writes the old lines; `Damage` is the disk, at any moment and
in any of the files. `committed`, `previous`, `harmed`, `rewriting` are history:
`previous` is what one damaged file would leave, and `rewriting` is the moment at which even
that is not promised (see section 5).

**FlightSlot, FlightRing.** Each atomic access to a slot is a step: stamps are
changed by compare-and-exchange (`ClaimSlot`, `PublishSlot`, `SealSlot`), words are
stored and loaded one by one. Steps are interleaved; the code stores words with
release and loads them with acquire, and a reader compares the stamp before and after
them, so an interleaving of the accesses to one slot is what a thread can observe. Sequence
numbers and tickets are taken separately, so a late writer may meet a newer event.
`CloseGate`, `SealSlot`, `FreezeComplete` are `Freeze`; `ReadStamp` .. `EndRead` are
`ReadSlot`, before or after a freeze.

**FlightIdentity.** One bucket with `Ways` slots. `TryLock`, `Scan`, `Select`, `ClaimSlot`,
`StoreWord`, `PublishSlot`, `InvalidateBucket`, `Return` are `UpdateResource` with its
ways out: `Scan` looks at one way at a time and passes over busy and sealed ones; `Select` takes the
way that has the address (`Selected`), for a creation else the one to give up
(`Victim`: empty, of an older epoch, retired, oldest). A lost lifecycle
update, also one that finds the bucket taken, raises the bucket's epoch. `LookUp` ..
`EndLookUp` go through the ways in order (`NextWay`) and read stamp, words, stamp and epoch of
each. A freeze closes the gate and seals the ways one by one, while calls admitted before go
on. `owns`, `keyOf`, `newest`, `passed` and a lookup's `floor` are history.

**VpkPrecache.** `stack` is the calls of `RunOne` a thread is in. While an
item holds the claim of its path, and while it reads, it calls the engine, which may
`Pump` another item on the same thread.
`Acquire` is the claim; a nested item that does not get it is deferred (`Defer`) and
comes back in `Replay` when the outermost item has ended. `NoHandler`, `Occupied` and
`StartRead` are what an item may find; which of them is the engine's doing.

**FileCache.** `generation` and `updateDepth` are the `RescanState`, `asleep` who
sleeps on the condition variable: a thread that finds its condition false goes to
sleep and only a `notify_all` (`WakeAll`) makes it look again, so a missing
notification would show. `ScannerSuspended` .. `Rescan` are the scanner's loop,
`Begin`, `Publish*`, `End*` the update with its nesting. A snapshot is the root it
was made for and how much of the disk it has certainly seen.

**Reassembler.** A datagram is its number in the order of sending and so is each of its
chunks, so a mixture would be visible in what `Push` gives. `Send` takes a message number
(`SendToPeer` takes one for whole frames, too) and frames stay receivable until `Delay` has
passed, any number of times and in any order. `PushWhole`, `PushWaits` and
`PushCompletes` are the outcomes of `Push`, with the expiry (`Live`) and the eviction of
the lowest number (`Kept`) that come before; `Expire` is the reaper's call. Assumed: a number is
not used again before its last use can have left frames or a slot behind, that is, no peer
gets 65536 datagrams within about two seconds.

**ScriptErrorTelemetry.** `captures`, `notifications`, `nextSequence`, `queue` are the
members of `Service`; `completed` is the local list of a call, between the two mutexes.
A printed text is taken line by line (`CaptureLine`), with a heading that need not be complete
(`CaptureHeading`) and the beginning of a line kept for the next call (`CapturePartial`);
`ProcessLine`, `FinishReport` and `BeginReport` are those of the code. A line is one of
six kinds. Whether reporting is switched on, and whether a post succeeds, is a choice.
`handled` is history.

**Subsystems.** Eight modules that share nothing, side by side: `part` says
which one a behaviour is of, `v1` .. `v16` are that module's variables, and a variable
the part does not use stays zero. Its constants are those of the eight, and its
assumptions are the hypotheses of their proofs: bounds that are numbers, a queue and a ring that
hold something, finitely many threads and items, threads not called like the scanner or like
"none", and one damaged file. `MCSubsystems` gives the
constants their values and leaves out renamings (`OnePathEach`: which item has which path).
`MCSpec` is what its safety run checks, where threads and addresses of textures are model
values that may be exchanged (`Symmetry`: no definition tells one from another, and
no liveness is checked there). `FairSpec`, without symmetry, is the three parts with liveness
properties and their fairness. Each weak fairness condition is a disjunction of one condition of each part;
because a behaviour stays in one part, it is that part's condition there.

**MCSessions** extends `TurnClient` and has `ConnectSession` beside it as an instance. A behaviour belongs
to one of the two, the other stays in its initial state; the fairness is that of both, and the
properties are those of `TurnClient`, and of `ConnectSession` that attempts end. It has no overlay
candidates, whose actions are left out of its next-state relation: the preparation that may hang is
that of EOS.

## 4. Runs

All runs finish in about three minutes or less on two cores.

| Run | Bounds | Shows |
|---|---|---|
| `mux_peers` | two plugin connections, cap 1, plugin queue 2, engine queue 2, one datagram each: game, identify or a part | `HandlesMatchPeers`, `RecordsBelongToPeers`, `IncomingCapped`, `OnlyAdmittedQueued`, `IdsNeverReused`, and that the mux implements `PeerRegistry` (`ImplementsRegistry`) |
| `mux_live` | one connection, three datagrams, engine queue 2, a plugin queue that does not overflow, fairness | `InOrder`, `IdleReaped`, `UnidentifiedReaped`, `ClosedConnectionForgotten` |
| `connect_routes` | two attempts, one UDP and one overlay route each | `ProbeSocketLifetime`, `Explained`, `LatestAttemptConnects`, `ChosenRouteKept` |
| `connect_stale_route` | as `connect_routes` | violation of `NoOlderRoute` (finding 1) |
| `heartbeat` | generation up to 4: two games with their left-over threads, a lossy or a reliable network, fairness | `NotRelisted`, `NoHeartbeatAfterShutdown`, `HidingDelists`, `ShowingLists` |
| `heartbeat_unlisted` | requests may be lost | violation of `HidingKnowsToDelist` (finding 2) |
| `sessions` | two allocation threads, one detached Stop, two relays, two users; or two connection attempts, UDP and EOS; fairness | `HandleFree`, `AdvertisedRelayServed`, `AloneGivesBack`, `StartReturns`, `StopReturns`; `AttemptEnds` |
| `turn_overlap` | one relay, one detached Stop | violation of `AllocationsGivenBack` (finding 3) |
| `turn_credentials` | two relays, no detached Stop | violation of `CredentialsMatchRelay` (finding 4) |
| `subsystems` | see below, symmetry | `TypeOK` of eight modules; `NoLeak`, `NoRollback`; `CleanIsSaved`, `SavedSurvives`; `NoMixedRecord`, `SealHolds`; `LookupCurrent`; `WorkConserved`; `SnapshotCurrent`; `DeliveredIsSent`; `ReportsTrue` |
| `subsystems_live` | player data with one value, VPK and file cache as in `subsystems`, fairness | `Agreement`, `WorkEnds`, `UpdateEnds` |
| `sync_stale_ack` | two values, three writes, one level change, one connection | violation of `LastWriteKept` (finding 5) |

Bounds of `subsystems`: player data with two values, two writes, one timed resend,
one level change, one lost command, two connections and all three kinds of keys; the
store with three versions, one damaged file, two failed calls, two crashes; the
ring with two threads, one slot, two words, three events; identities with two
threads, three addresses, two ways, three calls; VPK with two threads, four items and two paths
(which item has which path up to renaming); the file cache with two threads, two
roots, one change of the disk, two updates or requests, nesting of two; reassembly with
three message numbers, two slots, datagrams of one or two frames, four of them, in three units of
time (a frame and a slot live for one); error reports with two contexts, two errors,
nesting of two and a queue of one. `subsystems_live` has the same bounds but one value in place of
two: agreement is then between having the value and having none, which is what a lost
command leaves behind.

Why these bounds are enough. In the multiplexer every property relates at most
two peers (two with one handle, or one handle with two ids); with the cap at 1 a
second incoming connection meets the cap, queues of two overflow with three
datagrams, and two connections let a close of one interleave with an accept of
the other; the proofs remove the bounds for the safety properties, `InOrder` included. In
`ConnectSession` an attempt only ever interacts with a newer one through
`g_generation`, `g_session`, the active route and the mux; two attempts give every
such pair, the first with the older and the second with the newer role. The
heartbeat model is proved for any number of games, the safety of `TurnClient` for any
number of threads; two threads are enough to overlap and for one to follow the
other, and two users and two relays make kept credentials differ in either part.
In the player data a hazard needs a write, its loss by a clear or a drop and a
second write or a second connection: two of each. One save with its steps, a crash or
failure in it, a start that recovers and a second crash are within the store's bounds;
a second damaged file may take everything, so the promise is made for one. One slot makes
all writers of a ring collide, and three events are an old writer, a newer one and a
third that laps the reader. Two ways are a sealed or busy one that is passed over and the one
taken in its place, and the third address displaces one of the first two; that the code has four
is covered by the proof. Four items on two paths put an item that wants the
outer one's path under it on one thread while the other thread holds the second path.
Two threads whose updates nest or overlap, with a change of the disk in between, are
every pair the file cache distinguishes. Four datagrams on three numbers make one number
come back, and three at a time overflow two slots. Two errors, in one context or in two,
are an answer and a later error for it to be late for, and overflow the queue. The proofs remove these bounds for
every safety property of the run.

In `mux_live` the plugin's queue does not overflow: a packet that is dropped there may be the closed event, and
then `ClosedConnectionForgotten` does not hold. `mux_peers` has overflow, and checks safety.

`CHECK_DEADLOCK FALSE` stands where the number of attempts, launches, writes, events, items
or updates is bounded and the system really has nothing left to do when they are used up. The runs of
`OverlayMux` and of `HeartbeatThread` check for deadlock.

### What the properties say

- `HandlesMatchPeers`: the two maps of the mux are inverse, whichever threads add,
  accept and erase. `RecordsBelongToPeers`: no identity record without a peer
  except inside `ClosePeer`. `OnlyAdmittedQueued`: the admission answer, given
  outside the lock, still holds at the moment the datagram is queued.
  `IncomingCapped`: counting and inserting are not separated. `IdsNeverReused`:
  an id a netchannel still holds never names somebody else. `InOrder`: no
  reordering or duplication from plugin to engine. The three liveness properties:
  idle, unidentified and closed peers leave for good.
- `ProbeSocketLifetime`: the session has a probe socket exactly while it may use it,
  on every way out. `Explained`: each open mux peer is held by somebody who will
  close it, is the active route, or escaped through one of the two windows recorded in
  `excused`. `LatestAttemptConnects`: when everything has ended, the engine has got
  the player's last `connect` or `delta_connect` exactly once. `ChosenRouteKept`: while
  no newer attempt begins, only the remote side closes the chosen route. `AttemptEnds`: though preparation
  threads may hang.
- `NotRelisted`: an entry on the master that was removed only comes back if the
  server has been public again since. `NoHeartbeatAfterShutdown`: a left-over thread
  of an ended game posts nothing. `HidingDelists` and `ShowingLists`: on a reliable
  network a server that stays hidden goes off the list and one that stays public
  stays on it or comes back. (A left-over
  thread may still send a DELETE, unlike a heartbeat, after its game's shutdown:
  `DelistLocks` does not test the generation. `ShowingLists` shows that the entry
  it may remove comes back.)
- `HandleFree`: the thread object is never overwritten while joinable.
  `AdvertisedRelayServed`, `AloneGivesBack`: without overlap, an advertised relay is
  read by the thread that runs, and an allocation is released when it ends. `StartReturns`, `StopReturns`: no join waits
  for ever although another `Start` may set the running flag again: that is what
  the generation in the loop condition is for.
- `NoLeak`: on a connection that could be told from the one before, no client is sent, or made
  to answer for, a write meant for somebody else who was in the slot. `NoRollback`: on such a
  connection a key only the server raises never falls, for the
  player or in the server's view, whatever a level change throws
  away and whenever old reports arrive. `Agreement`: server and client agree in the
  end, whoever wrote last, on such a connection and with one more exception, `GivenUp`: a client
  that came with nothing sent no full snapshot, and when the timed resends of a write are
  used up, nothing makes the server send it again.
- `CleanIsSaved`: a running game that sees nothing to save has a whole file with all it
  knows. `SavedSurvives`: each start finds at least what was last reported as saved. When a
  file was damaged since, it finds at least the generation before, unless a save that
  had moved the old file away and then failed is being repeated at that moment.
- `NoMixedRecord`: neither a usable slot nor a validated read has words of two events.
  `SealHolds`: a sealed slot stays as it was, wherever its writer was interrupted.
  `LookupCurrent`: a lookup returns a generation of that address not older than the
  last one created before the lookup began, although updates get lost and addresses displace
  each other. Creations that passed over a way a freeze had sealed are left out, and only those.
- `WorkConserved`: items on their way through stacks and queues are neither lost nor
  doubled, and the engine's count is the items not yet executed. `WorkEnds`: the
  count comes to zero, so no circle of threads waits.
- `SnapshotCurrent`: when the end of an update returns, the snapshot has seen what the
  update left, and a snapshot nobody is going to replace is of the current root.
  `UpdateEnds`: nobody waits for the scanner for ever.
- `DeliveredIsSent`: what reassembly gives are all chunks of one datagram, in order,
  though fragments are lost, repeated and reordered, slots are evicted and expire, and
  numbers come round.
- `ReportsTrue`: a notification shows no code but its own error's, however late the
  answer; an error is in one place at most, from its capture to the worker, so it is
  reported at most once.

### Fairness

- `OverlayMux`: the engine polls every frame, so the pump begins, and goes on,
  again and again (`WF`); the pump may be busy with other datagrams, so receiving
  one and reaping need `SF` (each round of the pump drains every backend and then
  reaps). Detached closers and plugin read loops run to their end. Nothing is
  assumed about remote peers, sessions, enforcement or time passing.
- `ConnectSession`: threads proceed when they can, and the overall deadline comes.
  Preparation threads and the network are not fair.
- `HeartbeatThread`: threads proceed, the re-post interval passes, and a thread that
  again and again finds `httpMutex` free gets it (`SF`). The script, the master's expiry
  and hiding are not fair. Liveness is only claimed with requests that arrive:
  finding 2 is what happens otherwise.
- `TurnClient`: every thread that can go on does; the service loop, the heartbeat
  and the relay are not fair.
- `PersistentSync`: the stream moves both ways, a reconnection comes to its end and
  the frame hook, whose timers run out, resends. Scripts, players, level changes and
  losses are not fair. `VpkPrecache`: the engine hands its work to idle threads and a
  thread that can go on does. `FileCache`: the scanner and threads inside an update go
  on, except from sleep; that a scan fails, that somebody begins an update and that the
  disk changes are not fair.

## 5. Findings

1. **A superseded session can leave its route as the active one**
   (`p2p/p2p_connect.cpp:780`, run `connect_stale_route`). Comments at lines 180
   and 863 describe `g_activeOverlayPeer` as the current connection's route. A
   session checks `StillCurrent` at 703 and assigns at 780; a newer attempt can
   release the previous route in between.
2. **A lost DELETE is forgotten** (`engine/net/masterserver.cpp:268`, run
   `heartbeat_unlisted`): `listedOnMaster` is cleared before the request and stays
   cleared when it fails, against the comment at 145.
3. **Two TURN allocation threads can overlap** (`p2p/p2p_turn.cpp:97`, run
   `turn_overlap`): the detached `Stop` has taken the thread object, `Start` has
   nothing to join, and the new thread's reset makes the old one end without the
   release the comment at 329 speaks of; the old one's clean-up then clears the
   new one's state and socket.
4. **Kept TURN credentials outlive their relay** (`p2p/p2p_turn.cpp:386`, run
   `turn_credentials`): `m_pendingCreds` is for the "same relay" (line 90) but is not
   cleared when another relay is started.
5. **An old echo acknowledges a new write of the same value**
   (`shared/persistentdata_state.h:167`, run `sync_stale_ack`): the comment at line
   14 promises that a write stays pending until the client has echoed it, but only
   values are compared. Writes A, B, A: the echo of the first A acknowledges the third
   write, whose command a level change may still throw away.

Some further spots, which the properties leave out by name:

- **A freeze can leave an older identity in front.** `LookupNeverStale` is what the comment at
  `client/rendering/graphics_flight_recorder_storage.h:88` says without exceptions, "rather
  than serving stale generations", and it does not hold. A freeze seals the way that has
  the old generation of an address; a creation that was let in before the freeze passes over that way
  (`graphics_flight_recorder.cpp:302`), publishes in another one and invalidates
  nothing; a later lookup comes to the sealed way first and accepts it (line 634). Two ways, one
  address, two threads and three calls are enough: with these constants, TLC reports a
  violation when `LookupNeverStale` is the invariant, after 45 steps. The flight
  recorder is frozen when the process is about to end, and what is served then goes into events that are
  no longer recorded.
- **Damage and a failed replacement can lose everything.** The primary file is damaged; a save
  makes it the backup and fails to move the new file in; the repeated save truncates the
  temporary file (`CREATE_ALWAYS`, `shared/persistentdata.cpp:2017`), which was the only complete
  copy, and the process dies before the contents are written again. `SavedSurvives` leaves out this
  moment (`rewriting`) and no other.
- **Indistinguishable connections.** A player who gets the netchannel address of his predecessor
  while one of the userids is unknown is bound to the predecessor's pending writes
  (`persistentdata_state.h:82`). Whether the engine can do that is not visible in this
  repository. The model lets such connections come, and `NoLeak`, `NoRollback` and `Agreement` are
  about the others (`conn.told`).
- **An empty client.** `Agreement` leaves out `GivenUp`: the marker of a full snapshot is only added
  when there are persistent entries (`shared/persistentdata.cpp:1019`), so for a client without any the
  timed resends are all there is.
- **Import and damage.** When the only file there is after an import gets damaged, the entries that can still be read of it count as a
  store; `profile.cfg` may still have everything, but is only imported when there is no
  store or when it is newer (`shared/persistentdata.cpp:2285`). `SavedSurvives` promises
  the generation before a damaged file, and here there is none.

## 6. Proofs

TLAPS checks these for every value of the constants under the named assumptions.

**OverlayMux_proofs** (`MuxAssumption`: capacities are positive naturals, remote
peers send known kinds). The inductive invariant `MuxInv` is the checked invariants
`TypeOK`, `HandlesMatchPeers`, `RecordsBelongToPeers` with three parts about values
carried between critical sections: `PumpHoldsPeer` (the datagram the pump carries
from one section to the next came from a peer that, on the server's side, is
still there, because only the pump itself takes server peers out),
`CheckedStaysIdentified` (a datagram that passed the check has an identity record
that was looked up just now and so survives a prune) and `ClosingIsErased` (a
peer being closed is out of the mux and its id used up). They are needed because
`OnlyAdmittedQueued` is about a check made two steps earlier, and
`RecordsBelongToPeers` about a record that outlives its peer by one step. One lemma per
action family shows that it keeps `MuxInv` (`MuxInvariant`). `IncomingCapped` follows from it with
the cardinality theorems of the library; the other invariants, the two
action properties (`CheckStillHolds`, `IdsStaySingleUse`) and the refinement
(`MuxImplementsRegistry`: initial states map to initial states; each action opens
one fresh id, closes one, changes attestations of open ids, or stutters) follow.

**OverlayMux_proofs**, the order of datagrams (`OrderKept`). `InOrder` speaks of the engine's
queue and of what was popped; a datagram passes four places, the plugin's queue, the pump's hands
between two critical sections, the engine's queue and the engine, and `OrderInv` orders all of them:
what waits for the engine is newer than what it has and in order (`QueuesInOrder`), what the pump
carries is newer still (`CarriedInOrder`), what the plugin holds newer than both (`PluginInOrder`), and
nothing is newer than what was sent (`PoppedWereSent`). The engine pops from two queues, of servers and
of outgoing peers, and both set `lastPopped` of a handle; so the invariant also says that whatever is known
of a handle, its connection, its peer and the datagrams on their way, is of one route, even
after the peer was closed (`OneSide`). No queue is followed through its history: a step drops its
head (`Cut`) or appends, with or without dropping one (`Grown`); two lemmas say that `Tail` and `Append`
do that, and one (`QuietStep`) covers all steps that leave datagrams alone. Used with `MuxInv`.

**HeartbeatThread_proofs** (`HeartbeatAssumption`: the bound is a natural number, the
outcomes are known ones). `NotRelisted` is not inductive: a thread in "post" would
break it from a state in which the server is hidden. The strengthening says that a
thread that has passed its check under the lock is licensed (`Licensed`: the server
was public since the last removal and its game has not ended), that a running
public server is known to be (`PublicKnown`), that threads of a stopped game have
old generations (`Retired`, `EndedBehind`), how the running flag and the engine's
position go together (`RunningFlag`) and that generations are left (`Room`). One
step per action, one per conjunct.

**TurnClient_proofs** (`TurnAssumption`: the bounds are natural numbers and no host is
called like the sentinel for "no credentials"). The invariant has three parts. The
types, in which `socket` and the requests' sockets are threads already launched
(that needs `Started`) and which are stronger than they look in one place: once a
thread was launched there are credentials. The caller's part: from the moment
`Start` has taken the thread object until its launch nobody puts one there (`Taken`;
detached Stops only take), and there is room for the launch (`Room`). And `Relay`,
all under "threads never overlapped": one thread alive (`Solo`), the object's socket
is that of the thread between opening and releasing it (`Owner`), a relay is only
announced with a socket (`Announced`), an allocation the relay keeps is announced and
belongs to that socket (`Held`). Actions of callers cannot disturb `Relay`, actions of
threads cannot disturb the callers' part; two lemmas say so, and each action then
has one step per remaining conjunct. That the hypothesis "never overlapped" is
needed is finding 3.

**ConnectSession_proofs** (`ConnectAssumption`: the bound is a natural number and the
kinds of candidates are disjoint). `Explained` and `LatestAttemptConnects` speak of
the moment when everything has ended, so what they need is who is going to do what:
`Held` says that each open peer is held by somebody who will still close it (the engine
between taking and closing the active route, a preparation that has not recorded it
yet, a session before it has picked, the list a session is closing), is the active route or
escaped; `Commands` that nobody's command is repeated and that the latest attempt either has
its command or is at a place from which it comes to it. That the lists do not name the
chosen route (`Collected`) needs that no two preparations share a peer (`Unique`) and
that a candidate's peer is the one its preparation opened (`Recorded`); `Past` gives that
new ids are new, `Attempts` which attempts exist, `Sockets` the probe socket. One lemma per
action, one step per conjunct; `HoldersStay` says once what a step must leave alone so that
peers stay held.

**Files_proofs** proves about `VpkPrecache`, `FileCache` and `ClientStore`, **Transfers_proofs** about
`Reassembler` and `PersistentSync`, **Diagnostics_proofs** about `ScriptErrorTelemetry`, `FlightRing` and
`FlightIdentity`. Each extends one of the modules and has the others as instances; where two modules
call a variable the same, the instance's is renamed (`pc` is `place` or `step`, `pending` is `owed`). The
theorems have the bounds they need as hypotheses, so that none assumes more than its proof uses.

*VpkPrecache* (`WorkBounds`: finitely many items). `WorkConserved` counts with cardinalities, and
`WorkInv` says item by item what is counted: an item is at most once on all stacks (`OnceOnStacks`), at
most once in all queues (`OnceInQueues`), not in two of the places waiting, stacks, queues and executed
(`Apart`), but in one of them (`Somewhere`). From these the cardinality of each item's places is 1
without counting along a run; `WorkCounted` follows because a step executes one item that was not
executed.

*FileCache* (no hypothesis but for `CacheTypes`). A scan begun with the generation an update ended
with, or a later one, began after that end (`ScansAfterEnd`); so what is published at that
generation has seen the update (`CacheBarrier`). Outside updates a scan that may still be published is
one of the current root (`ScansCurrentRoot`). `CacheTypes` bounds `generation` and `updateDepth` by
how many updates each thread is in (`Nests`).

*ClientStore* (`StoreBounds`; at most one damaged file). For each place a process may die at, the
invariant says where what was saved is. While nothing is damaged it is in its place, or the backup has
it while the new file is complete or being written again (`KeepsCommitted`). If what a save moves is
damaged, the file it replaces is not, or else the backup is not (`MovesTorn`). The generation before is
in the backup until a file is damaged, and after that in the first intact file a start would
take, unless the new file is being written again (`KeepsPrevious`; section 5 says what that exception
means). That what a save moves is complete but for damage is `SaveSound`.

*Reassembler* (`FramesBounds`). `DeliveredIsSent` speaks of the last `Push`; what it needs is that
the fragments that wait under a number are all of one datagram (`Owned`). A new datagram that takes the
number must therefore find nothing left of the one before: `Spaced` says that two datagrams with one
number are a whole turn of numbers apart, and that the earlier one is older than its frames can be
delayed and its slot can wait. That numbers with one remainder are a turn apart is `Modulo`.

*PersistentSync* (`SyncBounds`: the bounds are natural numbers and the kinds are known ones). A session is never of a later
connection than the slot's (`SessionOlder`), which gives `NoLeak` for the connections that can be told
from the one before; on the others nothing is claimed, and they must not spoil what holds on the next
one. For `NoRollback` the invariant orders
the values of a counter along their way (`CounterRises`): reports on their way, what the player has,
commands on their way, what the server reads, each not greater than the next.

*ScriptErrorTelemetry* (`ErrorsBounds`: the queue holds a report). `ReportedOnce` counts places with a
cardinality; `ErrorsInv` says of each pair of places, being read, completed, queued and with the worker,
that they do not share a report (`ReadApart`, `CompletedApart`, `QueuedApart`), and of each place that it
has a report once. One operator (`Follows`) says what any line of any kind can make of the report that is
being read, so the six kinds of lines are split once.

*FlightRing* (`RingBounds`: at least one slot, the rest natural numbers). Who stores words has
the slot's stamp busy under his number, sealed or not (`StoreHolds`), because a claim exchanges the very
stamp it tested (`ClaimHolds`) and numbers are not shared (`Distinct`). Stamps change only in one
direction (`RingLater` in `ReadHolds`), so a stamp that is equal at the end of a read was there all the time.

*FlightIdentity* (`IdentityBounds`: at least one way, finitely many threads, and "none" neither a thread nor
an address). A lookup reads stamp, words, stamp and epoch of one way after the other, so the
invariant follows a record from its writer through a way into the lookup. A record is worth finding
(`Worth`) when it is no older than any creation of its address that has returned, or is about to,
without having passed over a sealed way. While the epoch a usable way was written with is the present one,
what it says is worth finding (`SlotCurrent`); so is what the thread that has the bucket is going to
store (`WriterCurrent`, with `Locked` and `Filled`: one thread writes, and the way holds what it has
stored so far); so is what a lookup has read at each of its steps, unless stamp or epoch have changed
since (`ReaderHolds`). The first way with the address answers a lookup, so a newer record in one way
must leave no older one in another: of two ways with one address one is sealed (`Apart`), none of
the ways a thread could use has a twin it could use, not even one it has yet to look at
(`Looked`), and once it has chosen, no other way could be served in its place but those a creation
passed over (`AloneIn`). An update that finds the bucket taken is dropped, but raises the epoch before
it returns, and then nothing of the old epoch is served any more. `Generations` and `Owners` say that
each generation belongs to one address for good, and calls that create or release one address do not
overlap.

**Subsystems_proofs** (the five assumptions of `Subsystems`). A behaviour of a part is a behaviour of
its module: the part never changes (`PartStays`), and in it each step is one of the module or changes none of its
variables (one lemma per part, such as `SyncRuns`). So what is proved about the module holds of the
part, and the properties `MCSubsystems` checks are theorems under their own names. The module's
operators appear twice there, in `Subsystems` and inside the module of the proofs; that the two are
the same formulas is shown definition by definition (`SyncSame` and its like). The properties are in the
form "in this part, the module's property", and `TypeOK` is all eight.

`TypeOK` of `ConnectSession` and of `HeartbeatThread` is proved (`ConnectTypes`,
`HeartbeatTypes`) and in no run's list.

Only model-checked: liveness (`IdleReaped`, `UnidentifiedReaped`, `ClosedConnectionForgotten`, `AttemptEnds`,
`HidingDelists`, `ShowingLists`, `StartReturns`, `StopReturns`, `Agreement`, `WorkEnds`, `UpdateEnds`). Liveness
under fairness and anything with ENABLED are outside what the prover handles here. Every
invariant and every action property that a passing run checks is a theorem. No module uses
RECURSIVE operators.

## 7. Not modelled

`PROJECT.json` lists every part with its reason. Most of the source is code that
reaches into a closed engine: hooks, byte patches, interface tables, and bindings of
rendering, audio, navigation, scripts and entities (`engine/core/factory.cpp` and
`load.cpp` alone are a fifth of it and have no state of their own beyond pointers into the
engine). What they do depends on code that is not here, and a model of it would be a
guess. Codecs, file formats, allocators and cryptography are computations on data without
interleaving (the codecs are tested against vectors by the repository's own tests); crash
handling runs in a broken process. That is why the modelled lines are a small part of
all lines: they are those of the parts that have state, several actors and an order that
matters. The parts under "To come" are planned.

Left out inside modelled parts: bots, replay slots, the schema, slot arithmetic and "nosend" of
player data; `profile.cfg.bak` and the copies for manual recovery of the store; the flight
recorder's installation, coverage masks and report layout; the VPK's fatal error when the
pack generation changes under a claim and its full queue of deferred items; what a scan
of the file cache puts into a snapshot, and the addon list's parsing; the parsing and building
of control packets in `p2p_protocol.cpp`; the sanitizing of error reports and their frames.
