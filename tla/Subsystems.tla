----------------------------- MODULE Subsystems -----------------------------
(***************************************************************************)
(* The components that do not meet each other, side by side: part says     *)
(* which one a behaviour is of, and that one has the variables v1, v2, ... *)
(***************************************************************************)
EXTENDS Naturals, Sequences, FiniteSets

CONSTANTS
  MaxValue, MaxTimed, MaxWrites, MaxClears, MaxDrops, MaxConns, KeyKinds, \* PersistentSync
  MaxVersion, MaxDamage, MaxFailures, MaxCrashes,                          \* ClientStore
  Thread, MaxSequence,                                                     \* both Flight modules
  Capacity, EventWords,                                                    \* FlightRing
  Key, Ways,                                                               \* FlightIdentity
  Item, Path,                                                              \* VpkPrecache
  Root, MaxChanges, MaxUpdates, MaxDepth,                                  \* FileCache
  MessageIds, MaxPending, MaxFragments, Lifetime, Delay, MaxMessages,
  MaxClock,                                                                \* Reassembler
  Context, MaxQueue, MaxErrors, MaxBlocks                                  \* ScriptErrorTelemetry

\* The bounds, and the kinds of keys.
ASSUME SyncAssumption ==
  /\ MaxValue \in Nat /\ MaxTimed \in Nat /\ MaxConns \in Nat \ {0}
  /\ KeyKinds \subseteq {"counter", "state", "setting"}

\* The disk damages one file at most: with a second one nothing could be promised.
ASSUME StoreAssumption ==
  MaxVersion \in Nat /\ MaxDamage \in {0, 1} /\ MaxFailures \in Nat /\ MaxCrashes \in Nat

\* A ring and a bucket have slots, threads that record are finitely many, and they and the
\* addresses are no names of ours.
ASSUME FlightAssumption ==
  /\ Capacity \in Nat \ {0} /\ EventWords \in Nat /\ MaxSequence \in Nat
  /\ Ways \in Nat \ {0}
  /\ IsFiniteSet(Thread) /\ "none" \notin Thread \cup Key /\ "scanner" \notin Thread

\* A precache has finitely many items, and an update of search paths can begin.
ASSUME FilesAssumption ==
  /\ IsFiniteSet(Item)
  /\ MaxChanges \in Nat /\ MaxUpdates \in Nat /\ MaxDepth \in Nat \ {0}

\* There is a number and a place for a message, and a report fits into the queue.
ASSUME QueuesAssumption ==
  /\ MessageIds \in Nat \ {0} /\ MaxPending \in Nat \ {0} /\ MaxFragments \in Nat
  /\ Lifetime \in Nat /\ Delay \in Nat /\ MaxMessages \in Nat /\ MaxClock \in Nat
  /\ MaxQueue \in Nat \ {0} /\ MaxErrors \in Nat /\ MaxBlocks \in Nat

VARIABLES part, v1, v2, v3, v4, v5, v6, v7, v8, v9, v10, v11, v12, v13, v14, v15, v16

Sync == INSTANCE PersistentSync WITH
  mirror <- v1, kind <- v2, session <- v3, pending <- v4, stored <- v5, conn <- v6, last <- v7,
  up <- v8, toClient <- v9, toServer <- v10, profile <- v11, writes <- v12, clears <- v13,
  drops <- v14

Store == INSTANCE ClientStore WITH
  primary <- v1, tmp <- v2, bak <- v3, profile <- v4, pc <- v5, mem <- v6, dirty <- v7,
  quitting <- v8, clock <- v9, committed <- v10, previous <- v11, harmed <- v12, damages <- v13,
  failures <- v14, crashes <- v15, rewriting <- v16

Ring == INSTANCE FlightRing WITH
  gate <- v1, sequence <- v2, tickets <- v3, stamp <- v4, words <- v5, frozen <- v6,
  unsealed <- v7, pc <- v8, mine <- v9, reader <- v10

Identity == INSTANCE FlightIdentity WITH
  gate <- v1, sequence <- v2, generation <- v3, writing <- v4, epoch <- v5, stamp <- v6,
  words <- v7, pc <- v8, op <- v9, reader <- v10, owns <- v11, keyOf <- v12, newest <- v13

Vpk == INSTANCE VpkPrecache WITH
  path <- v1, waiting <- v2, outstanding <- v3, holder <- v4, stack <- v5, deferred <- v6,
  executed <- v7

Cache == INSTANCE FileCache WITH
  initialized <- v1, unavailable <- v2, generation <- v3, updateDepth <- v4, published <- v5,
  snapshot <- v6, addonRoot <- v7, disk <- v8, mutex <- v9, pc <- v10, nest <- v11, scan <- v12,
  target <- v13, since <- v14, asleep <- v15, updates <- v16

Frames == INSTANCE Reassembler WITH clock <- v1, sent <- v2, pending <- v3, out <- v4

Errors == INSTANCE ScriptErrorTelemetry WITH
  captures <- v1, notifications <- v2, nextSequence <- v3, completed <- v4, queue <- v5,
  worker <- v6, handled <- v7

vars == <<part, v1, v2, v3, v4, v5, v6, v7, v8, v9, v10, v11, v12, v13, v14, v15, v16>>

\* A step of one part; what that part does not use stays zero.
SyncOnly == part = "sync" /\ UNCHANGED <<part, v15, v16>>
StoreOnly == part = "store" /\ UNCHANGED part
RingOnly == part = "ring" /\ UNCHANGED <<part, v11, v12, v13, v14, v15, v16>>
IdentityOnly == part = "identity" /\ UNCHANGED <<part, v14, v15, v16>>
VpkOnly == part = "vpk" /\ UNCHANGED <<part, v8, v9, v10, v11, v12, v13, v14, v15, v16>>
CacheOnly == part = "cache" /\ UNCHANGED part
ErrorsOnly == part = "errors" /\ UNCHANGED <<part, v8, v9, v10, v11, v12, v13, v14, v15, v16>>
FramesOnly ==
  part = "frames" /\ UNCHANGED <<part, v5, v6, v7, v8, v9, v10, v11, v12, v13, v14, v15, v16>>

Init ==
  \/ part = "sync" /\ Sync!Init /\ v15 = 0 /\ v16 = 0
  \/ part = "store" /\ Store!Init
  \/ part = "ring" /\ Ring!Init /\ v11 = 0 /\ v12 = 0 /\ v13 = 0 /\ v14 = 0 /\ v15 = 0 /\ v16 = 0
  \/ part = "identity" /\ Identity!Init /\ v14 = 0 /\ v15 = 0 /\ v16 = 0
  \/ part = "vpk" /\ Vpk!Init
     /\ v8 = 0
     /\ v9 = 0 /\ v10 = 0 /\ v11 = 0 /\ v12 = 0 /\ v13 = 0 /\ v14 = 0 /\ v15 = 0 /\ v16 = 0
  \/ part = "cache" /\ Cache!Init
  \/ part = "errors" /\ Errors!Init
     /\ v8 = 0 /\ v9 = 0 /\ v10 = 0
     /\ v11 = 0 /\ v12 = 0 /\ v13 = 0 /\ v14 = 0 /\ v15 = 0 /\ v16 = 0
  \/ part = "frames" /\ Frames!Init
     /\ v5 = 0 /\ v6 = 0 /\ v7 = 0 /\ v8 = 0 /\ v9 = 0 /\ v10 = 0
     /\ v11 = 0 /\ v12 = 0 /\ v13 = 0 /\ v14 = 0 /\ v15 = 0 /\ v16 = 0

SyncNext ==
  \/ \E v \in Sync!Value : SyncOnly /\ Sync!ServerWrite(v)
  \/ \E v \in Sync!Value : SyncOnly /\ Sync!ClientWrites(v)
  \/ SyncOnly /\ Sync!Service
  \/ SyncOnly /\ Sync!ServerReceives
  \/ SyncOnly /\ Sync!ClientReceives
  \/ SyncOnly /\ Sync!Clear
  \/ SyncOnly /\ Sync!Return
  \/ SyncOnly /\ Sync!Drop
  \/ SyncOnly /\ Sync!AssignUserId
  \/ \E p \in Sync!Player, nc \in Sync!Address, known \in BOOLEAN :
       SyncOnly /\ Sync!Join(p, nc, known)

StoreNext ==
  \/ StoreOnly /\ Store!Start
  \/ StoreOnly /\ Store!Change
  \/ StoreOnly /\ Store!FrameSaves
  \/ StoreOnly /\ Store!ProfileWrite
  \/ StoreOnly /\ Store!Quit
  \/ StoreOnly /\ Store!SaveCreates
  \/ StoreOnly /\ Store!SaveWrites
  \/ StoreOnly /\ Store!SaveWriteFails
  \/ StoreOnly /\ Store!BackUp
  \/ StoreOnly /\ Store!MoveIn
  \/ StoreOnly /\ Store!StepFails
  \/ StoreOnly /\ Store!Crash
  \/ StoreOnly /\ Store!OlderBuild
  \/ StoreOnly /\ Store!Damage

RingNext ==
  \/ \E t \in Thread : RingOnly /\ Ring!MakeEvent(t)
  \/ \E t \in Thread : RingOnly /\ Ring!TakeTicket(t)
  \/ \E t \in Thread : RingOnly /\ Ring!LoadStamp(t)
  \/ \E t \in Thread : RingOnly /\ Ring!ClaimSlot(t)
  \/ \E t \in Thread : RingOnly /\ Ring!StoreWord(t)
  \/ \E t \in Thread : RingOnly /\ Ring!PublishSlot(t)
  \/ RingOnly /\ Ring!CloseGate
  \/ \E s \in Ring!Slot : RingOnly /\ Ring!SealSlot(s)
  \/ RingOnly /\ Ring!FreezeComplete
  \/ \E s \in Ring!Slot : RingOnly /\ Ring!ReadStamp(s)
  \/ RingOnly /\ Ring!ReadWord
  \/ RingOnly /\ Ring!Validate
  \/ RingOnly /\ Ring!EndRead

IdentityNext ==
  \/ \E t \in Thread, k \in Key : IdentityOnly /\ Identity!ResourceCreateBegin(t, k)
  \/ \E t \in Thread, k \in Key : IdentityOnly /\ Identity!ResourceRelease(t, k)
  \/ \E t \in Thread, g \in 1 .. MaxSequence : IdentityOnly /\ Identity!ResourceUse(t, g)
  \/ \E t \in Thread : IdentityOnly /\ Identity!TryLock(t)
  \/ \E t \in Thread : IdentityOnly /\ Identity!Scan(t)
  \/ \E t \in Thread : IdentityOnly /\ Identity!Select(t)
  \/ \E t \in Thread : IdentityOnly /\ Identity!ClaimSlot(t)
  \/ \E t \in Thread : IdentityOnly /\ Identity!StoreWord(t)
  \/ \E t \in Thread : IdentityOnly /\ Identity!PublishSlot(t)
  \/ \E t \in Thread : IdentityOnly /\ Identity!InvalidateBucket(t)
  \/ \E t \in Thread : IdentityOnly /\ Identity!Return(t)
  \/ IdentityOnly /\ Identity!Freeze
  \/ \E k \in Key : IdentityOnly /\ Identity!LookUp(k)
  \/ IdentityOnly /\ Identity!ReadStamp
  \/ IdentityOnly /\ Identity!ReadWord
  \/ IdentityOnly /\ Identity!ReadStampAgain
  \/ IdentityOnly /\ Identity!ReadEpochAgain
  \/ IdentityOnly /\ Identity!EndLookUp

VpkNext ==
  \/ VpkOnly /\ Vpk!Calls
  \/ VpkOnly /\ Vpk!Pumps
  \/ \E t \in Thread : VpkOnly /\ Vpk!NoHandler(t)
  \/ \E t \in Thread : VpkOnly /\ Vpk!Acquire(t)
  \/ \E t \in Thread : VpkOnly /\ Vpk!Defer(t)
  \/ \E t \in Thread : VpkOnly /\ Vpk!Occupied(t)
  \/ \E t \in Thread : VpkOnly /\ Vpk!StartRead(t)
  \/ \E t \in Thread : VpkOnly /\ Vpk!Finish(t)
  \/ \E t \in Thread : VpkOnly /\ Vpk!Replay(t)

CacheNext ==
  \/ CacheOnly /\ Cache!ScannerSuspended
  \/ CacheOnly /\ Cache!StartScan
  \/ CacheOnly /\ Cache!GiveUp
  \/ CacheOnly /\ Cache!EndScan
  \/ CacheOnly /\ Cache!ScannerWatches
  \/ CacheOnly /\ Cache!Rescan
  \/ CacheOnly /\ Cache!RequestManualRescan
  \/ CacheOnly /\ Cache!Change
  \/ \E t \in Thread : CacheOnly /\ Cache!EngineUpdate(t)
  \/ \E t \in Thread : CacheOnly /\ Cache!DirectUpdate(t)
  \/ \E t \in Thread : CacheOnly /\ Cache!AwaitInitial(t)
  \/ \E t \in Thread : CacheOnly /\ Cache!Begin(t)
  \/ \E t \in Thread, root \in Root : CacheOnly /\ Cache!PublishScans(t, root)
  \/ \E t \in Thread, root \in Root : CacheOnly /\ Cache!PublishRequests(t, root)
  \/ \E t \in Thread : CacheOnly /\ Cache!PublishCommits(t)
  \/ \E t \in Thread : CacheOnly /\ Cache!EndNested(t)
  \/ \E t \in Thread : CacheOnly /\ Cache!EndOutermost(t)
  \/ \E t \in Thread : CacheOnly /\ Cache!AwaitPublication(t)
  \/ \E t \in Thread : CacheOnly /\ Cache!EndReturns(t)

FramesNext ==
  \/ \E count \in 1 .. MaxFragments : FramesOnly /\ Frames!Send(count)
  \/ part = "frames" /\ \E m \in DOMAIN v2 : FramesOnly /\ Frames!PushWhole(m)
  \/ part = "frames"
     /\ \E m \in DOMAIN v2 : \E i \in Frames!Fragment(m) : FramesOnly /\ Frames!PushWaits(m, i)
  \/ part = "frames"
     /\ \E m \in DOMAIN v2 : \E i \in Frames!Fragment(m) : FramesOnly /\ Frames!PushCompletes(m, i)
  \/ FramesOnly /\ Frames!Expire
  \/ FramesOnly /\ Frames!Tick

ErrorsNext ==
  \/ \E c \in Context : ErrorsOnly /\ Errors!BeginErrorBlock(c)
  \/ \E c \in Context, line \in Errors!Line, eligible \in BOOLEAN :
       ErrorsOnly /\ Errors!CaptureLine(c, line, eligible)
  \/ \E c \in Context : ErrorsOnly /\ Errors!CaptureHeading(c)
  \/ \E c \in Context, begin \in Errors!Begin : ErrorsOnly /\ Errors!CapturePartial(c, begin)
  \/ \E c \in Context : ErrorsOnly /\ Errors!EndErrorBlock(c)
  \/ \E c \in Context : ErrorsOnly /\ Errors!Enqueue(c)
  \/ ErrorsOnly /\ Errors!WorkerTakes
  \/ ErrorsOnly /\ Errors!WorkerGivesUp
  \/ ErrorsOnly /\ Errors!WorkerNotifies

Next ==
  \/ SyncNext \/ StoreNext \/ RingNext \/ IdentityNext
  \/ VpkNext \/ CacheNext \/ FramesNext \/ ErrorsNext

Spec == Init /\ [][Next]_vars

-----------------------------------------------------------------------------
\* The properties are those of the modules, under their names.

\* Types and bounds of whichever part it is.
TypeOK ==
  /\ part = "sync" => Sync!TypeOK
  /\ part = "store" => Store!TypeOK
  /\ part = "ring" => Ring!TypeOK
  /\ part = "identity" => Identity!TypeOK
  /\ part = "vpk" => Vpk!TypeOK
  /\ part = "cache" => Cache!TypeOK
  /\ part = "frames" => Frames!TypeOK
  /\ part = "errors" => Errors!TypeOK

\* What was written for one connection reaches no other one that BeginSession can tell from it.
NoLeak == part = "sync" => Sync!NoLeak

\* A game with nothing to save has an intact file with all it knows (SaveStoreNow).
CleanIsSaved == part = "store" => Store!CleanIsSaved

\* What may be read of a ring is one event (ReadSlot).
NoMixedRecord == part = "ring" => Ring!NoMixedRecord

\* A lookup finds nothing or a current generation, but for creations a freeze overtook
\* (ResourceGeneration).
LookupCurrent == part = "identity" => Identity!LookupCurrent

\* Precache work is neither lost nor done twice (R1ClientVPKAsyncPrecacheWorker).
WorkConserved == part = "vpk" => Vpk!WorkConserved

\* No search path update ends with an older snapshot (EndAddonSearchPathUpdate).
SnapshotCurrent == part = "cache" => Cache!SnapshotCurrent

\* What Push gives is a datagram that was sent (Reassembler::Push).
DeliveredIsSent == part = "frames" => Frames!DeliveredIsSent

\* Reports are made once, and results belong to the latest (Capture, WorkerLoop).
ReportsTrue == part = "errors" => Errors!ReportsTrue

\* Counters do not fall on a connection that can be told from the one before (ApplyClientUpdate).
NoRollback == [][part = "sync" => Sync!KeepsCounter]_vars

\* A start finds what was saved, or what a damaged file leaves of it (LoadStoreFile).
SavedSurvives == [][part = "store" => Store!FindsSaved]_vars

\* A sealed slot stays as it is (Freeze).
SealHolds == [][part = "ring" => Ring!KeepsSealed]_vars

\* In the end server and client agree on the value (ServiceServerPlayers).
Agreement == <>[](part = "sync" => Sync!Agrees)

\* The precache ends (R1ClientVPKAsyncPrecacheWorker).
WorkEnds == <>(part = "vpk" => Vpk!WorkDone)

\* Every end of an update returns (EndAddonSearchPathUpdate).
UpdateEnds ==
  \A t \in Thread : (part = "cache" /\ Cache!Ending(t)) ~> (part = "cache" => ~ Cache!Ending(t))
=============================================================================
