-------------------------- MODULE Subsystems_proofs ---------------------------
(***************************************************************************)
(* The theorems about the components that do not meet each other, as       *)
(* theorems about Subsystems: a behaviour of a part is a behaviour of the  *)
(* part's module, so what is proved about the module holds of the part.    *)
(***************************************************************************)
EXTENDS Subsystems, TLAPS

Files == INSTANCE Files_proofs WITH
  path <- v1, waiting <- v2, outstanding <- v3, holder <- v4, stack <- v5, deferred <- v6,
  executed <- v7,
  initialized <- v1, unavailable <- v2, generation <- v3, updateDepth <- v4, published <- v5,
  snapshot <- v6, addonRoot <- v7, disk <- v8, mutex <- v9, place <- v10, nest <- v11, scan <- v12,
  target <- v13, since <- v14, asleep <- v15, updates <- v16,
  primary <- v1, tmp <- v2, bak <- v3, profile <- v4, step <- v5, mem <- v6, dirty <- v7,
  quitting <- v8, clock <- v9, committed <- v10, previous <- v11, harmed <- v12, damages <- v13,
  failures <- v14, crashes <- v15, rewriting <- v16

Transfers == INSTANCE Transfers_proofs WITH
  clock <- v1, sent <- v2, pending <- v3, out <- v4,
  mirror <- v1, kind <- v2, session <- v3, owed <- v4, stored <- v5, conn <- v6, last <- v7,
  up <- v8, toClient <- v9, toServer <- v10, profile <- v11, writes <- v12, clears <- v13,
  drops <- v14

Diagnostics == INSTANCE Diagnostics_proofs WITH
  captures <- v1, notifications <- v2, nextSequence <- v3, completed <- v4, queue <- v5,
  worker <- v6, handled <- v7,
  gate <- v1, sequence <- v2, tickets <- v3, stamp <- v4, words <- v5, frozen <- v6,
  unsealed <- v7, pc <- v8, mine <- v9, reader <- v10,
  generation <- v3, writing <- v4, epoch <- v5, mark <- v6, record <- v7, place <- v8, op <- v9,
  finder <- v10, owns <- v11, keyOf <- v12, newest <- v13

-----------------------------------------------------------------------------
(* The parts *)

IsSync == part = "sync"
IsStore == part = "store"
IsRing == part = "ring"
IsIdentity == part = "identity"
IsVpk == part = "vpk"
IsCache == part = "cache"
IsFrames == part = "frames"
IsErrors == part = "errors"

\* A step is one of one part, and nothing else moves.
LEMMA Sides ==
  /\ SyncNext => part = "sync" /\ UNCHANGED <<part, v15, v16>>
  /\ StoreNext => part = "store" /\ UNCHANGED part
  /\ RingNext => part = "ring" /\ UNCHANGED <<part, v11, v12, v13, v14, v15, v16>>
  /\ IdentityNext => part = "identity" /\ UNCHANGED <<part, v14, v15, v16>>
  /\ VpkNext => part = "vpk" /\ UNCHANGED <<part, v8, v9, v10, v11, v12, v13, v14, v15, v16>>
  /\ CacheNext => part = "cache" /\ UNCHANGED part
  /\ FramesNext => part = "frames" /\ UNCHANGED <<part, v5, v6, v7, v8, v9, v10, v11, v12, v13, v14, v15, v16>>
  /\ ErrorsNext => part = "errors" /\ UNCHANGED <<part, v8, v9, v10, v11, v12, v13, v14, v15, v16>>
<1>1. SyncNext => part = "sync" /\ UNCHANGED <<part, v15, v16>>
  BY DEF SyncNext, SyncOnly
<1>2. StoreNext => part = "store" /\ UNCHANGED part
  BY DEF StoreNext, StoreOnly
<1>3. RingNext => part = "ring" /\ UNCHANGED <<part, v11, v12, v13, v14, v15, v16>>
  BY DEF RingNext, RingOnly
<1>4. IdentityNext => part = "identity" /\ UNCHANGED <<part, v14, v15, v16>>
  BY DEF IdentityNext, IdentityOnly
<1>5. VpkNext => part = "vpk" /\ UNCHANGED <<part, v8, v9, v10, v11, v12, v13, v14, v15, v16>>
  BY DEF VpkNext, VpkOnly
<1>6. CacheNext => part = "cache" /\ UNCHANGED part
  BY DEF CacheNext, CacheOnly
<1>7. FramesNext => part = "frames" /\ UNCHANGED <<part, v5, v6, v7, v8, v9, v10, v11, v12, v13, v14, v15, v16>>
  BY DEF FramesNext, FramesOnly
<1>8. ErrorsNext => part = "errors" /\ UNCHANGED <<part, v8, v9, v10, v11, v12, v13, v14, v15, v16>>
  BY DEF ErrorsNext, ErrorsOnly
<1> QED BY <1>1, <1>2, <1>3, <1>4, <1>5, <1>6, <1>7, <1>8

LEMMA PartStays == [Next]_vars => part' = part
BY Sides DEF Next, vars

-----------------------------------------------------------------------------
(* The modules and their instances: Subsystems has an instance of each module, and *)
(* so has the module of its proofs.  They are the same formulas.                    *)

\* Both instances of PersistentSync.
LEMMA SyncSame ==
  /\ Sync!Init <=> Transfers!Sync!Init
  /\ Sync!Next <=> Transfers!Sync!Next
  /\ Sync!vars = Transfers!Sync!vars
  /\ Sync!TypeOK <=> Transfers!Sync!TypeOK
  /\ Sync!NoLeak <=> Transfers!Sync!NoLeak
  /\ Sync!KeepsCounter <=> Transfers!Sync!KeepsCounter
<1>1. Sync!Init <=> Transfers!Sync!Init
  BY DEF Sync!Init, Transfers!Sync!Init, Sync!NoSession, Transfers!Sync!NoSession, Sync!NoWrite,
     Transfers!Sync!NoWrite, Sync!Unset, Transfers!Sync!Unset, Sync!Player, Transfers!Sync!Player,
     Sync!Report, Transfers!Sync!Report, Sync!Unknown, Transfers!Sync!Unknown, Sync!Arrivals,
     Transfers!Sync!Arrivals
<1>2. Sync!Next <=> Transfers!Sync!Next
  BY DEF Sync!Next, Transfers!Sync!Next, Sync!Value, Transfers!Sync!Value, Sync!ServerWrite,
     Transfers!Sync!ServerWrite, Sync!ClientWrites, Transfers!Sync!ClientWrites, Sync!Service,
     Transfers!Sync!Service, Sync!ServerReceives, Transfers!Sync!ServerReceives,
     Sync!ClientReceives, Transfers!Sync!ClientReceives, Sync!Clear, Transfers!Sync!Clear,
     Sync!Return, Transfers!Sync!Return, Sync!Drop, Transfers!Sync!Drop, Sync!AssignUserId,
     Transfers!Sync!AssignUserId, Sync!Player, Transfers!Sync!Player, Sync!Address,
     Transfers!Sync!Address, Sync!Join, Transfers!Sync!Join, Sync!View, Transfers!Sync!View,
     Sync!Bound, Transfers!Sync!Bound, Sync!BoundPending, Transfers!Sync!BoundPending,
     Sync!BoundStored, Transfers!Sync!BoundStored, Sync!Command, Transfers!Sync!Command, Sync!kinds,
     Transfers!Sync!kinds, Sync!Set, Transfers!Sync!Set, Sync!stateVars, Transfers!Sync!stateVars,
     Sync!NoWrite, Transfers!Sync!NoWrite, Sync!Timers, Transfers!Sync!Timers, Sync!Resend,
     Transfers!Sync!Resend, Sync!counters, Transfers!Sync!counters, Sync!Unset,
     Transfers!Sync!Unset, Sync!Reconciled, Transfers!Sync!Reconciled, Sync!AfterReport,
     Transfers!Sync!AfterReport, Sync!Report, Transfers!Sync!Report, Sync!Unknown,
     Transfers!Sync!Unknown, Sync!SameConnection, Transfers!Sync!SameConnection, Sync!Acknowledges,
     Transfers!Sync!Acknowledges, Sync!Arrivals, Transfers!Sync!Arrivals
<1>3. Sync!vars = Transfers!Sync!vars
  BY DEF Sync!vars, Transfers!Sync!vars
<1>4. Sync!TypeOK <=> Transfers!Sync!TypeOK
  BY DEF Sync!TypeOK, Transfers!Sync!TypeOK, Sync!AllKinds, Transfers!Sync!AllKinds, Sync!Address,
     Transfers!Sync!Address, Sync!Value, Transfers!Sync!Value, Sync!Unset, Transfers!Sync!Unset,
     Sync!Player, Transfers!Sync!Player
<1>5. Sync!NoLeak <=> Transfers!Sync!NoLeak
  BY DEF Sync!NoLeak, Transfers!Sync!NoLeak, Sync!BoundPending, Transfers!Sync!BoundPending,
     Sync!NoWrite, Transfers!Sync!NoWrite, Sync!SameConnection, Transfers!Sync!SameConnection,
     Sync!Unset, Transfers!Sync!Unset, Sync!Unknown, Transfers!Sync!Unknown
<1>6. Sync!KeepsCounter <=> Transfers!Sync!KeepsCounter
  BY DEF Sync!KeepsCounter, Transfers!Sync!KeepsCounter, Sync!Player, Transfers!Sync!Player,
     Sync!View, Transfers!Sync!View, Sync!BoundPending, Transfers!Sync!BoundPending, Sync!NoWrite,
     Transfers!Sync!NoWrite, Sync!BoundStored, Transfers!Sync!BoundStored, Sync!SameConnection,
     Transfers!Sync!SameConnection, Sync!Unset, Transfers!Sync!Unset, Sync!Unknown,
     Transfers!Sync!Unknown
<1> QED BY <1>1, <1>2, <1>3, <1>4, <1>5, <1>6

\* Both instances of ClientStore.
LEMMA StoreSame ==
  /\ Store!Init <=> Files!Store!Init
  /\ Store!Next <=> Files!Store!Next
  /\ Store!vars = Files!Store!vars
  /\ Store!TypeOK <=> Files!Store!TypeOK
  /\ Store!CleanIsSaved <=> Files!Store!CleanIsSaved
  /\ Store!FindsSaved <=> Files!Store!FindsSaved
<1>1. Store!Init <=> Files!Store!Init
  BY DEF Store!Init, Files!Store!Init, Store!Absent, Files!Store!Absent
<1>2. Store!Next <=> Files!Store!Next
  BY DEF Store!Next, Files!Store!Next, Store!Start, Files!Store!Start, Store!Change,
     Files!Store!Change, Store!FrameSaves, Files!Store!FrameSaves, Store!ProfileWrite,
     Files!Store!ProfileWrite, Store!Quit, Files!Store!Quit, Store!Save, Files!Store!Save,
     Store!Crash, Files!Store!Crash, Store!OlderBuild, Files!Store!OlderBuild, Store!Damage,
     Files!Store!Damage, Store!Loads, Files!Store!Loads, Store!Imports, Files!Store!Imports,
     Store!disk, Files!Store!disk, Store!counters, Files!Store!counters, Store!history,
     Files!Store!history, Store!process, Files!Store!process, Store!SaveCreates,
     Files!Store!SaveCreates, Store!SaveWrites, Files!Store!SaveWrites, Store!SaveWriteFails,
     Files!Store!SaveWriteFails, Store!BackUp, Files!Store!BackUp, Store!MoveIn, Files!Store!MoveIn,
     Store!StepFails, Files!Store!StepFails, Store!Damaged, Files!Store!Damaged, Store!Intact,
     Files!Store!Intact, Store!First, Files!Store!First, Store!Salvaged, Files!Store!Salvaged,
     Store!Candidates, Files!Store!Candidates, Store!Torn, Files!Store!Torn, Store!Whole,
     Files!Store!Whole, Store!SaveFails, Files!Store!SaveFails, Store!Absent, Files!Store!Absent,
     Store!AfterSave, Files!Store!AfterSave
<1>3. Store!vars = Files!Store!vars
  BY DEF Store!vars, Files!Store!vars, Store!disk, Files!Store!disk, Store!process,
     Files!Store!process, Store!history, Files!Store!history, Store!counters, Files!Store!counters
<1>4. Store!TypeOK <=> Files!Store!TypeOK
  BY DEF Store!TypeOK, Files!Store!TypeOK, Store!File, Files!Store!File, Store!Version,
     Files!Store!Version
<1>5. Store!CleanIsSaved <=> Files!Store!CleanIsSaved
  BY DEF Store!CleanIsSaved, Files!Store!CleanIsSaved, Store!Whole, Files!Store!Whole
<1>6. Store!FindsSaved <=> Files!Store!FindsSaved
  BY DEF Store!FindsSaved, Files!Store!FindsSaved, Store!Start, Files!Store!Start, Store!Intact,
     Files!Store!Intact, Store!Loads, Files!Store!Loads, Store!Imports, Files!Store!Imports,
     Store!disk, Files!Store!disk, Store!counters, Files!Store!counters, Store!Candidates,
     Files!Store!Candidates, Store!First, Files!Store!First, Store!Salvaged, Files!Store!Salvaged
<1> QED BY <1>1, <1>2, <1>3, <1>4, <1>5, <1>6

\* Both instances of FlightRing.
LEMMA RingSame ==
  /\ Ring!Init <=> Diagnostics!Ring!Init
  /\ Ring!Next <=> Diagnostics!Ring!Next
  /\ Ring!vars = Diagnostics!Ring!vars
  /\ Ring!TypeOK <=> Diagnostics!Ring!TypeOK
  /\ Ring!NoMixedRecord <=> Diagnostics!Ring!NoMixedRecord
  /\ Ring!KeepsSealed <=> Diagnostics!Ring!KeepsSealed
<1>1. Ring!Init <=> Diagnostics!Ring!Init
  BY DEF Ring!Init, Diagnostics!Ring!Init, Ring!Slot, Diagnostics!Ring!Slot, Ring!Blank,
     Diagnostics!Ring!Blank, Ring!Word, Diagnostics!Ring!Word, Ring!NoEvent,
     Diagnostics!Ring!NoEvent, Ring!NoRead, Diagnostics!Ring!NoRead
<1>2. Ring!Next <=> Diagnostics!Ring!Next
  BY DEF Ring!Next, Diagnostics!Ring!Next, Ring!Writer, Diagnostics!Ring!Writer, Ring!Freeze,
     Diagnostics!Ring!Freeze, Ring!Reader, Diagnostics!Ring!Reader, Ring!MakeEvent,
     Diagnostics!Ring!MakeEvent, Ring!TakeTicket, Diagnostics!Ring!TakeTicket, Ring!LoadStamp,
     Diagnostics!Ring!LoadStamp, Ring!ClaimSlot, Diagnostics!Ring!ClaimSlot, Ring!StoreWord,
     Diagnostics!Ring!StoreWord, Ring!PublishSlot, Diagnostics!Ring!PublishSlot, Ring!CloseGate,
     Diagnostics!Ring!CloseGate, Ring!Slot, Diagnostics!Ring!Slot, Ring!SealSlot,
     Diagnostics!Ring!SealSlot, Ring!FreezeComplete, Diagnostics!Ring!FreezeComplete,
     Ring!ReadStamp, Diagnostics!Ring!ReadStamp, Ring!ReadWord, Diagnostics!Ring!ReadWord,
     Ring!Validate, Diagnostics!Ring!Validate, Ring!EndRead, Diagnostics!Ring!EndRead, Ring!Goto,
     Diagnostics!Ring!Goto, Ring!slots, Diagnostics!Ring!slots, Ring!freezing,
     Diagnostics!Ring!freezing, Ring!CanClaim, Diagnostics!Ring!CanClaim, Ring!Leaves,
     Diagnostics!Ring!Leaves, Ring!numbers, Diagnostics!Ring!numbers, Ring!Claimed,
     Diagnostics!Ring!Claimed, Ring!Published, Diagnostics!Ring!Published, Ring!threads,
     Diagnostics!Ring!threads, Ring!Sealed, Diagnostics!Ring!Sealed, Ring!Usable,
     Diagnostics!Ring!Usable, Ring!NoRead, Diagnostics!Ring!NoRead, Ring!NoEvent,
     Diagnostics!Ring!NoEvent, Ring!Blank, Diagnostics!Ring!Blank
<1>3. Ring!vars = Diagnostics!Ring!vars
  BY DEF Ring!vars, Diagnostics!Ring!vars, Ring!numbers, Diagnostics!Ring!numbers, Ring!slots,
     Diagnostics!Ring!slots, Ring!threads, Diagnostics!Ring!threads, Ring!freezing,
     Diagnostics!Ring!freezing
<1>4. Ring!TypeOK <=> Diagnostics!Ring!TypeOK
  BY DEF Ring!TypeOK, Diagnostics!Ring!TypeOK, Ring!Slot, Diagnostics!Ring!Slot, Ring!Sequence,
     Diagnostics!Ring!Sequence, Ring!Stamps, Diagnostics!Ring!Stamps, Ring!Word,
     Diagnostics!Ring!Word
<1>5. Ring!NoMixedRecord <=> Diagnostics!Ring!NoMixedRecord
  BY DEF Ring!NoMixedRecord, Diagnostics!Ring!NoMixedRecord, Ring!Slot, Diagnostics!Ring!Slot,
     Ring!Usable, Diagnostics!Ring!Usable, Ring!Word, Diagnostics!Ring!Word
<1>6. Ring!KeepsSealed <=> Diagnostics!Ring!KeepsSealed
  BY DEF Ring!KeepsSealed, Diagnostics!Ring!KeepsSealed, Ring!Slot, Diagnostics!Ring!Slot,
     Ring!Usable, Diagnostics!Ring!Usable
<1> QED BY <1>1, <1>2, <1>3, <1>4, <1>5, <1>6

\* Both instances of FlightIdentity.
LEMMA IdentitySame ==
  /\ Identity!Init <=> Diagnostics!Identity!Init
  /\ Identity!Next <=> Diagnostics!Identity!Next
  /\ Identity!vars = Diagnostics!Identity!vars
  /\ Identity!TypeOK <=> Diagnostics!Identity!TypeOK
  /\ Identity!LookupCurrent <=> Diagnostics!Identity!LookupCurrent
<1>1. Identity!Init <=> Diagnostics!Identity!Init
    BY DEF Identity!Init, Diagnostics!Identity!Init, Identity!None, Diagnostics!Identity!None,
     Identity!Blank, Diagnostics!Identity!Blank, Identity!NoOp, Diagnostics!Identity!NoOp,
     Identity!NoRead, Diagnostics!Identity!NoRead, Identity!Event, Diagnostics!Identity!Event,
     Identity!Nothing, Diagnostics!Identity!Nothing, Identity!Way, Diagnostics!Identity!Way
<1>2. Identity!Next <=> Diagnostics!Identity!Next
    BY DEF Identity!Next, Diagnostics!Identity!Next, Identity!Writer, Diagnostics!Identity!Writer,
     Identity!Freeze, Diagnostics!Identity!Freeze, Identity!Reader, Diagnostics!Identity!Reader,
     Identity!ResourceCreateBegin, Diagnostics!Identity!ResourceCreateBegin,
     Identity!ResourceRelease, Diagnostics!Identity!ResourceRelease, Identity!ResourceUse,
     Diagnostics!Identity!ResourceUse, Identity!TryLock, Diagnostics!Identity!TryLock,
     Identity!Scan, Diagnostics!Identity!Scan, Identity!Select, Diagnostics!Identity!Select,
     Identity!ClaimSlot, Diagnostics!Identity!ClaimSlot, Identity!StoreWord,
     Diagnostics!Identity!StoreWord, Identity!PublishSlot, Diagnostics!Identity!PublishSlot,
     Identity!InvalidateBucket, Diagnostics!Identity!InvalidateBucket, Identity!Return,
     Diagnostics!Identity!Return, Identity!Sealed, Diagnostics!Identity!Sealed, Identity!numbers,
     Diagnostics!Identity!numbers, Identity!bucket, Diagnostics!Identity!bucket, Identity!threads,
     Diagnostics!Identity!threads, Identity!history, Diagnostics!Identity!history,
     Identity!LookUp, Diagnostics!Identity!LookUp, Identity!ReadStamp,
     Diagnostics!Identity!ReadStamp, Identity!ReadWord, Diagnostics!Identity!ReadWord,
     Identity!ReadStampAgain, Diagnostics!Identity!ReadStampAgain, Identity!ReadEpochAgain,
     Diagnostics!Identity!ReadEpochAgain, Identity!EndLookUp, Diagnostics!Identity!EndLookUp,
     Identity!Busy, Diagnostics!Identity!Busy, Identity!Begins, Diagnostics!Identity!Begins,
     Identity!None, Diagnostics!Identity!None, Identity!Goto, Diagnostics!Identity!Goto,
     Identity!AfterLoss, Diagnostics!Identity!AfterLoss, Identity!slot, Diagnostics!Identity!slot,
     Identity!CanClaim, Diagnostics!Identity!CanClaim, Identity!Claimed,
     Diagnostics!Identity!Claimed, Identity!Published, Diagnostics!Identity!Published,
     Identity!NoOp, Diagnostics!Identity!NoOp, Identity!NoRead, Diagnostics!Identity!NoRead,
     Identity!Reads, Diagnostics!Identity!Reads, Identity!Usable, Diagnostics!Identity!Usable,
     Identity!SameStamp, Diagnostics!Identity!SameStamp, Identity!Blank,
     Diagnostics!Identity!Blank, Identity!Way, Diagnostics!Identity!Way, Identity!Event,
     Diagnostics!Identity!Event, Identity!Nothing, Diagnostics!Identity!Nothing, Identity!NextWay,
     Diagnostics!Identity!NextWay, Identity!Selected, Diagnostics!Identity!Selected,
     Identity!Rank, Diagnostics!Identity!Rank, Identity!Victim, Diagnostics!Identity!Victim,
     Identity!Stale, Diagnostics!Identity!Stale, Identity!Target, Diagnostics!Identity!Target
<1>3. Identity!vars = Diagnostics!Identity!vars
    BY DEF Identity!vars, Diagnostics!Identity!vars, Identity!numbers,
     Diagnostics!Identity!numbers, Identity!bucket, Diagnostics!Identity!bucket, Identity!slot,
     Diagnostics!Identity!slot, Identity!threads, Diagnostics!Identity!threads, Identity!history,
     Diagnostics!Identity!history
<1>4. Identity!TypeOK <=> Diagnostics!Identity!TypeOK
    BY DEF Identity!TypeOK, Diagnostics!Identity!TypeOK, Identity!Number,
     Diagnostics!Identity!Number, Identity!None, Diagnostics!Identity!None, Identity!Stamps,
     Diagnostics!Identity!Stamps, Identity!Way, Diagnostics!Identity!Way
<1>5. Identity!LookupCurrent <=> Diagnostics!Identity!LookupCurrent
    BY DEF Identity!LookupCurrent, Diagnostics!Identity!LookupCurrent, Identity!FoundSince,
     Diagnostics!Identity!FoundSince
<1> QED BY <1>1, <1>2, <1>3, <1>4, <1>5

\* Both instances of VpkPrecache.
LEMMA VpkSame ==
  /\ Vpk!Init <=> Files!Init
  /\ Vpk!Next <=> Files!Next
  /\ Vpk!vars = Files!vars
  /\ Vpk!TypeOK <=> Files!TypeOK
  /\ Vpk!WorkConserved <=> Files!WorkConserved
<1>1. Vpk!Init <=> Files!Init
  BY DEF Vpk!Init, Files!Init, Vpk!Cardinality, Files!Cardinality, Vpk!None, Files!None
<1>2. Vpk!Next <=> Files!Next
  BY DEF Vpk!Next, Files!Next, Vpk!Calls, Files!Calls, Vpk!Pumps, Files!Pumps, Vpk!Runs, Files!Runs,
     Vpk!Call, Files!Call, Vpk!Pump, Files!Pump, Vpk!NoHandler, Files!NoHandler, Vpk!Acquire,
     Files!Acquire, Vpk!Defer, Files!Defer, Vpk!Occupied, Files!Occupied, Vpk!StartRead,
     Files!StartRead, Vpk!Finish, Files!Finish, Vpk!Replay, Files!Replay, Vpk!Running,
     Files!Running, Vpk!HandOut, Files!HandOut, Vpk!At, Files!At, Vpk!Executed, Files!Executed,
     Vpk!Top, Files!Top, Vpk!None, Files!None, Vpk!Goto, Files!Goto, Vpk!Nested, Files!Nested,
     Vpk!Gives, Files!Gives, Vpk!OutstandingWhenDeferred, Files!OutstandingWhenDeferred, Vpk!Pop,
     Files!Pop, Vpk!Release, Files!Release, Vpk!Push, Files!Push, Vpk!Last, Files!Last, Vpk!Front,
     Files!Front
<1>3. Vpk!vars = Files!vars
  BY DEF Vpk!vars, Files!vars
<1>4. Vpk!TypeOK <=> Files!TypeOK
  BY DEF Vpk!TypeOK, Files!TypeOK, Vpk!Cardinality, Files!Cardinality, Vpk!None, Files!None,
     Vpk!ToSet, Files!ToSet
<1>5. Vpk!WorkConserved <=> Files!WorkConserved
  BY DEF Vpk!WorkConserved, Files!WorkConserved, Vpk!Cardinality, Files!Cardinality, Vpk!OnStack,
     Files!OnStack, Vpk!InQueue, Files!InQueue
<1> QED BY <1>1, <1>2, <1>3, <1>4, <1>5

\* Both instances of FileCache.
LEMMA CacheSame ==
  /\ Cache!Init <=> Files!Cache!Init
  /\ Cache!Next <=> Files!Cache!Next
  /\ Cache!vars = Files!Cache!vars
  /\ Cache!TypeOK <=> Files!Cache!TypeOK
  /\ Cache!SnapshotCurrent <=> Files!Cache!SnapshotCurrent
<1>1. Cache!Init <=> Files!Cache!Init
  BY DEF Cache!Init, Files!Cache!Init, Cache!Nothing, Files!Cache!Nothing, Cache!None,
     Files!Cache!None, Cache!Scanner, Files!Cache!Scanner, Cache!NoScan, Files!Cache!NoScan
<1>2. Cache!Next <=> Files!Cache!Next
  BY DEF Cache!Next, Files!Cache!Next, Cache!ScannerStep, Files!Cache!ScannerStep, Cache!GiveUp,
     Files!Cache!GiveUp, Cache!RequestManualRescan, Files!Cache!RequestManualRescan, Cache!Change,
     Files!Cache!Change, Cache!Updates, Files!Cache!Updates, Cache!EngineUpdate,
     Files!Cache!EngineUpdate, Cache!DirectUpdate, Files!Cache!DirectUpdate, Cache!PublishScans,
     Files!Cache!PublishScans, Cache!PublishRequests, Files!Cache!PublishRequests,
     Cache!ScannerSuspended, Files!Cache!ScannerSuspended, Cache!StartScan, Files!Cache!StartScan,
     Cache!EndScan, Files!Cache!EndScan, Cache!ScannerWatches, Files!Cache!ScannerWatches,
     Cache!Rescan, Files!Cache!Rescan, Cache!At, Files!Cache!At, Cache!Scanner, Files!Cache!Scanner,
     Cache!IsSuspended, Files!Cache!IsSuspended, Cache!None, Files!Cache!None, Cache!Goto,
     Files!Cache!Goto, Cache!WakeAll, Files!Cache!WakeAll, Cache!rescanState,
     Files!Cache!rescanState, Cache!ends, Files!Cache!ends, Cache!cacheVars, Files!Cache!cacheVars,
     Cache!AwaitInitial, Files!Cache!AwaitInitial, Cache!Begin, Files!Cache!Begin,
     Cache!PublishCommits, Files!Cache!PublishCommits, Cache!EndNested, Files!Cache!EndNested,
     Cache!EndOutermost, Files!Cache!EndOutermost, Cache!AwaitPublication,
     Files!Cache!AwaitPublication, Cache!EndReturns, Files!Cache!EndReturns, Cache!Sleeps,
     Files!Cache!Sleeps, Cache!Default, Files!Cache!Default, Cache!CanPublish,
     Files!Cache!CanPublish, Cache!CommitSnapshot, Files!Cache!CommitSnapshot, Cache!NoScan,
     Files!Cache!NoScan, Cache!Unlock, Files!Cache!Unlock, Cache!Reached, Files!Cache!Reached
<1>3. Cache!vars = Files!Cache!vars
  BY DEF Cache!vars, Files!Cache!vars, Cache!cacheVars, Files!Cache!cacheVars, Cache!rescanState,
     Files!Cache!rescanState, Cache!ends, Files!Cache!ends
<1>4. Cache!TypeOK <=> Files!Cache!TypeOK
  BY DEF Cache!TypeOK, Files!Cache!TypeOK, Cache!None, Files!Cache!None, Cache!Default,
     Files!Cache!Default, Cache!Scanner, Files!Cache!Scanner
<1>5. Cache!SnapshotCurrent <=> Files!Cache!SnapshotCurrent
  BY DEF Cache!SnapshotCurrent, Files!Cache!SnapshotCurrent, Cache!CanPublish,
     Files!Cache!CanPublish, Cache!None, Files!Cache!None, Cache!Default, Files!Cache!Default,
     Cache!IsSuspended, Files!Cache!IsSuspended
<1> QED BY <1>1, <1>2, <1>3, <1>4, <1>5

\* Both instances of Reassembler.
LEMMA FramesSame ==
  /\ Frames!Init <=> Transfers!Init
  /\ Frames!Next <=> Transfers!Next
  /\ Frames!vars = Transfers!vars
  /\ Frames!TypeOK <=> Transfers!TypeOK
  /\ Frames!DeliveredIsSent <=> Transfers!DeliveredIsSent
<1>1. Frames!Init <=> Transfers!Init
  BY DEF Frames!Init, Transfers!Init
<1>2. Frames!Next <=> Transfers!Next
  BY DEF Frames!Next, Transfers!Next, Frames!Send, Transfers!Send, Frames!PushWhole,
     Transfers!PushWhole, Frames!Fragment, Transfers!Fragment, Frames!PushWaits,
     Transfers!PushWaits, Frames!PushCompletes, Transfers!PushCompletes, Frames!Expire,
     Transfers!Expire, Frames!Tick, Transfers!Tick, Frames!Arrives, Transfers!Arrives,
     Frames!Waiting, Transfers!Waiting, Frames!Id, Transfers!Id, Frames!Cardinality,
     Transfers!Cardinality, Frames!Without, Transfers!Without, Frames!Restrict, Transfers!Restrict,
     Frames!Kept, Transfers!Kept, Frames!With, Transfers!With, Frames!Live, Transfers!Live,
     Frames!Min, Transfers!Min
<1>3. Frames!vars = Transfers!vars
  BY DEF Frames!vars, Transfers!vars
<1>4. Frames!TypeOK <=> Transfers!TypeOK
  BY DEF Frames!TypeOK, Transfers!TypeOK, Frames!Cardinality, Transfers!Cardinality
<1>5. Frames!DeliveredIsSent <=> Transfers!DeliveredIsSent
  BY DEF Frames!DeliveredIsSent, Transfers!DeliveredIsSent, Frames!Fragment, Transfers!Fragment
<1> QED BY <1>1, <1>2, <1>3, <1>4, <1>5

\* Both instances of ScriptErrorTelemetry.
LEMMA ErrorsSame ==
  /\ Errors!Init <=> Diagnostics!Init
  /\ Errors!Next <=> Diagnostics!Next
  /\ Errors!vars = Diagnostics!vars
  /\ Errors!TypeOK <=> Diagnostics!TypeOK
  /\ Errors!ReportsTrue <=> Diagnostics!ReportsTrue
<1>1. Errors!Init <=> Diagnostics!Init
  BY DEF Errors!Init, Diagnostics!Init, Errors!NoLine, Diagnostics!NoLine, Errors!NoReport,
     Diagnostics!NoReport, Errors!NotStarted, Diagnostics!NotStarted
<1>2. Errors!Next <=> Diagnostics!Next
  BY DEF Errors!Next, Diagnostics!Next, Errors!BeginErrorBlock, Diagnostics!BeginErrorBlock,
     Errors!EndErrorBlock, Diagnostics!EndErrorBlock, Errors!Enqueue, Diagnostics!Enqueue,
     Errors!Line, Diagnostics!Line, Errors!CaptureLine, Diagnostics!CaptureLine,
     Errors!CaptureHeading, Diagnostics!CaptureHeading, Errors!Begin, Diagnostics!Begin,
     Errors!CapturePartial, Diagnostics!CapturePartial, Errors!WorkerTakes, Diagnostics!WorkerTakes,
     Errors!WorkerGivesUp, Diagnostics!WorkerGivesUp, Errors!WorkerNotifies,
     Diagnostics!WorkerNotifies, Errors!Calls, Diagnostics!Calls, Errors!NoLine, Diagnostics!NoLine,
     Errors!NoReport, Diagnostics!NoReport, Errors!FinishReport, Diagnostics!FinishReport,
     Errors!NotStarted, Diagnostics!NotStarted, Errors!Waits, Diagnostics!Waits, Errors!IsError,
     Diagnostics!IsError, Errors!Captured, Diagnostics!Captured, Errors!ProcessLine,
     Diagnostics!ProcessLine, Errors!Reads, Diagnostics!Reads, Errors!Works, Diagnostics!Works,
     Errors!BeginReport, Diagnostics!BeginReport
<1>3. Errors!vars = Diagnostics!vars
  BY DEF Errors!vars, Diagnostics!vars
<1>4. Errors!TypeOK <=> Diagnostics!TypeOK
  BY DEF Errors!TypeOK, Diagnostics!TypeOK, Errors!Begin, Diagnostics!Begin, Errors!NoLine,
     Diagnostics!NoLine, Errors!NotStarted, Diagnostics!NotStarted, Errors!Waits, Diagnostics!Waits
<1>5. Errors!ReportsTrue <=> Diagnostics!ReportsTrue
  BY DEF Errors!ReportsTrue, Diagnostics!ReportsTrue, Errors!ResultOfLatest,
     Diagnostics!ResultOfLatest, Errors!ReportedOnce, Diagnostics!ReportedOnce, Errors!Cardinality,
     Diagnostics!Cardinality
<1> QED BY <1>1, <1>2, <1>3, <1>4, <1>5

-----------------------------------------------------------------------------
(* The behaviours *)

\* A behaviour of the "sync" part is one of PersistentSync, and stays one.
LEMMA SyncRuns ==
  Spec => (IsSync /\ Transfers!Sync!Spec /\ []IsSync) \/ []~ IsSync
<1>1. IsSync /\ Init => Transfers!Sync!Init
  BY SyncSame DEF Init, IsSync
<1>2. IsSync /\ [Next]_vars => [Transfers!Sync!Next]_(Transfers!Sync!vars)
  <2>1. SyncNext => Sync!Next
    BY DEF SyncNext, Sync!Next
  <2>2. IsSync /\ Next => SyncNext
    BY Sides DEF Next, IsSync
  <2>3. UNCHANGED vars => UNCHANGED Transfers!Sync!vars
    BY DEF vars, Transfers!Sync!vars
  <2> QED BY <2>1, <2>2, <2>3, SyncSame
<1>3. [Next]_vars => (IsSync' <=> IsSync)
  BY PartStays DEF IsSync
<1> QED BY <1>1, <1>2, <1>3, PTL DEF Spec, Transfers!Sync!Spec

\* A behaviour of the "store" part is one of ClientStore, and stays one.
LEMMA StoreRuns ==
  Spec => (IsStore /\ Files!Store!Spec /\ []IsStore) \/ []~ IsStore
<1>1. IsStore /\ Init => Files!Store!Init
  BY StoreSame DEF Init, IsStore
<1>2. IsStore /\ [Next]_vars => [Files!Store!Next]_(Files!Store!vars)
  <2>1. StoreNext => Store!Next
    BY DEF StoreNext, Store!Next, Store!Save
  <2>2. IsStore /\ Next => StoreNext
    BY Sides DEF Next, IsStore
  <2>3. UNCHANGED vars => UNCHANGED Files!Store!vars
    BY DEF vars, Files!Store!vars, Files!Store!disk, Files!Store!process, Files!Store!history,
       Files!Store!counters
  <2> QED BY <2>1, <2>2, <2>3, StoreSame
<1>3. [Next]_vars => (IsStore' <=> IsStore)
  BY PartStays DEF IsStore
<1> QED BY <1>1, <1>2, <1>3, PTL DEF Spec, Files!Store!Spec

\* A behaviour of the "ring" part is one of FlightRing, and stays one.
LEMMA RingRuns ==
  Spec => (IsRing /\ Diagnostics!Ring!Spec /\ []IsRing) \/ []~ IsRing
<1>1. IsRing /\ Init => Diagnostics!Ring!Init
  BY RingSame DEF Init, IsRing
<1>2. IsRing /\ [Next]_vars => [Diagnostics!Ring!Next]_(Diagnostics!Ring!vars)
  <2>1. RingNext => Ring!Next
    BY DEF RingNext, Ring!Next, Ring!Writer, Ring!Freeze, Ring!Reader
  <2>2. IsRing /\ Next => RingNext
    BY Sides DEF Next, IsRing
  <2>3. UNCHANGED vars => UNCHANGED Diagnostics!Ring!vars
    BY DEF vars, Diagnostics!Ring!vars, Diagnostics!Ring!numbers, Diagnostics!Ring!slots,
       Diagnostics!Ring!threads, Diagnostics!Ring!freezing
  <2> QED BY <2>1, <2>2, <2>3, RingSame
<1>3. [Next]_vars => (IsRing' <=> IsRing)
  BY PartStays DEF IsRing
<1> QED BY <1>1, <1>2, <1>3, PTL DEF Spec, Diagnostics!Ring!Spec

\* A behaviour of the "identity" part is one of FlightIdentity, and stays one.
LEMMA IdentityRuns ==
  Spec => (IsIdentity /\ Diagnostics!Identity!Spec /\ []IsIdentity) \/ []~ IsIdentity
<1>1. IsIdentity /\ Init => Diagnostics!Identity!Init
  BY IdentitySame DEF Init, IsIdentity
<1>2. IsIdentity /\ [Next]_vars => [Diagnostics!Identity!Next]_(Diagnostics!Identity!vars)
  <2>1. IdentityNext => Identity!Next
    BY DEF IdentityNext, Identity!Next, Identity!Writer, Identity!Reader
  <2>2. IsIdentity /\ Next => IdentityNext
    BY Sides DEF Next, IsIdentity
  <2>3. UNCHANGED vars => UNCHANGED Diagnostics!Identity!vars
    BY DEF vars, Diagnostics!Identity!vars, Diagnostics!Identity!numbers,
       Diagnostics!Identity!bucket, Diagnostics!Identity!slot, Diagnostics!Identity!threads,
       Diagnostics!Identity!history
  <2> QED BY <2>1, <2>2, <2>3, IdentitySame
<1>3. [Next]_vars => (IsIdentity' <=> IsIdentity)
  BY PartStays DEF IsIdentity
<1> QED BY <1>1, <1>2, <1>3, PTL DEF Spec, Diagnostics!Identity!Spec

\* A behaviour of the "vpk" part is one of VpkPrecache, and stays one.
LEMMA VpkRuns ==
  Spec => (IsVpk /\ Files!Spec /\ []IsVpk) \/ []~ IsVpk
<1>1. IsVpk /\ Init => Files!Init
  BY VpkSame DEF Init, IsVpk
<1>2. IsVpk /\ [Next]_vars => [Files!Next]_(Files!vars)
  <2>1. VpkNext => Vpk!Next
    BY DEF VpkNext, Vpk!Next, Vpk!Runs
  <2>2. IsVpk /\ Next => VpkNext
    BY Sides DEF Next, IsVpk
  <2>3. UNCHANGED vars => UNCHANGED Files!vars
    BY DEF vars, Files!vars
  <2> QED BY <2>1, <2>2, <2>3, VpkSame
<1>3. [Next]_vars => (IsVpk' <=> IsVpk)
  BY PartStays DEF IsVpk
<1> QED BY <1>1, <1>2, <1>3, PTL DEF Spec, Files!Spec

\* A behaviour of the "cache" part is one of FileCache, and stays one.
LEMMA CacheRuns ==
  Spec => (IsCache /\ Files!Cache!Spec /\ []IsCache) \/ []~ IsCache
<1>1. IsCache /\ Init => Files!Cache!Init
  BY CacheSame DEF Init, IsCache
<1>2. IsCache /\ [Next]_vars => [Files!Cache!Next]_(Files!Cache!vars)
  <2>1. CacheNext => Cache!Next
    BY DEF CacheNext, Cache!Next, Cache!ScannerStep, Cache!Updates
  <2>2. IsCache /\ Next => CacheNext
    BY Sides DEF Next, IsCache
  <2>3. UNCHANGED vars => UNCHANGED Files!Cache!vars
    BY DEF vars, Files!Cache!vars, Files!Cache!cacheVars, Files!Cache!rescanState, Files!Cache!ends
  <2> QED BY <2>1, <2>2, <2>3, CacheSame
<1>3. [Next]_vars => (IsCache' <=> IsCache)
  BY PartStays DEF IsCache
<1> QED BY <1>1, <1>2, <1>3, PTL DEF Spec, Files!Cache!Spec

\* A behaviour of the "frames" part is one of Reassembler, and stays one.
LEMMA FramesRuns ==
  Spec => (IsFrames /\ Transfers!Spec /\ []IsFrames) \/ []~ IsFrames
<1>1. IsFrames /\ Init => Transfers!Init
  BY FramesSame DEF Init, IsFrames
<1>2. IsFrames /\ [Next]_vars => [Transfers!Next]_(Transfers!vars)
  <2>1. FramesNext => Frames!Next
    BY DEF FramesNext, Frames!Next
  <2>2. IsFrames /\ Next => FramesNext
    BY Sides DEF Next, IsFrames
  <2>3. UNCHANGED vars => UNCHANGED Transfers!vars
    BY DEF vars, Transfers!vars
  <2> QED BY <2>1, <2>2, <2>3, FramesSame
<1>3. [Next]_vars => (IsFrames' <=> IsFrames)
  BY PartStays DEF IsFrames
<1> QED BY <1>1, <1>2, <1>3, PTL DEF Spec, Transfers!Spec

\* A behaviour of the "errors" part is one of ScriptErrorTelemetry, and stays one.
LEMMA ErrorsRuns ==
  Spec => (IsErrors /\ Diagnostics!Spec /\ []IsErrors) \/ []~ IsErrors
<1>1. IsErrors /\ Init => Diagnostics!Init
  BY ErrorsSame DEF Init, IsErrors
<1>2. IsErrors /\ [Next]_vars => [Diagnostics!Next]_(Diagnostics!vars)
  <2>1. ErrorsNext => Errors!Next
    BY DEF ErrorsNext, Errors!Next
  <2>2. IsErrors /\ Next => ErrorsNext
    BY Sides DEF Next, IsErrors
  <2>3. UNCHANGED vars => UNCHANGED Diagnostics!vars
    BY DEF vars, Diagnostics!vars
  <2> QED BY <2>1, <2>2, <2>3, ErrorsSame
<1>3. [Next]_vars => (IsErrors' <=> IsErrors)
  BY PartStays DEF IsErrors
<1> QED BY <1>1, <1>2, <1>3, PTL DEF Spec, Diagnostics!Spec

-----------------------------------------------------------------------------
(* Theorems *)

\* On every connection BeginSession can tell from the one before (its netchannel is
\* elsewhere, or both userids are known), nothing the client is sent or made to answer
\* for was written for another one.
THEOREM PlayersDoNotLeak == Spec => []NoLeak
<1>1. Transfers!SyncBounds
  BY SyncAssumption DEF Transfers!SyncBounds, Transfers!Sync!AllKinds
<1>2. Transfers!Sync!Spec => []Transfers!Sync!NoLeak
  BY <1>1, Transfers!WritesDoNotLeak
<1>3. (IsSync => Transfers!Sync!NoLeak) => NoLeak
  BY SyncSame DEF NoLeak, IsSync
<1> QED BY <1>2, <1>3, SyncRuns, PTL

\* On every such connection a counter neither falls for the player nor for the server
\* (ApplyClientUpdate, CollectResends).
THEOREM CountersKept == Spec => NoRollback
<1>1. Transfers!SyncBounds
  BY SyncAssumption DEF Transfers!SyncBounds, Transfers!Sync!AllKinds
<1>2. Transfers!Sync!Spec => [][Transfers!Sync!KeepsCounter]_(Transfers!Sync!vars)
  BY <1>1, Transfers!CountersDoNotFall DEF Transfers!Sync!NoRollback
<1>3. IsSync /\ [Next]_vars /\ [Transfers!Sync!KeepsCounter]_(Transfers!Sync!vars) => [part = "sync" => Sync!KeepsCounter]_vars
  <2>1. IsSync /\ Next => SyncNext
    BY Sides DEF Next, IsSync
  <2>2. SyncNext /\ UNCHANGED Transfers!Sync!vars => UNCHANGED vars
    BY Sides DEF vars, Transfers!Sync!vars
  <2> QED BY <2>1, <2>2, SyncSame
<1>4. ~ IsSync => [part = "sync" => Sync!KeepsCounter]_vars
  BY DEF IsSync
<1> QED BY <1>2, <1>3, <1>4, SyncRuns, PTL DEF Spec, NoRollback

\* A running game that has nothing to save has an intact file with all it knows
\* (SaveStoreNow).
THEOREM CleanIsOnDisk == Spec => []CleanIsSaved
<1>1. Files!StoreBounds
  BY StoreAssumption DEF Files!StoreBounds
<1>2. Files!Store!Spec => []Files!Store!CleanIsSaved
  BY <1>1, Files!CleanFileIsWhole
<1>3. (IsStore => Files!Store!CleanIsSaved) => CleanIsSaved
  BY StoreSame DEF CleanIsSaved, IsStore
<1> QED BY <1>2, <1>3, StoreRuns, PTL

\* A start finds at least what was last reported as saved; when the disk damaged one file
\* since, at least the generation before, unless a save that had moved the old file away
\* and failed is being repeated, which empties the complete temporary file (LoadStoreFile).
THEOREM SavedIsFound == Spec => SavedSurvives
<1>1. Files!StoreBounds
  BY StoreAssumption DEF Files!StoreBounds
<1>2. Files!Store!Spec => [][Files!Store!FindsSaved]_(Files!Store!vars)
  BY <1>1, Files!SavesSurvive DEF Files!Store!SavedSurvives
<1>3. IsStore /\ [Next]_vars /\ [Files!Store!FindsSaved]_(Files!Store!vars) => [part = "store" => Store!FindsSaved]_vars
  <2>1. IsStore /\ Next => StoreNext
    BY Sides DEF Next, IsStore
  <2>2. StoreNext /\ UNCHANGED Files!Store!vars => UNCHANGED vars
    BY Sides DEF vars, Files!Store!vars, Files!Store!disk, Files!Store!process, Files!Store!history,
       Files!Store!counters
  <2> QED BY <2>1, <2>2, StoreSame
<1>4. ~ IsStore => [part = "store" => Store!FindsSaved]_vars
  BY DEF IsStore
<1> QED BY <1>2, <1>3, <1>4, StoreRuns, PTL DEF Spec, SavedSurvives

\* A slot that may be read, and what a reader validated, hold one event
\* (ClaimSlot, PublishSlot, ReadSlot).
THEOREM RecordsAreWhole == Spec => []NoMixedRecord
<1>1. Diagnostics!RingBounds
  BY FlightAssumption DEF Diagnostics!RingBounds
<1>2. Diagnostics!Ring!Spec => []Diagnostics!Ring!NoMixedRecord
  BY <1>1, Diagnostics!RecordsNotMixed
<1>3. (IsRing => Diagnostics!Ring!NoMixedRecord) => NoMixedRecord
  BY RingSame DEF NoMixedRecord, IsRing
<1> QED BY <1>2, <1>3, RingRuns, PTL

\* A sealed slot does not change (Freeze).
THEOREM SealedStays == Spec => SealHolds
<1>1. Diagnostics!RingBounds
  BY FlightAssumption DEF Diagnostics!RingBounds
<1>2. Diagnostics!Ring!Spec => [][Diagnostics!Ring!KeepsSealed]_(Diagnostics!Ring!vars)
  BY <1>1, Diagnostics!SealsHold DEF Diagnostics!Ring!SealHolds
<1>3. IsRing /\ [Next]_vars /\ [Diagnostics!Ring!KeepsSealed]_(Diagnostics!Ring!vars) => [part = "ring" => Ring!KeepsSealed]_vars
  <2>1. IsRing /\ Next => RingNext
    BY Sides DEF Next, IsRing
  <2>2. RingNext /\ UNCHANGED Diagnostics!Ring!vars => UNCHANGED vars
    BY Sides DEF vars, Diagnostics!Ring!vars, Diagnostics!Ring!numbers, Diagnostics!Ring!slots,
       Diagnostics!Ring!threads, Diagnostics!Ring!freezing
  <2> QED BY <2>1, <2>2, RingSame
<1>4. ~ IsRing => [part = "ring" => Ring!KeepsSealed]_vars
  BY DEF IsRing
<1> QED BY <1>2, <1>3, <1>4, RingRuns, PTL DEF Spec, SealHolds

\* A lookup that succeeds finds a generation of its address that is no older than the last
\* one created before it began, creations that a freeze overtook excepted
\* (UpdateResource, ResourceGeneration).
THEOREM IdentitiesCurrent == Spec => []LookupCurrent
<1>1. Diagnostics!IdentityBounds
  BY FlightAssumption DEF Diagnostics!IdentityBounds, Diagnostics!Identity!None, Diagnostics!IsFiniteSet, IsFiniteSet
<1>2. Diagnostics!Identity!Spec => []Diagnostics!Identity!LookupCurrent
  BY <1>1, Diagnostics!LookupsCurrent
<1>3. (IsIdentity => Diagnostics!Identity!LookupCurrent) => LookupCurrent
  BY IdentitySame DEF LookupCurrent, IsIdentity
<1> QED BY <1>2, <1>3, IdentityRuns, PTL

\* An item is in one place, is executed once and counts until then
\* (R1ClientVPKAsyncPrecacheWorker).
THEOREM WorkNotLost == Spec => []WorkConserved
<1>1. Files!WorkBounds
  BY FilesAssumption DEF Files!WorkBounds, Files!IsFiniteSet, IsFiniteSet
<1>2. Files!Spec => []Files!WorkConserved
  BY <1>1, Files!WorkIsConserved
<1>3. (IsVpk => Files!WorkConserved) => WorkConserved
  BY VpkSame DEF WorkConserved, IsVpk
<1> QED BY <1>2, <1>3, VpkRuns, PTL

\* After an update of the search paths the snapshot is not older than its end, and is of
\* the current root (EndAddonSearchPathUpdate).
THEOREM SnapshotsCurrent == Spec => []SnapshotCurrent
<1>1. Files!CacheBounds
  BY FilesAssumption, FlightAssumption DEF Files!CacheBounds, Files!Cache!Scanner
<1>2. Files!Cache!Spec => []Files!Cache!SnapshotCurrent
  BY <1>1, Files!BarrierHolds
<1>3. (IsCache => Files!Cache!SnapshotCurrent) => SnapshotCurrent
  BY CacheSame DEF SnapshotCurrent, IsCache
<1> QED BY <1>2, <1>3, CacheRuns, PTL

\* What Push gives is one datagram that was sent (Reassembler::Push).
THEOREM DatagramsWhole == Spec => []DeliveredIsSent
<1>1. Transfers!FramesBounds
  BY QueuesAssumption DEF Transfers!FramesBounds
<1>2. Transfers!Spec => []Transfers!DeliveredIsSent
  BY <1>1, Transfers!FragmentsMatch
<1>3. (IsFrames => Transfers!DeliveredIsSent) => DeliveredIsSent
  BY FramesSame DEF DeliveredIsSent, IsFrames
<1> QED BY <1>2, <1>3, FramesRuns, PTL

\* An error is reported once, and a context shows the result of its latest report
\* (Capture, Enqueue, WorkerLoop).
THEOREM ErrorsReportedOnce == Spec => []ReportsTrue
<1>1. Diagnostics!ErrorsBounds
  BY QueuesAssumption DEF Diagnostics!ErrorsBounds
<1>2. Diagnostics!Spec => []Diagnostics!ReportsTrue
  BY <1>1, Diagnostics!ReportsAreTrue
<1>3. (IsErrors => Diagnostics!ReportsTrue) => ReportsTrue
  BY ErrorsSame DEF ReportsTrue, IsErrors
<1> QED BY <1>2, <1>3, ErrorsRuns, PTL

\* Every variable of every part keeps its type and its bounds.
THEOREM TypesKept == Spec => []TypeOK
<1>1. Spec => [](IsSync => Transfers!Sync!TypeOK)
  <2>1. Transfers!SyncBounds
    BY SyncAssumption DEF Transfers!SyncBounds, Transfers!Sync!AllKinds
  <2>2. Transfers!Sync!Spec => []Transfers!Sync!TypeOK
    BY <2>1, Transfers!SyncTypes
  <2> QED BY <2>2, SyncRuns, PTL
<1>2. Spec => [](IsStore => Files!Store!TypeOK)
  <2>1. Files!StoreBounds
    BY StoreAssumption DEF Files!StoreBounds
  <2>2. Files!Store!Spec => []Files!Store!TypeOK
    BY <2>1, Files!StoreTypes
  <2> QED BY <2>2, StoreRuns, PTL
<1>3. Spec => [](IsRing => Diagnostics!Ring!TypeOK)
  <2>1. Diagnostics!RingBounds
    BY FlightAssumption DEF Diagnostics!RingBounds
  <2>2. Diagnostics!IsFiniteSet(Thread)
    BY FlightAssumption DEF Diagnostics!IsFiniteSet, IsFiniteSet
  <2>3. Diagnostics!Ring!Spec => []Diagnostics!Ring!TypeOK
    BY <2>1, <2>2, Diagnostics!RingTypes
  <2> QED BY <2>3, RingRuns, PTL
<1>4. Spec => [](IsIdentity => Diagnostics!Identity!TypeOK)
  <2>1. Diagnostics!IdentityBounds
    BY FlightAssumption DEF Diagnostics!IdentityBounds, Diagnostics!Identity!None, Diagnostics!IsFiniteSet, IsFiniteSet
  <2>2. Diagnostics!Identity!Spec => []Diagnostics!Identity!TypeOK
    BY <2>1, Diagnostics!IdentityTypes
  <2> QED BY <2>2, IdentityRuns, PTL
<1>5. Spec => [](IsVpk => Files!TypeOK)
  <2>1. Files!WorkBounds
    BY FilesAssumption DEF Files!WorkBounds, Files!IsFiniteSet, IsFiniteSet
  <2>2. Files!Spec => []Files!TypeOK
    BY <2>1, Files!WorkTypes
  <2> QED BY <2>2, VpkRuns, PTL
<1>6. Spec => [](IsCache => Files!Cache!TypeOK)
  <2>1. Files!CacheBounds
    BY FilesAssumption, FlightAssumption DEF Files!CacheBounds, Files!Cache!Scanner
  <2>2. Files!Cache!Spec => []Files!Cache!TypeOK
    BY <2>1, Files!CacheTypes
  <2> QED BY <2>2, CacheRuns, PTL
<1>7. Spec => [](IsFrames => Transfers!TypeOK)
  <2>1. Transfers!FramesBounds
    BY QueuesAssumption DEF Transfers!FramesBounds
  <2>2. Transfers!Spec => []Transfers!TypeOK
    BY <2>1, Transfers!FramesTypes
  <2> QED BY <2>2, FramesRuns, PTL
<1>8. Spec => [](IsErrors => Diagnostics!TypeOK)
  <2>1. Diagnostics!ErrorsBounds
    BY QueuesAssumption DEF Diagnostics!ErrorsBounds
  <2>2. Diagnostics!Spec => []Diagnostics!TypeOK
    BY <2>1, Diagnostics!ErrorsTypes
  <2> QED BY <2>2, ErrorsRuns, PTL
<1> DEFINE All ==
         /\ IsSync => Transfers!Sync!TypeOK
         /\ IsStore => Files!Store!TypeOK
         /\ IsRing => Diagnostics!Ring!TypeOK
         /\ IsIdentity => Diagnostics!Identity!TypeOK
         /\ IsVpk => Files!TypeOK
         /\ IsCache => Files!Cache!TypeOK
         /\ IsFrames => Transfers!TypeOK
         /\ IsErrors => Diagnostics!TypeOK
<1>9. All => TypeOK
  BY SyncSame, StoreSame, RingSame, IdentitySame, VpkSame, CacheSame, FramesSame, ErrorsSame
     DEF TypeOK, IsSync, IsStore, IsRing, IsIdentity, IsVpk, IsCache, IsFrames, IsErrors
<1> QED BY <1>1, <1>2, <1>3, <1>4, <1>5, <1>6, <1>7, <1>8, <1>9, PTL
=============================================================================
