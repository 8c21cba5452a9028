----------------------------- MODULE FileCache -----------------------------
(***************************************************************************)
(* The snapshot of replaceable files (engine/filesystem/filecache.cpp, the *)
(* RescanState of addonlist_state.cpp and the callers in filesystem.cpp).  *)
(* A scanner thread rebuilds the snapshot when its generation is out of    *)
(* date.  Threads that change the search paths suspend it meanwhile, may   *)
(* publish a snapshot of their own, and in the end wait for the scanner.   *)
(*                                                                         *)
(* A snapshot is the root it was made for and how many changes of the disk *)
(* had been made when its scan began: the scan may or may not see later    *)
(* ones.  Waiting is explicit: a thread that finds its condition false     *)
(* sleeps until somebody wakes all.                                        *)
(***************************************************************************)
EXTENDS Naturals

CONSTANTS
  Thread,     \* threads that change search paths
  Root,       \* addon roots
  MaxChanges, \* bound: changes of the disk
  MaxUpdates, \* bound: begun updates and requests
  MaxDepth    \* bound: nested updates of one thread

None == "none"
Scanner == "scanner"
Default == "r1/addons"  \* the scanner's root until it is told one
Nothing == [root |-> None, disk |-> 0]

VARIABLES
  initialized, unavailable,  \* scanUnavailable
  generation, updateDepth,   \* rescanState
  published,                 \* publishedGeneration
  snapshot, addonRoot,
  disk,                      \* changes made to the disk
  mutex,                     \* addonSearchUpdateMutex
  pc,                        \* of threads and scanner
  nest,                      \* per thread: updates it has begun and not ended
  scan,                      \* of threads and scanner: the scan under way
  target,                    \* per thread: targetGeneration
  since,                     \* history, per thread: the disk when its update ended
  asleep,                    \* threads that sleep on cacheCondition
  updates                    \* bound counter

rescanState == <<generation, updateDepth>>
cacheVars == <<initialized, unavailable, published, snapshot>>
ends == <<target, since>>
vars == <<cacheVars, rescanState, addonRoot, disk, mutex, pc, nest, scan, ends, asleep, updates>>

NoScan == [root |-> None, disk |-> 0, generation |-> 0, back |-> "idle"]

Init ==
  /\ unavailable \in BOOLEAN  \* without the executable's directory
  /\ initialized = unavailable
  /\ generation = 0 /\ updateDepth = 0 /\ published = 0
  /\ snapshot = Nothing /\ addonRoot = None
  /\ disk = 0 /\ mutex = None
  /\ pc = [t \in Thread \cup {Scanner} |->
             IF t # Scanner THEN "idle" ELSE IF unavailable THEN "gone" ELSE "start"]
  /\ nest = [t \in Thread |-> 0]
  /\ scan = [t \in Thread \cup {Scanner} |-> NoScan]
  /\ target = [t \in Thread |-> 0] /\ since = [t \in Thread |-> 0]
  /\ asleep = {} /\ updates = 0

IsSuspended == updateDepth # 0

\* Mutant: any scan may be published.
CanPublish_Any(g) == ~ IsSuspended

CanPublish(g) == ~ IsSuspended /\ g = generation

At(t, label) == pc[t] = label /\ t \notin asleep
Goto(t, label) == pc' = [pc EXCEPT ![t] = label]

WakeAll == asleep' = {}

\* A wait loop: its thread sleeps while the condition is false.
Sleeps(t, label, condition) ==
  /\ At(t, label)
  /\ ~ condition
  /\ asleep' = asleep \cup {t}
  /\ UNCHANGED <<cacheVars, rescanState, addonRoot, disk, mutex, pc, nest, scan, ends, updates>>

\* Mutant: nobody is told.
CommitSnapshot_Silent(t) ==
  /\ snapshot' = [root |-> scan[t].root, disk |-> scan[t].disk]
  /\ published' = scan[t].generation
  /\ initialized' = TRUE
  /\ UNCHANGED asleep

\* CommitSnapshot and the wake-up that follows it.
CommitSnapshot(t) ==
  /\ snapshot' = [root |-> scan[t].root, disk |-> scan[t].disk]
  /\ published' = scan[t].generation
  /\ initialized' = TRUE
  /\ WakeAll

-----------------------------------------------------------------------------
(* The scanner: UpdateCache *)

ScannerSuspended == Sleeps(Scanner, "start", ~ IsSuspended)

StartScan ==
  /\ At(Scanner, "start")
  /\ ~ IsSuspended
  /\ scan' = [scan EXCEPT ![Scanner] =
                [root |-> IF addonRoot = None THEN Default ELSE addonRoot, disk |-> disk,
                 generation |-> generation, back |-> "start"]]
  /\ Goto(Scanner, "scan")
  /\ UNCHANGED <<cacheVars, rescanState, addonRoot, disk, mutex, nest, ends, asleep, updates>>

\* The default root cannot be resolved.
GiveUp ==
  /\ At(Scanner, "start")
  /\ ~ IsSuspended
  /\ addonRoot = None
  /\ unavailable' = TRUE /\ initialized' = TRUE
  /\ Goto(Scanner, "gone")
  /\ WakeAll
  /\ UNCHANGED <<published, snapshot, rescanState, addonRoot, disk, mutex, nest, scan, ends, updates>>

EndScan ==
  /\ At(Scanner, "scan")
  /\ IF CanPublish(scan[Scanner].generation)
     THEN CommitSnapshot(Scanner) /\ Goto(Scanner, "watch")
     ELSE Goto(Scanner, "start") /\ UNCHANGED <<initialized, published, snapshot, asleep>>
  /\ scan' = [scan EXCEPT ![Scanner] = [NoScan EXCEPT !.generation = scan[Scanner].generation]]
  /\ UNCHANGED <<unavailable, rescanState, addonRoot, disk, mutex, nest, ends, updates>>

ScannerWatches == Sleeps(Scanner, "watch", ~ CanPublish(scan[Scanner].generation))

Rescan ==
  /\ At(Scanner, "watch")
  /\ ~ CanPublish(scan[Scanner].generation)
  /\ scan' = [scan EXCEPT ![Scanner] = NoScan]
  /\ Goto(Scanner, "start")
  /\ UNCHANGED <<cacheVars, rescanState, addonRoot, disk, mutex, nest, ends, asleep, updates>>

ScannerStep == ScannerSuspended \/ StartScan \/ EndScan \/ ScannerWatches \/ Rescan

-----------------------------------------------------------------------------
(* Threads that change the search paths *)

\* BeginAddonSearchCacheUpdate: the engine's updates exclude each other ...
EngineUpdate(t) ==
  /\ At(t, "idle")
  /\ updates < MaxUpdates
  /\ mutex = None
  /\ mutex' = t
  /\ Goto(t, "begin")
  /\ UNCHANGED <<cacheVars, rescanState, addonRoot, disk, nest, scan, ends, asleep, updates>>

\* ... those of the audio cache and of the server's autorun do not.
DirectUpdate(t) ==
  /\ At(t, "idle")
  /\ updates < MaxUpdates
  /\ Goto(t, "begin")
  /\ UNCHANGED <<cacheVars, rescanState, addonRoot, disk, mutex, nest, scan, ends, asleep, updates>>

\* BeginAddonSearchPathUpdate: WaitForInitialPublication ...
AwaitInitial(t) == Sleeps(t, "begin", initialized)

\* ... and BeginSearchPathUpdate, also from within an update.
Begin(t) ==
  /\ At(t, "begin") \/ (At(t, "updating") /\ nest[t] < MaxDepth)
  /\ initialized
  /\ updates < MaxUpdates
  /\ updates' = updates + 1
  /\ updateDepth' = updateDepth + 1
  /\ generation' = generation + 1
  /\ nest' = [nest EXCEPT ![t] = @ + 1]
  /\ Goto(t, "updating")
  /\ WakeAll
  /\ UNCHANGED <<cacheVars, addonRoot, disk, mutex, scan, ends>>

\* PublishAddonSearchPathSnapshot: within an update a scan begins, ...
PublishScans(t, root) ==
  /\ At(t, "updating") \/ At(t, "idle")
  /\ IsSuspended
  /\ addonRoot' = root
  /\ scan' = [scan EXCEPT ![t] = [root |-> root, disk |-> disk, generation |-> generation,
                                  back |-> pc[t]]]
  /\ Goto(t, "scan")
  /\ UNCHANGED <<cacheVars, rescanState, disk, mutex, nest, ends, asleep, updates>>

\* ... outside the scanner is told.
PublishRequests(t, root) ==
  /\ At(t, "idle")
  /\ ~ IsSuspended
  /\ updates < MaxUpdates
  /\ updates' = updates + 1
  /\ addonRoot' = root
  /\ generation' = generation + 1
  /\ WakeAll
  /\ UNCHANGED <<cacheVars, updateDepth, disk, mutex, pc, nest, scan, ends>>

RequestManualRescan ==
  /\ updates < MaxUpdates
  /\ updates' = updates + 1
  /\ generation' = generation + 1
  /\ WakeAll
  /\ UNCHANGED <<cacheVars, updateDepth, addonRoot, disk, mutex, pc, nest, scan, ends>>

\* The scan counts if the update it was made in is still under way.
PublishCommits(t) ==
  /\ At(t, "scan")
  /\ IF IsSuspended /\ generation = scan[t].generation
     THEN CommitSnapshot(t)
     ELSE UNCHANGED <<initialized, published, snapshot, asleep>>
  /\ Goto(t, scan[t].back)
  /\ scan' = [scan EXCEPT ![t] = NoScan]
  /\ UNCHANGED <<unavailable, rescanState, addonRoot, disk, mutex, nest, ends, updates>>

Unlock(t) == mutex' = IF mutex = t THEN None ELSE mutex

\* EndSearchPathUpdate while others, or an outer call, are not done.
EndNested(t) ==
  /\ At(t, "updating")
  /\ updateDepth > 1
  /\ updateDepth' = updateDepth - 1
  /\ nest' = [nest EXCEPT ![t] = @ - 1]
  /\ IF nest[t] = 1 THEN Goto(t, "idle") /\ Unlock(t) ELSE UNCHANGED <<pc, mutex>>
  /\ WakeAll
  /\ UNCHANGED <<cacheVars, generation, addonRoot, disk, scan, ends, updates>>

\* The outermost one waits for its generation, ...
EndOutermost(t) ==
  /\ At(t, "updating")
  /\ updateDepth = 1
  /\ updateDepth' = 0
  /\ generation' = generation + 1
  /\ target' = [target EXCEPT ![t] = generation']
  /\ since' = [since EXCEPT ![t] = disk]
  /\ nest' = [nest EXCEPT ![t] = 0]
  /\ Goto(t, "ending")
  /\ WakeAll
  /\ UNCHANGED <<cacheVars, addonRoot, disk, mutex, scan, updates>>

Reached(t) == unavailable \/ published >= target[t]
AwaitPublication(t) == Sleeps(t, "ending", Reached(t))

\* ... with addonSearchUpdateMutex in the case of the engine.
EndReturns(t) ==
  /\ At(t, "ending")
  /\ Reached(t)
  /\ Unlock(t)
  /\ Goto(t, "idle")
  /\ target' = [target EXCEPT ![t] = 0] /\ since' = [since EXCEPT ![t] = 0]
  /\ UNCHANGED <<cacheVars, rescanState, addonRoot, disk, nest, scan, asleep, updates>>

Updates(t) ==
  \/ AwaitInitial(t) \/ Begin(t) \/ PublishCommits(t)
  \/ EndNested(t) \/ EndOutermost(t) \/ AwaitPublication(t) \/ EndReturns(t)

\* Files are installed, enabled and removed at any time.
Change ==
  /\ disk < MaxChanges
  /\ disk' = disk + 1
  /\ UNCHANGED <<cacheVars, rescanState, addonRoot, mutex, pc, nest, scan, ends, asleep, updates>>

-----------------------------------------------------------------------------
Next ==
  \/ ScannerStep \/ GiveUp \/ RequestManualRescan \/ Change
  \/ \E t \in Thread : Updates(t) \/ EngineUpdate(t) \/ DirectUpdate(t)
  \/ \E t \in Thread, root \in Root : PublishScans(t, root) \/ PublishRequests(t, root)

Spec == Init /\ [][Next]_vars

\* The scanner and the threads inside an update go on.
Fairness == WF_vars(ScannerStep) /\ \A t \in Thread : WF_vars(Updates(t))

FairSpec == Spec /\ Fairness

-----------------------------------------------------------------------------
(* Properties *)

TypeOK ==
  /\ initialized \in BOOLEAN /\ unavailable \in BOOLEAN
  /\ generation \in 0 .. 2 * MaxUpdates /\ updateDepth \in 0 .. MaxUpdates
  /\ published \in 0 .. 2 * MaxUpdates
  /\ snapshot \in [root : Root \cup {None, Default}, disk : 0 .. MaxChanges]
  /\ addonRoot \in Root \cup {None}
  /\ mutex \in Thread \cup {None}
  /\ nest \in [Thread -> 0 .. MaxDepth]
  /\ asleep \subseteq Thread \cup {Scanner}

\* The "publication barrier" (audio_cache.cpp:50): when the end of an update
\* returns, the snapshot was made from the disk as the update had left it or
\* later, however many other updates, publications and scans overlapped; and a
\* snapshot that nobody is going to replace is that of the current root.
SnapshotCurrent ==
  /\ \A t \in Thread :
       pc[t] = "ending" /\ published >= target[t] => snapshot.disk >= since[t]
  /\ initialized /\ ~ unavailable /\ CanPublish(published) =>
       snapshot.root = IF addonRoot = None THEN Default ELSE addonRoot

\* Nobody waits for the scanner for ever: no wake-up is missing, an update that
\* begins while another one ends only delays it, and a scanner that gave up does
\* not leave anybody behind.
Ending(t) == pc[t] = "ending"
UpdateEnds == \A t \in Thread : Ending(t) ~> ~ Ending(t)
=============================================================================
