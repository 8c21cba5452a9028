----------------------------- MODULE ClientStore -----------------------------
(***************************************************************************)
(* The file a player's persistent data is kept in (client half of          *)
(* shared/persistentdata.cpp): debounced saves through a temporary file    *)
(* with the previous generation as a backup, the choice of a copy at the   *)
(* next start, and the import of what an older build left in profile.cfg.  *)
(* The process may die, and a save may fail, between any two of its steps. *)
(*                                                                         *)
(* The contents of a file are its version: a number that grows with every  *)
(* change anybody makes, which also orders the files' modification times.  *)
(* A file may be torn: it has no valid trailer and only some entries can   *)
(* be read.  Left out: profile.cfg.bak, the copies made for manual         *)
(* recovery, entries the schema rejects.                                   *)
(***************************************************************************)
EXTENDS Naturals

CONSTANTS
  MaxVersion,  \* bound: changes made
  MaxDamage,   \* bound: files the disk damages
  MaxFailures, \* bound: calls of the file system that fail
  MaxCrashes   \* bound: processes that die

Version == 0 .. MaxVersion
Absent == [is |-> "absent", v |-> 0]
Whole(v) == [is |-> "whole", v |-> v]
Torn(v) == [is |-> "torn", v |-> v]
File == [is : {"absent", "whole", "torn"}, v : Version]

VARIABLES
  primary, tmp, bak,  \* persistent_data.txt, .tmp, .bak
  profile,            \* the "__" lines of profile.cfg: [v, marker], v = 0 without them
  pc,                 \* the game: "off", "idle" or inside SaveStoreNow
  mem,                \* store.entries
  dirty,              \* store.dirty
  quitting,           \* this save is the last thing the process does
  clock,              \* the last version made
  committed, previous,\* history: the last version reported as saved, and what one
                      \* damaged file would leave of it
  harmed,             \* history: the disk damaged a file since the last save
  rewriting,          \* history: the old file is out of its place and the temporary
                      \* file being written anew, so that the backup is all there is
  damages, failures, crashes

disk == <<primary, tmp, bak>>
process == <<mem, dirty, quitting>>
history == <<committed, previous, harmed, rewriting>>
counters == <<damages, failures, crashes>>
vars == <<disk, profile, pc, process, clock, history, counters>>

-----------------------------------------------------------------------------
Init ==
  /\ primary = Absent /\ tmp = Absent /\ bak = Absent
  /\ profile = [v |-> 0, marker |-> FALSE]
  /\ pc = "off"
  /\ mem = 0 /\ dirty = FALSE /\ quitting = FALSE
  /\ clock = 0 /\ committed = 0 /\ previous = 0
  /\ harmed = FALSE /\ rewriting = FALSE /\ damages = 0 /\ failures = 0 /\ crashes = 0

\* LoadStoreFile: the first intact copy in this order ...
Candidates == {primary, tmp, bak}
Intact == \E f \in Candidates : f.is = "whole"
First == IF primary.is = "whole" THEN primary ELSE IF tmp.is = "whole" THEN tmp ELSE bak

\* ... or some of the entries of a damaged one, or nothing: what is read, the
\* version the file was written for, and the result.
Salvaged(f) == {[v |-> v, of |-> f.v, result |-> "recovered"] : v \in 1 .. f.v}

Loads ==
  IF Intact
  THEN {[v |-> First.v, of |-> First.v,
         result |-> IF primary.is = "whole" THEN "loaded" ELSE "recovered"]}
  ELSE {[v |-> 0, of |-> 0, result |-> "missing"]} \cup
       UNION {Salvaged(f) : f \in {f \in Candidates : f.is = "torn"}}

\* EnsureStoreLoaded: profile.cfg is imported when there is no store, or when an
\* older build (which writes no owner marker) wrote it after the store.
Imports(load) ==
  profile.v > 0 /\ (load.result = "missing" \/ (~ profile.marker /\ profile.v > load.of))

\* EnsureStoreLoaded: a store that was recovered or imported is saved at once.
Start ==
  /\ pc = "off"
  /\ \E load \in Loads :
       LET changed == load.result = "recovered" \/ Imports(load)
       IN  /\ mem' = IF Imports(load) THEN profile.v ELSE load.v
           /\ dirty' = changed
           /\ pc' = IF changed THEN "save" ELSE "idle"
  /\ quitting' = FALSE
  /\ committed' = IF mem' < committed THEN mem' ELSE committed
  /\ previous' = IF mem' < previous THEN mem' ELSE previous
  /\ UNCHANGED <<disk, profile, clock, harmed, rewriting, counters>>

-----------------------------------------------------------------------------
(* The running game *)

\* setinfopersist_cmd and MarkStoreDirty.
Change ==
  /\ pc = "idle"
  /\ clock < MaxVersion
  /\ clock' = clock + 1
  /\ mem' = clock'
  /\ dirty' = TRUE
  /\ UNCHANGED <<disk, profile, pc, quitting, history, counters>>

\* PData_RunFrame: after a second without changes, five with them, or two after a
\* failed save, which may be any time.
FrameSaves ==
  /\ pc = "idle"
  /\ dirty
  /\ pc' = "save"
  /\ UNCHANGED <<disk, profile, process, clock, history, counters>>

\* NativeProfileWriterHook: the mirror for older builds, and a flush.
ProfileWrite ==
  /\ pc = "idle"
  /\ profile' = [v |-> mem, marker |-> TRUE]
  /\ pc' = IF dirty THEN "save" ELSE "idle"
  /\ UNCHANGED <<disk, process, clock, history, counters>>

\* "quit": PData_OnConsoleCommand, and the flush at exit.
Quit ==
  /\ pc = "idle"
  /\ quitting' = TRUE
  /\ pc' = IF dirty THEN "save" ELSE "off"
  /\ UNCHANGED <<disk, profile, mem, dirty, clock, history, counters>>

-----------------------------------------------------------------------------
(* SaveStoreNow *)

AfterSave == IF quitting THEN "off" ELSE "idle"

SaveFails ==
  /\ failures < MaxFailures
  /\ failures' = failures + 1
  /\ pc' = AfterSave

\* WriteFileDurably: CREATE_ALWAYS empties the old temporary file, ...
SaveCreates ==
  /\ pc = "save"
  /\ tmp' = Torn(mem)
  /\ rewriting' = (primary.is = "absent")
  /\ pc' = "writing"
  /\ UNCHANGED <<primary, bak, profile, process, clock, committed, previous, harmed, counters>>

\* ... the contents follow, and a failure removes it again.
SaveWrites ==
  /\ pc = "writing"
  /\ tmp' = Whole(mem)
  /\ rewriting' = FALSE
  /\ pc' = "replace"
  /\ UNCHANGED <<primary, bak, profile, process, clock, committed, previous, harmed, counters>>

SaveWriteFails ==
  /\ pc = "writing"
  /\ SaveFails
  /\ tmp' = Absent
  /\ UNCHANGED <<primary, bak, profile, mem, dirty, quitting, clock, history, damages, crashes>>

\* Mutant: there is no backup, the old file is deleted.
BackUp_Deletes ==
  /\ pc = "replace"
  /\ primary.is # "absent"
  /\ primary' = Absent
  /\ pc' = "move"
  /\ UNCHANGED <<tmp, bak, profile, process, clock, history, counters>>

\* ReplaceFileW keeps the old file as the backup ...
BackUp ==
  /\ pc = "replace"
  /\ primary.is # "absent"
  /\ bak' = primary
  /\ primary' = Absent
  /\ pc' = "move"
  /\ UNCHANGED <<tmp, profile, process, clock, history, counters>>

\* ... and then moves the new one to its place, which is all MoveFileExW does.
MoveIn ==
  /\ pc = "move" \/ (pc = "replace" /\ primary.is = "absent")
  /\ primary' = tmp
  /\ tmp' = Absent
  /\ dirty' = FALSE
  /\ committed' = mem
  /\ previous' = committed
  /\ harmed' = (tmp.is # "whole")
  /\ pc' = AfterSave
  /\ UNCHANGED <<bak, profile, mem, quitting, clock, rewriting, counters>>

\* Mutant: the store is clean although the file is not in its place.
StepFails_Clean ==
  /\ pc \in {"save", "replace", "move"}
  /\ SaveFails
  /\ dirty' = FALSE
  /\ UNCHANGED <<disk, profile, mem, quitting, clock, history, damages, crashes>>

\* The temporary file cannot be created, or not be put in its place.
StepFails ==
  /\ pc \in {"save", "replace", "move"}
  /\ SaveFails
  /\ UNCHANGED <<disk, profile, mem, dirty, quitting, clock, history, damages, crashes>>

-----------------------------------------------------------------------------
(* The world *)

\* The process dies, wherever it is.
Crash ==
  /\ pc # "off"
  /\ crashes < MaxCrashes
  /\ crashes' = crashes + 1
  /\ pc' = "off"
  /\ UNCHANGED <<disk, profile, process, clock, history, damages, failures>>

\* A session of an older build: it plays on from profile.cfg and writes it
\* without the marker.
OlderBuild ==
  /\ pc = "off"
  /\ clock < MaxVersion
  /\ clock' = clock + 1
  /\ profile' = [v |-> clock', marker |-> FALSE]
  /\ UNCHANGED <<disk, pc, process, history, counters>>

Damaged(f) == IF f.is = "whole" THEN Torn(f.v) ELSE f

\* One of the files is damaged.
Damage ==
  /\ damages < MaxDamage
  /\ damages' = damages + 1
  /\ harmed' = TRUE
  /\ \/ primary' = Damaged(primary) /\ UNCHANGED <<tmp, bak>>
     \/ tmp' = Damaged(tmp) /\ UNCHANGED <<primary, bak>>
     \/ bak' = Damaged(bak) /\ UNCHANGED <<primary, tmp>>
  /\ UNCHANGED <<profile, pc, process, clock, committed, previous, rewriting, failures, crashes>>

-----------------------------------------------------------------------------
Save == SaveCreates \/ SaveWrites \/ SaveWriteFails \/ BackUp \/ MoveIn \/ StepFails

Next ==
  \/ Start \/ Change \/ FrameSaves \/ ProfileWrite \/ Quit
  \/ Save \/ Crash \/ OlderBuild \/ Damage

Spec == Init /\ [][Next]_vars

-----------------------------------------------------------------------------
(* Properties *)

TypeOK ==
  /\ primary \in File /\ tmp \in File /\ bak \in File
  /\ profile \in [v : Version, marker : BOOLEAN]
  /\ pc \in {"off", "idle", "save", "writing", "replace", "move"}
  /\ mem \in Version /\ clock \in Version /\ committed \in Version /\ previous \in Version

\* "A torn or truncated write is detected on load instead of silently dropping
\* progression" (persistentdata_store.h), "preserving the previous generation as
\* .bak": wherever processes died and saves failed, the next start finds at least
\* what was last reported as saved.  If the disk damaged a file it finds at least the
\* generation before, unless a save that failed to put the new file in its place is
\* being repeated: that empties the complete .tmp while a damaged file may be the .bak.
\* And, beside an intact store, it finds what an older build left since.
FindsSaved ==
  Start => /\ mem' >= IF ~ harmed THEN committed ELSE IF rewriting THEN 0 ELSE previous
           /\ Intact /\ ~ profile.marker => mem' >= profile.v
SavedSurvives == [][FindsSaved]_vars

\* SaveStoreNow never takes a failed save for a successful one, and nothing else
\* forgets a change: while a running game has nothing to save, the file is intact
\* and holds all it knows, so the debounce, the flushes and the retries always
\* have their reason to save.
CleanIsSaved ==
  pc = "idle" /\ ~ dirty /\ mem # 0 /\ ~ harmed => primary = Whole(mem)
=============================================================================
