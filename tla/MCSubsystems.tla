---------------------------- MODULE MCSubsystems ----------------------------
(* Values, and the schedules, for checking Subsystems. *)
EXTENDS Subsystems, TLC

MCThread == {"t1", "t2"}
MCKey == {"k1"}
MCItem == 1 .. 4
MCPath == {"p1", "p2"}
MCRoot == {"ra", "rb"}
MCContext == {"server", "client"}
MCKeyKinds == {"counter", "state", "setting"}

\* Threads that record, and addresses, are alike.
Symmetry == Permutations(Thread) \cup Permutations(Key)

\* Which items of the "vpk" part have which path only matters up to renaming.
OnePathEach ==
  part = "vpk" => v1[1] = "p1" /\ \A i \in 1 .. 3 : v1[i] = "p2" => v1[i + 1] = "p2"

MCInit == Init /\ OnePathEach

\* What is safe, in all parts.
MCSpec == MCInit /\ [][Next]_vars

\* What happens in the end, in the parts of which something must.
LiveInit == MCInit /\ part \in {"sync", "vpk", "cache"}
LiveNext == SyncNext \/ VpkNext \/ CacheNext

\* Each condition is one of every part, see the Fairness of their modules.
Fairness ==
  /\ WF_vars(\/ SyncOnly /\ Sync!ServerReceives
             \/ VpkOnly /\ Vpk!Calls
             \/ CacheOnly /\ Cache!ScannerStep)
  /\ WF_vars(\/ SyncOnly /\ Sync!ClientReceives
             \/ VpkOnly /\ Vpk!Runs("t1")
             \/ CacheOnly /\ Cache!Updates("t1"))
  /\ WF_vars(\/ SyncOnly /\ Sync!Return
             \/ VpkOnly /\ Vpk!Runs("t2")
             \/ CacheOnly /\ Cache!Updates("t2"))
  /\ WF_vars(SyncOnly /\ Sync!Service /\ v9' # v9)

FairSpec == LiveInit /\ [][LiveNext]_vars /\ Fairness
=============================================================================
