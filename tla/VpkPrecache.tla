---------------------------- MODULE VpkPrecache ----------------------------
(***************************************************************************)
(* The worker that replaces the engine's VPK precache callback             *)
(* (engine/filesystem/vpk_async_precache_fix.cpp and _entry.cpp).  Work    *)
(* items are handed to threads; an item claims its path while it looks at  *)
(* the path's entry and consumes what is loaded, and gives the claim back  *)
(* before it reads.  Everything it calls may pump another item on the same *)
(* thread.  Such a nested item never waits for a claim: it is deferred     *)
(* until the outermost item of its thread has ended.                       *)
(*                                                                         *)
(* External: what the entry of a path is when it is looked at, and which   *)
(* calls pump.  Left out: the fatal error after a change of the pack       *)
(* generation under a claim, and that the queue of 4096 deferred items is  *)
(* full.                                                                   *)
(***************************************************************************)
EXTENDS Naturals, Sequences, FiniteSets, SequencesExt

CONSTANTS Thread, Item, Path

None == "none"

VARIABLES
  path,        \* the path of each item
  waiting,     \* items the engine has not handed out yet
  outstanding, \* the engine's count of unfinished work
  holder,      \* per path: the thread whose claim has the mutex
  stack,       \* per thread: its calls of RunOne, the innermost last: [item, pc]
  deferred,    \* per thread: WorkerThreadState::deferred
  executed     \* history: how often each item was executed

vars == <<path, waiting, outstanding, holder, stack, deferred, executed>>

Init ==
  /\ path \in [Item -> Path]
  /\ waiting = Item
  /\ outstanding = Cardinality(Item)
  /\ holder = [p \in Path |-> None]
  /\ stack = [t \in Thread |-> <<>>]
  /\ deferred = [t \in Thread |-> <<>>]
  /\ executed = [i \in Item |-> 0]

Running(t) == stack[t] # <<>>
Top(t) == Last(stack[t])
At(t, pc) == Running(t) /\ Top(t).pc = pc
Nested(t) == Len(stack[t]) > 1

\* RunOne begins: its record has a handler, and the path is to be claimed, or not.
Push(t, i) ==
  \E pc \in {"claim", "no handler"} :
    stack' = [stack EXCEPT ![t] = Append(@, [item |-> i, pc |-> pc])]

Pop(t) == stack' = [stack EXCEPT ![t] = Front(@)]
Goto(t, label) == stack' = [stack EXCEPT ![t][Len(stack[t])].pc = label]
Release(t) == holder' = [holder EXCEPT ![path[Top(t).item]] = None]

-----------------------------------------------------------------------------
\* R1ClientVPKAsyncPrecacheWorker is entered, on an idle thread or from within
\* a callback that pumps.
HandOut(t, i) ==
  /\ i \in waiting
  /\ waiting' = waiting \ {i}
  /\ Push(t, i)
  /\ UNCHANGED <<path, outstanding, holder, deferred, executed>>

Call(t, i) == ~ Running(t) /\ deferred[t] = <<>> /\ HandOut(t, i)
Pump(t, i) == (At(t, "held") \/ At(t, "reading")) /\ HandOut(t, i)

\* RunOne ends, and the work is no longer outstanding.
Executed(t) ==
  /\ Pop(t)
  /\ executed' = [executed EXCEPT ![Top(t).item] = @ + 1]
  /\ outstanding' = outstanding - 1
  /\ UNCHANGED <<path, waiting, deferred>>

\* RunOne finds no handler for the record.
NoHandler(t) ==
  /\ At(t, "no handler")
  /\ Executed(t)
  /\ UNCHANGED holder

\* AsyncPrecacheEntryClaim: the mutex, which an outermost item waits for.
Acquire(t) ==
  /\ At(t, "claim")
  /\ holder[path[Top(t).item]] = None
  /\ holder' = [holder EXCEPT ![path[Top(t).item]] = t]
  /\ Goto(t, "held")
  /\ UNCHANGED <<path, waiting, outstanding, deferred, executed>>

\* Mutant: a nested item waits for a claim of another thread.
Gives_WayToItself(t) == holder[path[Top(t).item]] = t

\* A nested item does not wait, neither for its own thread nor for another.
Gives(t) == holder[path[Top(t).item]] # None

\* Mutant: deferred work is not outstanding any more.
Outstanding_Deferred == outstanding' = outstanding - 1

\* Deferred work stays outstanding.
OutstandingWhenDeferred == outstanding' = outstanding

Defer(t) ==
  /\ At(t, "claim")
  /\ Nested(t)
  /\ Gives(t)
  /\ deferred' = [deferred EXCEPT ![t] = Append(@, Top(t).item)]
  /\ OutstandingWhenDeferred
  /\ Pop(t)
  /\ UNCHANGED <<path, waiting, holder, executed>>

\* The recheck: the entry is occupied, so there is nothing to read, ...
Occupied(t) ==
  /\ At(t, "held")
  /\ Release(t)
  /\ Executed(t)

\* ... or empty: the claim is dropped before the read.
StartRead(t) ==
  /\ At(t, "held")
  /\ Release(t)
  /\ Goto(t, "reading")
  /\ UNCHANGED <<path, waiting, outstanding, deferred, executed>>

\* The native finish.
Finish(t) ==
  /\ At(t, "reading")
  /\ Executed(t)
  /\ UNCHANGED holder

\* The outermost call runs what was deferred on its thread, as outermost items.
Replay(t) ==
  /\ ~ Running(t)
  /\ deferred[t] # <<>>
  /\ Push(t, Head(deferred[t]))
  /\ deferred' = [deferred EXCEPT ![t] = Tail(@)]
  /\ UNCHANGED <<path, waiting, outstanding, holder, executed>>

Runs(t) ==
  NoHandler(t) \/ Acquire(t) \/ Defer(t) \/ Occupied(t) \/ StartRead(t) \/ Finish(t) \/ Replay(t)

Calls == \E t \in Thread, i \in Item : Call(t, i)
Pumps == \E t \in Thread, i \in Item : Pump(t, i)

Next == Calls \/ Pumps \/ \E t \in Thread : Runs(t)

Spec == Init /\ [][Next]_vars

\* The engine hands its work to idle threads, and every thread gets on unless it
\* waits for a mutex.
Fairness == WF_vars(Calls) /\ \A t \in Thread : WF_vars(Runs(t))

FairSpec == Spec /\ Fairness

-----------------------------------------------------------------------------
(* Properties *)

TypeOK ==
  /\ path \in [Item -> Path] /\ waiting \subseteq Item
  /\ outstanding \in 0 .. Cardinality(Item)
  /\ holder \in [Path -> Thread \cup {None}]
  /\ \A t \in Thread : ToSet(deferred[t]) \subseteq Item

OnStack(i) == {s \in Thread \X (1 .. Cardinality(Item)) :
                 s[2] <= Len(stack[s[1]]) /\ stack[s[1]][s[2]].item = i}
InQueue(i) == {s \in Thread \X (1 .. Cardinality(Item)) :
                 s[2] <= Len(deferred[s[1]]) /\ deferred[s[1]][s[2]] = i}

\* Work is never lost nor done twice on its way through stacks and queues, and
\* the engine, which waits for its count to become zero, counts exactly what is
\* not done (DecrementOutstanding only after a callback has been executed).
WorkConserved ==
  /\ \A i \in Item :
       (IF i \in waiting THEN 1 ELSE 0) + Cardinality(OnStack(i)) + Cardinality(InQueue(i))
         + executed[i] = 1
  /\ outstanding = Cardinality({i \in Item : executed[i] = 0})

\* "Cross-path callbacks cannot cycle" (RunOne): whatever pumps whatever, the
\* threads never wait for each other, and the work comes to an end.
WorkDone == outstanding = 0
WorkEnds == <>WorkDone
=============================================================================
