----------------------------- MODULE Files_proofs -----------------------------
(***************************************************************************)
(* Proofs about what the game does with files: the precache of VPK files   *)
(* (VpkPrecache), the snapshot of replaceable files (FileCache) and the    *)
(* file of a player's persistent data (ClientStore), for any number of     *)
(* threads, items, roots, changes, failed calls and crashes, and a disk    *)
(* that damages one file.                                                  *)
(***************************************************************************)
EXTENDS VpkPrecache, FiniteSetTheorems, SequenceTheorems, TLAPS

CONSTANTS
  Root, MaxChanges, MaxUpdates, MaxDepth,         \* of FileCache
  MaxVersion, MaxDamage, MaxFailures, MaxCrashes  \* of ClientStore

VARIABLES
  initialized, unavailable, generation, updateDepth, published, snapshot, addonRoot, disk,
  mutex, place, nest, scan, target, since, asleep, updates

Cache == INSTANCE FileCache WITH pc <- place

VARIABLES
  primary, tmp, bak, profile, step, mem, dirty, quitting, clock, committed, previous, harmed,
  rewriting, damages, failures, crashes

Store == INSTANCE ClientStore WITH pc <- step

-----------------------------------------------------------------------------
(* VpkPrecache *)

\* The items of a precache are finitely many.
WorkBounds == IsFiniteSet(Item)

\* A call of RunOne.
Frame == [item : Item, pc : {"claim", "no handler", "held", "reading"}]

WorkTyped ==
  /\ path \in [Item -> Path] /\ waiting \subseteq Item
  /\ holder \in [Path -> Thread \cup {None}]
  /\ stack \in [Thread -> Seq(Frame)]
  /\ deferred \in [Thread -> Seq(Item)]
  /\ executed \in [Item -> {0, 1}]

\* An item is in at most one call.
OnceOnStacks ==
  \A t, u \in Thread : \A n \in DOMAIN stack[t], k \in DOMAIN stack[u] :
    stack[t][n].item = stack[u][k].item => t = u /\ n = k

\* An item waits in at most one place of at most one queue.
OnceInQueues ==
  \A t, u \in Thread : \A n \in DOMAIN deferred[t], k \in DOMAIN deferred[u] :
    deferred[t][n] = deferred[u][k] => t = u /\ n = k

\* Who waits for the engine, is being executed or is deferred is not executed yet,
\* and an item is in only one of these places.
Apart ==
  /\ \A i \in waiting : executed[i] = 0
  /\ \A t \in Thread : \A n \in DOMAIN stack[t] :
       /\ stack[t][n].item \notin waiting
       /\ executed[stack[t][n].item] = 0
  /\ \A t \in Thread : \A n \in DOMAIN deferred[t] :
       /\ deferred[t][n] \notin waiting
       /\ executed[deferred[t][n]] = 0
       /\ \A u \in Thread : \A k \in DOMAIN stack[u] : stack[u][k].item # deferred[t][n]

\* An item that is nowhere else has been executed.
Somewhere ==
  \A i \in Item :
    \/ i \in waiting \/ executed[i] = 1
    \/ \E t \in Thread : \E n \in DOMAIN stack[t] : stack[t][n].item = i
    \/ \E t \in Thread : \E n \in DOMAIN deferred[t] : deferred[t][n] = i

\* The engine's count is that of the items not yet executed.
WorkCounted == outstanding = Cardinality({i \in Item : executed[i] = 0})

\* WorkConserved counts with cardinalities; these parts say item by item what it counts.
WorkInv == WorkBounds /\ WorkTyped /\ OnceOnStacks /\ OnceInQueues /\ Apart /\ Somewhere /\ WorkCounted

-----------------------------------------------------------------------------
(* Stacks and queues *)

\* A thread's stack and queue are sequences of calls and of items.
LEMMA StackType ==
  ASSUME WorkTyped, NEW t \in Thread
  PROVE  /\ stack[t] \in Seq(Frame) /\ Len(stack[t]) \in Nat
         /\ DOMAIN stack[t] = 1 .. Len(stack[t]) /\ DOMAIN deferred[t] = 1 .. Len(deferred[t])
         /\ \A n \in DOMAIN stack[t] : stack[t][n] \in Frame /\ stack[t][n].item \in Item
         /\ deferred[t] \in Seq(Item) /\ Len(deferred[t]) \in Nat
         /\ \A n \in DOMAIN deferred[t] : deferred[t][n] \in Item
<1>1. stack[t] \in Seq(Frame) /\ deferred[t] \in Seq(Item)
  BY DEF WorkTyped
<1>2. /\ Len(stack[t]) \in Nat /\ Len(deferred[t]) \in Nat
      /\ DOMAIN stack[t] = 1 .. Len(stack[t]) /\ DOMAIN deferred[t] = 1 .. Len(deferred[t])
      /\ \A n \in DOMAIN stack[t] : stack[t][n] \in Frame
      /\ \A n \in DOMAIN deferred[t] : deferred[t][n] \in Item
  BY <1>1, ElementOfSeq, LenProperties
<1> QED BY <1>1, <1>2 DEF Frame

\* What Append adds is at the end, and nothing else moves.
LEMMA Appended ==
  ASSUME NEW S, NEW s \in Seq(S), NEW e \in S
  PROVE  /\ Append(s, e) \in Seq(S)
         /\ DOMAIN Append(s, e) = DOMAIN s \cup {Len(s) + 1} /\ Len(s) + 1 \notin DOMAIN s
         /\ \A n \in DOMAIN s : Append(s, e)[n] = s[n]
         /\ Append(s, e)[Len(s) + 1] = e
<1>1. DOMAIN s = 1 .. Len(s) /\ Len(s) \in Nat
  BY LenProperties
<1>2. Append(s, e) \in Seq(S) /\ Len(Append(s, e)) = Len(s) + 1
  BY AppendProperties
<1>3. DOMAIN Append(s, e) = 1 .. Len(s) + 1
  BY <1>2, LenProperties
<1> QED BY <1>1, <1>2, <1>3, AppendProperties

\* A call begins: one more frame, above the others.
LEMMA Pushed ==
  ASSUME WorkTyped, NEW t \in Thread, NEW i \in Item, Push(t, i)
  PROVE  \E last :
           /\ stack' \in [Thread -> Seq(Frame)]
           /\ DOMAIN stack'[t] = DOMAIN stack[t] \cup {last} /\ last \notin DOMAIN stack[t]
           /\ stack'[t][last].item = i
           /\ \A n \in DOMAIN stack[t] : stack'[t][n] = stack[t][n]
           /\ \A u \in Thread \ {t} : stack'[u] = stack[u]
<1> DEFINE last == Len(stack[t]) + 1
<1>1. PICK e \in Frame : e.item = i /\ stack' = [stack EXCEPT ![t] = Append(stack[t], e)]
  <2>1. PICK pc \in {"claim", "no handler"} :
          stack' = [stack EXCEPT ![t] = Append(stack[t], [item |-> i, pc |-> pc])]
    BY DEF Push
  <2>2. [item |-> i, pc |-> pc] \in Frame /\ [item |-> i, pc |-> pc].item = i
    BY DEF Frame
  <2> QED BY <2>1, <2>2
<1>2. stack[t] \in Seq(Frame)
  BY StackType
<1>3. /\ Append(stack[t], e) \in Seq(Frame)
      /\ DOMAIN Append(stack[t], e) = DOMAIN stack[t] \cup {last} /\ last \notin DOMAIN stack[t]
      /\ \A n \in DOMAIN stack[t] : Append(stack[t], e)[n] = stack[t][n]
      /\ Append(stack[t], e)[last] = e
  BY <1>2, Appended
<1> HIDE DEF last
<1> QED BY <1>1, <1>3 DEF WorkTyped

\* A call returns: its frame goes, and the others stay.
LEMMA Popped ==
  ASSUME WorkTyped, NEW t \in Thread, Running(t), Pop(t)
  PROVE  \E last :
           /\ stack' \in [Thread -> Seq(Frame)]
           /\ last \in DOMAIN stack[t] /\ DOMAIN stack'[t] = DOMAIN stack[t] \ {last}
           /\ Top(t) = stack[t][last]
           /\ \A n \in DOMAIN stack'[t] : stack'[t][n] = stack[t][n]
           /\ \A u \in Thread \ {t} : stack'[u] = stack[u]
<1> DEFINE last == Len(stack[t])
<1>1. /\ stack[t] \in Seq(Frame) /\ Len(stack[t]) \in Nat /\ stack[t] # <<>>
      /\ DOMAIN stack[t] = 1 .. Len(stack[t])
  BY StackType DEF Running
<1>2. last >= 1
  BY <1>1, EmptySeq
<1>3. /\ Front(stack[t]) \in Seq(Frame) /\ Len(Front(stack[t])) = last - 1
      /\ \A n \in 1 .. last - 1 : Front(stack[t])[n] = stack[t][n]
  BY <1>1, <1>2 DEF Front
<1>4. DOMAIN Front(stack[t]) = 1 .. last - 1
  BY <1>3, LenProperties
<1>5. 1 .. last - 1 = DOMAIN stack[t] \ {last} /\ last \in DOMAIN stack[t]
  BY <1>1, <1>2
<1>6. stack' = [stack EXCEPT ![t] = Front(stack[t])]
  BY DEF Pop
<1>7. Top(t) = stack[t][last]
  BY DEF Top, Last
<1> HIDE DEF last
<1> QED BY <1>3, <1>4, <1>5, <1>6, <1>7 DEF WorkTyped

\* A call goes on: the items on the stacks stay where they are.
LEMMA Relabelled ==
  ASSUME WorkTyped, NEW t \in Thread, Running(t), NEW label \in {"held", "reading"}, Goto(t, label)
  PROVE  /\ stack' \in [Thread -> Seq(Frame)]
         /\ \A u \in Thread : DOMAIN stack'[u] = DOMAIN stack[u]
         /\ \A u \in Thread : \A n \in DOMAIN stack[u] : stack'[u][n].item = stack[u][n].item
<1> DEFINE last == Len(stack[t])
           e == [stack[t][last] EXCEPT !.pc = label]
<1>1. stack[t] \in Seq(Frame) /\ last \in Nat /\ stack[t] # <<>> /\ DOMAIN stack[t] = 1 .. last
  BY StackType DEF Running
<1>2. last \in DOMAIN stack[t]
  BY <1>1, EmptySeq
<1>3. stack[t][last] \in Frame
  BY <1>2, StackType
<1>4. e \in Frame /\ e.item = stack[t][last].item
  BY <1>3 DEF Frame
<1>5. stack' = [stack EXCEPT ![t] = [stack[t] EXCEPT ![last] = e]]
  BY DEF Goto
<1> HIDE DEF e
<1>6. /\ [stack[t] EXCEPT ![last] = e] \in Seq(Frame)
      /\ DOMAIN [stack[t] EXCEPT ![last] = e] = DOMAIN stack[t]
      /\ \A n \in DOMAIN stack[t] :
           [stack[t] EXCEPT ![last] = e][n] = IF n = last THEN e ELSE stack[t][n]
  BY <1>1, <1>2, <1>4, ExceptSeq
<1> HIDE DEF last
<1> QED BY <1>4, <1>5, <1>6 DEF WorkTyped

-----------------------------------------------------------------------------
(* Steps *)

\* Before the precache starts, every item waits.
LEMMA WorkInitEstablishes == WorkBounds /\ Init => WorkInv
<1> SUFFICES ASSUME WorkBounds, Init PROVE WorkInv
  OBVIOUS
<1>1. \A t \in Thread : stack[t] = <<>> /\ deferred[t] = <<>>
  BY DEF Init
<1>2. \A t \in Thread : DOMAIN stack[t] = {} /\ DOMAIN deferred[t] = {}
  BY <1>1
<1>3. \A i \in Item : executed[i] = 0
  BY DEF Init
<1>4. WorkTyped
  BY DEF WorkTyped, Init
<1>5. {i \in Item : executed[i] = 0} = Item
  BY <1>3
<1>6. WorkCounted
  BY <1>5 DEF WorkCounted, Init
<1> QED BY <1>2, <1>3, <1>4, <1>6 DEF WorkInv, OnceOnStacks, OnceInQueues, Apart, Somewhere, Init

\* The engine hands an item out.
LEMMA HandOutKeeps ==
  ASSUME WorkInv, NEW t \in Thread, NEW i \in Item, HandOut(t, i)
  PROVE  WorkInv'
<1>1. /\ i \in waiting /\ waiting' = waiting \ {i}
      /\ UNCHANGED <<path, outstanding, holder, deferred, executed>>
  BY DEF HandOut
<1>2. PICK last :
        /\ stack' \in [Thread -> Seq(Frame)]
        /\ DOMAIN stack'[t] = DOMAIN stack[t] \cup {last} /\ last \notin DOMAIN stack[t]
        /\ stack'[t][last].item = i
        /\ \A n \in DOMAIN stack[t] : stack'[t][n] = stack[t][n]
        /\ \A u \in Thread \ {t} : stack'[u] = stack[u]
  BY Pushed DEF HandOut, WorkInv
<1>4. WorkTyped'
  BY <1>1, <1>2 DEF WorkInv, WorkTyped
<1>5. \A u \in Thread : \A n \in DOMAIN stack'[u] :
        \/ u = t /\ n = last /\ stack'[u][n].item = i
        \/ n \in DOMAIN stack[u] /\ stack'[u][n] = stack[u][n]
  BY <1>2
<1>6. \A u \in Thread : \A n \in DOMAIN stack[u] :
        n \in DOMAIN stack'[u] /\ stack'[u][n] = stack[u][n]
  BY <1>2
<1>7. last \in DOMAIN stack'[t]
  BY <1>2
<1>8. OnceOnStacks'
  BY <1>1, <1>5 DEF WorkInv, OnceOnStacks, Apart
<1>9. OnceInQueues'
  BY <1>1 DEF WorkInv, OnceInQueues
<1>10. Apart'
  BY <1>1, <1>5 DEF WorkInv, Apart
<1>11. Somewhere'
  <2> SUFFICES ASSUME NEW j \in Item
               PROVE  \/ j \in waiting' \/ executed'[j] = 1
                      \/ \E u \in Thread : \E n \in DOMAIN stack'[u] : stack'[u][n].item = j
                      \/ \E u \in Thread : \E n \in DOMAIN deferred'[u] : deferred'[u][n] = j
    BY DEF Somewhere
  <2>1. CASE j = i
    BY <2>1, <1>2, <1>7
  <2>2. CASE \E u \in Thread : \E n \in DOMAIN stack[u] : stack[u][n].item = j
    BY <2>2, <1>6
  <2> QED BY <2>1, <2>2, <1>1 DEF WorkInv, Somewhere
<1>12. WorkCounted'
  BY <1>1 DEF WorkInv, WorkCounted
<1> QED BY <1>4, <1>8, <1>9, <1>10, <1>11, <1>12 DEF WorkInv, WorkBounds

\* Nothing moves.
LEMMA RelabelKeeps ==
  ASSUME WorkInv, NEW t \in Thread, Running(t), NEW label \in {"held", "reading"}, Goto(t, label),
         holder' \in [Path -> Thread \cup {None}],
         UNCHANGED <<path, waiting, outstanding, deferred, executed>>
  PROVE  WorkInv'
<1>1. /\ stack' \in [Thread -> Seq(Frame)]
      /\ \A u \in Thread : Len(stack'[u]) = Len(stack[u])
      /\ \A u \in Thread : \A n \in DOMAIN stack[u] : stack'[u][n].item = stack[u][n].item
  BY Relabelled DEF WorkInv
<1>2. WorkTyped'
  BY <1>1 DEF WorkInv, WorkTyped
<1>3. OnceOnStacks' /\ OnceInQueues'
  BY <1>1 DEF WorkInv, OnceOnStacks, OnceInQueues
<1>4. Apart'
  BY <1>1 DEF WorkInv, Apart
<1>5. Somewhere'
  <2> SUFFICES ASSUME NEW j \in Item,
                      NEW u \in Thread, NEW n \in DOMAIN stack[u], stack[u][n].item = j
               PROVE  \E v \in Thread : \E k \in DOMAIN stack'[v] : stack'[v][k].item = j
    BY DEF WorkInv, Somewhere
  <2>1. n \in DOMAIN stack'[u] /\ stack'[u][n].item = j
    BY <1>1
  <2> QED BY <2>1
<1>6. WorkCounted'
  BY DEF WorkInv, WorkCounted
<1> QED BY <1>2, <1>3, <1>4, <1>5, <1>6 DEF WorkInv, WorkBounds

\* The innermost item of a thread has been executed.
LEMMA ExecutedKeeps ==
  ASSUME WorkInv, NEW t \in Thread, Running(t), Executed(t),
         holder' \in [Path -> Thread \cup {None}]
  PROVE  WorkInv'
<1> DEFINE i == Top(t).item
<1>1. /\ executed' = [executed EXCEPT ![i] = @ + 1] /\ outstanding' = outstanding - 1
      /\ UNCHANGED <<path, waiting, deferred>>
  BY DEF Executed
<1>2. PICK last :
        /\ stack' \in [Thread -> Seq(Frame)]
        /\ last \in DOMAIN stack[t] /\ DOMAIN stack'[t] = DOMAIN stack[t] \ {last}
        /\ Top(t) = stack[t][last]
        /\ \A n \in DOMAIN stack'[t] : stack'[t][n] = stack[t][n]
        /\ \A u \in Thread \ {t} : stack'[u] = stack[u]
  BY Popped DEF Executed, WorkInv
<1>3. last \in DOMAIN stack[t]
  BY <1>2
<1>4. i = stack[t][last].item /\ i \in Item
  BY <1>2, <1>3, StackType DEF WorkInv
<1>5. executed[i] = 0
  BY <1>3, <1>4 DEF WorkInv, Apart
<1>6. executed \in [Item -> {0, 1}]
  BY DEF WorkInv, WorkTyped
<1>7. executed' = [executed EXCEPT ![i] = 1] /\ executed' \in [Item -> {0, 1}]
  BY <1>1, <1>4, <1>5, <1>6
<1>8. WorkTyped'
  BY <1>1, <1>2, <1>7 DEF WorkInv, WorkTyped
<1>9. \A u \in Thread : \A n \in DOMAIN stack'[u] :
        n \in DOMAIN stack[u] /\ stack'[u][n] = stack[u][n] /\ (u # t \/ n # last)
  BY <1>2, <1>3
<1>10. \A u \in Thread : \A n \in DOMAIN stack[u] :
        \/ u = t /\ n = last
        \/ n \in DOMAIN stack'[u] /\ stack'[u][n] = stack[u][n]
  BY <1>2, <1>3
<1> HIDE DEF i
<1>11. \A u \in Thread : \A n \in DOMAIN stack'[u] : stack'[u][n].item # i
  BY <1>3, <1>4, <1>9 DEF WorkInv, OnceOnStacks
<1>12. OnceOnStacks'
  BY <1>9 DEF WorkInv, OnceOnStacks
<1>13. OnceInQueues'
  BY <1>1 DEF WorkInv, OnceInQueues
<1>14. i \notin waiting /\ \A u \in Thread : \A n \in DOMAIN deferred[u] : deferred[u][n] # i
  BY <1>3, <1>4 DEF WorkInv, Apart
<1>15. \A j \in Item \ {i} : executed'[j] = executed[j]
  BY <1>7
<1>16. \A u \in Thread : \A n \in DOMAIN stack[u] : stack[u][n].item \in Item
  BY StackType DEF WorkInv
<1>17. \A u \in Thread : \A n \in DOMAIN deferred[u] : deferred[u][n] \in Item
  BY StackType DEF WorkInv
<1>18. Apart'
  <2>1. \A j \in waiting' : executed'[j] = 0
    BY <1>1, <1>14, <1>15 DEF WorkInv, Apart, WorkTyped
  <2>2. \A u \in Thread : \A n \in DOMAIN stack'[u] :
          stack'[u][n].item \notin waiting' /\ executed'[stack'[u][n].item] = 0
    BY <1>1, <1>9, <1>11, <1>15, <1>16 DEF WorkInv, Apart
  <2>3. \A u \in Thread : \A n \in DOMAIN deferred'[u] :
          /\ deferred'[u][n] \notin waiting' /\ executed'[deferred'[u][n]] = 0
          /\ \A v \in Thread : \A k \in DOMAIN stack'[v] : stack'[v][k].item # deferred'[u][n]
    BY <1>1, <1>9, <1>14, <1>15, <1>17 DEF WorkInv, Apart
  <2> QED BY <2>1, <2>2, <2>3 DEF Apart
<1>19. Somewhere'
  <2> SUFFICES ASSUME NEW j \in Item, j # i
               PROVE  \/ j \in waiting' \/ executed'[j] = 1
                      \/ \E u \in Thread : \E n \in DOMAIN stack'[u] : stack'[u][n].item = j
                      \/ \E u \in Thread : \E n \in DOMAIN deferred'[u] : deferred'[u][n] = j
    BY <1>4, <1>6, <1>7 DEF Somewhere
  <2>1. CASE \E u \in Thread : \E n \in DOMAIN stack[u] : stack[u][n].item = j
    BY <2>1, <1>4, <1>10
  <2> QED BY <2>1, <1>1, <1>15 DEF WorkInv, Somewhere
<1>20. WorkCounted'
  <2> DEFINE S == {j \in Item : executed[j] = 0}
  <2>1. {j \in Item : executed'[j] = 0} = S \ {i}
    BY <1>6, <1>7, <1>15
  <2>2. IsFiniteSet(S) /\ i \in S
    BY <1>4, <1>5, FS_Subset DEF WorkInv, WorkBounds
  <2>3. Cardinality(S \ {i}) = Cardinality(S) - 1
    BY <2>2, FS_RemoveElement
  <2> QED BY <2>1, <2>3, <1>1 DEF WorkInv, WorkCounted
<1> QED BY <1>8, <1>12, <1>13, <1>18, <1>19, <1>20 DEF WorkInv, WorkBounds

\* The innermost item of a thread goes to the end of the thread's queue.
LEMMA DeferKeeps ==
  ASSUME WorkInv, NEW t \in Thread, Defer(t)
  PROVE  WorkInv'
<1> DEFINE end == Len(deferred[t]) + 1
           i == Top(t).item
<1>1. /\ Running(t) /\ Pop(t) /\ outstanding' = outstanding
      /\ deferred' = [deferred EXCEPT ![t] = Append(deferred[t], i)]
      /\ UNCHANGED <<path, waiting, holder, executed>>
  BY DEF Defer, At, OutstandingWhenDeferred
<1>2. PICK last :
        /\ stack' \in [Thread -> Seq(Frame)]
        /\ last \in DOMAIN stack[t] /\ DOMAIN stack'[t] = DOMAIN stack[t] \ {last}
        /\ Top(t) = stack[t][last]
        /\ \A n \in DOMAIN stack'[t] : stack'[t][n] = stack[t][n]
        /\ \A u \in Thread \ {t} : stack'[u] = stack[u]
  BY <1>1, Popped DEF WorkInv
<1>3. last \in DOMAIN stack[t]
  BY <1>2
<1>4. i = stack[t][last].item /\ i \in Item
  BY <1>2, <1>3, StackType DEF WorkInv
<1>5. /\ deferred' \in [Thread -> Seq(Item)] /\ deferred'[t][end] = i
      /\ DOMAIN deferred'[t] = DOMAIN deferred[t] \cup {end} /\ end \notin DOMAIN deferred[t]
      /\ \A n \in DOMAIN deferred[t] : deferred'[t][n] = deferred[t][n]
      /\ \A u \in Thread \ {t} : deferred'[u] = deferred[u]
  <2>1. deferred[t] \in Seq(Item) /\ deferred \in [Thread -> Seq(Item)]
    BY DEF WorkInv, WorkTyped
  <2> HIDE DEF i
  <2>2. /\ Append(deferred[t], i) \in Seq(Item)
        /\ DOMAIN Append(deferred[t], i) = DOMAIN deferred[t] \cup {end} /\ end \notin DOMAIN deferred[t]
        /\ \A n \in DOMAIN deferred[t] : Append(deferred[t], i)[n] = deferred[t][n]
        /\ Append(deferred[t], i)[end] = i
    BY <2>1, <1>4, Appended
  <2> HIDE DEF end
  <2> QED BY <2>1, <2>2, <1>1
<1>6. WorkTyped'
  BY <1>1, <1>2, <1>5 DEF WorkInv, WorkTyped
<1>7. \A u \in Thread : \A n \in DOMAIN stack'[u] :
        n \in DOMAIN stack[u] /\ stack'[u][n] = stack[u][n] /\ (u # t \/ n # last)
  BY <1>2, <1>3
<1>8. \A u \in Thread : \A n \in DOMAIN stack[u] :
        \/ u = t /\ n = last
        \/ n \in DOMAIN stack'[u] /\ stack'[u][n] = stack[u][n]
  BY <1>2, <1>3
<1>9. \A u \in Thread : \A n \in DOMAIN deferred'[u] :
        \/ u = t /\ n = end /\ deferred'[u][n] = i
        \/ n \in DOMAIN deferred[u] /\ deferred'[u][n] = deferred[u][n]
  BY <1>3, <1>5
<1>10. \A u \in Thread : \A n \in DOMAIN deferred[u] :
         n \in DOMAIN deferred'[u] /\ deferred'[u][n] = deferred[u][n]
  BY <1>3, <1>5
<1>11. end \in DOMAIN deferred'[t]
  BY <1>3, <1>5
<1> HIDE DEF i, end
<1>12. \A u \in Thread : \A n \in DOMAIN stack'[u] : stack'[u][n].item # i
  BY <1>3, <1>4, <1>7 DEF WorkInv, OnceOnStacks
<1>13. /\ i \notin waiting /\ executed[i] = 0
       /\ \A u \in Thread : \A n \in DOMAIN deferred[u] : deferred[u][n] # i
  BY <1>3, <1>4 DEF WorkInv, Apart
<1>14. OnceOnStacks'
  BY <1>7 DEF WorkInv, OnceOnStacks
<1>15. OnceInQueues'
  BY <1>9, <1>13 DEF WorkInv, OnceInQueues
<1>16. Apart'
  BY <1>1, <1>7, <1>9, <1>12, <1>13 DEF WorkInv, Apart
<1>17. Somewhere'
  <2> SUFFICES ASSUME NEW j \in Item
               PROVE  \/ j \in waiting' \/ executed'[j] = 1
                      \/ \E u \in Thread : \E n \in DOMAIN stack'[u] : stack'[u][n].item = j
                      \/ \E u \in Thread : \E n \in DOMAIN deferred'[u] : deferred'[u][n] = j
    BY DEF Somewhere
  <2>1. CASE j = i
    BY <2>1, <1>5, <1>11
  <2>2. CASE j # i /\ \E u \in Thread : \E n \in DOMAIN stack[u] : stack[u][n].item = j
    BY <2>2, <1>4, <1>8
  <2>3. CASE \E u \in Thread : \E n \in DOMAIN deferred[u] : deferred[u][n] = j
    BY <2>3, <1>10
  <2> QED BY <2>1, <2>2, <2>3, <1>1 DEF WorkInv, Somewhere
<1>18. WorkCounted'
  BY <1>1 DEF WorkInv, WorkCounted
<1> QED BY <1>6, <1>14, <1>15, <1>16, <1>17, <1>18 DEF WorkInv, WorkBounds

\* The first item of a thread's queue is handed to the thread again.
LEMMA ReplayKeeps ==
  ASSUME WorkInv, NEW t \in Thread, Replay(t)
  PROVE  WorkInv'
<1> DEFINE i == Head(deferred[t])
<1>1. /\ deferred[t] # <<>> /\ Push(t, i)
      /\ deferred' = [deferred EXCEPT ![t] = Tail(deferred[t])]
      /\ UNCHANGED <<path, waiting, outstanding, holder, executed>>
  BY DEF Replay
<1>2. /\ deferred[t] \in Seq(Item) /\ deferred \in [Thread -> Seq(Item)]
      /\ Len(deferred[t]) \in Nat /\ DOMAIN deferred[t] = 1 .. Len(deferred[t])
  BY StackType DEF WorkInv, WorkTyped
<1>3. /\ Len(deferred[t]) >= 1 /\ i = deferred[t][1] /\ i \in Item
      /\ deferred' \in [Thread -> Seq(Item)] /\ DOMAIN deferred'[t] = 1 .. Len(deferred[t]) - 1
      /\ \A n \in 1 .. Len(deferred[t]) - 1 : deferred'[t][n] = deferred[t][n + 1]
      /\ \A u \in Thread \ {t} : deferred'[u] = deferred[u]
  <2>1. /\ Len(deferred[t]) >= 1 /\ i = deferred[t][1] /\ i \in Item
        /\ Tail(deferred[t]) \in Seq(Item) /\ Len(Tail(deferred[t])) = Len(deferred[t]) - 1
        /\ \A n \in 1 .. Len(deferred[t]) - 1 : Tail(deferred[t])[n] = deferred[t][n + 1]
    BY <1>1, <1>2, HeadTailProperties, EmptySeq
  <2>2. DOMAIN Tail(deferred[t]) = 1 .. Len(deferred[t]) - 1
    BY <2>1, LenProperties
  <2> QED BY <2>1, <2>2, <1>1, <1>2
<1>4. PICK last :
        /\ stack' \in [Thread -> Seq(Frame)]
        /\ DOMAIN stack'[t] = DOMAIN stack[t] \cup {last} /\ last \notin DOMAIN stack[t]
        /\ stack'[t][last].item = i
        /\ \A n \in DOMAIN stack[t] : stack'[t][n] = stack[t][n]
        /\ \A u \in Thread \ {t} : stack'[u] = stack[u]
  BY <1>1, <1>3, Pushed DEF WorkInv
<1>5. WorkTyped'
  BY <1>1, <1>3, <1>4 DEF WorkInv, WorkTyped
<1>6. \A u \in Thread : \A n \in DOMAIN stack'[u] :
        \/ u = t /\ n = last /\ stack'[u][n].item = i
        \/ n \in DOMAIN stack[u] /\ stack'[u][n] = stack[u][n]
  BY <1>4
<1>7. \A u \in Thread : \A n \in DOMAIN stack[u] :
        n \in DOMAIN stack'[u] /\ stack'[u][n] = stack[u][n]
  BY <1>4
<1>8. last \in DOMAIN stack'[t]
  BY <1>4
<1> DEFINE old(u, n) == IF u = t THEN n + 1 ELSE n
<1>9. \A u \in Thread : \A n \in DOMAIN deferred'[u] :
        /\ old(u, n) \in DOMAIN deferred[u] /\ deferred'[u][n] = deferred[u][old(u, n)]
        /\ n \in Int /\ (u = t => old(u, n) # 1)
  <2> SUFFICES ASSUME NEW u \in Thread, NEW n \in DOMAIN deferred'[u]
               PROVE  /\ old(u, n) \in DOMAIN deferred[u]
                      /\ deferred'[u][n] = deferred[u][old(u, n)]
                      /\ n \in Int /\ (u = t => old(u, n) # 1)
    OBVIOUS
  <2>1. CASE u = t
    BY <2>1, <1>2, <1>3
  <2>2. CASE u # t
    BY <2>2, <1>3
  <2> QED BY <2>1, <2>2
<1>10. \A u \in Thread : \A n \in DOMAIN deferred[u] :
         \/ u = t /\ n = 1
         \/ \E k \in DOMAIN deferred'[u] : deferred'[u][k] = deferred[u][n]
  <2> SUFFICES ASSUME NEW u \in Thread, NEW n \in DOMAIN deferred[u], u # t \/ n # 1
               PROVE  \E k \in DOMAIN deferred'[u] : deferred'[u][k] = deferred[u][n]
    OBVIOUS
  <2>1. CASE u # t
    BY <2>1, <1>3
  <2>2. CASE u = t
    <3>1. n - 1 \in DOMAIN deferred'[t] /\ n - 1 \in 1 .. Len(deferred[t]) - 1 /\ (n - 1) + 1 = n
      BY <2>2, <1>2, <1>3
    <3> QED BY <3>1, <2>2, <1>3
  <2> QED BY <2>1, <2>2
<1>11. 1 \in DOMAIN deferred[t]
  BY <1>2, <1>3
<1> HIDE DEF i
<1>12. \A u \in Thread : \A n \in DOMAIN deferred'[u] : deferred'[u][n] # i
  BY <1>3, <1>9, <1>11 DEF WorkInv, OnceInQueues
<1>13. /\ i \notin waiting /\ executed[i] = 0
       /\ \A u \in Thread : \A n \in DOMAIN stack[u] : stack[u][n].item # i
  BY <1>3, <1>11 DEF WorkInv, Apart
<1>14. OnceOnStacks'
  BY <1>6, <1>13 DEF WorkInv, OnceOnStacks
<1>15. OnceInQueues'
  <2> SUFFICES ASSUME NEW u \in Thread, NEW v \in Thread,
                      NEW n \in DOMAIN deferred'[u], NEW k \in DOMAIN deferred'[v],
                      deferred'[u][n] = deferred'[v][k]
               PROVE  u = v /\ n = k
    BY DEF OnceInQueues
  <2>1. u = v /\ old(u, n) = old(v, k)
    BY <1>9 DEF WorkInv, OnceInQueues
  <2> QED BY <2>1, <1>9
<1> HIDE DEF old
<1>16. Apart'
  BY <1>1, <1>6, <1>9, <1>12, <1>13 DEF WorkInv, Apart
<1>17. Somewhere'
  <2> SUFFICES ASSUME NEW j \in Item
               PROVE  \/ j \in waiting' \/ executed'[j] = 1
                      \/ \E u \in Thread : \E n \in DOMAIN stack'[u] : stack'[u][n].item = j
                      \/ \E u \in Thread : \E n \in DOMAIN deferred'[u] : deferred'[u][n] = j
    BY DEF Somewhere
  <2>1. CASE j = i
    BY <2>1, <1>4, <1>8
  <2>2. CASE \E u \in Thread : \E n \in DOMAIN stack[u] : stack[u][n].item = j
    BY <2>2, <1>7
  <2>3. CASE j # i /\ \E u \in Thread : \E n \in DOMAIN deferred[u] : deferred[u][n] = j
    BY <2>3, <1>3, <1>10
  <2> QED BY <2>1, <2>2, <2>3, <1>1 DEF WorkInv, Somewhere
<1>18. WorkCounted'
  BY <1>1 DEF WorkInv, WorkCounted
<1> QED BY <1>5, <1>14, <1>15, <1>16, <1>17, <1>18 DEF WorkInv, WorkBounds

\* Every step keeps the invariant.
LEMMA WorkStepKeeps == WorkInv /\ [Next]_vars => WorkInv'
<1> SUFFICES ASSUME WorkInv, [Next]_vars PROVE WorkInv'
  OBVIOUS
<1>1. CASE Calls
  BY <1>1, HandOutKeeps DEF Calls, Call
<1>2. CASE Pumps
  BY <1>2, HandOutKeeps DEF Pumps, Pump
<1>3. ASSUME NEW t \in Thread, Runs(t) PROVE WorkInv'
  <2>1. /\ holder \in [Path -> Thread \cup {None}]
        /\ [holder EXCEPT ![path[Top(t).item]] = None] \in [Path -> Thread \cup {None}]
        /\ [holder EXCEPT ![path[Top(t).item]] = t] \in [Path -> Thread \cup {None}]
    BY DEF WorkInv, WorkTyped
  <2>2. CASE NoHandler(t)
    BY <2>1, <2>2, ExecutedKeeps DEF NoHandler, At
  <2>3. CASE Acquire(t)
    BY <2>1, <2>3, RelabelKeeps DEF Acquire, At
  <2>4. CASE Defer(t)
    BY <2>4, DeferKeeps
  <2>5. CASE Occupied(t)
    BY <2>1, <2>5, ExecutedKeeps DEF Occupied, At, Release
  <2>6. CASE StartRead(t)
    BY <2>1, <2>6, RelabelKeeps DEF StartRead, At, Release
  <2>7. CASE Finish(t)
    BY <2>1, <2>7, ExecutedKeeps DEF Finish, At
  <2>8. CASE Replay(t)
    BY <2>8, ReplayKeeps
  <2> QED BY <1>3, <2>2, <2>3, <2>4, <2>5, <2>6, <2>7, <2>8 DEF Runs
<1>4. CASE UNCHANGED vars
  BY <1>4 DEF vars, WorkInv, WorkBounds, WorkTyped, OnceOnStacks, OnceInQueues, Apart, Somewhere, WorkCounted
<1> QED BY <1>1, <1>2, <1>3, <1>4 DEF Next

\* The inductive invariant holds.
LEMMA WorkInvariant == WorkBounds /\ Spec => []WorkInv
<1>1. WorkBounds /\ Init => WorkInv
  BY WorkInitEstablishes
<1>2. WorkInv /\ [Next]_vars => WorkInv'
  BY WorkStepKeeps
<1> QED BY <1>1, <1>2, PTL DEF Spec

-----------------------------------------------------------------------------
(* Theorems *)

\* Items on a stack or in a queue are different, so there are no more of them than
\* items.
LEMMA Short ==
  ASSUME WorkInv, NEW t \in Thread
  PROVE  Len(stack[t]) <= Cardinality(Item) /\ Len(deferred[t]) <= Cardinality(Item)
<1>1. /\ IsFiniteSet(Item) /\ Len(stack[t]) \in Nat /\ Len(deferred[t]) \in Nat
      /\ \A n \in DOMAIN stack[t] : stack[t][n].item \in Item
      /\ \A n \in DOMAIN deferred[t] : deferred[t][n] \in Item
  BY StackType DEF WorkInv, WorkBounds
<1>2. Len(stack[t]) <= Cardinality(Item)
  <2> DEFINE f == [n \in DOMAIN stack[t] |-> stack[t][n].item]
  <2>1. f \in [DOMAIN stack[t] -> Item]
    BY <1>1
  <2>2. \A n, k \in DOMAIN stack[t] : f[n] = f[k] => n = k
    BY DEF WorkInv, OnceOnStacks
  <2>3. f \in Injection(DOMAIN stack[t], Item)
    BY <2>1, <2>2 DEF Injection, IsInjective
  <2> HIDE DEF f
  <2>4. Cardinality(DOMAIN stack[t]) <= Cardinality(Item)
    BY <2>3, <1>1, FS_Injection
  <2>5. Cardinality(DOMAIN stack[t]) = Len(stack[t])
    <3>1. DOMAIN stack[t] = 1 .. Len(stack[t]) /\ Len(stack[t]) \in Nat
      BY StackType DEF WorkInv
    <3>2. Cardinality(1 .. Len(stack[t])) = Len(stack[t])
      BY <3>1, FS_Interval
    <3> QED BY <3>1, <3>2
  <2> QED BY <2>4, <2>5
<1>3. Len(deferred[t]) <= Cardinality(Item)
  <2> DEFINE f == [n \in DOMAIN deferred[t] |-> deferred[t][n]]
  <2>1. f \in [DOMAIN deferred[t] -> Item]
    BY <1>1
  <2>2. \A n, k \in DOMAIN deferred[t] : f[n] = f[k] => n = k
    BY DEF WorkInv, OnceInQueues
  <2>3. f \in Injection(DOMAIN deferred[t], Item)
    BY <2>1, <2>2 DEF Injection, IsInjective
  <2> HIDE DEF f
  <2>4. Cardinality(DOMAIN deferred[t]) <= Cardinality(Item)
    BY <2>3, <1>1, FS_Injection
  <2>5. Cardinality(DOMAIN deferred[t]) = Len(deferred[t])
    <3>1. DOMAIN deferred[t] = 1 .. Len(deferred[t]) /\ Len(deferred[t]) \in Nat
      BY StackType DEF WorkInv
    <3>2. Cardinality(1 .. Len(deferred[t])) = Len(deferred[t])
      BY <3>1, FS_Interval
    <3> QED BY <3>1, <3>2
  <2> QED BY <2>4, <2>5
<1> QED BY <1>2, <1>3

\* An item is in exactly one place.
LEMMA Places ==
  ASSUME WorkInv, NEW i \in Item
  PROVE  (IF i \in waiting THEN 1 ELSE 0) + Cardinality(OnStack(i)) + Cardinality(InQueue(i))
           + executed[i] = 1
<1>1. \A t \in Thread : /\ \A n \in DOMAIN stack[t] : n \in 1 .. Cardinality(Item)
                        /\ \A n \in DOMAIN deferred[t] : n \in 1 .. Cardinality(Item)
  <2> SUFFICES ASSUME NEW t \in Thread
               PROVE  /\ \A n \in DOMAIN stack[t] : n \in 1 .. Cardinality(Item)
                      /\ \A n \in DOMAIN deferred[t] : n \in 1 .. Cardinality(Item)
    OBVIOUS
  <2>1. /\ Len(stack[t]) <= Cardinality(Item) /\ Len(deferred[t]) <= Cardinality(Item)
        /\ Len(stack[t]) \in Nat /\ Len(deferred[t]) \in Nat
    BY Short, StackType DEF WorkInv
  <2>2. Cardinality(Item) \in Nat
    BY FS_CardinalityType DEF WorkInv, WorkBounds
  <2> QED BY <2>1, <2>2
<1>2. Cardinality({}) = 0 /\ \A x : Cardinality({x}) = 1
  BY FS_EmptySet, FS_Singleton
<1>3. \A t \in Thread : Len(stack[t]) \in Nat /\ Len(deferred[t]) \in Nat
  BY StackType DEF WorkInv
<1>4. OnStack(i) = {} \/ \E t \in Thread : \E n \in DOMAIN stack[t] :
                           stack[t][n].item = i /\ OnStack(i) = {<<t, n>>}
  <2>1. CASE \E t \in Thread : \E n \in DOMAIN stack[t] : stack[t][n].item = i
    <3> PICK t \in Thread : \E n \in DOMAIN stack[t] : stack[t][n].item = i
      BY <2>1
    <3>1. PICK n \in DOMAIN stack[t] : stack[t][n].item = i
      OBVIOUS
    <3>2. <<t, n>> \in OnStack(i)
      BY <3>1, <1>1, <1>3 DEF OnStack
    <3>3. ASSUME NEW s \in OnStack(i) PROVE s = <<t, n>>
      <4>1. /\ s \in Thread \X (1 .. Cardinality(Item)) /\ s[1] \in Thread
            /\ s[2] \in 1 .. Len(stack[s[1]]) /\ stack[s[1]][s[2]].item = i
        BY <1>3 DEF OnStack
      <4>2. s[1] = t /\ s[2] = n
        BY <4>1, <3>1 DEF WorkInv, OnceOnStacks
      <4> QED BY <4>1, <4>2
    <3>4. OnStack(i) = {<<t, n>>}
      BY <3>2, <3>3
    <3> QED BY <3>1, <3>4
  <2>2. CASE ~ \E t \in Thread : \E n \in DOMAIN stack[t] : stack[t][n].item = i
    BY <2>2, <1>3 DEF OnStack
  <2> QED BY <2>1, <2>2
<1>5. InQueue(i) = {} \/ \E t \in Thread : \E n \in DOMAIN deferred[t] :
                           deferred[t][n] = i /\ InQueue(i) = {<<t, n>>}
  <2>1. CASE \E t \in Thread : \E n \in DOMAIN deferred[t] : deferred[t][n] = i
    <3> PICK t \in Thread : \E n \in DOMAIN deferred[t] : deferred[t][n] = i
      BY <2>1
    <3>1. PICK n \in DOMAIN deferred[t] : deferred[t][n] = i
      OBVIOUS
    <3>2. <<t, n>> \in InQueue(i)
      BY <3>1, <1>1, <1>3 DEF InQueue
    <3>3. ASSUME NEW s \in InQueue(i) PROVE s = <<t, n>>
      <4>1. /\ s \in Thread \X (1 .. Cardinality(Item)) /\ s[1] \in Thread
            /\ s[2] \in 1 .. Len(deferred[s[1]]) /\ deferred[s[1]][s[2]] = i
        BY <1>3 DEF InQueue
      <4>2. s[1] = t /\ s[2] = n
        BY <4>1, <3>1 DEF WorkInv, OnceInQueues
      <4> QED BY <4>1, <4>2
    <3>4. InQueue(i) = {<<t, n>>}
      BY <3>2, <3>3
    <3> QED BY <3>1, <3>4
  <2>2. CASE ~ \E t \in Thread : \E n \in DOMAIN deferred[t] : deferred[t][n] = i
    BY <2>2, <1>3 DEF InQueue
  <2> QED BY <2>1, <2>2
<1>6. executed[i] \in {0, 1}
  BY DEF WorkInv, WorkTyped
<1>7. \A t \in Thread : \A n \in DOMAIN stack[t] : stack[t][n].item = i => <<t, n>> \in OnStack(i)
  BY <1>1, <1>3 DEF OnStack
<1>8. \A t \in Thread : \A n \in DOMAIN deferred[t] : deferred[t][n] = i => <<t, n>> \in InQueue(i)
  BY <1>1, <1>3 DEF InQueue
<1>9. CASE OnStack(i) # {}
  <2>1. Cardinality(OnStack(i)) = 1
    BY <1>9, <1>2, <1>4
  <2>2. i \notin waiting /\ executed[i] = 0
    BY <1>9, <1>4 DEF WorkInv, Apart
  <2>3. InQueue(i) = {}
    BY <1>9, <1>4, <1>5 DEF WorkInv, Apart
  <2> QED BY <2>1, <2>2, <2>3, <1>2
<1>10. CASE OnStack(i) = {} /\ InQueue(i) # {}
  <2>1. Cardinality(InQueue(i)) = 1
    BY <1>10, <1>2, <1>5
  <2>2. i \notin waiting /\ executed[i] = 0
    BY <1>10, <1>5 DEF WorkInv, Apart
  <2> QED BY <2>1, <2>2, <1>10, <1>2
<1>11. CASE OnStack(i) = {} /\ InQueue(i) = {}
  <2>1. i \in waiting \/ executed[i] = 1
    BY <1>11, <1>7, <1>8 DEF WorkInv, Somewhere
  <2> QED BY <2>1, <1>2, <1>6, <1>11 DEF WorkInv, Apart
<1> QED BY <1>9, <1>10, <1>11

\* However the threads that run precache jobs interleave and nest, an item is handed out,
\* handled, deferred or done, in one of these places only, is executed at most once, and
\* the engine counts the work that is left (R1ClientVPKAsyncPrecacheWorker).
THEOREM WorkIsConserved ==
  ASSUME WorkBounds
  PROVE  Spec => []WorkConserved
<1>1. WorkInv => WorkConserved
  BY Places DEF WorkConserved, WorkInv, WorkCounted
<1> QED BY <1>1, WorkInvariant, PTL

\* Every variable of VpkPrecache keeps its type, and the engine's count stays between
\* zero and the number of items.
THEOREM WorkTypes ==
  ASSUME WorkBounds
  PROVE  Spec => []TypeOK
<1>1. WorkInv => TypeOK
  <2> SUFFICES ASSUME WorkInv PROVE TypeOK
    OBVIOUS
  <2>1. outstanding \in 0 .. Cardinality(Item)
    <3> DEFINE S == {i \in Item : executed[i] = 0}
    <3>1. IsFiniteSet(Item) /\ S \in SUBSET Item /\ outstanding = Cardinality(S)
      BY DEF WorkInv, WorkBounds, WorkCounted
    <3> HIDE DEF S
    <3>2. /\ Cardinality(S) <= Cardinality(Item)
          /\ Cardinality(S) \in Nat /\ Cardinality(Item) \in Nat
      BY <3>1, FS_Subset, FS_CardinalityType
    <3> QED BY <3>1, <3>2
  <2>2. \A t \in Thread : ToSet(deferred[t]) \subseteq Item
    <3> SUFFICES ASSUME NEW t \in Thread PROVE ToSet(deferred[t]) \subseteq Item
      OBVIOUS
    <3>1. deferred[t] \in Seq(Item)
      BY StackType DEF WorkInv
    <3> QED BY <3>1, ElementOfSeq, LenProperties DEF ToSet
  <2> QED BY <2>1, <2>2 DEF WorkInv, WorkTyped, TypeOK
<1> QED BY <1>1, WorkInvariant, PTL

-----------------------------------------------------------------------------
(* FileCache *)

\* Who scans.
Party == Thread \cup {Cache!Scanner}

\* Where a thread or the scanner can be.
CacheLabels == {"idle", "gone", "start", "begin", "updating", "scan", "watch", "ending"}

\* What a scan remembers of its beginning.
Scans == [root : Root \cup {Cache!None, Cache!Default}, disk : Nat, generation : Nat, back : CacheLabels \ {"scan", "ending"}]

\* The root a scan would use now.
CurrentRoot == IF addonRoot = Cache!None THEN Cache!Default ELSE addonRoot

-----------------------------------------------------------------------------
(* The inductive invariant *)

CacheTyped ==
  /\ initialized \in BOOLEAN /\ unavailable \in BOOLEAN
  /\ generation \in Nat /\ updateDepth \in Nat /\ published \in Nat /\ disk \in Nat
  /\ snapshot \in [root : Root \cup {Cache!None, Cache!Default}, disk : Nat]
  /\ addonRoot \in Root \cup {Cache!None}
  /\ place \in [Party -> CacheLabels]
  /\ scan \in [Party -> Scans]
  /\ target \in [Thread -> Nat] /\ since \in [Thread -> Nat]

\* Generations and disks that somebody remembers have been reached.
CachePast ==
  /\ published <= generation
  /\ \A u \in Party : place[u] = "scan" => scan[u].generation <= generation /\ scan[u].disk <= disk
  /\ \A t \in Thread : place[t] = "ending" => target[t] <= generation /\ since[t] <= disk

\* A scan that began with the generation an update ended with, or a later one,
\* began after that end.
ScansAfterEnd ==
  \A t \in Thread, u \in Party :
    place[t] = "ending" /\ place[u] = "scan" /\ scan[u].generation >= target[t] =>
         scan[u].disk >= since[t]

\* Once the generation an update ended with is published, the snapshot has what the disk
\* had then.
CacheBarrier == \A t \in Thread : place[t] = "ending" /\ published >= target[t] => snapshot.disk >= since[t]

\* Outside updates, a scan that may still be published is one of the current root.
ScansCurrentRoot ==
  \A u \in Party :
    place[u] = "scan" /\ Cache!CanPublish(scan[u].generation) => scan[u].root = CurrentRoot

\* A snapshot that may be used is of the current root.
RootCurrent ==
  initialized /\ ~ unavailable /\ Cache!CanPublish(published) => snapshot.root = CurrentRoot

CacheInv == CacheTyped /\ CachePast /\ ScansAfterEnd /\ CacheBarrier /\ ScansCurrentRoot /\ RootCurrent

LEMMA NoScanType == \A n \in Nat : Cache!NoScan \in Scans /\ [Cache!NoScan EXCEPT !.generation = n] \in Scans
BY DEF Cache!NoScan, Scans, CacheLabels

LEMMA CacheInitEstablishes == Cache!Init => CacheInv
<1> SUFFICES ASSUME Cache!Init PROVE CacheInv
  OBVIOUS
<1>1. \A u \in Party : place[u] \in {"idle", "gone", "start"}
  BY DEF Cache!Init, Party
<1>2. CacheTyped
  <2>1. place \in [Party -> CacheLabels]
    BY DEF Cache!Init, Party, CacheLabels
  <2>2. scan \in [Party -> Scans]
    BY NoScanType DEF Cache!Init, Party
  <2> QED BY <2>1, <2>2 DEF CacheTyped, Cache!Init, Cache!Nothing
<1>3. ~ (initialized /\ ~ unavailable)
  BY DEF Cache!Init
<1>4. \A t \in Thread : place[t] # "ending"
  BY <1>1 DEF Party
<1>5. published <= generation
  BY DEF Cache!Init
<1> QED BY <1>1, <1>2, <1>3, <1>4, <1>5
           DEF CacheInv, CachePast, ScansAfterEnd, CacheBarrier, ScansCurrentRoot, RootCurrent

-----------------------------------------------------------------------------
(* Steps *)

\* Nothing is published, no scan and no end begins, and the root only changes with
\* the generation.
LEMMA Quiet ==
  ASSUME CacheInv, CacheTyped', UNCHANGED <<published, snapshot>>,
         initialized' = initialized \/ unavailable', unavailable => unavailable',
         generation' >= generation, disk' >= disk,
         updateDepth' = 0 => updateDepth = 0 \/ generation' > generation,
         addonRoot' = addonRoot \/ generation' > generation,
         \A u \in Party : place'[u] = "scan" => place[u] = "scan" /\ scan'[u] = scan[u],
         \A t \in Thread : place'[t] = "ending" =>
           place[t] = "ending" /\ target'[t] = target[t] /\ since'[t] = since[t]
  PROVE  CacheInv'
<1> USE DEF CacheInv
<1>0. \A t \in Thread : t \in Party
  BY DEF Party
<1>1. CachePast'
  <2>1. ASSUME NEW u \in Party, place'[u] = "scan"
        PROVE  scan'[u].generation <= generation' /\ scan'[u].disk <= disk'
    BY <2>1 DEF CacheTyped, CachePast, Scans
  <2>2. ASSUME NEW t \in Thread, place'[t] = "ending"
        PROVE  target'[t] <= generation' /\ since'[t] <= disk'
    BY <2>2 DEF CacheTyped, CachePast
  <2>3. published' <= generation'
    BY DEF CacheTyped, CachePast
  <2> QED BY <2>1, <2>2, <2>3 DEF CachePast
<1>2. ScansAfterEnd'
  BY DEF ScansAfterEnd
<1>3. CacheBarrier'
  BY DEF CacheBarrier
<1>4. CASE generation' > generation
  <2>1. published' # generation' /\ \A u \in Party : place'[u] = "scan" => scan'[u].generation # generation'
    BY <1>4 DEF CachePast, CacheTyped, Scans
  <2> QED BY <1>1, <1>2, <1>3, <2>1 DEF ScansCurrentRoot, RootCurrent, Cache!CanPublish
<1>5. CASE ~ (generation' > generation)
  <2>1. generation' = generation /\ addonRoot' = addonRoot /\ (updateDepth' = 0 => updateDepth = 0)
    BY <1>5 DEF CacheTyped
  <2>2. CurrentRoot' = CurrentRoot
    BY <2>1 DEF CurrentRoot
  <2> QED BY <1>1, <1>2, <1>3, <2>1, <2>2
             DEF ScansCurrentRoot, RootCurrent, Cache!CanPublish, Cache!IsSuspended, CacheTyped
<1> QED BY <1>4, <1>5

\* Somebody goes on to a place that is neither a scan nor an end.
LEMMA Moves ==
  ASSUME CacheInv, NEW u \in Party, NEW label \in CacheLabels \ {"scan", "ending"}, Cache!Goto(u, label)
  PROVE  /\ place' \in [Party -> CacheLabels] /\ place'[u] = label
         /\ \A x \in Party : x # u => place'[x] = place[x]
         /\ \A x \in Party : place'[x] = "scan" => place[x] = "scan"
         /\ \A t \in Thread : place'[t] = "ending" => place[t] = "ending"
BY DEF CacheInv, CacheTyped, Cache!Goto, Party

\* A scan is over without a trace.
LEMMA Forgets ==
  ASSUME CacheInv, NEW u \in Party, NEW s \in Scans, scan' = [scan EXCEPT ![u] = s]
  PROVE  scan' \in [Party -> Scans] /\ \A x \in Party : x # u => scan'[x] = scan[x]
BY DEF CacheInv, CacheTyped

\* A scan begins, with the generation and the disk as they are.
LEMMA Begins ==
  ASSUME CacheInv, NEW u \in Party, NEW s \in Scans, s.generation = generation, s.disk = disk,
         place' = [place EXCEPT ![u] = "scan"], scan' = [scan EXCEPT ![u] = s],
         UNCHANGED <<Cache!cacheVars, Cache!rescanState, disk, Cache!ends>>, addonRoot' \in Root \cup {Cache!None},
         Cache!IsSuspended \/ (addonRoot' = addonRoot /\ s.root = CurrentRoot)
  PROVE  CacheInv'
<1> USE DEF CacheInv
<1>1. /\ place'[u] = "scan" /\ scan'[u] = s
      /\ \A x \in Party : x # u => place'[x] = place[x] /\ scan'[x] = scan[x]
      /\ \A t \in Thread : t \in Party
      /\ \A t \in Thread : place'[t] = "ending" => place[t] = "ending"
  BY DEF CacheTyped, Party
<1>2. CacheTyped'
  <2>1. place' \in [Party -> CacheLabels] /\ scan' \in [Party -> Scans]
    BY DEF CacheTyped, CacheLabels
  <2> QED BY <2>1 DEF CacheTyped, Cache!cacheVars, Cache!rescanState, Cache!ends
<1>3. CachePast'
  BY <1>1 DEF CachePast, CacheTyped, Cache!cacheVars, Cache!rescanState, Cache!ends
<1>4. ScansAfterEnd'
  <2> SUFFICES ASSUME NEW t \in Thread, NEW x \in Party, place[t] = "ending", place'[x] = "scan",
                      scan'[x].generation >= target[t], place'[t] = "ending"
               PROVE  scan'[x].disk >= since[t]
    BY <1>1 DEF ScansAfterEnd, Cache!ends
  <2>1. CASE x = u
    BY <1>1, <2>1 DEF CachePast, CacheTyped
  <2>2. CASE x # u
    BY <1>1, <2>2 DEF ScansAfterEnd
  <2> QED BY <2>1, <2>2
<1>5. CacheBarrier'
  BY <1>1 DEF CacheBarrier, Cache!cacheVars, Cache!ends
<1>6. CASE Cache!IsSuspended
  <2>1. Cache!IsSuspended'
    BY <1>6 DEF Cache!IsSuspended, Cache!rescanState
  <2> QED BY <1>2, <1>3, <1>4, <1>5, <2>1 DEF ScansCurrentRoot, RootCurrent, Cache!CanPublish
<1>7. CASE ~ Cache!IsSuspended
  <2>1. addonRoot' = addonRoot /\ s.root = CurrentRoot /\ CurrentRoot' = CurrentRoot
    BY <1>7 DEF CurrentRoot
  <2>2. \A g : Cache!CanPublish(g)' <=> Cache!CanPublish(g)
    BY DEF Cache!CanPublish, Cache!IsSuspended, Cache!rescanState
  <2>3. ScansCurrentRoot'
    BY <1>1, <2>1 DEF ScansCurrentRoot, Cache!CanPublish, Cache!IsSuspended, Cache!rescanState
  <2>4. RootCurrent'
    BY <2>1 DEF RootCurrent, Cache!CanPublish, Cache!IsSuspended, Cache!rescanState, Cache!cacheVars
  <2> QED BY <1>2, <1>3, <1>4, <1>5, <2>3, <2>4
<1> QED BY <1>6, <1>7

\* A scan of the current generation is published.
LEMMA Publishes ==
  ASSUME CacheInv, NEW u \in Party, place[u] = "scan", scan[u].generation = generation,
         Cache!CommitSnapshot(u), NEW label \in CacheLabels \ {"scan", "ending"}, Cache!Goto(u, label),
         NEW s \in Scans, scan' = [scan EXCEPT ![u] = s],
         UNCHANGED <<unavailable, Cache!rescanState, addonRoot, disk, Cache!ends>>
  PROVE  CacheInv'
<1> USE DEF CacheInv
<1>1. /\ snapshot' = [root |-> scan[u].root, disk |-> scan[u].disk]
      /\ published' = generation /\ initialized' = TRUE
  BY DEF Cache!CommitSnapshot
<1>2. /\ place' \in [Party -> CacheLabels] /\ place'[u] = label
      /\ \A x \in Party : x # u => place'[x] = place[x]
      /\ \A x \in Party : place'[x] = "scan" => place[x] = "scan" /\ x # u
      /\ \A t \in Thread : place'[t] = "ending" => place[t] = "ending"
  BY Moves
<1>3. scan' \in [Party -> Scans] /\ \A x \in Party : x # u => scan'[x] = scan[x]
  BY Forgets
<1>4. scan[u] \in Scans
  BY DEF CacheTyped
<1>5. CacheTyped'
  BY <1>1, <1>2, <1>3, <1>4 DEF CacheTyped, Scans, Cache!rescanState, Cache!ends
<1>6. CachePast'
  BY <1>1, <1>2, <1>3 DEF CachePast, CacheTyped, Cache!rescanState, Cache!ends
<1>7. ScansAfterEnd'
  BY <1>2, <1>3 DEF ScansAfterEnd, Cache!ends
<1>8. CacheBarrier'
  <2> SUFFICES ASSUME NEW t \in Thread, place[t] = "ending" PROVE scan[u].disk >= since[t]
    BY <1>1, <1>2 DEF CacheBarrier, Cache!ends
  <2>1. scan[u].generation >= target[t]
    BY DEF CachePast, CacheTyped
  <2> QED BY <2>1 DEF ScansAfterEnd
<1>9. CurrentRoot' = CurrentRoot
  BY DEF CurrentRoot
<1>10. ScansCurrentRoot'
  BY <1>2, <1>3, <1>9 DEF ScansCurrentRoot, Cache!CanPublish, Cache!IsSuspended, Cache!rescanState
<1>11. RootCurrent'
  BY <1>1, <1>9 DEF RootCurrent, ScansCurrentRoot, Cache!CanPublish, Cache!IsSuspended, Cache!rescanState
<1> QED BY <1>5, <1>6, <1>7, <1>8, <1>10, <1>11

-----------------------------------------------------------------------------
(* The scanner *)

LEMMA SleepsKeeps ==
  ASSUME CacheInv, NEW t \in Party, NEW label, NEW condition \in BOOLEAN, Cache!Sleeps(t, label, condition)
  PROVE  CacheInv'
<1>1. UNCHANGED <<Cache!cacheVars, Cache!rescanState, addonRoot, disk, place, scan, Cache!ends>>
  BY DEF Cache!Sleeps
<1>2. generation' >= generation /\ disk' >= disk
  BY <1>1 DEF CacheInv, CacheTyped, Cache!rescanState
<1>3. CacheTyped'
  BY <1>1 DEF CacheInv, CacheTyped, Cache!cacheVars, Cache!rescanState, Cache!ends
<1> QED BY <1>1, <1>2, <1>3, Quiet DEF Cache!cacheVars, Cache!rescanState, Cache!ends

LEMMA StartScanKeeps == CacheInv /\ Cache!StartScan => CacheInv'
<1> SUFFICES ASSUME CacheInv, Cache!StartScan PROVE CacheInv'
  OBVIOUS
<1> DEFINE s == [root |-> IF addonRoot = Cache!None THEN Cache!Default ELSE addonRoot, disk |-> disk,
                 generation |-> generation, back |-> "start"]
<1>1. Cache!Scanner \in Party /\ s \in Scans /\ s.root = CurrentRoot /\ s.disk = disk /\ s.generation = generation
  BY DEF Party, Scans, CacheLabels, CurrentRoot, CacheInv, CacheTyped
<1>2. /\ place' = [place EXCEPT ![Cache!Scanner] = "scan"] /\ scan' = [scan EXCEPT ![Cache!Scanner] = s]
      /\ UNCHANGED <<Cache!cacheVars, Cache!rescanState, addonRoot, disk, Cache!ends>>
  BY DEF Cache!StartScan, Cache!Goto
<1>3. addonRoot' \in Root \cup {Cache!None}
  BY <1>2 DEF CacheInv, CacheTyped
<1> HIDE DEF s
<1> QED BY <1>1, <1>2, <1>3, Begins

LEMMA GiveUpKeeps == CacheInv /\ Cache!GiveUp => CacheInv'
<1> SUFFICES ASSUME CacheInv, Cache!GiveUp PROVE CacheInv'
  OBVIOUS
<1>1. /\ Cache!Goto(Cache!Scanner, "gone") /\ unavailable' = TRUE /\ initialized' = TRUE
      /\ UNCHANGED <<published, snapshot, Cache!rescanState, addonRoot, disk, scan, Cache!ends>>
  BY DEF Cache!GiveUp
<1>2. Cache!Scanner \in Party /\ "gone" \in CacheLabels \ {"scan", "ending"}
  BY DEF Party, CacheLabels
<1>3. /\ place' \in [Party -> CacheLabels]
      /\ \A x \in Party : place'[x] = "scan" => place[x] = "scan"
      /\ \A t \in Thread : place'[t] = "ending" => place[t] = "ending"
  BY <1>1, <1>2, Moves
<1>4. CacheTyped' /\ generation' >= generation /\ disk' >= disk
  BY <1>1, <1>3 DEF CacheInv, CacheTyped, Cache!rescanState, Cache!ends
<1> QED BY <1>1, <1>3, <1>4, Quiet DEF Cache!rescanState, Cache!ends

LEMMA EndScanKeeps == CacheInv /\ Cache!EndScan => CacheInv'
<1> SUFFICES ASSUME CacheInv, Cache!EndScan PROVE CacheInv'
  OBVIOUS
<1> DEFINE s == [Cache!NoScan EXCEPT !.generation = scan[Cache!Scanner].generation]
<1>1. Cache!Scanner \in Party /\ {"watch", "start"} \subseteq CacheLabels \ {"scan", "ending"}
  BY DEF Party, CacheLabels
<1>2. s \in Scans
  BY <1>1, NoScanType DEF CacheInv, CacheTyped, Scans
<1>3. /\ place[Cache!Scanner] = "scan" /\ scan' = [scan EXCEPT ![Cache!Scanner] = s]
      /\ UNCHANGED <<unavailable, Cache!rescanState, addonRoot, disk, Cache!ends>>
  BY DEF Cache!EndScan, Cache!At
<1>4. CASE Cache!CanPublish(scan[Cache!Scanner].generation)
  <2>1. Cache!CommitSnapshot(Cache!Scanner) /\ Cache!Goto(Cache!Scanner, "watch") /\ scan[Cache!Scanner].generation = generation
    BY <1>4 DEF Cache!EndScan, Cache!CanPublish
  <2> HIDE DEF s
  <2> QED BY <1>1, <1>2, <1>3, <2>1, Publishes
<1>5. CASE ~ Cache!CanPublish(scan[Cache!Scanner].generation)
  <2>1. Cache!Goto(Cache!Scanner, "start") /\ UNCHANGED <<initialized, published, snapshot>>
    BY <1>5 DEF Cache!EndScan
  <2>2. /\ place' \in [Party -> CacheLabels] /\ place'[Cache!Scanner] = "start"
        /\ \A x \in Party : place'[x] = "scan" => place[x] = "scan"
        /\ \A t \in Thread : place'[t] = "ending" => place[t] = "ending"
    BY <1>1, <2>1, Moves
  <2> HIDE DEF s
  <2>3. scan' \in [Party -> Scans] /\ \A x \in Party : x # Cache!Scanner => scan'[x] = scan[x]
    BY <1>1, <1>2, <1>3, Forgets
  <2>4. \A x \in Party : place'[x] = "scan" => place[x] = "scan" /\ scan'[x] = scan[x]
    BY <2>2, <2>3
  <2>5. CacheTyped' /\ generation' >= generation /\ disk' >= disk
    BY <1>3, <2>1, <2>2, <2>3 DEF CacheInv, CacheTyped, Cache!rescanState, Cache!ends
  <2> QED BY <1>3, <2>1, <2>2, <2>4, <2>5, Quiet DEF Cache!rescanState, Cache!ends
<1> QED BY <1>4, <1>5

LEMMA RescanKeeps == CacheInv /\ Cache!Rescan => CacheInv'
<1> SUFFICES ASSUME CacheInv, Cache!Rescan PROVE CacheInv'
  OBVIOUS
<1>1. /\ Cache!Goto(Cache!Scanner, "start") /\ scan' = [scan EXCEPT ![Cache!Scanner] = Cache!NoScan]
      /\ UNCHANGED <<Cache!cacheVars, Cache!rescanState, addonRoot, disk, Cache!ends>>
  BY DEF Cache!Rescan
<1>2. Cache!Scanner \in Party /\ "start" \in CacheLabels \ {"scan", "ending"} /\ Cache!NoScan \in Scans
  BY NoScanType DEF Party, CacheLabels
<1>3. /\ place' \in [Party -> CacheLabels] /\ place'[Cache!Scanner] = "start"
      /\ \A x \in Party : place'[x] = "scan" => place[x] = "scan"
      /\ \A t \in Thread : place'[t] = "ending" => place[t] = "ending"
  BY <1>1, <1>2, Moves
<1>4. scan' \in [Party -> Scans] /\ \A x \in Party : x # Cache!Scanner => scan'[x] = scan[x]
  BY <1>1, <1>2, Forgets
<1>5. \A x \in Party : place'[x] = "scan" => place[x] = "scan" /\ scan'[x] = scan[x]
  BY <1>3, <1>4
<1>6. CacheTyped' /\ generation' >= generation /\ disk' >= disk
  BY <1>1, <1>3, <1>4 DEF CacheInv, CacheTyped, Cache!cacheVars, Cache!rescanState, Cache!ends
<1> QED BY <1>1, <1>3, <1>5, <1>6, Quiet DEF Cache!cacheVars, Cache!rescanState, Cache!ends

-----------------------------------------------------------------------------
(* Threads *)

LEMMA UpdateBeginsKeeps ==
  ASSUME CacheInv, NEW t \in Thread, Cache!EngineUpdate(t) \/ Cache!DirectUpdate(t)
  PROVE  CacheInv'
<1>1. Cache!Goto(t, "begin") /\ UNCHANGED <<Cache!cacheVars, Cache!rescanState, addonRoot, disk, scan, Cache!ends>>
  BY DEF Cache!EngineUpdate, Cache!DirectUpdate
<1>2. t \in Party /\ "begin" \in CacheLabels \ {"scan", "ending"}
  BY DEF Party, CacheLabels
<1>3. /\ place' \in [Party -> CacheLabels]
      /\ \A x \in Party : place'[x] = "scan" => place[x] = "scan"
      /\ \A x \in Thread : place'[x] = "ending" => place[x] = "ending"
  BY <1>1, <1>2, Moves
<1>4. CacheTyped' /\ generation' >= generation /\ disk' >= disk
  BY <1>1, <1>3 DEF CacheInv, CacheTyped, Cache!cacheVars, Cache!rescanState, Cache!ends
<1> QED BY <1>1, <1>3, <1>4, Quiet DEF Cache!cacheVars, Cache!rescanState, Cache!ends

LEMMA BeginKeeps ==
  ASSUME CacheInv, NEW t \in Thread, Cache!Begin(t)
  PROVE  CacheInv'
<1>1. /\ Cache!Goto(t, "updating") /\ generation' = generation + 1 /\ updateDepth' = updateDepth + 1
      /\ UNCHANGED <<Cache!cacheVars, addonRoot, disk, scan, Cache!ends>>
  BY DEF Cache!Begin
<1>2. t \in Party /\ "updating" \in CacheLabels \ {"scan", "ending"}
  BY DEF Party, CacheLabels
<1>3. /\ place' \in [Party -> CacheLabels]
      /\ \A x \in Party : place'[x] = "scan" => place[x] = "scan"
      /\ \A x \in Thread : place'[x] = "ending" => place[x] = "ending"
  BY <1>1, <1>2, Moves
<1>4. CacheTyped' /\ generation' > generation /\ generation' >= generation /\ disk' >= disk
  BY <1>1, <1>3 DEF CacheInv, CacheTyped, Cache!cacheVars, Cache!ends
<1> QED BY <1>1, <1>3, <1>4, Quiet DEF Cache!cacheVars, Cache!ends

LEMMA PublishScansKeeps ==
  ASSUME CacheInv, NEW t \in Thread, NEW root \in Root, Cache!PublishScans(t, root)
  PROVE  CacheInv'
<1> DEFINE s == [root |-> root, disk |-> disk, generation |-> generation, back |-> place[t]]
<1>1. /\ place[t] \in {"updating", "idle"} /\ Cache!IsSuspended /\ addonRoot' = root
      /\ place' = [place EXCEPT ![t] = "scan"] /\ scan' = [scan EXCEPT ![t] = s]
      /\ UNCHANGED <<Cache!cacheVars, Cache!rescanState, disk, Cache!ends>>
  BY DEF Cache!PublishScans, Cache!At, Cache!Goto
<1>2. t \in Party /\ s \in Scans /\ s.disk = disk /\ s.generation = generation
  BY <1>1 DEF Party, Scans, CacheLabels, CacheInv, CacheTyped
<1>3. addonRoot' \in Root \cup {Cache!None}
  BY <1>1
<1> HIDE DEF s
<1> QED BY <1>1, <1>2, <1>3, Begins

LEMMA RequestKeeps ==
  ASSUME CacheInv,
         Cache!RequestManualRescan \/ \E t \in Thread, root \in Root : Cache!PublishRequests(t, root)
  PROVE  CacheInv'
<1>1. /\ generation' = generation + 1 /\ addonRoot' \in Root \cup {Cache!None}
      /\ UNCHANGED <<Cache!cacheVars, updateDepth, disk, place, scan, Cache!ends>>
  BY DEF Cache!RequestManualRescan, Cache!PublishRequests, CacheInv, CacheTyped
<1>2. CacheTyped' /\ generation' > generation /\ generation' >= generation /\ disk' >= disk
  BY <1>1 DEF CacheInv, CacheTyped, Cache!cacheVars, Cache!ends
<1> QED BY <1>1, <1>2, Quiet DEF Cache!cacheVars, Cache!ends

LEMMA PublishCommitsKeeps ==
  ASSUME CacheInv, NEW t \in Thread, Cache!PublishCommits(t)
  PROVE  CacheInv'
<1>1. /\ place[t] = "scan" /\ Cache!Goto(t, scan[t].back) /\ scan' = [scan EXCEPT ![t] = Cache!NoScan]
      /\ UNCHANGED <<unavailable, Cache!rescanState, addonRoot, disk, Cache!ends>>
  BY DEF Cache!PublishCommits, Cache!At
<1>2. t \in Party /\ scan[t].back \in CacheLabels \ {"scan", "ending"} /\ Cache!NoScan \in Scans
  BY NoScanType DEF Party, Scans, CacheInv, CacheTyped
<1>3. CASE Cache!IsSuspended /\ generation = scan[t].generation
  <2>1. Cache!CommitSnapshot(t)
    BY <1>3 DEF Cache!PublishCommits
  <2> QED BY <1>1, <1>2, <1>3, <2>1, Publishes
<1>4. CASE ~ (Cache!IsSuspended /\ generation = scan[t].generation)
  <2>1. UNCHANGED <<initialized, published, snapshot>>
    BY <1>4 DEF Cache!PublishCommits
  <2>2. /\ place' \in [Party -> CacheLabels] /\ place'[t] = scan[t].back
        /\ \A x \in Party : place'[x] = "scan" => place[x] = "scan"
        /\ \A x \in Thread : place'[x] = "ending" => place[x] = "ending"
    BY <1>1, <1>2, Moves
  <2>3. scan' \in [Party -> Scans] /\ \A x \in Party : x # t => scan'[x] = scan[x]
    BY <1>1, <1>2, Forgets
  <2>4. \A x \in Party : place'[x] = "scan" => place[x] = "scan" /\ scan'[x] = scan[x]
    BY <1>2, <2>2, <2>3
  <2>5. CacheTyped' /\ generation' >= generation /\ disk' >= disk
    BY <1>1, <2>1, <2>2, <2>3 DEF CacheInv, CacheTyped, Cache!rescanState, Cache!ends
  <2> QED BY <1>1, <2>1, <2>2, <2>4, <2>5, Quiet DEF Cache!rescanState, Cache!ends
<1> QED BY <1>3, <1>4

LEMMA EndNestedKeeps ==
  ASSUME CacheInv, NEW t \in Thread, Cache!EndNested(t)
  PROVE  CacheInv'
<1>1. /\ updateDepth > 1 /\ updateDepth' = updateDepth - 1
      /\ place' = place \/ Cache!Goto(t, "idle")
      /\ UNCHANGED <<Cache!cacheVars, generation, addonRoot, disk, scan, Cache!ends>>
  BY DEF Cache!EndNested
<1>2. t \in Party /\ "idle" \in CacheLabels \ {"scan", "ending"}
  BY DEF Party, CacheLabels
<1>3. /\ place' \in [Party -> CacheLabels]
      /\ \A x \in Party : place'[x] = "scan" => place[x] = "scan"
      /\ \A x \in Thread : place'[x] = "ending" => place[x] = "ending"
  BY <1>1, <1>2, Moves DEF CacheInv, CacheTyped
<1>4. CacheTyped' /\ generation' >= generation /\ disk' >= disk /\ updateDepth' # 0
  BY <1>1, <1>3 DEF CacheInv, CacheTyped, Cache!cacheVars, Cache!ends
<1> QED BY <1>1, <1>3, <1>4, Quiet DEF Cache!cacheVars, Cache!ends

\* The end of the outermost update is later than everything published and scanned.
LEMMA EndOutermostKeeps ==
  ASSUME CacheInv, NEW t \in Thread, Cache!EndOutermost(t)
  PROVE  CacheInv'
<1> USE DEF CacheInv
<1>1. /\ place[t] = "updating" /\ updateDepth' = 0 /\ generation' = generation + 1
      /\ target' = [target EXCEPT ![t] = generation + 1] /\ since' = [since EXCEPT ![t] = disk]
      /\ place' = [place EXCEPT ![t] = "ending"] /\ UNCHANGED <<Cache!cacheVars, addonRoot, disk, scan>>
  BY DEF Cache!EndOutermost, Cache!At, Cache!Goto
<1>2. /\ target'[t] = generation + 1 /\ since'[t] = disk
      /\ \A x \in Thread : x # t => target'[x] = target[x] /\ since'[x] = since[x] /\ place'[x] = place[x]
      /\ \A x \in Party : place'[x] = "scan" => place[x] = "scan"
  BY <1>1 DEF CacheTyped, Party
<1>3. CacheTyped'
  <2>1. place' \in [Party -> CacheLabels]
    BY <1>1 DEF CacheTyped, CacheLabels
  <2> QED BY <1>1, <2>1 DEF CacheTyped, Cache!cacheVars
<1>4. CachePast'
  <2>1. published' <= generation'
    BY <1>1 DEF CachePast, CacheTyped, Cache!cacheVars
  <2>2. ASSUME NEW u \in Party, place'[u] = "scan"
        PROVE  scan'[u].generation <= generation' /\ scan'[u].disk <= disk'
    BY <1>1, <1>2, <2>2 DEF CachePast, CacheTyped, Scans
  <2>3. ASSUME NEW x \in Thread, place'[x] = "ending"
        PROVE  target'[x] <= generation' /\ since'[x] <= disk'
    BY <1>1, <1>2, <2>3 DEF CachePast, CacheTyped
  <2> QED BY <2>1, <2>2, <2>3 DEF CachePast
<1>5. \A u \in Party : place'[u] = "scan" => scan[u].generation < generation + 1
  BY <1>2 DEF CachePast, CacheTyped, Scans
<1>6. published < generation + 1
  BY DEF CachePast, CacheTyped
<1>7. ScansAfterEnd'
  <2> SUFFICES ASSUME NEW x \in Thread, NEW u \in Party, place'[x] = "ending", place'[u] = "scan",
                      scan[u].generation >= target'[x]
               PROVE  scan[u].disk >= since'[x]
    BY <1>1 DEF ScansAfterEnd
  <2>1. x # t
    BY <1>2, <1>5 DEF CacheTyped, Scans
  <2> QED BY <1>2, <2>1 DEF ScansAfterEnd
<1>8. CacheBarrier'
  <2> SUFFICES ASSUME NEW x \in Thread, place'[x] = "ending", published >= target'[x]
               PROVE  snapshot.disk >= since'[x]
    BY <1>1 DEF CacheBarrier, Cache!cacheVars
  <2>1. x # t
    BY <1>2, <1>6 DEF CacheTyped
  <2> QED BY <1>2, <2>1 DEF CacheBarrier
<1>9. ScansCurrentRoot' /\ RootCurrent'
  <2>1. \A u \in Party : place'[u] = "scan" => scan'[u].generation # generation'
    BY <1>1, <1>5 DEF CacheTyped, Scans
  <2>2. published' # generation'
    BY <1>1, <1>6 DEF CacheTyped, Cache!cacheVars
  <2> QED BY <2>1, <2>2 DEF ScansCurrentRoot, RootCurrent, Cache!CanPublish
<1> QED BY <1>3, <1>4, <1>7, <1>8, <1>9

LEMMA EndReturnsKeeps ==
  ASSUME CacheInv, NEW t \in Thread, Cache!EndReturns(t)
  PROVE  CacheInv'
<1>1. /\ Cache!Goto(t, "idle") /\ UNCHANGED <<Cache!cacheVars, Cache!rescanState, addonRoot, disk, scan>>
      /\ target' = [target EXCEPT ![t] = 0] /\ since' = [since EXCEPT ![t] = 0]
  BY DEF Cache!EndReturns
<1>2. t \in Party /\ "idle" \in CacheLabels \ {"scan", "ending"}
  BY DEF Party, CacheLabels
<1>3. /\ place' \in [Party -> CacheLabels] /\ place'[t] = "idle"
      /\ \A x \in Party : place'[x] = "scan" => place[x] = "scan"
      /\ \A x \in Thread : place'[x] = "ending" => place[x] = "ending"
  BY <1>1, <1>2, Moves
<1>4. \A x \in Thread : place'[x] = "ending" => target'[x] = target[x] /\ since'[x] = since[x]
  BY <1>1, <1>3 DEF CacheInv, CacheTyped
<1>5. CacheTyped' /\ generation' >= generation /\ disk' >= disk
  BY <1>1, <1>3 DEF CacheInv, CacheTyped, Cache!cacheVars, Cache!rescanState
<1> QED BY <1>1, <1>3, <1>4, <1>5, Quiet DEF Cache!cacheVars, Cache!rescanState

LEMMA ChangeKeeps == CacheInv /\ Cache!Change => CacheInv'
<1> SUFFICES ASSUME CacheInv, Cache!Change PROVE CacheInv'
  OBVIOUS
<1>1. disk' = disk + 1 /\ UNCHANGED <<Cache!cacheVars, Cache!rescanState, addonRoot, place, scan, Cache!ends>>
  BY DEF Cache!Change
<1>2. CacheTyped' /\ generation' >= generation /\ disk' >= disk
  BY <1>1 DEF CacheInv, CacheTyped, Cache!cacheVars, Cache!rescanState, Cache!ends
<1> QED BY <1>1, <1>2, Quiet DEF Cache!cacheVars, Cache!rescanState, Cache!ends

-----------------------------------------------------------------------------
(* Theorems *)

LEMMA CacheStepKeeps == CacheInv /\ [Cache!Next]_(Cache!vars) => CacheInv'
<1> SUFFICES ASSUME CacheInv, [Cache!Next]_(Cache!vars) PROVE CacheInv'
  OBVIOUS
<1>1. CASE Cache!ScannerStep
  <2>1. CASE Cache!ScannerSuspended \/ Cache!ScannerWatches
    <3>1. Cache!Scanner \in Party
      BY DEF Party
    <3>2. (~ Cache!IsSuspended) \in BOOLEAN /\ (~ Cache!CanPublish(scan[Cache!Scanner].generation)) \in BOOLEAN
      OBVIOUS
    <3> QED BY <2>1, <3>1, <3>2, SleepsKeeps DEF Cache!ScannerSuspended, Cache!ScannerWatches
  <2> QED BY <1>1, <2>1, StartScanKeeps, EndScanKeeps, RescanKeeps DEF Cache!ScannerStep
<1>2. ASSUME NEW t \in Thread, Cache!Updates(t) PROVE CacheInv'
  <2>1. CASE Cache!AwaitInitial(t) \/ Cache!AwaitPublication(t)
    <3>1. t \in Party
      BY DEF Party
    <3>2. initialized \in BOOLEAN /\ Cache!Reached(t) \in BOOLEAN
      BY DEF CacheInv, CacheTyped, Cache!Reached
    <3> QED BY <2>1, <3>1, <3>2, SleepsKeeps DEF Cache!AwaitInitial, Cache!AwaitPublication
  <2> QED BY <1>2, <2>1, BeginKeeps, PublishCommitsKeeps, EndNestedKeeps, EndOutermostKeeps,
             EndReturnsKeeps DEF Cache!Updates
<1>3. CASE UNCHANGED Cache!vars
  <2>1. UNCHANGED <<Cache!cacheVars, Cache!rescanState, addonRoot, disk, place, scan, Cache!ends>>
    BY <1>3 DEF Cache!vars
  <2>2. CacheTyped' /\ generation' >= generation /\ disk' >= disk
    BY <2>1 DEF CacheInv, CacheTyped, Cache!cacheVars, Cache!rescanState, Cache!ends
  <2> QED BY <2>1, <2>2, Quiet DEF Cache!cacheVars, Cache!rescanState, Cache!ends
<1> QED BY <1>1, <1>2, <1>3, GiveUpKeeps, RequestKeeps, ChangeKeeps, UpdateBeginsKeeps, PublishScansKeeps
        DEF Cache!Next

\* The inductive invariant holds for any threads, roots and nesting of updates
\* (UpdateCache, BeginAddonSearchPathUpdate, EndAddonSearchPathUpdate).
THEOREM CacheInvariant == Cache!Spec => []CacheInv
<1>1. Cache!Init => CacheInv
  BY CacheInitEstablishes
<1>2. CacheInv /\ [Cache!Next]_(Cache!vars) => CacheInv'
  BY CacheStepKeeps
<1> QED BY <1>1, <1>2, PTL DEF Cache!Spec

\* When EndAddonSearchPathUpdate returns, the snapshot is not older than the end of
\* the update, and a snapshot that stays is that of the current root, for any
\* overlap of updates, publications, requests and scans.
THEOREM BarrierHolds == Cache!Spec => []Cache!SnapshotCurrent
<1>1. CacheInv => Cache!SnapshotCurrent
  BY DEF CacheInv, CacheBarrier, RootCurrent, CurrentRoot, Cache!SnapshotCurrent
<1> QED BY <1>1, CacheInvariant, PTL
-----------------------------------------------------------------------------
(* Types and bounds *)

\* An update can begin, and the scanner is none of the threads that begin one.
CacheBounds ==
  /\ MaxChanges \in Nat /\ MaxUpdates \in Nat /\ MaxDepth \in Nat \ {0}
  /\ Cache!Scanner \notin Thread

\* How many updates a thread that is, or will be back, at a label may have begun.
Nests(n, label) ==
  /\ label \in {"idle", "begin", "ending"} => n = 0
  /\ label = "updating" => n >= 1

\* Every begun update and every request counts, and a generation is one of their
\* beginnings or ends.
CacheCounts ==
  /\ updates \in 0 .. MaxUpdates
  /\ updateDepth <= updates /\ generation + updateDepth <= 2 * updates
  /\ disk <= MaxChanges /\ snapshot.disk <= disk
  /\ mutex \in Thread \cup {Cache!None} /\ asleep \subseteq Party
  /\ nest \in [Thread -> 0 .. MaxDepth]
  /\ \A t \in Thread : Nests(nest[t], place[t])
  /\ \A t \in Thread : place[t] = "scan" => scan[t].back \in {"idle", "updating"} /\ Nests(nest[t], scan[t].back)

\* A step without a commit, in which a thread neither begins nor ends an update.
LEMMA CacheCountsKept ==
  ASSUME CacheBounds, CacheInv, CacheCounts, UNCHANGED <<snapshot, nest>>,
         updates' \in 0 .. MaxUpdates, updateDepth' <= updates', generation' + updateDepth' <= 2 * updates',
         disk' <= MaxChanges, disk' \in Nat, disk' >= disk,
         mutex' \in Thread \cup {Cache!None}, asleep' \subseteq Party,
         \A t \in Thread : Nests(nest[t], place'[t]),
         \A t \in Thread : place'[t] = "scan" =>
           scan'[t].back \in {"idle", "updating"} /\ Nests(nest[t], scan'[t].back)
  PROVE  CacheCounts'
<1>1. snapshot'.disk <= disk'
  BY DEF CacheCounts, CacheInv, CacheTyped
<1> QED BY <1>1 DEF CacheCounts, Nests

\* What the scanner and the disk do.
LEMMA ScannerKeepsCounts ==
  ASSUME CacheBounds, CacheInv, CacheCounts,
         Cache!ScannerStep \/ Cache!GiveUp \/ Cache!RequestManualRescan \/ Cache!Change \/ UNCHANGED Cache!vars
  PROVE  CacheCounts'
<1> USE DEF CacheInv
<1>1. /\ \A t \in Thread : t # Cache!Scanner /\ t \in Party
      /\ place \in [Party -> CacheLabels] /\ scan \in [Party -> Scans] /\ Cache!Scanner \in Party
      /\ disk \in Nat /\ generation \in Nat /\ updateDepth \in Nat /\ updates \in Nat /\ updates <= MaxUpdates
      /\ MaxUpdates \in Nat /\ MaxChanges \in Nat /\ disk <= MaxChanges
      /\ updateDepth <= updates /\ generation + updateDepth <= 2 * updates
      /\ mutex \in Thread \cup {Cache!None} /\ asleep \subseteq Party
  BY DEF CacheBounds, CacheTyped, Party, CacheCounts
<1>2. ASSUME UNCHANGED <<snapshot, nest, mutex>>, asleep' \subseteq Party,
             \/ UNCHANGED <<updates, disk, generation, updateDepth>>
             \/ updates < MaxUpdates /\ updates' = updates + 1 /\ generation' = generation + 1
                /\ UNCHANGED <<disk, updateDepth>>
             \/ disk < MaxChanges /\ disk' = disk + 1 /\ UNCHANGED <<updates, generation, updateDepth>>,
             \A t \in Thread : place'[t] = place[t] /\ scan'[t] = scan[t]
      PROVE  CacheCounts'
  <2>1. /\ updates' \in 0 .. MaxUpdates /\ updateDepth' <= updates'
        /\ generation' + updateDepth' <= 2 * updates'
        /\ disk' <= MaxChanges /\ disk' \in Nat /\ disk' >= disk
    BY <1>1, <1>2
  <2>2. /\ \A t \in Thread : Nests(nest[t], place'[t])
        /\ \A t \in Thread : place'[t] = "scan" =>
             scan'[t].back \in {"idle", "updating"} /\ Nests(nest[t], scan'[t].back)
    BY <1>2 DEF CacheCounts
  <2> QED BY <1>1, <1>2, <2>1, <2>2, CacheCountsKept
<1>3. CASE Cache!ScannerSuspended \/ Cache!ScannerWatches
  <2>1. /\ UNCHANGED <<Cache!cacheVars, Cache!rescanState, addonRoot, disk, mutex, place, nest, scan, Cache!ends, updates>>
        /\ asleep' = asleep \cup {Cache!Scanner}
    BY <1>3 DEF Cache!ScannerSuspended, Cache!ScannerWatches, Cache!Sleeps
  <2> QED BY <1>1, <1>2, <2>1 DEF Cache!cacheVars, Cache!rescanState
<1>4. CASE Cache!StartScan \/ Cache!Rescan
  <2>1. /\ UNCHANGED <<Cache!cacheVars, Cache!rescanState, addonRoot, disk, mutex, nest, Cache!ends, asleep, updates>>
        /\ \E label : Cache!Goto(Cache!Scanner, label)
        /\ \E s : scan' = [scan EXCEPT ![Cache!Scanner] = s]
    BY <1>4 DEF Cache!StartScan, Cache!Rescan
  <2>2. \A t \in Thread : place'[t] = place[t] /\ scan'[t] = scan[t]
    BY <1>1, <2>1 DEF Cache!Goto
  <2> QED BY <1>1, <1>2, <2>1, <2>2 DEF Cache!cacheVars, Cache!rescanState
<1>5. CASE Cache!GiveUp
  <2>1. /\ UNCHANGED <<published, snapshot, Cache!rescanState, addonRoot, disk, mutex, nest, scan, Cache!ends, updates>>
        /\ Cache!Goto(Cache!Scanner, "gone") /\ asleep' = {}
    BY <1>5 DEF Cache!GiveUp, Cache!WakeAll
  <2>2. \A t \in Thread : place'[t] = place[t] /\ scan'[t] = scan[t]
    BY <1>1, <2>1 DEF Cache!Goto
  <2> QED BY <1>1, <1>2, <2>1, <2>2 DEF Cache!rescanState
<1>6. CASE Cache!EndScan
  <2>1. /\ UNCHANGED <<unavailable, Cache!rescanState, addonRoot, disk, mutex, nest, Cache!ends, updates>>
        /\ \E label : Cache!Goto(Cache!Scanner, label)
        /\ \E s : scan' = [scan EXCEPT ![Cache!Scanner] = s]
        /\ asleep' = asleep \/ asleep' = {}
        /\ place[Cache!Scanner] = "scan"
        /\ snapshot' = snapshot \/ snapshot' = [root |-> scan[Cache!Scanner].root, disk |-> scan[Cache!Scanner].disk]
    BY <1>6 DEF Cache!EndScan, Cache!CommitSnapshot, Cache!WakeAll, Cache!At
  <2>2. \A t \in Thread : place'[t] = place[t] /\ scan'[t] = scan[t]
    BY <1>1, <2>1 DEF Cache!Goto
  <2>3. snapshot'.disk <= disk
    BY <1>1, <2>1 DEF CachePast, CacheCounts
  <2>4. /\ \A t \in Thread : Nests(nest[t], place'[t])
        /\ \A t \in Thread : place'[t] = "scan" =>
             scan'[t].back \in {"idle", "updating"} /\ Nests(nest[t], scan'[t].back)
    BY <2>2 DEF CacheCounts
  <2> QED BY <1>1, <2>1, <2>3, <2>4 DEF CacheCounts, Nests, Cache!rescanState
<1>7. CASE Cache!RequestManualRescan \/ Cache!Change \/ UNCHANGED Cache!vars
  <2>1. UNCHANGED <<snapshot, nest, mutex, place, scan>> /\ (asleep' = asleep \/ asleep' = {})
    BY <1>7 DEF Cache!RequestManualRescan, Cache!Change, Cache!vars, Cache!cacheVars, Cache!WakeAll
  <2>2. \/ UNCHANGED <<updates, disk, generation, updateDepth>>
        \/ updates < MaxUpdates /\ updates' = updates + 1 /\ generation' = generation + 1
           /\ UNCHANGED <<disk, updateDepth>>
        \/ disk < MaxChanges /\ disk' = disk + 1 /\ UNCHANGED <<updates, generation, updateDepth>>
    BY <1>7 DEF Cache!RequestManualRescan, Cache!Change, Cache!vars, Cache!rescanState
  <2> QED BY <1>1, <1>2, <2>1, <2>2
<1> QED BY <1>3, <1>4, <1>5, <1>6, <1>7 DEF Cache!ScannerStep

\* A step of a thread: at most its own place, scan and nesting change.
LEMMA CountsGoOn ==
  ASSUME CacheBounds, CacheInv, CacheCounts, NEW t \in Thread, NEW n \in 0 .. MaxDepth,
         nest' = [nest EXCEPT ![t] = n], disk' = disk, snapshot'.disk <= disk,
         updates' \in 0 .. MaxUpdates, updateDepth' <= updates', generation' + updateDepth' <= 2 * updates',
         mutex' \in Thread \cup {Cache!None}, asleep' \subseteq Party,
         \A u \in Thread \ {t} : place'[u] = place[u] /\ scan'[u] = scan[u],
         Nests(n, place'[t]),
         place'[t] = "scan" => scan'[t].back \in {"idle", "updating"} /\ Nests(n, scan'[t].back)
  PROVE  CacheCounts'
<1>1. nest' \in [Thread -> 0 .. MaxDepth] /\ nest'[t] = n /\ \A u \in Thread \ {t} : nest'[u] = nest[u]
  BY DEF CacheCounts
<1>2. \A u \in Thread : Nests(nest'[u], place'[u])
  BY <1>1 DEF CacheCounts
<1>3. \A u \in Thread : place'[u] = "scan" =>
        scan'[u].back \in {"idle", "updating"} /\ Nests(nest'[u], scan'[u].back)
  BY <1>1 DEF CacheCounts
<1> QED BY <1>1, <1>2, <1>3 DEF CacheCounts, Nests

\* What a thread does that changes search paths.
LEMMA ThreadKeepsCounts ==
  ASSUME CacheBounds, CacheInv, CacheCounts, NEW t \in Thread,
         \/ Cache!Updates(t) \/ Cache!EngineUpdate(t) \/ Cache!DirectUpdate(t)
         \/ \E root \in Root : Cache!PublishScans(t, root) \/ Cache!PublishRequests(t, root)
  PROVE  CacheCounts'
<1> USE DEF CacheInv
<1>1. /\ t # Cache!Scanner /\ \A u \in Thread : u \in Party
      /\ place \in [Party -> CacheLabels] /\ scan \in [Party -> Scans]
      /\ disk \in Nat /\ generation \in Nat /\ updateDepth \in Nat /\ updates \in Nat /\ updates <= MaxUpdates
      /\ MaxUpdates \in Nat /\ MaxDepth \in Nat \ {0}
      /\ updateDepth <= updates /\ generation + updateDepth <= 2 * updates
      /\ mutex \in Thread \cup {Cache!None} /\ asleep \subseteq Party
      /\ nest \in [Thread -> 0 .. MaxDepth] /\ nest[t] \in 0 .. MaxDepth
      /\ updates \in 0 .. MaxUpdates /\ snapshot.disk <= disk
  BY DEF CacheBounds, CacheTyped, Party, CacheCounts
<1>2. /\ Nests(nest[t], place[t])
      /\ place[t] = "scan" => scan[t].back \in {"idle", "updating"} /\ Nests(nest[t], scan[t].back)
  BY DEF CacheCounts
<1>3. \A label : Cache!Goto(t, label) => place'[t] = label /\ \A u \in Thread \ {t} : place'[u] = place[u]
  BY <1>1 DEF Cache!Goto
<1>4. \A s : scan' = [scan EXCEPT ![t] = s] => scan'[t] = s /\ \A u \in Thread \ {t} : scan'[u] = scan[u]
  BY <1>1
<1>5. nest' = nest => nest' = [nest EXCEPT ![t] = nest[t]]
  BY <1>1
<1>6. CASE Cache!AwaitInitial(t) \/ Cache!AwaitPublication(t)
  <2>1. /\ UNCHANGED <<Cache!cacheVars, Cache!rescanState, addonRoot, disk, mutex, place, nest, scan, Cache!ends, updates>>
        /\ asleep' = asleep \cup {t}
    BY <1>6 DEF Cache!AwaitInitial, Cache!AwaitPublication, Cache!Sleeps
  <2> QED BY <1>1, <1>2, <1>5, <2>1, CountsGoOn DEF Cache!cacheVars, Cache!rescanState
<1>7. CASE Cache!EngineUpdate(t) \/ Cache!DirectUpdate(t)
  <2>1. /\ UNCHANGED <<Cache!cacheVars, Cache!rescanState, addonRoot, disk, nest, scan, Cache!ends, asleep, updates>>
        /\ mutex' \in {mutex, t} /\ place[t] = "idle" /\ Cache!Goto(t, "begin")
    BY <1>7 DEF Cache!EngineUpdate, Cache!DirectUpdate, Cache!At
  <2>2. Nests(nest[t], "begin")
    BY <1>2, <2>1 DEF Nests
  <2> QED BY <1>1, <1>3, <1>5, <2>1, <2>2, CountsGoOn DEF Cache!cacheVars, Cache!rescanState
<1>8. CASE Cache!Begin(t)
  <2>1. /\ place[t] = "begin" \/ (place[t] = "updating" /\ nest[t] < MaxDepth)
        /\ updates < MaxUpdates /\ updates' = updates + 1 /\ updateDepth' = updateDepth + 1
        /\ generation' = generation + 1 /\ nest' = [nest EXCEPT ![t] = nest[t] + 1]
        /\ Cache!Goto(t, "updating") /\ asleep' = {}
        /\ UNCHANGED <<Cache!cacheVars, addonRoot, disk, mutex, scan, Cache!ends>>
    BY <1>8 DEF Cache!Begin, Cache!At, Cache!WakeAll
  <2> DEFINE n == nest[t] + 1
  <2>2. n \in 0 .. MaxDepth /\ Nests(n, "updating")
    BY <1>1, <1>2, <2>1 DEF Nests
  <2>3. /\ updates' \in 0 .. MaxUpdates /\ updateDepth' <= updates'
        /\ generation' + updateDepth' <= 2 * updates'
    BY <1>1, <2>1
  <2>4. /\ nest' = [nest EXCEPT ![t] = n] /\ disk' = disk /\ snapshot'.disk <= disk
        /\ mutex' \in Thread \cup {Cache!None} /\ asleep' \subseteq Party
    BY <1>1, <2>1 DEF Cache!cacheVars
  <2>5. place'[t] = "updating" /\ \A u \in Thread \ {t} : place'[u] = place[u] /\ scan'[u] = scan[u]
    BY <1>3, <2>1
  <2>6. Nests(n, place'[t]) /\ place'[t] # "scan"
    BY <2>2, <2>5
  <2> HIDE DEF n
  <2> QED BY <2>2, <2>3, <2>4, <2>5, <2>6, CountsGoOn
<1>9. ASSUME NEW root \in Root, Cache!PublishScans(t, root)
      PROVE  CacheCounts'
  <2>1. /\ place[t] \in {"updating", "idle"} /\ Cache!Goto(t, "scan")
        /\ scan' = [scan EXCEPT ![t] = [root |-> root, disk |-> disk, generation |-> generation,
                                        back |-> place[t]]]
        /\ UNCHANGED <<Cache!cacheVars, Cache!rescanState, disk, mutex, nest, Cache!ends, asleep, updates>>
    BY <1>9 DEF Cache!PublishScans, Cache!At
  <2>2. scan'[t].back = place[t] /\ \A u \in Thread \ {t} : scan'[u] = scan[u]
    BY <1>4, <2>1
  <2>3. Nests(nest[t], "scan")
    BY DEF Nests
  <2> QED BY <1>1, <1>2, <1>3, <1>5, <2>1, <2>2, <2>3, CountsGoOn DEF Cache!cacheVars, Cache!rescanState
<1>10. ASSUME NEW root \in Root, Cache!PublishRequests(t, root)
       PROVE  CacheCounts'
  <2>1. /\ updates < MaxUpdates /\ updates' = updates + 1 /\ generation' = generation + 1 /\ asleep' = {}
        /\ UNCHANGED <<Cache!cacheVars, updateDepth, disk, mutex, place, nest, scan, Cache!ends>>
    BY <1>10 DEF Cache!PublishRequests, Cache!WakeAll
  <2>2. /\ updates' \in 0 .. MaxUpdates /\ updateDepth' <= updates'
        /\ generation' + updateDepth' <= 2 * updates'
    BY <1>1, <2>1
  <2> QED BY <1>1, <1>2, <1>5, <2>1, <2>2, CountsGoOn DEF Cache!cacheVars
<1>11. CASE Cache!PublishCommits(t)
  <2>1. /\ place[t] = "scan" /\ Cache!Goto(t, scan[t].back) /\ scan' = [scan EXCEPT ![t] = Cache!NoScan]
        /\ asleep' = asleep \/ asleep' = {}
        /\ snapshot' = snapshot \/ snapshot' = [root |-> scan[t].root, disk |-> scan[t].disk]
        /\ UNCHANGED <<unavailable, Cache!rescanState, addonRoot, disk, mutex, nest, Cache!ends, updates>>
    BY <1>11 DEF Cache!PublishCommits, Cache!CommitSnapshot, Cache!WakeAll, Cache!At
  <2>2. snapshot'.disk <= disk
    BY <1>1, <2>1 DEF CachePast
  <2>3. place'[t] # "scan" /\ Nests(nest[t], place'[t])
    BY <1>2, <1>3, <2>1
  <2> QED BY <1>1, <1>3, <1>4, <1>5, <2>1, <2>2, <2>3, CountsGoOn DEF Cache!rescanState
<1>12. CASE Cache!EndNested(t)
  <2>1. /\ place[t] = "updating" /\ updateDepth > 1 /\ updateDepth' = updateDepth - 1
        /\ nest' = [nest EXCEPT ![t] = nest[t] - 1] /\ asleep' = {}
        /\ IF nest[t] = 1 THEN Cache!Goto(t, "idle") /\ Cache!Unlock(t) ELSE UNCHANGED <<place, mutex>>
        /\ UNCHANGED <<Cache!cacheVars, generation, addonRoot, disk, scan, Cache!ends, updates>>
    BY <1>12 DEF Cache!EndNested, Cache!At, Cache!WakeAll
  <2>2. nest[t] \in Nat /\ nest[t] >= 1 /\ nest[t] - 1 \in 0 .. MaxDepth
    BY <1>1, <1>2, <2>1 DEF Nests
  <2>3. updateDepth' <= updates' /\ generation' + updateDepth' <= 2 * updates'
    BY <1>1, <2>1
  <2>4. /\ \A u \in Thread \ {t} : place'[u] = place[u]
        /\ place'[t] = IF nest[t] = 1 THEN "idle" ELSE "updating"
        /\ mutex' \in Thread \cup {Cache!None}
    BY <1>1, <1>3, <2>1 DEF Cache!Unlock
  <2>5. Nests(nest[t] - 1, place'[t]) /\ place'[t] # "scan"
    BY <2>2, <2>4 DEF Nests
  <2> QED BY <1>1, <2>1, <2>2, <2>3, <2>4, <2>5, CountsGoOn DEF Cache!cacheVars
<1>13. CASE Cache!EndOutermost(t)
  <2>1. /\ updateDepth = 1 /\ updateDepth' = 0 /\ generation' = generation + 1
        /\ nest' = [nest EXCEPT ![t] = 0] /\ Cache!Goto(t, "ending") /\ asleep' = {}
        /\ UNCHANGED <<Cache!cacheVars, addonRoot, disk, mutex, scan, updates>>
    BY <1>13 DEF Cache!EndOutermost, Cache!WakeAll
  <2>2. updateDepth' <= updates' /\ generation' + updateDepth' <= 2 * updates'
    BY <1>1, <2>1
  <2>3. 0 \in 0 .. MaxDepth /\ Nests(0, "ending")
    BY <1>1 DEF Nests
  <2>4. updates' \in 0 .. MaxUpdates /\ disk' = disk /\ snapshot' = snapshot
    BY <1>1, <2>1 DEF Cache!cacheVars
  <2>5. place'[t] = "ending" /\ \A u \in Thread \ {t} : place'[u] = place[u] /\ scan'[u] = scan[u]
    BY <1>3, <2>1
  <2> QED BY <1>1, <2>1, <2>2, <2>3, <2>4, <2>5, CountsGoOn
<1>14. CASE Cache!EndReturns(t)
  <2>1. /\ place[t] = "ending" /\ Cache!Unlock(t) /\ Cache!Goto(t, "idle")
        /\ UNCHANGED <<Cache!cacheVars, Cache!rescanState, addonRoot, disk, nest, scan, asleep, updates>>
    BY <1>14 DEF Cache!EndReturns, Cache!At
  <2>2. mutex' \in Thread \cup {Cache!None}
    BY <1>1, <2>1 DEF Cache!Unlock
  <2>3. Nests(nest[t], "idle")
    BY <1>2, <2>1 DEF Nests
  <2> QED BY <1>1, <1>3, <1>5, <2>1, <2>2, <2>3, CountsGoOn DEF Cache!cacheVars, Cache!rescanState
<1> QED BY <1>6, <1>7, <1>8, <1>9, <1>10, <1>11, <1>12, <1>13, <1>14 DEF Cache!Updates

\* At first nothing has been updated.
LEMMA CacheInitCounts == CacheBounds /\ Cache!Init => CacheCounts
<1> SUFFICES ASSUME CacheBounds, Cache!Init PROVE CacheCounts
  OBVIOUS
<1>1. 0 \in 0 .. MaxUpdates /\ 0 \in 0 .. MaxDepth /\ 0 <= MaxChanges
  BY DEF CacheBounds
<1>2. \A t \in Thread : place[t] = "idle" /\ nest[t] = 0
  BY DEF Cache!Init, CacheBounds
<1>3. \A t \in Thread : Nests(nest[t], place[t]) /\ place[t] # "scan"
  BY <1>2 DEF Nests
<1>4. snapshot.disk <= disk /\ updateDepth <= updates /\ generation + updateDepth <= 2 * updates
  BY DEF Cache!Init, Cache!Nothing
<1> QED BY <1>1, <1>3, <1>4 DEF Cache!Init, CacheCounts

\* Types and bounds: every update a thread has begun is ended as often
\* (BeginSearchPathUpdate, EndSearchPathUpdate), and generations only come from
\* beginnings, ends and requests.
THEOREM CacheTypes ==
  ASSUME CacheBounds
  PROVE  Cache!Spec => []Cache!TypeOK
<1>1. Cache!Init => CacheCounts
  BY CacheInitCounts
<1>2. CacheInv /\ CacheCounts /\ [Cache!Next]_(Cache!vars) => CacheCounts'
  BY ScannerKeepsCounts, ThreadKeepsCounts DEF Cache!Next
<1>3. CacheInv /\ CacheCounts => Cache!TypeOK
  <2> SUFFICES ASSUME CacheInv, CacheCounts PROVE Cache!TypeOK
    OBVIOUS
  <2> USE DEF CacheInv
  <2>1. /\ generation \in Nat /\ updateDepth \in Nat /\ published \in Nat /\ published <= generation
        /\ MaxUpdates \in Nat /\ updates \in Nat /\ updates <= MaxUpdates
        /\ updateDepth <= updates /\ generation + updateDepth <= 2 * updates
    BY DEF CacheTyped, CachePast, CacheCounts, CacheBounds
  <2>2. generation \in 0 .. 2 * MaxUpdates /\ updateDepth \in 0 .. MaxUpdates /\ published \in 0 .. 2 * MaxUpdates
    BY <2>1
  <2>3. snapshot \in [root : Root \cup {Cache!None, Cache!Default}, disk : 0 .. MaxChanges]
    <3>1. snapshot.disk \in Nat /\ snapshot.disk <= disk /\ disk <= MaxChanges /\ disk \in Nat /\ MaxChanges \in Nat
      BY DEF CacheTyped, CacheCounts, CacheBounds
    <3>2. snapshot.disk \in 0 .. MaxChanges
      BY <3>1
    <3> QED BY <3>2 DEF CacheTyped
  <2> QED BY <2>2, <2>3 DEF CacheTyped, CacheCounts, Party, Cache!TypeOK
<1> QED BY <1>1, <1>2, <1>3, CacheInvariant, PTL DEF Cache!Spec

-----------------------------------------------------------------------------
(* ClientStore *)

\* One file may be damaged: with a second one nothing could be promised.
StoreBounds == MaxVersion \in Nat /\ MaxDamage \in {0, 1} /\ MaxFailures \in Nat /\ MaxCrashes \in Nat

\* Inside SaveStoreNow.
Saving == {"save", "writing", "replace", "move"}

StoreTyped ==
  /\ Store!TypeOK
  /\ dirty \in BOOLEAN /\ quitting \in BOOLEAN /\ harmed \in BOOLEAN /\ rewriting \in BOOLEAN
  /\ damages \in 0 .. MaxDamage
  /\ harmed => damages = 1

\* Nothing is newer than the last change.
StorePast ==
  /\ primary.v <= clock /\ tmp.v <= clock /\ bak.v <= clock /\ profile.v <= clock
  /\ mem <= clock /\ committed <= clock

\* A running game knows at least what was saved.
Knows ==
  /\ previous <= committed
  /\ step # "off" => committed <= mem

\* A save under way has a reason, and what it moves is complete, unless the disk
\* damaged it since it was written.
SaveSound ==
  /\ step \in Saving => dirty
  /\ step = "writing" => tmp.is = "torn" /\ (rewriting <=> primary.is = "absent")
  /\ step \in {"replace", "move"} =>
       tmp = Store!Whole(mem) \/ (harmed /\ tmp = Store!Torn(mem))
  /\ step = "move" => primary.is = "absent"
  /\ rewriting => primary.is = "absent" /\ step \notin {"replace", "move"}

\* A complete file with v or something newer.
AtLeast(f, v) == f.is = "whole" /\ f.v >= v

\* The file, if complete, is not older than v.
NotOlder(f, v) == f.is = "whole" => f.v >= v

\* While no file is damaged, the file is what was saved, or out of its place: then the
\* backup has it, and the new file is complete or being written again.
KeepsCommitted ==
  /\ NotOlder(tmp, committed)
  /\ ~ harmed => /\ primary.is # "torn"
                 /\ NotOlder(primary, committed)
                 /\ primary.is = "absent" /\ committed # 0 =>
                      AtLeast(bak, committed) /\ (rewriting \/ tmp.is = "whole")

\* When what a save moves is damaged, the file it replaces, or the backup, is not.
MovesTorn ==
  harmed /\ step \in {"replace", "move"} /\ tmp.is = "torn" =>
    /\ primary.is # "absent" => AtLeast(primary, committed)
    /\ primary.is = "absent" /\ committed # 0 => AtLeast(bak, committed)

\* The backup has the generation before until a file is damaged; after that the first
\* intact file has it, unless the new one is being written again.
KeepsPrevious ==
  previous # 0 =>
    /\ damages = 0 => AtLeast(bak, previous)
    /\ harmed => /\ primary.is = "torn" => AtLeast(bak, previous)
                 /\ ~ rewriting => AtLeast(Store!First, previous)

StoreInv ==
  /\ StoreTyped /\ StorePast /\ Knows /\ SaveSound
  /\ KeepsCommitted /\ MovesTorn /\ KeepsPrevious /\ Store!CleanIsSaved

-----------------------------------------------------------------------------
LEMMA StoreStarts == StoreBounds /\ Store!Init => StoreInv
<1> SUFFICES ASSUME StoreBounds, Store!Init PROVE StoreInv
  OBVIOUS
<1>1. StoreTyped /\ StorePast
  <2>1. Store!Absent \in Store!File /\ 0 \in Store!Version /\ [v |-> 0, marker |-> FALSE] \in [v : Store!Version, marker : BOOLEAN]
    BY DEF StoreBounds, Store!File, Store!Version, Store!Absent
  <2>2. Store!TypeOK
    <3>1. primary \in Store!File /\ tmp \in Store!File /\ bak \in Store!File
      BY <2>1 DEF Store!Init
    <3>2. profile \in [v : Store!Version, marker : BOOLEAN]
      BY <2>1 DEF Store!Init
    <3>3. mem \in Store!Version /\ clock \in Store!Version /\ committed \in Store!Version /\ previous \in Store!Version
      BY <2>1 DEF Store!Init
    <3>4. step \in {"off", "idle", "save", "writing", "replace", "move"}
      BY DEF Store!Init
    <3> QED BY <3>1, <3>2, <3>3, <3>4 DEF Store!TypeOK
  <2>3. StoreTyped
    <3>1. dirty \in BOOLEAN /\ quitting \in BOOLEAN /\ harmed \in BOOLEAN /\ rewriting \in BOOLEAN
      BY DEF Store!Init
    <3>2. damages \in 0 .. MaxDamage
      BY DEF Store!Init, StoreBounds
    <3>3. harmed => damages = 1
      BY DEF Store!Init
    <3> QED BY <2>2, <3>1, <3>2, <3>3 DEF StoreTyped
  <2> QED BY <2>3 DEF Store!Init, Store!Absent, StorePast
<1>2. Knows /\ SaveSound /\ Store!CleanIsSaved
  BY DEF Store!Init, Knows, SaveSound, Saving, Store!CleanIsSaved
<1>3. KeepsCommitted /\ MovesTorn /\ KeepsPrevious
  BY DEF Store!Init, Store!Absent, KeepsCommitted, MovesTorn, KeepsPrevious, NotOlder
<1> QED BY <1>1, <1>2, <1>3 DEF StoreInv

USE DEF Store!Absent, Store!Whole, Store!Torn, Store!File, Store!Version, Saving, AtLeast, NotOlder

\* What the game does without touching its file.
LEMMA GameKeeps ==
  ASSUME StoreBounds, StoreInv, Store!Change \/ Store!FrameSaves \/ Store!ProfileWrite \/ Store!Quit \/ Store!Crash \/ Store!OlderBuild
  PROVE  StoreInv'
<1> USE DEF StoreBounds, StoreInv, Store!disk, Store!process, Store!history, Store!counters
<1> SUFFICES ASSUME StoreTyped, StorePast, Knows, SaveSound, KeepsCommitted,
                    MovesTorn, KeepsPrevious, Store!CleanIsSaved
             PROVE  StoreInv'
  OBVIOUS
<1>1. CASE Store!Change
  <2>1. StoreTyped' BY <1>1 DEF Store!Change, StoreTyped, Store!TypeOK
  <2>2. Knows' /\ SaveSound' BY <1>1 DEF Store!Change, StoreTyped, Store!TypeOK, StorePast, Knows, SaveSound
  <2>3. KeepsCommitted' /\ MovesTorn' /\ KeepsPrevious'
    BY <1>1 DEF Store!Change, KeepsCommitted, MovesTorn, KeepsPrevious, Store!First
  <2>4. Store!CleanIsSaved' BY <1>1 DEF Store!Change, Store!CleanIsSaved
  <2>9. StorePast' BY <1>1 DEF Store!Change, StorePast, StoreTyped, Store!TypeOK
  <2> QED BY <2>1, <2>2, <2>3, <2>4, <2>9
<1>2. CASE Store!FrameSaves
  <2>1. StoreTyped' BY <1>2 DEF Store!FrameSaves, StoreTyped, Store!TypeOK
  <2>2. Knows' /\ SaveSound' BY <1>2 DEF Store!FrameSaves, StoreTyped, Store!TypeOK, Knows, SaveSound
  <2>3. KeepsCommitted' /\ MovesTorn' /\ KeepsPrevious'
    BY <1>2 DEF Store!FrameSaves, KeepsCommitted, MovesTorn, KeepsPrevious, Store!First
  <2>4. Store!CleanIsSaved' BY <1>2 DEF Store!FrameSaves, Store!CleanIsSaved
  <2>9. StorePast' BY <1>2 DEF Store!FrameSaves, StorePast, StoreTyped, Store!TypeOK
  <2> QED BY <2>1, <2>2, <2>3, <2>4, <2>9
<1>3. CASE Store!ProfileWrite
  <2>1. StoreTyped' BY <1>3 DEF Store!ProfileWrite, StoreTyped, Store!TypeOK
  <2>2. Knows' /\ SaveSound' BY <1>3 DEF Store!ProfileWrite, StoreTyped, Store!TypeOK, Knows, SaveSound
  <2>3. KeepsCommitted' /\ MovesTorn' /\ KeepsPrevious'
    BY <1>3 DEF Store!ProfileWrite, KeepsCommitted, MovesTorn, KeepsPrevious, Store!First
  <2>4. Store!CleanIsSaved' BY <1>3 DEF Store!ProfileWrite, Store!CleanIsSaved
  <2>9. StorePast' BY <1>3 DEF Store!ProfileWrite, StorePast, StoreTyped, Store!TypeOK
  <2> QED BY <2>1, <2>2, <2>3, <2>4, <2>9
<1>4. CASE Store!Quit
  <2>1. StoreTyped' BY <1>4 DEF Store!Quit, StoreTyped, Store!TypeOK
  <2>2. Knows' /\ SaveSound' BY <1>4 DEF Store!Quit, StoreTyped, Store!TypeOK, Knows, SaveSound
  <2>3. KeepsCommitted' /\ MovesTorn' /\ KeepsPrevious'
    BY <1>4 DEF Store!Quit, KeepsCommitted, MovesTorn, KeepsPrevious, Store!First
  <2>4. Store!CleanIsSaved' BY <1>4 DEF Store!Quit, Store!CleanIsSaved
  <2>9. StorePast' BY <1>4 DEF Store!Quit, StorePast, StoreTyped, Store!TypeOK
  <2> QED BY <2>1, <2>2, <2>3, <2>4, <2>9
<1>5. CASE Store!Crash
  <2>1. StoreTyped' BY <1>5 DEF Store!Crash, StoreTyped, Store!TypeOK
  <2>2. Knows' /\ SaveSound' BY <1>5 DEF Store!Crash, StoreTyped, Store!TypeOK, Knows, SaveSound
  <2>3. KeepsCommitted' /\ MovesTorn' /\ KeepsPrevious'
    BY <1>5 DEF Store!Crash, KeepsCommitted, MovesTorn, KeepsPrevious, Store!First
  <2>4. Store!CleanIsSaved' BY <1>5 DEF Store!Crash, Store!CleanIsSaved
  <2>9. StorePast' BY <1>5 DEF Store!Crash, StorePast, StoreTyped, Store!TypeOK
  <2> QED BY <2>1, <2>2, <2>3, <2>4, <2>9
<1>6. CASE Store!OlderBuild
  <2>1. StoreTyped' BY <1>6 DEF Store!OlderBuild, StoreTyped, Store!TypeOK
  <2>2. Knows' /\ SaveSound' BY <1>6 DEF Store!OlderBuild, StoreTyped, Store!TypeOK, Knows, SaveSound
  <2>3. KeepsCommitted' /\ MovesTorn' /\ KeepsPrevious'
    BY <1>6 DEF Store!OlderBuild, KeepsCommitted, MovesTorn, KeepsPrevious, Store!First
  <2>4. Store!CleanIsSaved' BY <1>6 DEF Store!OlderBuild, Store!CleanIsSaved
  <2>9. StorePast' BY <1>6 DEF Store!OlderBuild, StorePast, StoreTyped, Store!TypeOK
  <2> QED BY <2>1, <2>2, <2>3, <2>4, <2>9
<1> QED BY <1>1, <1>2, <1>3, <1>4, <1>5, <1>6

\* The steps of a save that work.
LEMMA SaveKeeps ==
  ASSUME StoreBounds, StoreInv, Store!SaveCreates \/ Store!SaveWrites \/ Store!BackUp \/ Store!MoveIn
  PROVE  StoreInv'
<1> USE DEF StoreBounds, StoreInv, Store!disk, Store!process, Store!history, Store!counters
<1> SUFFICES ASSUME StoreTyped, StorePast, Knows, SaveSound, KeepsCommitted,
                    MovesTorn, KeepsPrevious, Store!CleanIsSaved
             PROVE  StoreInv'
  OBVIOUS
<1>0. /\ primary \in Store!File /\ tmp \in Store!File /\ bak \in Store!File
      /\ mem \in Store!Version /\ committed \in Store!Version /\ previous \in Store!Version
      /\ previous <= committed
  BY DEF StoreTyped, Store!TypeOK, Knows
<1>1. CASE Store!SaveCreates
  <2>1. StoreTyped' BY <1>1 DEF Store!SaveCreates, StoreTyped, Store!TypeOK
  <2>2. Knows' /\ SaveSound' BY <1>1 DEF Store!SaveCreates, StoreTyped, Store!TypeOK, Knows, SaveSound
  <2>3. KeepsCommitted' BY <1>1 DEF Store!SaveCreates, KeepsCommitted
  <2>4. MovesTorn' BY <1>1 DEF Store!SaveCreates, MovesTorn
  <2>5. KeepsPrevious' BY <1>0, <1>1 DEF Store!SaveCreates, SaveSound, KeepsPrevious, Store!First
  <2>6. Store!CleanIsSaved' BY <1>1 DEF Store!SaveCreates, Store!CleanIsSaved
  <2>9. StorePast' BY <1>1 DEF Store!SaveCreates, StorePast, StoreTyped, Store!TypeOK
  <2> QED BY <2>1, <2>2, <2>3, <2>4, <2>5, <2>6, <2>9
<1>2. CASE Store!SaveWrites
  <2>0. committed <= mem /\ previous <= mem
    BY <1>0, <1>2 DEF Store!SaveWrites, Knows
  <2>1. StoreTyped' BY <1>2 DEF Store!SaveWrites, StoreTyped, Store!TypeOK
  <2>2. Knows' /\ SaveSound' BY <1>2 DEF Store!SaveWrites, StoreTyped, Store!TypeOK, Knows, SaveSound
  <2>3. KeepsCommitted' BY <1>0, <1>2, <2>0 DEF Store!SaveWrites, KeepsCommitted
  <2>4. MovesTorn' BY <1>2 DEF Store!SaveWrites, MovesTorn
  <2>5. KeepsPrevious'
    BY <1>0, <1>2, <2>0 DEF Store!SaveWrites, SaveSound, KeepsPrevious, Store!First
  <2>6. Store!CleanIsSaved' BY <1>2 DEF Store!SaveWrites, Store!CleanIsSaved
  <2>9. StorePast' BY <1>2 DEF Store!SaveWrites, StorePast, StoreTyped, Store!TypeOK
  <2> QED BY <2>1, <2>2, <2>3, <2>4, <2>5, <2>6, <2>9
<1>3. CASE Store!BackUp
  <2>0. /\ step = "replace" /\ primary.is # "absent" /\ bak' = primary /\ primary' = Store!Absent
        /\ step' = "move"
        /\ UNCHANGED <<tmp, profile, mem, dirty, quitting, clock, committed, previous, harmed,
                       rewriting, damages>>
    BY <1>3 DEF Store!BackUp
  <2>1. StoreTyped' BY <2>0 DEF StoreTyped, Store!TypeOK
  <2>2. Knows' /\ SaveSound' BY <2>0 DEF StoreTyped, Store!TypeOK, Knows, SaveSound
  <2>3. committed <= mem /\ (tmp = Store!Whole(mem) \/ (harmed /\ tmp = Store!Torn(mem)))
    BY <2>0 DEF Knows, SaveSound
  <2>4. KeepsCommitted'
    BY <1>0, <2>0, <2>3 DEF KeepsCommitted
  <2>5. MovesTorn' BY <2>0 DEF MovesTorn
  <2>6. KeepsPrevious'
    <3>1. damages = 0 => AtLeast(bak', previous)
      BY <1>0, <2>0 DEF KeepsCommitted, StoreTyped
    <3>2. harmed => AtLeast(Store!First', previous)
      <4>1. CASE tmp = Store!Whole(mem)
        BY <1>0, <2>0, <2>3, <4>1 DEF Store!First
      <4>2. CASE harmed /\ tmp = Store!Torn(mem)
        BY <1>0, <2>0, <4>2 DEF MovesTorn, Store!First
      <4> QED BY <2>3, <4>1, <4>2
    <3> QED BY <2>0, <3>1, <3>2 DEF KeepsPrevious
  <2>7. Store!CleanIsSaved' BY <2>0 DEF Store!CleanIsSaved
  <2>9. StorePast' BY <2>0 DEF StorePast, StoreTyped, Store!TypeOK
  <2> QED BY <2>1, <2>2, <2>4, <2>5, <2>6, <2>7, <2>9
<1>4. CASE Store!MoveIn
  <2>0. /\ primary.is = "absent" /\ step \in {"replace", "move"}
        /\ tmp = Store!Whole(mem) \/ (harmed /\ tmp = Store!Torn(mem))
        /\ committed <= mem /\ ~ rewriting
    BY <1>4 DEF Store!MoveIn, SaveSound, Knows
  <2>1. /\ primary' = tmp /\ tmp' = Store!Absent /\ bak' = bak
        /\ step' \in {"off", "idle"} /\ dirty' = FALSE
        /\ committed' = mem /\ previous' = committed
        /\ UNCHANGED <<profile, mem, quitting, clock, rewriting, damages>>
    BY <1>4 DEF Store!MoveIn, Store!AfterSave
  <2>2. /\ harmed' \in BOOLEAN
        /\ harmed' => harmed /\ primary'.is = "torn"
        /\ ~ harmed' => tmp = Store!Whole(mem)
    <3>1. harmed' = (tmp.is # "whole")
      BY <1>4 DEF Store!MoveIn
    <3>2. CASE tmp = Store!Whole(mem)
      <4>1. tmp.is = "whole"
        BY <3>2
      <4>2. harmed' = FALSE
        BY <3>1, <4>1, Zenon
      <4> QED BY <3>2, <4>2
    <3>3. CASE harmed /\ tmp = Store!Torn(mem)
      <4>1. tmp.is = "torn"
        BY <3>3
      <4>2. harmed' = TRUE
        BY <3>1, <4>1, Zenon
      <4> QED BY <2>1, <3>3, <4>1, <4>2
    <3> QED BY <2>0, <3>2, <3>3
  <2>3. StoreTyped'
    <3>1. primary' \in Store!File /\ tmp' \in Store!File /\ bak' \in Store!File
      BY <1>0, <2>1
    <3>2. harmed' \in BOOLEAN /\ (harmed' => damages' = 1)
      BY <2>1, <2>2 DEF StoreTyped
    <3> QED BY <1>0, <2>1, <3>1, <3>2 DEF StoreTyped, Store!TypeOK
  <2>4. Knows' /\ SaveSound'
    BY <1>0, <2>0, <2>1 DEF Knows, SaveSound
  <2>5. KeepsCommitted'
    BY <1>0, <2>0, <2>1, <2>2 DEF KeepsCommitted
  <2>6. MovesTorn' BY <2>1 DEF MovesTorn
  <2>7. KeepsPrevious'
    <3>1. committed # 0 /\ harmed' => AtLeast(bak, committed)
      BY <2>0, <2>1, <2>2 DEF MovesTorn
    <3>2. committed # 0 /\ damages = 0 => AtLeast(bak, committed)
      BY <2>0 DEF KeepsCommitted, StoreTyped
    <3>3. harmed' => Store!First' = bak
      BY <2>1, <2>2 DEF Store!First
    <3> QED BY <2>1, <3>1, <3>2, <3>3 DEF KeepsPrevious
  <2>8. Store!CleanIsSaved' BY <2>0, <2>1, <2>2 DEF Store!CleanIsSaved
  <2>9. StorePast' BY <1>0, <2>0, <2>1 DEF StorePast, StoreTyped, Store!TypeOK
  <2> QED BY <2>3, <2>4, <2>5, <2>6, <2>7, <2>8, <2>9
<1> QED BY <1>1, <1>2, <1>3, <1>4

\* A step of a save that fails.
LEMMA FailureKeeps ==
  ASSUME StoreBounds, StoreInv, Store!SaveWriteFails \/ Store!StepFails
  PROVE  StoreInv'
<1> USE DEF StoreBounds, StoreInv, Store!disk, Store!process, Store!history, Store!counters
<1> SUFFICES ASSUME StoreTyped, StorePast, Knows, SaveSound, KeepsCommitted,
                    MovesTorn, KeepsPrevious, Store!CleanIsSaved
             PROVE  StoreInv'
  OBVIOUS
<1>0. /\ step \in Saving /\ step' \in {"off", "idle"} /\ dirty
      /\ UNCHANGED <<primary, bak, profile, mem, dirty, quitting, clock, committed, previous, harmed,
                     rewriting, damages>>
      /\ tmp' = tmp \/ (step = "writing" /\ tmp' = Store!Absent)
  BY DEF Store!SaveWriteFails, Store!StepFails, Store!SaveFails, Store!AfterSave, SaveSound
<1>1. step = "writing" => tmp.is = "torn" /\ (rewriting <=> primary.is = "absent")
  BY DEF SaveSound
<1>2. StoreTyped' BY <1>0 DEF StoreTyped, Store!TypeOK
<1>3. Knows' /\ SaveSound' BY <1>0 DEF StoreTyped, Store!TypeOK, Knows, SaveSound
<1>4. KeepsCommitted' /\ MovesTorn' BY <1>0, <1>1 DEF KeepsCommitted, MovesTorn
<1>5. KeepsPrevious' BY <1>0, <1>1 DEF KeepsPrevious, Store!First
<1>6. Store!CleanIsSaved' BY <1>0 DEF Store!CleanIsSaved
<1>7. StorePast' BY <1>0 DEF StorePast, StoreTyped, Store!TypeOK
<1> QED BY <1>2, <1>3, <1>4, <1>5, <1>6, <1>7

\* A damaged file.
LEMMA DamageKeeps ==
  ASSUME StoreBounds, StoreInv, Store!Damage
  PROVE  StoreInv'
<1> USE DEF StoreBounds, StoreInv, Store!disk, Store!process, Store!history, Store!counters
<1> SUFFICES ASSUME StoreTyped, StorePast, Knows, SaveSound, KeepsCommitted,
                    MovesTorn, KeepsPrevious, Store!CleanIsSaved
             PROVE  StoreInv'
  OBVIOUS
<1>0. /\ damages = 0 /\ damages' = 1 /\ harmed' /\ ~ harmed
      /\ UNCHANGED <<profile, step, mem, dirty, quitting, clock, committed, previous, rewriting>>
  BY DEF Store!Damage, StoreTyped
<1>1. /\ primary \in Store!File /\ tmp \in Store!File /\ bak \in Store!File
      /\ committed \in Store!Version /\ previous \in Store!Version /\ previous <= committed
  BY DEF StoreTyped, Store!TypeOK, Knows
<1>2. /\ primary' = Store!Damaged(primary) \/ primary' = primary
      /\ tmp' = Store!Damaged(tmp) \/ tmp' = tmp
      /\ bak' = Store!Damaged(bak) \/ bak' = bak
      /\ \/ tmp' = tmp /\ bak' = bak
         \/ primary' = primary /\ bak' = bak
         \/ primary' = primary /\ tmp' = tmp
  BY DEF Store!Damage
<1>3. ASSUME NEW f \in Store!File
      PROVE  /\ Store!Damaged(f) \in Store!File /\ Store!Damaged(f).v = f.v
             /\ f.is = "whole" => Store!Damaged(f).is = "torn"
             /\ f.is # "whole" => Store!Damaged(f) = f
  BY DEF Store!Damaged
<1>4. StoreTyped'
  <2>1. primary' \in Store!File /\ tmp' \in Store!File /\ bak' \in Store!File
    BY <1>1, <1>2, <1>3
  <2> QED BY <1>0, <2>1 DEF StoreTyped, Store!TypeOK, Store!Damage
<1>5. Knows' BY <1>0 DEF Knows
<1>6. SaveSound'
  <2>1. step \in {"replace", "move"} => tmp' = Store!Whole(mem) \/ tmp' = Store!Torn(mem)
    BY <1>0, <1>2 DEF SaveSound, Store!Damaged
  <2>2. tmp.is = "torn" => tmp'.is = "torn"
    BY <1>1, <1>2, <1>3
  <2>3. primary'.is = "absent" <=> primary.is = "absent"
    BY <1>1, <1>2, <1>3
  <2> QED BY <1>0, <2>1, <2>2, <2>3 DEF SaveSound
<1>7. KeepsCommitted' BY <1>0, <1>1, <1>2, <1>3 DEF KeepsCommitted
<1>8. MovesTorn'
  <2> SUFFICES ASSUME step \in {"replace", "move"}, tmp'.is = "torn"
               PROVE  /\ primary.is # "absent" => AtLeast(primary, committed)
                      /\ primary.is = "absent" /\ committed # 0 => AtLeast(bak, committed)
                      /\ primary' = primary /\ bak' = bak
    BY <1>0 DEF MovesTorn
  <2>1. tmp.is = "whole"
    BY <1>0 DEF SaveSound
  <2>2. primary' = primary /\ bak' = bak
    BY <1>2, <2>1
  <2> QED BY <1>0, <1>1, <2>2 DEF KeepsCommitted
<1>9. KeepsPrevious'
  <2> SUFFICES ASSUME previous # 0
               PROVE  /\ primary'.is = "torn" => AtLeast(bak', previous)
                      /\ ~ rewriting => AtLeast(Store!First', previous)
    BY <1>0 DEF KeepsPrevious
  <2>1. /\ primary.is # "torn" /\ NotOlder(primary, previous) /\ NotOlder(tmp, previous)
        /\ AtLeast(bak, previous)
        /\ primary.is = "absent" => rewriting \/ tmp.is = "whole"
    BY <1>0, <1>1 DEF KeepsCommitted, KeepsPrevious
  <2>2. primary'.is = "torn" => primary.is = "whole" /\ bak' = bak /\ tmp' = tmp
    BY <1>1, <1>2, <1>3, <2>1
  <2>3. CASE primary'.is = "whole"
    BY <1>1, <1>2, <1>3, <2>1, <2>3 DEF Store!First
  <2>4. CASE primary'.is = "torn"
    BY <2>1, <2>2, <2>4 DEF Store!First
  <2>5. CASE primary'.is = "absent"
    <3>1. primary' = primary
      BY <1>1, <1>2, <1>3, <2>5
    <3>2. CASE tmp'.is = "whole"
      BY <1>1, <1>2, <1>3, <2>1, <2>5, <3>2 DEF Store!First
    <3>3. CASE tmp'.is # "whole" /\ ~ rewriting
      <4>1. tmp' # tmp /\ bak' = bak
        BY <1>2, <2>1, <2>5, <3>1, <3>3
      <4> QED BY <2>1, <2>5, <3>3, <4>1 DEF Store!First
    <3> QED BY <2>5, <3>2, <3>3
  <2>6. primary'.is \in {"absent", "whole", "torn"}
    BY <1>4 DEF StoreTyped, Store!TypeOK
  <2> QED BY <2>3, <2>4, <2>5, <2>6
<1>10. Store!CleanIsSaved' BY <1>0 DEF Store!CleanIsSaved
<1>11. StorePast' BY <1>0, <1>1, <1>2, <1>3 DEF StorePast
<1> QED BY <1>4, <1>5, <1>6, <1>7, <1>8, <1>9, <1>10, <1>11

\* What a start finds.
LEMMA StartFinds ==
  ASSUME StoreBounds, StoreInv, Store!Start
  PROVE  /\ Store!FindsSaved
         /\ mem' \in Store!Version /\ mem' <= clock
         /\ step' \in {"save", "idle"}
         /\ step' = "save" => dirty'
         /\ dirty' \in BOOLEAN
         /\ step' = "idle" /\ mem' # 0 => primary = Store!Whole(mem')
<1> USE DEF StoreBounds, StoreInv, Store!disk, Store!process, Store!history, Store!counters
<1>1. PICK load \in Store!Loads :
        LET changed == load.result = "recovered" \/ Store!Imports(load)
        IN  /\ mem' = IF Store!Imports(load) THEN profile.v ELSE load.v
            /\ dirty' = changed
            /\ step' = IF changed THEN "save" ELSE "idle"
  BY DEF Store!Start
<1>2. /\ primary \in Store!File /\ tmp \in Store!File /\ bak \in Store!File /\ profile.v \in Store!Version
      /\ committed \in Store!Version /\ previous \in Store!Version /\ clock \in Store!Version
  BY DEF StoreTyped, Store!TypeOK
<1>5. /\ step' \in {"save", "idle"} /\ dirty' \in BOOLEAN
      /\ step' = "save" => dirty'
  <2>1. Store!Imports(load) \in BOOLEAN
    BY DEF Store!Imports
  <2>2. CASE load.result = "recovered" \/ Store!Imports(load)
    BY <1>1, <2>2
  <2>3. CASE ~ (load.result = "recovered" \/ Store!Imports(load))
    BY <1>1, <2>3
  <2> QED BY <2>2, <2>3
<1>3. CASE Store!Intact
  <2>1. /\ Store!First.is = "whole" /\ Store!First.v \in Store!Version
        /\ Store!First = primary \/ primary.is # "whole"
    BY <1>2, <1>3 DEF Store!Intact, Store!Candidates, Store!First
  <2>2. load.v = Store!First.v /\ load.of = Store!First.v
        /\ load.result = IF primary.is = "whole" THEN "loaded" ELSE "recovered"
    BY <1>3 DEF Store!Loads
  <2>3. mem' \in Store!Version /\ mem' >= Store!First.v /\ (~ profile.marker => mem' >= profile.v)
    BY <1>1, <1>2, <2>1, <2>2 DEF Store!Imports
  <2>7. mem' <= clock
    BY <1>1, <1>2, <2>1, <2>2 DEF StorePast, Store!First
  <2>4. ~ harmed => Store!First.v >= committed
    BY <1>2, <2>1 DEF KeepsCommitted, Store!First
  <2>5. harmed /\ ~ rewriting => Store!First.v >= previous
    BY <1>2, <2>1 DEF KeepsPrevious
  <2>6. step' = "idle" => primary = Store!Whole(mem')
    <3>1. SUFFICES ASSUME step' = "idle" PROVE primary = Store!Whole(mem')
      OBVIOUS
    <3>2. load.result # "recovered" /\ ~ Store!Imports(load)
      BY <1>1, <3>1
    <3>3. primary.is = "whole" /\ primary = Store!First /\ mem' = Store!First.v
      BY <1>1, <2>1, <2>2, <3>2
    <3> QED BY <1>2, <3>3
  <2> QED BY <1>1, <1>2, <1>3, <1>5, <2>1, <2>3, <2>4, <2>5, <2>6, <2>7 DEF Store!FindsSaved
<1>4. CASE ~ Store!Intact
  <2>1. /\ primary.is # "whole" /\ tmp.is # "whole" /\ bak.is # "whole"
    BY <1>4 DEF Store!Intact, Store!Candidates
  <2>2. (~ harmed => committed = 0) /\ (harmed /\ ~ rewriting => previous = 0)
    BY <1>2, <2>1 DEF KeepsCommitted, KeepsPrevious, Store!First
  <2>3. /\ load.v \in Store!Version /\ load.v <= clock
        /\ (load.result = "missing" /\ load.v = 0) \/ load.result = "recovered"
    <3>1. load \in {[v |-> 0, of |-> 0, result |-> "missing"]}
          \/ \E f \in Store!Candidates : load \in Store!Salvaged(f)
      BY <1>4 DEF Store!Loads
    <3>2. ASSUME NEW f \in Store!Candidates, load \in Store!Salvaged(f)
          PROVE  load.v \in Store!Version /\ load.v <= clock /\ load.result = "recovered"
      BY <1>2, <3>2 DEF Store!Candidates, Store!Salvaged, StorePast
    <3> QED BY <1>2, <3>1, <3>2
  <2>4. mem' \in Store!Version /\ mem' <= clock
    BY <1>1, <1>2, <2>3 DEF StorePast
  <2>5. step' = "idle" => mem' = 0
    BY <1>1, <1>2, <2>3
  <2> QED BY <1>1, <1>2, <1>4, <1>5, <2>2, <2>4, <2>5 DEF Store!FindsSaved
<1> QED BY <1>3, <1>4

LEMMA StartKeeps ==
  ASSUME StoreBounds, StoreInv, Store!Start
  PROVE  StoreInv'
<1>1. /\ mem' \in Store!Version /\ mem' <= clock
      /\ step' \in {"save", "idle"}
      /\ step' = "save" => dirty'
      /\ dirty' \in BOOLEAN
      /\ step' = "idle" /\ mem' # 0 => primary = Store!Whole(mem')
  BY StartFinds
<1>2. /\ quitting' = FALSE
      /\ committed' = IF mem' < committed THEN mem' ELSE committed
      /\ previous' = IF mem' < previous THEN mem' ELSE previous
      /\ UNCHANGED <<primary, tmp, bak, profile, clock, harmed, rewriting, damages,
                     failures, crashes>>
  BY DEF Store!Start, Store!disk, Store!counters
<1>3. /\ committed \in Store!Version /\ previous \in Store!Version /\ previous <= committed
      /\ primary \in Store!File /\ tmp \in Store!File /\ bak \in Store!File
  BY DEF StoreInv, StoreTyped, Store!TypeOK, Knows
<1>4. StoreTyped' BY <1>1, <1>2 DEF StoreInv, StoreTyped, Store!TypeOK, StoreBounds
<1>5. Knows' /\ SaveSound' BY <1>1, <1>2, <1>3 DEF StoreInv, Knows, SaveSound, StoreBounds
<1>6. committed' \in Store!Version /\ committed' <= committed /\ previous' \in Store!Version /\ previous' <= previous
  BY <1>1, <1>2, <1>3 DEF StoreBounds
<1>7. KeepsCommitted' BY <1>2, <1>3, <1>6 DEF StoreInv, KeepsCommitted, StoreBounds
<1>8. MovesTorn' /\ KeepsPrevious'
  <2>1. MovesTorn' BY <1>1 DEF MovesTorn
  <2>2. Store!First' = Store!First /\ Store!First \in Store!File
    BY <1>2, <1>3 DEF Store!First
  <2> QED BY <1>2, <1>3, <1>6, <2>1, <2>2 DEF StoreInv, KeepsPrevious, StoreBounds
<1>9. Store!CleanIsSaved' BY <1>1, <1>2 DEF Store!CleanIsSaved
<1>10. StorePast' BY <1>1, <1>2, <1>3, <1>6 DEF StoreInv, StorePast, StoreBounds, StoreTyped, Store!TypeOK
<1> QED BY <1>4, <1>5, <1>7, <1>8, <1>9, <1>10 DEF StoreInv

LEMMA StoreStepKeeps == StoreBounds /\ StoreInv /\ [Store!Next]_(Store!vars) => StoreInv'
<1> SUFFICES ASSUME StoreBounds, StoreInv, [Store!Next]_(Store!vars) PROVE StoreInv'
  OBVIOUS
<1>1. CASE UNCHANGED Store!vars
  BY <1>1
     DEF Store!vars, Store!disk, Store!process, Store!history, Store!counters, StoreInv, StoreTyped,
         Store!TypeOK, StorePast, Knows, SaveSound, KeepsCommitted, MovesTorn,
         KeepsPrevious, Store!First, Store!CleanIsSaved
<1>2. CASE Store!Next
  BY <1>2, GameKeeps, SaveKeeps, FailureKeeps, DamageKeeps, StartKeeps DEF Store!Next, Store!Save
<1> QED BY <1>1, <1>2

\* The inductive invariant holds wherever processes die and saves fail
\* (SaveStoreNow, EnsureStoreLoaded).
THEOREM StoreInvariant ==
  ASSUME StoreBounds PROVE Store!Spec => []StoreInv
<1>1. Store!Init => StoreInv BY StoreStarts
<1>2. StoreInv /\ [Store!Next]_(Store!vars) => StoreInv' BY StoreStepKeeps
<1> QED BY <1>1, <1>2, PTL DEF Store!Spec

\* SaveStoreNow never takes a failed save for a successful one: a running game that
\* has nothing to save has an intact file that holds all it knows.
THEOREM CleanFileIsWhole ==
  ASSUME StoreBounds PROVE Store!Spec => []Store!CleanIsSaved
<1>1. StoreInv => Store!CleanIsSaved BY DEF StoreInv
<1> QED BY <1>1, StoreInvariant, PTL

\* LoadStoreFile finds at least what was last reported as saved, wherever processes
\* died and saves failed.  When the disk damaged one file it finds the generation
\* before, except while a save whose new file did not get to its place is repeated.
THEOREM SavesSurvive ==
  ASSUME StoreBounds PROVE Store!Spec => Store!SavedSurvives
<1>1. StoreInv /\ [Store!Next]_(Store!vars) => [Store!FindsSaved]_(Store!vars)
  <2> SUFFICES ASSUME StoreInv PROVE Store!FindsSaved
    OBVIOUS
  <2> QED BY StartFinds DEF Store!FindsSaved
<1> QED BY <1>1, StoreInvariant, PTL DEF Store!Spec, Store!SavedSurvives

\* Types and bounds: a version is never newer than the last change, and one file at
\* most is damaged.
THEOREM StoreTypes ==
  ASSUME StoreBounds PROVE Store!Spec => []Store!TypeOK
<1>1. StoreInv => Store!TypeOK BY DEF StoreInv, StoreTyped
<1> QED BY <1>1, StoreInvariant, PTL
=============================================================================
