--------------------------- MODULE FlightIdentity ---------------------------
(***************************************************************************)
(* The texture identities of the graphics flight recorder                  *)
(* (client/rendering/graphics_flight_recorder.cpp): which generation lives *)
(* at an address.  Threads that create, release and use textures update    *)
(* the record without waiting for each other, lookups read it at any time, *)
(* and a crash may freeze it.  An update that gets lost makes the bucket's *)
(* identities unknown.                                                     *)
(*                                                                         *)
(* One bucket.  The two release events, which only add status words, are   *)
(* "release"; TextureCreateEnd, which is like them but retires nothing, is *)
(* left out.  The words kept are key, generation, identity epoch and       *)
(* whether the owner has retired.                                          *)
(***************************************************************************)
EXTENDS FlightSlot, Sequences

CONSTANTS
  Thread,      \* threads that record
  Key,         \* addresses of texture records, all in the bucket
  Ways,        \* kBucketWays: slots of the bucket
  MaxSequence  \* bound: calls

None == "none"
Number == 0 .. MaxSequence
Way == 1 .. Ways

VARIABLES
  gate,               \* writerGate: closed
  sequence, generation,
  writing, epoch,     \* ResourceBucket: who writes, or None; identityEpoch
  stamp, words,       \* per way: words are <<key, generation, epoch, retired>>
  pc, op,             \* per thread: where it is in UpdateResource, and its event
  reader,             \* a lookup: [pc, key, epoch, way, stamp, got]; its floor is history,
                      \* what newest[key] was when it began
  owns,               \* history: the generation that lives at each key, or 0
  keyOf,              \* history: the key each generation was made for
  newest              \* history: per key, the last generation whose creation returned
                      \* (any), and the last that passed over no sealed way (sure)

numbers == <<sequence, generation>>
bucket == <<writing, epoch>>
slot == <<stamp, words>>
threads == <<pc, op>>
history == <<owns, keyOf, newest>>
vars == <<gate, numbers, bucket, slot, threads, reader, history>>

\* An event, and what UpdateResource knows: the epoch, the ways it has looked at, those
\* of them that were neither busy nor sealed, and the retirement it is to publish; passed
\* is history: the event is published although a sealed way was passed over.
Event(kind, k, g, n) ==
  [kind |-> kind, key |-> k, gen |-> g, seq |-> n,
   epoch |-> 0, way |-> 0, free |-> {}, retired |-> FALSE, passed |-> FALSE]
NoOp == Event("use", None, 0, 0)
Nothing == [any |-> 0, sure |-> 0]
NoRead == [pc |-> "idle", key |-> None, epoch |-> 0, way |-> 0, stamp |-> Blank, got |-> <<>>,
           floor |-> Nothing]

Init ==
  /\ gate = FALSE
  /\ sequence = 0 /\ generation = 0
  /\ writing = None /\ epoch = 0
  /\ stamp = [w \in Way |-> Blank] /\ words = [w \in Way |-> <<None, 0, 0, FALSE>>]
  /\ pc = [t \in Thread |-> "idle"] /\ op = [t \in Thread |-> NoOp]
  /\ reader = NoRead
  /\ owns = [k \in Key |-> 0]
  /\ keyOf = [g \in 1 .. MaxSequence |-> None]
  /\ newest = [k \in Key |-> Nothing]

Goto(t, label) == pc' = [pc EXCEPT ![t] = label]

-----------------------------------------------------------------------------
(* The calls *)

Busy(k) == \E t \in Thread : pc[t] # "idle" /\ op[t].kind # "use" /\ op[t].key = k

Begins(t, kind, k, g) ==
  /\ pc[t] = "idle"
  /\ ~ gate
  /\ sequence < MaxSequence
  /\ sequence' = sequence + 1
  /\ op' = [op EXCEPT ![t] = Event(kind, k, g, sequence')]
  /\ Goto(t, "lock")
  /\ UNCHANGED <<gate, bucket, slot, reader, newest>>

\* A key has one owner at a time, who creates and releases what lives there.
ResourceCreateBegin(t, k) ==
  /\ ~ Busy(k) /\ owns[k] = 0
  /\ generation' = generation + 1
  /\ Begins(t, "create", k, generation')
  /\ keyOf' = [keyOf EXCEPT ![generation'] = k]
  /\ owns' = [owns EXCEPT ![k] = generation']

ResourceRelease(t, k) ==
  /\ ~ Busy(k) /\ owns[k] # 0
  /\ Begins(t, "release", k, owns[k])
  /\ UNCHANGED <<generation, keyOf, owns>>

\* Anybody may still name an earlier generation.
ResourceUse(t, g) ==
  /\ g \in 1 .. generation
  /\ Begins(t, "use", keyOf[g], g)
  /\ UNCHANGED <<generation, keyOf, owns>>

-----------------------------------------------------------------------------
(* UpdateResource *)

\* Mutant: a lost lifecycle event leaves the identities alone.
AfterLoss_Nothing(t) == "unlock"

\* A lost lifecycle event makes the bucket unknown; other events are just lost.
AfterLoss(t) == IF op[t].kind = "use" THEN "unlock" ELSE "invalidate"

TryLock(t) ==
  /\ pc[t] = "lock"
  /\ IF writing = None
     THEN writing' = t /\ Goto(t, "scan")
     ELSE UNCHANGED writing /\ Goto(t, AfterLoss(t))
  /\ UNCHANGED <<gate, numbers, epoch, slot, op, reader, history>>

\* The epoch is read, and then the ways are looked at one after the other.
Scan(t) ==
  LET w == op[t].way + 1
      free == ~ stamp[w].busy /\ ~ stamp[w].sealed
  IN  /\ pc[t] = "scan"
      /\ op' = [op EXCEPT ![t].epoch = IF w = 1 THEN epoch ELSE @,
                          ![t].way = w,
                          ![t].free = IF free THEN @ \cup {w} ELSE @,
                          ![t].passed = @ \/ stamp[w].sealed]
      /\ Goto(t, IF w = Ways THEN "select" ELSE "scan")
      /\ UNCHANGED <<gate, numbers, bucket, slot, reader, history>>

\* The first of the free ways that has the event's address.
Selected(o) ==
  LET known == {w \in o.free : stamp[w].version # 0 /\ words[w][1] = o.key}
  IN  {w \in known : \A v \in known : w <= v}

Rank(w, current) ==
  IF stamp[w].version = 0 THEN 0 ELSE IF words[w][3] # current THEN 1 ELSE IF words[w][4] THEN 2 ELSE 3

\* The way to give up: of the lowest rank, of these the oldest, of these the first.
Victim(o) ==
  LET rank(w) == Rank(w, o.epoch)
      Before(w, v) ==
        \/ rank(w) < rank(v)
        \/ rank(w) = rank(v) /\ stamp[w].version < stamp[v].version
        \/ rank(w) = rank(v) /\ stamp[w].version = stamp[v].version /\ w <= v
  IN  {w \in o.free : \A v \in o.free : Before(w, v)}

Stale(o, w) == IF o.kind = "create" THEN words[w][2] >= o.gen ELSE words[w][2] # o.gen

\* Where a record made up for the event is published: a creation may take any free way,
\* other events need the record of their generation.
Target(o) ==
  IF o.kind # "create" THEN {w \in Selected(o) : words[w][3] = o.epoch}
  ELSE IF Selected(o) = {} THEN Victim(o) ELSE Selected(o)

\* A stale generation is not recorded and invalidates nothing.  A freeze can make
\* ReadSlot fail, which only a creation does without.
Select(t) ==
  LET o == op[t]
      stale == \E w \in Selected(o) : Stale(o, w)
      unread == o.kind # "create" /\ \E w \in Selected(o) : stamp[w].sealed
  IN  /\ pc[t] = "select"
      /\ \/ stale /\ Goto(t, "unlock") /\ UNCHANGED op
         \/ /\ ~ stale
            /\ \E w \in Target(o) :
                 op' = [op EXCEPT ![t].way = w,
                                  ![t].retired = IF o.kind = "use" THEN words[w][4]
                                                 ELSE o.kind = "release"]
            /\ Goto(t, "claim")
         \/ /\ unread \/ (~ stale /\ Target(o) = {})
            /\ Goto(t, AfterLoss(t))
            /\ UNCHANGED op
      /\ UNCHANGED <<gate, numbers, bucket, slot, reader, history>>

\* ClaimSlot: only a freeze can come in between its two accesses.
ClaimSlot(t) ==
  LET o == op[t]
  IN  /\ pc[t] = "claim"
      /\ IF CanClaim(stamp[o.way], o.seq)
         THEN stamp' = [stamp EXCEPT ![o.way] = Claimed(o.seq)] /\ Goto(t, "key")
         ELSE UNCHANGED stamp /\ Goto(t, AfterLoss(t))
      /\ UNCHANGED <<gate, numbers, bucket, words, op, reader, history>>

\* PublishSlot: the words, one by one (who retired is only read with the bucket held) ...
StoreWord(t) ==
  LET o == op[t]
      Store(n, value) == words' = [words EXCEPT ![o.way][n] = value]
  IN  /\ \/ pc[t] = "key" /\ Store(1, o.key) /\ Goto(t, "generation")
         \/ pc[t] = "generation" /\ Store(2, o.gen) /\ Goto(t, "epoch")
         \/ /\ pc[t] = "epoch"
            /\ words' = [words EXCEPT ![o.way][3] = o.epoch, ![o.way][4] = o.retired]
            /\ Goto(t, "publish")
      /\ UNCHANGED <<gate, numbers, bucket, stamp, op, reader, history>>

\* ... and the stamp.
PublishSlot(t) ==
  LET o == op[t]
  IN  /\ pc[t] = "publish"
      /\ stamp' = [stamp EXCEPT ![o.way] = Published(@, o.seq)]
      /\ Goto(t, IF stamp[o.way] = Claimed(o.seq) THEN "unlock" ELSE AfterLoss(t))
      /\ UNCHANGED <<gate, numbers, bucket, words, op, reader, history>>

InvalidateBucket(t) ==
  /\ pc[t] = "invalidate"
  /\ epoch' = epoch + 1
  /\ op' = [op EXCEPT ![t].passed = FALSE]
  /\ Goto(t, "unlock")
  /\ UNCHANGED <<gate, numbers, writing, slot, reader, history>>

\* The lock is given back by who has it, and the call returns.
Return(t) ==
  /\ pc[t] = "unlock"
  /\ writing' = IF writing = t THEN None ELSE writing
  /\ newest' = IF op[t].kind = "create"
               THEN [newest EXCEPT ![op[t].key] = [any |-> op[t].gen,
                                                   sure |-> IF op[t].passed THEN @.sure ELSE op[t].gen]]
               ELSE newest
  /\ owns' = IF op[t].kind = "release" THEN [owns EXCEPT ![op[t].key] = 0] ELSE owns
  /\ op' = [op EXCEPT ![t] = NoOp]
  /\ Goto(t, "idle")
  /\ UNCHANGED <<gate, numbers, epoch, slot, keyOf, reader>>

Writer(t) ==
  \/ \E k \in Key : ResourceCreateBegin(t, k) \/ ResourceRelease(t, k)
  \/ \E g \in 1 .. MaxSequence : ResourceUse(t, g)
  \/ TryLock(t) \/ Scan(t) \/ Select(t) \/ ClaimSlot(t) \/ StoreWord(t) \/ PublishSlot(t)
  \/ InvalidateBucket(t) \/ Return(t)

\* Freeze: the gate, and some time later the slots in their order.
Freeze ==
  /\ \/ ~ gate /\ gate' = TRUE /\ UNCHANGED stamp
     \/ \E w \in Way :
          /\ gate /\ ~ stamp[w].sealed /\ \A v \in 1 .. w - 1 : stamp[v].sealed
          /\ stamp' = [stamp EXCEPT ![w] = Sealed(@)] /\ UNCHANGED gate
  /\ UNCHANGED <<numbers, bucket, words, threads, reader, history>>

-----------------------------------------------------------------------------
(* ResourceGeneration *)

Reads(step) ==
  /\ reader' = step
  /\ UNCHANGED <<gate, numbers, bucket, slot, threads, history>>

\* The epoch comes before everything else.
LookUp(k) ==
  /\ reader.pc = "idle"
  /\ Reads([NoRead EXCEPT !.pc = "stamp", !.key = k, !.epoch = epoch, !.way = 1, !.floor = newest[k]])

\* A way that does not give the answer is left for the next one.
NextWay ==
  IF reader.way = Ways THEN NoRead
  ELSE [reader EXCEPT !.pc = "stamp", !.way = @ + 1, !.stamp = Blank, !.got = <<>>]

ReadStamp ==
  /\ reader.pc = "stamp"
  /\ Reads(IF Usable(stamp[reader.way])
           THEN [reader EXCEPT !.pc = "words", !.stamp = stamp[reader.way]] ELSE NextWay)

ReadWord ==
  /\ reader.pc = "words"
  /\ Len(reader.got) < 3
  /\ Reads([reader EXCEPT !.got = Append(@, words[reader.way][Len(@) + 1])])

SameStamp == stamp[reader.way] = reader.stamp

ReadStampAgain ==
  /\ reader.pc = "words"
  /\ Len(reader.got) = 3
  /\ Reads(IF reader.got[1] = reader.key /\ reader.got[3] = reader.epoch /\ SameStamp
           THEN [reader EXCEPT !.pc = "epoch"] ELSE NextWay)

ReadEpochAgain ==
  /\ reader.pc = "epoch"
  /\ Reads(IF epoch = reader.epoch THEN [reader EXCEPT !.pc = "found"] ELSE NextWay)

EndLookUp == reader.pc = "found" /\ Reads(NoRead)

Reader ==
  \/ \E k \in Key : LookUp(k)
  \/ ReadStamp \/ ReadWord \/ ReadStampAgain \/ ReadEpochAgain \/ EndLookUp

Next == (\E t \in Thread : Writer(t)) \/ Freeze \/ Reader

Spec == Init /\ [][Next]_vars

-----------------------------------------------------------------------------
(* Properties *)

TypeOK ==
  /\ gate \in BOOLEAN /\ sequence \in Number /\ generation \in Number
  /\ writing \in Thread \cup {None} /\ epoch \in Number
  /\ stamp \in [Way -> Stamps(Number)]
  /\ words \in [Way -> (Key \cup {None}) \X Number \X Number \X BOOLEAN]

\* What a lookup finds is a generation of its key that is no older than this one.
FoundSince(g) == reader.pc = "found" => keyOf[reader.got[2]] = reader.key /\ reader.got[2] >= g

\* What lost updates and displaced records must not break: a lookup finds nothing, or a
\* generation of its key no older than the last whose creation had returned when the
\* lookup began.  Creations that a freeze overtakes, so that they are recorded beside a
\* way that was sealed before they came, are the exception (LookupNeverStale).
LookupCurrent == FoundSince(reader.floor.sure)

\* "A lost lifecycle update invalidates identities in this bucket rather than
\* serving stale generations from before an unobserved same-address creation"
\* (ResourceBucket): no exceptions.
LookupNeverStale == FoundSince(reader.floor.any)
=============================================================================
