-------------------------- MODULE Diagnostics_proofs --------------------------
(***************************************************************************)
(* Proofs about what the game keeps for whoever looks for a fault later:   *)
(* the reports of script errors (ScriptErrorTelemetry) and the rings and   *)
(* identities of the flight recorder (FlightRing, FlightIdentity), for any *)
(* number of contexts, errors, threads, slots, words, events and addresses. *)
(***************************************************************************)
EXTENDS ScriptErrorTelemetry, FiniteSetTheorems, SequenceTheorems, TLAPS

CONSTANTS
  Thread, Capacity, EventWords, MaxSequence,  \* of FlightRing and FlightIdentity
  Key, Ways                                   \* of FlightIdentity

VARIABLES gate, sequence, tickets, stamp, words, frozen, unsealed, pc, mine, reader

Ring == INSTANCE FlightRing

VARIABLES
  generation, writing, epoch, mark, record, place, op, finder, owns, keyOf, newest

Identity == INSTANCE FlightIdentity WITH
  stamp <- mark, words <- record, pc <- place, reader <- finder

-----------------------------------------------------------------------------
(* ScriptErrorTelemetry *)

\* A report fits into the queue.
ErrorsBounds == MaxQueue \in Nat \ {0} /\ MaxErrors \in Nat /\ MaxBlocks \in Nat

\* CapturePhase.
Phase == {"Idle", "AwaitCallstack", "Callstack", "Details"}

\* What a context reads.
Captures == [phase : Phase, blocks : 0 .. MaxBlocks, partial : Begin \cup {NoLine}, report : Nat]

\* The numbers of reports.
Numbers == Nat \ {0}

\* An entry of the queue.
Reports == [context : Context, sequence : Numbers]

ErrorsTyped ==
  /\ captures \in [Context -> Captures]
  /\ notifications \in [Context -> [sequence : Nat, code : Nat]]
  /\ nextSequence \in 0 .. MaxErrors
  /\ completed \in [Context -> Seq(Numbers)]
  /\ queue \in Seq(Reports) /\ Len(queue) <= MaxQueue
  /\ worker \in {NotStarted, Waits} \cup Reports

\* The report a context is reading, if it holds one.
Report(c) == captures[c].report
Holds(c) == captures[c].report # NoReport

\* A report that is read, completed, queued, posted or handled has been numbered, and a
\* context that reads nothing holds none.
ErrorsNumbered ==
  /\ \A c \in Context : Report(c) <= nextSequence /\ (captures[c].phase = "Idle" => ~ Holds(c))
  /\ \A c \in Context : \A i \in DOMAIN completed[c] : completed[c][i] <= nextSequence
  /\ \A i \in DOMAIN queue : queue[i].sequence <= nextSequence
  /\ worker.sequence <= nextSequence
  /\ \A n \in handled : n \in 1 .. nextSequence

\* Two contexts do not read one report.
OnceRead ==
  \A c, d \in Context : Holds(c) /\ Report(c) = Report(d) => c = d

\* A report is completed once.
OnceCompleted ==
  \A c, d \in Context : \A i \in DOMAIN completed[c] : \A j \in DOMAIN completed[d] :
    completed[c][i] = completed[d][j] => c = d /\ i = j

\* A report is in the queue once.
OnceQueued ==
  \A i, j \in DOMAIN queue : queue[i].sequence = queue[j].sequence => i = j

\* A report that is still read is nowhere else.
ReadApart ==
  \A c \in Context : Holds(c) =>
    /\ \A d \in Context : \A i \in DOMAIN completed[d] : completed[d][i] # Report(c)
    /\ \A i \in DOMAIN queue : queue[i].sequence # Report(c)
    /\ worker.sequence # Report(c)
    /\ Report(c) \notin handled

\* A completed report is not in the queue, not posted and not handled.
CompletedApart ==
  \A c \in Context : \A i \in DOMAIN completed[c] :
    /\ \A j \in DOMAIN queue : queue[j].sequence # completed[c][i]
    /\ worker.sequence # completed[c][i]
    /\ completed[c][i] \notin handled

\* A report in the queue is not posted and not handled, and one that is posted is not
\* handled.
QueuedApart ==
  /\ \A i \in DOMAIN queue : queue[i].sequence # worker.sequence /\ queue[i].sequence \notin handled
  /\ worker.sequence \notin handled

\* ReportsTrue counts places with cardinalities; these parts say place by place why a
\* report has only one.
ErrorsInv ==
  /\ ErrorsBounds /\ ErrorsTyped /\ ErrorsNumbered /\ OnceRead /\ OnceCompleted /\ OnceQueued
  /\ ReadApart /\ CompletedApart /\ QueuedApart /\ ResultOfLatest

-----------------------------------------------------------------------------
(* What the lines of a call make of the report that is read *)

\* s comes out as r: the report is read on, done or dropped, and there is at most
\* one new number.
Follows(s, r) ==
  /\ r.phase \in Phase
  /\ r.report \in {NoReport, s.report, s.last + 1}
  /\ r.phase = "Idle" => r.report = NoReport
  /\ r.last \in {s.last, s.last + 1}
  /\ r.report = s.last + 1 => r.last = s.last + 1
  /\ r.done \in Seq(Numbers)
  /\ \A i \in DOMAIN r.done :
       /\ r.done[i] \in {s.report, s.last + 1} /\ r.done[i] # r.report
       /\ r.done[i] = s.last + 1 => r.last = s.last + 1
       /\ \A j \in DOMAIN r.done : r.done[i] = r.done[j] => i = j

\* What reading some lines leaves: the phase, the report, the last number and the reports
\* completed on the way.
States == [phase : Phase, report : Nat, last : Nat, done : Seq(Numbers)]

\* What Append adds is at the end, and nothing else moves.
LEMMA Appended ==
  ASSUME NEW S, NEW s \in Seq(S), NEW e \in S
  PROVE  /\ Append(s, e) \in Seq(S)
         /\ DOMAIN Append(s, e) = DOMAIN s \cup {Len(s) + 1} /\ Len(s) + 1 \notin DOMAIN s
         /\ \A n \in DOMAIN s : Append(s, e)[n] = s[n]
         /\ Append(s, e)[Len(s) + 1] = e
<1>1. DOMAIN s = 1 .. Len(s) /\ Len(s) \in Nat
  BY LenProperties
<1>2. Append(s, e) \in Seq(S) /\ Len(Append(s, e)) = Len(s) + 1
  BY AppendProperties
<1>3. DOMAIN Append(s, e) = 1 .. Len(s) + 1
  BY <1>2, LenProperties
<1> QED BY <1>1, <1>2, <1>3, AppendProperties

\* FinishReport completes the report, if there is one.
LEMMA Finished ==
  ASSUME NEW s \in States
  PROVE  LET r == FinishReport(s)
         IN  /\ r \in States
             /\ r.phase = "Idle" /\ r.report = NoReport /\ r.last = s.last
             /\ r.done = IF s.phase # "Idle" /\ s.report # NoReport THEN Append(s.done, s.report)
                         ELSE s.done
<1>1. s.report # NoReport => Append(s.done, s.report) \in Seq(Numbers)
  <2>1. s.done \in Seq(Numbers) /\ (s.report # NoReport => s.report \in Numbers)
    BY DEF States, Numbers, NoReport
  <2> QED BY <2>1, AppendProperties
<1> QED BY <1>1 DEF FinishReport, States, Phase, NoReport

\* BeginReport takes the next number, and completes nothing.
LEMMA Begun ==
  ASSUME NEW s \in States, NEW eligible \in BOOLEAN
  PROVE  LET r == BeginReport(s, eligible)
         IN  /\ r \in States
             /\ r.phase = "AwaitCallstack" /\ r.last = s.last + 1 /\ r.done = s.done
             /\ r.report = IF eligible THEN s.last + 1 ELSE NoReport
<1>1. s.last + 1 \in Nat /\ NoReport \in Nat /\ "AwaitCallstack" \in Phase
  BY DEF States, NoReport, Phase
<1> HIDE DEF NoReport
<1>2. CASE eligible
  BY <1>1, <1>2 DEF BeginReport, States
<1>3. CASE ~ eligible
  BY <1>1, <1>3 DEF BeginReport, States
<1> QED BY <1>2, <1>3

\* ProcessLine completes at most the report that was being read.
LEMMA ProcessLineFollows ==
  ASSUME NEW s \in States, s.done = <<>>, s.report <= s.last,
         s.phase = "Idle" => s.report = NoReport,
         NEW line \in Line, NEW eligible \in BOOLEAN
  PROVE  ProcessLine(s, line, eligible) \in States /\ Follows(s, ProcessLine(s, line, eligible))
<1> DEFINE f == FinishReport(s)
           b == BeginReport(f, eligible)
           g == FinishReport(b)
           h == [f EXCEPT !.phase = "Details"]
           k == [s EXCEPT !.phase = "Callstack"]
<1>0. s.report \in Nat /\ s.last \in Nat /\ s.phase \in Phase /\ NoReport = 0
  BY DEF States, NoReport
<1>1. /\ f \in States /\ f.phase = "Idle" /\ f.report = NoReport /\ f.last = s.last
      /\ f.done = IF s.phase # "Idle" /\ s.report # NoReport THEN <<s.report>> ELSE <<>>
  <2>1. Append(<<>>, s.report) = <<s.report>>
    OBVIOUS
  <2> QED BY <2>1, Finished
<1> HIDE DEF f
<1>2. /\ b \in States /\ b.phase = "AwaitCallstack" /\ b.last = s.last + 1 /\ b.done = f.done
      /\ b.report = IF eligible THEN s.last + 1 ELSE NoReport
  BY <1>1, Begun
<1> HIDE DEF b
<1>3. /\ g \in States /\ g.phase = "Idle" /\ g.report = NoReport /\ g.last = s.last + 1
      /\ g.done = IF eligible THEN Append(f.done, s.last + 1) ELSE f.done
  BY <1>0, <1>2, Finished
<1> HIDE DEF g
<1>4. /\ h \in States /\ h.phase = "Details" /\ h.report = NoReport /\ h.last = s.last /\ h.done = f.done
  BY <1>1 DEF States, Phase
<1>5. /\ k \in States /\ k.phase = "Callstack" /\ k.report = s.report /\ k.last = s.last
      /\ k.done = s.done
  BY DEF States, Phase
<1> HIDE DEF h, k
<1>6. /\ f.done \in Seq(Numbers)
      /\ \A i \in DOMAIN f.done : f.done[i] = s.report /\ s.report # NoReport /\ i = 1
  <2>1. CASE s.phase # "Idle" /\ s.report # NoReport
    <3>1. s.report \in Numbers /\ s.report # NoReport
      BY <2>1, <1>0, <1>1 DEF Numbers
    <3>2. <<s.report>> \in Seq(Numbers) /\ DOMAIN <<s.report>> = {1} /\ <<s.report>>[1] = s.report
      BY <3>1
    <3> QED BY <1>1, <2>1, <3>1, <3>2
  <2>2. CASE ~ (s.phase # "Idle" /\ s.report # NoReport)
    BY <2>2, <1>1
  <2> QED BY <2>1, <2>2, <1>1
<1>7. Follows(s, s)
  <2>1. DOMAIN s.done = {} /\ s.done \in Seq(Numbers)
    OBVIOUS
  <2> QED BY <2>1, <1>0 DEF Follows
<1>8. Follows(s, f)
  <2>1. f.phase \in Phase
    BY <1>1 DEF States
  <2>2. s.report # s.last + 1
    BY <1>0
  <2> QED BY <2>1, <2>2, <1>0, <1>1, <1>6 DEF Follows
<1>9. Follows(s, b)
  BY <1>0, <1>2, <1>6, <1>1 DEF Follows, States
<1>10. Follows(s, g)
  <2>1. CASE ~ eligible
    BY <2>1, <1>0, <1>3, <1>6 DEF Follows, States
  <2>2. CASE eligible
    <3> DEFINE end == Len(f.done) + 1
    <3>1. s.last + 1 \in Numbers
      BY <1>0 DEF Numbers
    <3>2. /\ g.done \in Seq(Numbers) /\ DOMAIN g.done = DOMAIN f.done \cup {end}
          /\ end \notin DOMAIN f.done /\ g.done[end] = s.last + 1
          /\ \A i \in DOMAIN f.done : g.done[i] = f.done[i]
      BY <2>2, <3>1, <1>3, <1>6, Appended
    <3> HIDE DEF end
    <3> QED BY <3>2, <1>0, <1>3, <1>6, SMTT(30) DEF Follows, States, Phase
  <2> QED BY <2>1, <2>2
<1>11. Follows(s, h)
  BY <1>0, <1>4, <1>6 DEF Follows, Phase, States
<1>12. Follows(s, k)
  <2>1. DOMAIN k.done = {} /\ k.done \in Seq(Numbers)
    BY <1>5
  <2> QED BY <2>1, <1>0, <1>5 DEF Follows, Phase
<1>13. ProcessLine(s, line, eligible) \in {s, f, b, g, h, k}
  BY DEF ProcessLine, f, b, g, h, k
<1> QED BY <1>1, <1>2, <1>3, <1>4, <1>5, <1>7, <1>8, <1>9, <1>10, <1>11, <1>12, <1>13

-----------------------------------------------------------------------------
(* Steps *)

\* At first nothing is read or reported.
LEMMA ErrorsInitEstablishes == ErrorsBounds /\ Init => ErrorsInv
<1> SUFFICES ASSUME ErrorsBounds, Init PROVE ErrorsInv
  OBVIOUS
<1>1. /\ DOMAIN queue = {} /\ queue \in Seq(Reports) /\ Len(queue) = 0
      /\ \A c \in Context : completed[c] = <<>>
      /\ worker = NotStarted /\ worker.sequence = 0 /\ handled = {} /\ nextSequence = 0
  BY DEF Init, NotStarted
<1>2. \A c \in Context : DOMAIN completed[c] = {} /\ completed[c] \in Seq(Numbers)
  <2>1. DOMAIN <<>> = {} /\ <<>> \in Seq(Numbers)
    OBVIOUS
  <2> QED BY <1>1, <2>1
<1>3. \A c \in Context : ~ Holds(c) /\ Report(c) = 0
  BY DEF Init, Holds, Report, NoReport
<1>4. ErrorsTyped
  <2>1. captures \in [Context -> Captures]
    BY DEF Init, Captures, Phase, ErrorsBounds, NoReport
  <2>2. completed \in [Context -> Seq(Numbers)]
    BY <1>2 DEF Init
  <2> QED BY <2>1, <2>2, <1>1 DEF ErrorsTyped, Init, ErrorsBounds
<1>5. ResultOfLatest
  BY DEF Init, ResultOfLatest
<1> QED BY <1>1, <1>2, <1>3, <1>4, <1>5 DEF ErrorsInv, ErrorsNumbered, OnceRead, OnceCompleted, OnceQueued,
                                             ReadApart, CompletedApart, QueuedApart

\* A context reads with captures and completed of the right types.
LEMMA CaptureType ==
  ASSUME ErrorsInv, NEW c \in Context
  PROVE  /\ captures \in [Context -> Captures] /\ captures[c] \in Captures
         /\ captures[c].phase \in Phase /\ captures[c].report \in Nat
         /\ captures[c].blocks \in 0 .. MaxBlocks /\ captures[c].partial \in Begin \cup {NoLine}
         /\ completed \in [Context -> Seq(Numbers)] /\ completed[c] \in Seq(Numbers)
         /\ nextSequence \in Nat
BY DEF ErrorsInv, ErrorsTyped, Captures, ErrorsBounds

\* The number of reports of a context that are read, or about to go into the queue,
\* only changes as Follows says; queue, worker and what is handled stay.
LEMMA FollowsKeeps ==
  ASSUME ErrorsInv, NEW c \in Context, NEW s \in States, NEW r \in States,
         completed[c] = <<>>,
         s.phase = captures[c].phase, s.report = captures[c].report, s.last = nextSequence,
         Follows(s, r), r.last <= MaxErrors,
         captures' \in [Context -> Captures],
         captures'[c].phase = r.phase, captures'[c].report = r.report,
         \A d \in Context \ {c} : captures'[d] = captures[d],
         notifications' = IF r.last = nextSequence THEN notifications
                          ELSE [notifications EXCEPT ![c] = [sequence |-> r.last, code |-> 0]],
         nextSequence' = r.last, completed' = [completed EXCEPT ![c] = r.done],
         UNCHANGED <<queue, worker, handled>>
  PROVE  ErrorsInv'
<1> DEFINE n == s.last + 1
<1>1. /\ nextSequence \in Nat /\ r.last \in Nat /\ r.last \in {nextSequence, n} /\ n = nextSequence + 1
      /\ s.report <= nextSequence /\ s.report \in Nat
  <2>1. Report(c) <= nextSequence
    BY DEF ErrorsInv, ErrorsNumbered
  <2> QED BY <2>1, CaptureType DEF Follows, Report
<1>2. /\ r.done \in Seq(Numbers) /\ completed' \in [Context -> Seq(Numbers)] /\ completed'[c] = r.done
      /\ \A d \in Context \ {c} : completed'[d] = completed[d]
  BY CaptureType DEF Follows
<1>3. \A i \in DOMAIN r.done :
        /\ r.done[i] \in Numbers /\ r.done[i] \in {s.report, n} /\ r.done[i] # r.report
        /\ r.done[i] <= r.last
        /\ \A j \in DOMAIN r.done : r.done[i] = r.done[j] => i = j
  <2> SUFFICES ASSUME NEW i \in DOMAIN r.done
               PROVE  r.done[i] \in Numbers /\ r.done[i] <= r.last
    BY DEF Follows
  <2>1. r.done[i] \in Numbers
    <3>1. DOMAIN r.done = 1 .. Len(r.done)
      BY <1>2, LenProperties
    <3> QED BY <1>2, <3>1, ElementOfSeq
  <2> QED BY <2>1, <1>1 DEF Follows
<1>4. r.report \in {NoReport, s.report, n} /\ r.report <= r.last
  BY <1>1 DEF Follows, NoReport
<1> HIDE DEF n
<1>5. /\ \A d \in Context : Report(d) # n
      /\ \A d \in Context : \A i \in DOMAIN completed[d] : completed[d][i] # n
      /\ \A i \in DOMAIN queue : queue[i].sequence # n
      /\ worker.sequence # n /\ n \notin handled
  BY <1>1 DEF ErrorsInv, ErrorsNumbered
<1>6. nextSequence <= r.last /\ NoReport = 0
  BY <1>1 DEF NoReport
<1>7. ErrorsTyped'
  <2>1. notifications' \in [Context -> [sequence : Nat, code : Nat]]
    BY <1>1 DEF ErrorsInv, ErrorsTyped
  <2> QED BY <2>1, <1>1, <1>2 DEF ErrorsInv, ErrorsTyped
<1>8. \A d \in Context : \/ d = c /\ Report(d)' = r.report
                         \/ d # c /\ Report(d)' = Report(d)
  BY DEF Report
<1>9. \A d \in Context : Holds(d)' <=> Report(d)' # NoReport
  BY DEF Holds, Report
<1>10. \A d \in Context : Holds(d) <=> Report(d) # NoReport
  BY DEF Holds, Report
<1>11. s.report = Report(c)
  BY DEF Report
<1>12. \A d \in Context : \A i \in DOMAIN completed'[d] :
         \/ d = c /\ i \in DOMAIN r.done /\ completed'[d][i] = r.done[i]
         \/ d # c /\ i \in DOMAIN completed[d] /\ completed'[d][i] = completed[d][i]
  BY <1>2
<1>13. ErrorsNumbered'
  <2>1. \A d \in Context : Report(d)' <= r.last
    <3> SUFFICES ASSUME NEW d \in Context, d # c PROVE Report(d) <= r.last
      BY <1>4, <1>8
    <3>1. Report(d) <= nextSequence /\ Report(d) \in Nat
      BY CaptureType DEF ErrorsInv, ErrorsNumbered, Report
    <3> QED BY <3>1, <1>1, <1>6
  <2>2. \A d \in Context : captures'[d].phase = "Idle" => captures'[d].report = NoReport
    BY DEF Follows, ErrorsInv, ErrorsNumbered, Holds
  <2>3. \A d \in Context : \A i \in DOMAIN completed'[d] : completed'[d][i] <= r.last
    <3> SUFFICES ASSUME NEW d \in Context, d # c, NEW i \in DOMAIN completed[d]
                 PROVE  completed[d][i] <= r.last
      BY <1>3, <1>12
    <3>1. completed[d] \in Seq(Numbers)
      BY CaptureType
    <3>2. completed[d][i] \in Numbers
      BY <3>1, ElementOfSeq, LenProperties
    <3>3. completed[d][i] <= nextSequence
      BY DEF ErrorsInv, ErrorsNumbered
    <3> QED BY <3>2, <3>3, <1>1, <1>6 DEF Numbers
  <2>4. \A i \in DOMAIN queue : queue[i].sequence <= r.last
    <3> SUFFICES ASSUME NEW i \in DOMAIN queue PROVE queue[i].sequence <= r.last
      OBVIOUS
    <3>1. queue \in Seq(Reports)
      BY DEF ErrorsInv, ErrorsTyped
    <3>2. queue[i] \in Reports
      BY <3>1, ElementOfSeq, LenProperties
    <3>3. queue[i].sequence <= nextSequence
      BY DEF ErrorsInv, ErrorsNumbered
    <3> QED BY <3>2, <3>3, <1>1, <1>6 DEF Reports, Numbers
  <2>5. worker.sequence <= r.last
    <3>1. worker.sequence \in Nat /\ worker.sequence <= nextSequence
      BY DEF ErrorsInv, ErrorsTyped, ErrorsNumbered, Reports, Numbers, NotStarted, Waits
    <3> QED BY <3>1, <1>1, <1>6
  <2>6. \A m \in handled : m \in 1 .. r.last
    BY <1>1, <1>6 DEF ErrorsInv, ErrorsNumbered
  <2> QED BY <2>1, <2>2, <2>3, <2>4, <2>5, <2>6 DEF ErrorsNumbered, Holds
<1>14. OnceRead'
  <2> SUFFICES ASSUME NEW d \in Context, NEW e \in Context, Holds(d)', Report(d)' = Report(e)'
               PROVE  d = e
    BY DEF OnceRead
  <2> QED BY <1>4, <1>5, <1>8, <1>9, <1>10, <1>11 DEF ErrorsInv, OnceRead
<1>15. OnceCompleted'
  BY <1>3, <1>5, <1>10, <1>11, <1>12, <1>6 DEF ErrorsInv, OnceCompleted, ReadApart, Numbers
<1>16. ReadApart'
  <2> SUFFICES ASSUME NEW d \in Context, Holds(d)'
               PROVE  /\ \A e \in Context : \A i \in DOMAIN completed'[e] : completed'[e][i] # Report(d)'
                      /\ \A i \in DOMAIN queue : queue[i].sequence # Report(d)'
                      /\ worker.sequence # Report(d)' /\ Report(d)' \notin handled
    BY DEF ReadApart
  <2>1. \A e \in Context : \A i \in DOMAIN completed'[e] : completed'[e][i] # Report(d)'
    BY <1>3, <1>4, <1>5, <1>6, <1>8, <1>9, <1>10, <1>11, <1>12 DEF ErrorsInv, ReadApart, OnceRead, Numbers
  <2>2. \A i \in DOMAIN queue : queue[i].sequence # Report(d)'
    BY <1>4, <1>5, <1>8, <1>9, <1>10, <1>11 DEF ErrorsInv, ReadApart
  <2>3. worker.sequence # Report(d)' /\ Report(d)' \notin handled
    BY <1>4, <1>5, <1>8, <1>9, <1>10, <1>11 DEF ErrorsInv, ReadApart
  <2> QED BY <2>1, <2>2, <2>3
<1>17. CompletedApart'
  BY <1>3, <1>5, <1>6, <1>10, <1>11, <1>12 DEF ErrorsInv, CompletedApart, ReadApart, Numbers
<1>18. OnceQueued' /\ QueuedApart'
  BY DEF ErrorsInv, OnceQueued, QueuedApart
<1>19. ResultOfLatest'
  BY <1>1 DEF ErrorsInv, ResultOfLatest, ErrorsTyped
<1> QED BY <1>7, <1>13, <1>14, <1>15, <1>16, <1>17, <1>18, <1>19 DEF ErrorsInv, ErrorsBounds

\* What a call begins with.
Begins(c) ==
  [phase |-> captures[c].phase, report |-> captures[c].report, last |-> nextSequence, done |-> <<>>]

\* What a context begins to read lines with.
LEMMA BeginsType ==
  ASSUME ErrorsInv, NEW c \in Context
  PROVE  /\ Begins(c) \in States /\ Begins(c).done = <<>> /\ Begins(c).report <= Begins(c).last
         /\ Begins(c).phase = captures[c].phase /\ Begins(c).report = captures[c].report
         /\ Begins(c).last = nextSequence /\ Begins(c).last <= MaxErrors
         /\ Begins(c).phase = "Idle" => Begins(c).report = NoReport
         /\ Follows(Begins(c), Begins(c))
<1> DEFINE s == Begins(c)
<1>1. /\ s.phase = captures[c].phase /\ s.report = captures[c].report
      /\ s.last = nextSequence /\ s.done = <<>> /\ s \in States
  <2>1. <<>> \in Seq(Numbers)
    OBVIOUS
  <2> QED BY <2>1, CaptureType DEF Begins, States
<1>2. s.report <= s.last /\ (s.phase = "Idle" => s.report = NoReport) /\ s.last <= MaxErrors
  BY <1>1 DEF ErrorsInv, ErrorsNumbered, ErrorsTyped, Report, Holds, ErrorsBounds
<1>3. s.last \in Nat /\ s.report \in Nat /\ s.phase \in Phase
  BY <1>1 DEF States
<1>4. s.done \in Seq(Numbers) /\ DOMAIN s.done = {}
  BY <1>1
<1> HIDE DEF s
<1>5. Follows(s, s)
  BY <1>2, <1>3, <1>4 DEF Follows
<1> QED BY <1>1, <1>2, <1>5 DEF s

\* A context has read some lines.
LEMMA CapturedKeeps ==
  ASSUME ErrorsInv, NEW c \in Context, NEW r \in States, NEW partial \in Begin \cup {NoLine},
         Follows(Begins(c), r), Captured(c, r, partial)
  PROVE  ErrorsInv'
<1>1. /\ completed[c] = <<>> /\ r.last <= MaxErrors
      /\ captures' = [captures EXCEPT ![c] =
           [@ EXCEPT !.phase = r.phase, !.report = r.report, !.partial = partial]]
      /\ notifications' = IF r.last = nextSequence THEN notifications
                          ELSE [notifications EXCEPT ![c] = [sequence |-> r.last, code |-> 0]]
      /\ nextSequence' = r.last /\ completed' = [completed EXCEPT ![c] = r.done]
      /\ UNCHANGED <<queue, worker, handled>>
  BY DEF Captured, Calls
<1>2. r.phase \in Phase /\ r.report \in Nat
  BY DEF States
<1>3. /\ captures' \in [Context -> Captures]
      /\ captures'[c].phase = r.phase /\ captures'[c].report = r.report
      /\ \A d \in Context \ {c} : captures'[d] = captures[d]
  BY <1>1, <1>2, CaptureType DEF Captures
<1> QED BY <1>1, <1>3, BeginsType, FollowsKeeps

\* The three ways a context reads lines.
LEMMA CaptureKeeps ==
  ASSUME ErrorsInv, NEW c \in Context
  PROVE  /\ \A line \in Line, eligible \in BOOLEAN : CaptureLine(c, line, eligible) => ErrorsInv'
         /\ CaptureHeading(c) => ErrorsInv'
         /\ \A begin \in Begin : CapturePartial(c, begin) => ErrorsInv'
<1>1. Reads(c) = Begins(c)
  BY DEF Reads, Begins
<1>2. NoLine \in Begin \cup {NoLine} /\ "section" \in Line
  BY DEF Line
<1>3. ASSUME NEW line \in Line, NEW eligible \in BOOLEAN, CaptureLine(c, line, eligible)
      PROVE  ErrorsInv'
  <2>1. /\ ProcessLine(Begins(c), line, eligible) \in States
        /\ Follows(Begins(c), ProcessLine(Begins(c), line, eligible))
    BY BeginsType, ProcessLineFollows
  <2>2. Captured(c, ProcessLine(Begins(c), line, eligible), NoLine)
    BY <1>1, <1>3 DEF CaptureLine
  <2> QED BY <2>1, <2>2, <1>2, CapturedKeeps
<1>4. ASSUME CaptureHeading(c) PROVE ErrorsInv'
  <2>1. /\ ProcessLine(Begins(c), "section", FALSE) \in States
        /\ Follows(Begins(c), ProcessLine(Begins(c), "section", FALSE))
    BY <1>2, BeginsType, ProcessLineFollows
  <2>2. Captured(c, ProcessLine(Begins(c), "section", FALSE), NoLine)
    BY <1>1, <1>4 DEF CaptureHeading
  <2> QED BY <2>1, <2>2, <1>2, CapturedKeeps
<1>5. ASSUME NEW begin \in Begin, CapturePartial(c, begin) PROVE ErrorsInv'
  <2>1. Captured(c, Begins(c), begin)
    BY <1>1, <1>5 DEF CapturePartial
  <2> QED BY <2>1, BeginsType, CapturedKeeps
<1> QED BY <1>3, <1>4, <1>5

\* An error block begins or ends.
LEMMA BlockKeeps ==
  ASSUME ErrorsInv, NEW c \in Context, BeginErrorBlock(c) \/ EndErrorBlock(c)
  PROVE  ErrorsInv'
<1> DEFINE s == Begins(c)
<1>0. /\ s \in States /\ s.done = <<>> /\ s.phase = captures[c].phase /\ s.report = captures[c].report
      /\ s.last = nextSequence /\ s.last <= MaxErrors /\ Follows(s, s)
  BY BeginsType
<1>1. s.last \in Nat /\ s.report \in Nat /\ s.phase \in Phase
  BY <1>0 DEF States
<1>2. captures[c].blocks \in Nat /\ MaxBlocks \in Nat /\ captures[c] \in Captures
  BY CaptureType DEF ErrorsInv, ErrorsBounds
<1>3. completed[c] = <<>> /\ UNCHANGED <<notifications, nextSequence, queue, worker, handled>>
  BY DEF BeginErrorBlock, EndErrorBlock, Calls
<1>4. completed = [completed EXCEPT ![c] = s.done]
  BY <1>0, <1>3, CaptureType
<1> HIDE DEF s
<1>5. CASE BeginErrorBlock(c) /\ captures[c].blocks = 0
  <2> DEFINE r == [phase |-> "Idle", report |-> NoReport, last |-> nextSequence, done |-> <<>>]
             cc == [phase |-> "Idle", blocks |-> 1, partial |-> NoLine, report |-> NoReport]
  <2>1. captures' = [captures EXCEPT ![c] = cc] /\ completed' = completed /\ 0 < MaxBlocks
    BY <1>5 DEF BeginErrorBlock
  <2>2. cc \in Captures /\ cc.phase = "Idle" /\ cc.report = NoReport
    BY <1>2, <2>1 DEF Captures, Phase, NoReport
  <2>3. /\ r \in States /\ r.phase = "Idle" /\ r.report = NoReport /\ r.last = s.last
        /\ r.done = <<>> /\ DOMAIN r.done = {} /\ r.done \in Seq(Numbers)
    <3>1. <<>> \in Seq(Numbers)
      OBVIOUS
    <3> QED BY <3>1, <1>0, <1>1 DEF States, Phase, NoReport
  <2> HIDE DEF r, cc
  <2>4. Follows(s, r)
    BY <2>3, <1>1 DEF Follows, States, NoReport
  <2>5. /\ captures' \in [Context -> Captures]
        /\ captures'[c].phase = r.phase /\ captures'[c].report = r.report
        /\ \A d \in Context \ {c} : captures'[d] = captures[d]
    BY <2>1, <2>2, <2>3, CaptureType
  <2>6. completed' = [completed EXCEPT ![c] = r.done]
    BY <2>1, <2>3, <1>0, <1>4
  <2>7. r.last = nextSequence /\ r.last <= MaxErrors
    BY <2>3, <1>0
  <2> QED BY <2>3, <2>4, <2>5, <2>6, <2>7, <1>0, <1>3, FollowsKeeps
<1>6. CASE \/ BeginErrorBlock(c) /\ captures[c].blocks # 0
           \/ EndErrorBlock(c) /\ captures[c].blocks # 1
  <2>1. PICK b \in 0 .. MaxBlocks :
          captures' = [captures EXCEPT ![c] = [captures[c] EXCEPT !.blocks = b]]
    <3>1. CASE BeginErrorBlock(c) /\ captures[c].blocks # 0
      <4>1. captures' = [captures EXCEPT ![c] = [captures[c] EXCEPT !.blocks = captures[c].blocks + 1]]
        BY <3>1 DEF BeginErrorBlock
      <4>2. captures[c].blocks + 1 \in 0 .. MaxBlocks
        BY <3>1, <1>2 DEF BeginErrorBlock
      <4> QED BY <4>1, <4>2
    <3>2. CASE EndErrorBlock(c) /\ captures[c].blocks # 1
      <4>1. captures' = [captures EXCEPT ![c] = [captures[c] EXCEPT !.blocks = captures[c].blocks - 1]]
        BY <3>2 DEF EndErrorBlock
      <4>2. captures[c].blocks - 1 \in 0 .. MaxBlocks
        <5>1. captures[c].blocks > 0 /\ captures[c].blocks <= MaxBlocks
          BY <3>2, CaptureType DEF EndErrorBlock
        <5> QED BY <5>1, <1>2
      <4> QED BY <4>1, <4>2
    <3> QED BY <3>1, <3>2, <1>6
  <2>2. /\ captures' \in [Context -> Captures]
        /\ captures'[c].phase = s.phase /\ captures'[c].report = s.report
        /\ \A d \in Context \ {c} : captures'[d] = captures[d]
    BY <2>1, <1>0, <1>2, CaptureType DEF Captures
  <2>3. completed' = [completed EXCEPT ![c] = s.done]
    BY <1>4, <1>6 DEF BeginErrorBlock, EndErrorBlock
  <2> QED BY <2>2, <2>3, <1>0, <1>3, FollowsKeeps
<1>7. CASE EndErrorBlock(c) /\ captures[c].blocks = 1
  <2> DEFINE s0 == [phase |-> captures[c].phase, report |-> captures[c].report, done |-> <<>>]
             r0 == FinishReport(s0)
             r == FinishReport(s)
             cc == [phase |-> r0.phase, blocks |-> 0, partial |-> NoLine, report |-> r0.report]
  <2>1. captures' = [captures EXCEPT ![c] = cc] /\ completed' = [completed EXCEPT ![c] = r0.done]
    BY <1>7 DEF EndErrorBlock
  <2>2. /\ r \in States /\ r.phase = "Idle" /\ r.report = NoReport /\ r.last = s.last
        /\ r.done = IF s.phase # "Idle" /\ s.report # NoReport THEN Append(<<>>, s.report) ELSE <<>>
    BY <1>0, Finished
  <2>3. r0.phase = r.phase /\ r0.report = r.report /\ r0.done = r.done
    <3>1. /\ r0.phase = "Idle" /\ r0.report = NoReport
          /\ r0.done = IF s.phase # "Idle" /\ s.report # NoReport THEN Append(<<>>, s.report) ELSE <<>>
      BY <1>0 DEF FinishReport
    <3> QED BY <3>1, <2>2
  <2> HIDE DEF r0, s0, r
  <2>4. cc \in Captures /\ cc.phase = r.phase /\ cc.report = r.report
    BY <2>2, <2>3, <1>2 DEF Captures, Phase, NoReport
  <2> HIDE DEF cc
  <2>5. Follows(s, r)
    <3>1. /\ r.done \in Seq(Numbers)
          /\ \A i \in DOMAIN r.done : r.done[i] = s.report /\ s.report # NoReport /\ i = 1
      <4>1. CASE s.phase # "Idle" /\ s.report # NoReport
        <5>1. s.report \in Numbers /\ r.done = <<s.report>>
          BY <4>1, <1>1, <2>2 DEF Numbers, NoReport
        <5>2. <<s.report>> \in Seq(Numbers) /\ DOMAIN <<s.report>> = {1} /\ <<s.report>>[1] = s.report
          BY <5>1
        <5> QED BY <4>1, <5>1, <5>2
      <4>2. CASE ~ (s.phase # "Idle" /\ s.report # NoReport)
        <5>1. r.done = <<>>
          BY <4>2, <2>2
        <5> QED BY <5>1
      <4> QED BY <4>1, <4>2
    <3>2. r.phase \in Phase /\ s.report <= s.last
      BY <2>2, <1>0, BeginsType DEF Phase, s
    <3>3. s.report # s.last + 1
      BY <3>2, <1>1
    <3> QED BY <3>1, <3>2, <3>3, <1>1, <2>2 DEF Follows, NoReport
  <2>6. /\ captures' \in [Context -> Captures]
        /\ captures'[c].phase = r.phase /\ captures'[c].report = r.report
        /\ \A d \in Context \ {c} : captures'[d] = captures[d]
    BY <2>1, <2>4, CaptureType
  <2>7. completed' = [completed EXCEPT ![c] = r.done]
    BY <2>1, <2>3
  <2>8. r.last = nextSequence /\ r.last <= MaxErrors
    BY <2>2, <1>0
  <2> QED BY <2>2, <2>5, <2>6, <2>7, <2>8, <1>0, <1>3, FollowsKeeps
<1> QED BY <1>5, <1>6, <1>7

\* The head of what a context has completed becomes the last of the queue, whose
\* first one may have made room.
LEMMA EnqueueKeeps ==
  ASSUME ErrorsInv, NEW c \in Context, Enqueue(c)
  PROVE  ErrorsInv'
<1> DEFINE n == Head(completed[c])
<1>1. /\ completed[c] # <<>> /\ completed' = [completed EXCEPT ![c] = Tail(completed[c])]
      /\ UNCHANGED <<captures, notifications, nextSequence, handled>>
  BY DEF Enqueue
<1>2. /\ completed[c] \in Seq(Numbers) /\ completed \in [Context -> Seq(Numbers)]
      /\ queue \in Seq(Reports) /\ Len(queue) <= MaxQueue /\ MaxQueue \in Nat \ {0}
      /\ Len(queue) \in Nat /\ DOMAIN queue = 1 .. Len(queue)
  BY CaptureType, LenProperties DEF ErrorsInv, ErrorsTyped, ErrorsBounds
<1>3. /\ Tail(completed[c]) \in Seq(Numbers) /\ n = completed[c][1] /\ n \in Numbers
      /\ 1 \in DOMAIN completed[c]
      /\ \A i \in DOMAIN Tail(completed[c]) :
           i \in Nat \ {0} /\ i + 1 \in DOMAIN completed[c] /\ Tail(completed[c])[i] = completed[c][i + 1]
  <2>1. Len(completed[c]) \in Nat \ {0} /\ DOMAIN completed[c] = 1 .. Len(completed[c])
    BY <1>1, <1>2, LenProperties, EmptySeq
  <2>2. /\ Tail(completed[c]) \in Seq(Numbers) /\ Len(Tail(completed[c])) = Len(completed[c]) - 1
        /\ n = completed[c][1]
        /\ \A i \in 1 .. Len(completed[c]) - 1 : Tail(completed[c])[i] = completed[c][i + 1]
    BY <1>1, <1>2, <2>1, HeadTailProperties
  <2>3. n \in Numbers
    BY <2>1, <2>2, <1>2, ElementOfSeq
  <2>4. DOMAIN Tail(completed[c]) = 1 .. Len(completed[c]) - 1
    BY <2>2, LenProperties
  <2> QED BY <2>1, <2>2, <2>3, <2>4
<1>4. completed' \in [Context -> Seq(Numbers)]
  BY <1>1, <1>2, <1>3
<1> DEFINE old(d, i) == IF d = c THEN i + 1 ELSE i
<1>5. \A d \in Context : \A i \in DOMAIN completed'[d] :
        /\ old(d, i) \in DOMAIN completed[d] /\ completed'[d][i] = completed[d][old(d, i)]
        /\ d = c => old(d, i) # 1
  BY <1>1, <1>2, <1>3
<1>6. \A d \in Context : \A i, j \in DOMAIN completed'[d] : old(d, i) = old(d, j) => i = j
  BY <1>1, <1>2, <1>3
<1> HIDE DEF n, old
<1>7. n <= nextSequence
  BY <1>3 DEF ErrorsInv, ErrorsNumbered
<1>8. /\ \A d \in Context : \A i \in DOMAIN completed'[d] : completed'[d][i] # n
      /\ \A d \in Context : Holds(d) => Report(d) # n
      /\ \A i \in DOMAIN queue : queue[i].sequence # n
      /\ worker.sequence # n /\ n \notin handled
  <2>1. \A d \in Context : \A i \in DOMAIN completed'[d] : completed'[d][i] # n
    BY <1>3, <1>5 DEF ErrorsInv, OnceCompleted
  <2>2. \A d \in Context : Holds(d) => Report(d) # n
    BY <1>3 DEF ErrorsInv, ReadApart
  <2> QED BY <2>1, <2>2, <1>3 DEF ErrorsInv, CompletedApart
<1>9. /\ worker' \in {NotStarted, Waits} \cup Reports
      /\ worker'.sequence = worker.sequence
  BY DEF Enqueue, ErrorsInv, ErrorsTyped, NotStarted, Waits
<1>10. \E last : \E at \in [DOMAIN queue' -> DOMAIN queue \cup {last}] :
         /\ queue' \in Seq(Reports) /\ Len(queue') <= MaxQueue
         /\ \A i \in DOMAIN queue' :
              /\ i = last => queue'[i].sequence = n
              /\ i # last => at[i] \in DOMAIN queue /\ queue'[i] = queue[at[i]]
         /\ \A i, j \in DOMAIN queue' : i # last /\ j # last /\ at[i] = at[j] => i = j
  <2>1. CASE queue' = <<>>
    <3> DEFINE at == [i \in {} |-> 0]
    <3>1. DOMAIN queue' = {} /\ queue' \in Seq(Reports) /\ Len(queue') = 0
      BY <2>1
    <3>2. at \in [DOMAIN queue' -> DOMAIN queue \cup {0}]
      BY <3>1
    <3>3. 0 <= MaxQueue
      BY <1>2
    <3> QED BY <3>1, <3>2, <3>3
  <2>2. CASE queue' # <<>>
    <3> DEFINE room == IF Len(queue) = MaxQueue THEN Tail(queue) ELSE queue
               k == IF Len(queue) = MaxQueue THEN 1 ELSE 0
               e == [context |-> c, sequence |-> n]
               last == Len(room) + 1
               at == [i \in DOMAIN queue' |-> IF i = last THEN last ELSE i + k]
    <3>1. queue' = Append(room, e)
      BY <2>2 DEF Enqueue, n
    <3>2. e \in Reports /\ e.sequence = n
      BY <1>3 DEF Reports
    <3>3. /\ room \in Seq(Reports) /\ Len(room) = Len(queue) - k /\ Len(room) + 1 <= MaxQueue
          /\ \A i \in 1 .. Len(room) : room[i] = queue[i + k] /\ i + k \in DOMAIN queue
      <4>1. CASE Len(queue) = MaxQueue
        <5>1. queue # <<>>
          BY <4>1, <1>2
        <5>2. /\ Tail(queue) \in Seq(Reports) /\ Len(Tail(queue)) = Len(queue) - 1
              /\ \A i \in 1 .. Len(queue) - 1 : Tail(queue)[i] = queue[i + 1]
          BY <5>1, <1>2, HeadTailProperties
        <5> QED BY <4>1, <5>2, <1>2
      <4>2. CASE Len(queue) # MaxQueue
        <5>1. room = queue /\ k = 0
          BY <4>2
        <5>0. Len(queue) + 1 <= MaxQueue
          <6>1. Len(queue) \in Nat /\ MaxQueue \in Nat /\ Len(queue) <= MaxQueue
            BY <1>2
          <6> HIDE DEF room, k, e, last, at
          <6> QED BY <6>1, <4>2
        <5>2. \A i \in 1 .. Len(queue) : i + 0 = i
          BY <1>2
        <5> HIDE DEF room, k
        <5> QED BY <5>0, <5>1, <5>2, <1>2
      <4> QED BY <4>1, <4>2
    <3> HIDE DEF room, e
    <3>4. /\ Append(room, e) \in Seq(Reports)
          /\ DOMAIN Append(room, e) = DOMAIN room \cup {last}
          /\ \A i \in DOMAIN room : Append(room, e)[i] = room[i]
          /\ Append(room, e)[last] = e
      BY <3>2, <3>3, Appended
    <3>5. DOMAIN room = 1 .. Len(room) /\ Len(room) \in Nat /\ k \in Nat
      BY <3>3, LenProperties
    <3>6. Len(queue') <= MaxQueue
      BY <3>1, <3>2, <3>3, AppendProperties
    <3>7. \A i \in DOMAIN queue' : i # last => i \in 1 .. Len(room) /\ i + k \in DOMAIN queue
      BY <3>1, <3>3, <3>4, <3>5
    <3>8. at \in [DOMAIN queue' -> DOMAIN queue \cup {last}]
      BY <3>7
    <3>9. \A i \in DOMAIN queue' :
            /\ i = last => queue'[i].sequence = n
            /\ i # last => at[i] \in DOMAIN queue /\ queue'[i] = queue[at[i]]
      BY <3>1, <3>2, <3>3, <3>4, <3>5, <3>7
    <3>10. \A i, j \in DOMAIN queue' : i # last /\ j # last /\ at[i] = at[j] => i = j
      BY <3>5, <3>7
    <3>11. queue' \in Seq(Reports)
      BY <3>1, <3>4
    <3> HIDE DEF at, last
    <3> USE <3>8
    <3> WITNESS last
    <3> WITNESS at \in [DOMAIN queue' -> DOMAIN queue \cup {last}]
    <3> QED BY <3>6, <3>9, <3>10, <3>11
  <2> QED BY <2>1, <2>2
<1>11. PICK last : \E at \in [DOMAIN queue' -> DOMAIN queue \cup {last}] :
         /\ queue' \in Seq(Reports) /\ Len(queue') <= MaxQueue
         /\ \A i \in DOMAIN queue' :
              /\ i = last => queue'[i].sequence = n
              /\ i # last => at[i] \in DOMAIN queue /\ queue'[i] = queue[at[i]]
         /\ \A i, j \in DOMAIN queue' : i # last /\ j # last /\ at[i] = at[j] => i = j
  BY <1>10
<1>12. PICK at \in [DOMAIN queue' -> DOMAIN queue \cup {last}] :
         /\ queue' \in Seq(Reports) /\ Len(queue') <= MaxQueue
         /\ \A i \in DOMAIN queue' :
              /\ i = last => queue'[i].sequence = n
              /\ i # last => at[i] \in DOMAIN queue /\ queue'[i] = queue[at[i]]
         /\ \A i, j \in DOMAIN queue' : i # last /\ j # last /\ at[i] = at[j] => i = j
  BY <1>11
<1>13. ErrorsTyped'
  BY <1>1, <1>4, <1>9, <1>12 DEF ErrorsInv, ErrorsTyped
<1>14. /\ \A d \in Context : Holds(d)' <=> Holds(d)
       /\ \A d \in Context : Report(d)' = Report(d)
  BY <1>1 DEF Holds, Report
<1>15. ErrorsNumbered'
  BY <1>1, <1>5, <1>7, <1>9, <1>12 DEF ErrorsInv, ErrorsNumbered, Report, Holds
<1>16. OnceRead'
  BY <1>1 DEF ErrorsInv, OnceRead, Holds, Report
<1>17. OnceCompleted'
  <2> SUFFICES ASSUME NEW d \in Context, NEW e \in Context,
                      NEW i \in DOMAIN completed'[d], NEW j \in DOMAIN completed'[e],
                      completed'[d][i] = completed'[e][j]
               PROVE  d = e /\ i = j
    BY DEF OnceCompleted
  <2>1. d = e /\ old(d, i) = old(e, j)
    BY <1>5 DEF ErrorsInv, OnceCompleted
  <2> QED BY <2>1, <1>6
<1>18. OnceQueued'
  <2> SUFFICES ASSUME NEW i \in DOMAIN queue', NEW j \in DOMAIN queue',
                      queue'[i].sequence = queue'[j].sequence
               PROVE  i = j
    BY DEF OnceQueued
  <2>1. CASE i = last
    BY <2>1, <1>8, <1>12
  <2>2. CASE j = last
    BY <2>2, <1>8, <1>12
  <2>3. CASE i # last /\ j # last
    BY <2>3, <1>12 DEF ErrorsInv, OnceQueued
  <2> QED BY <2>1, <2>2, <2>3
<1>19. ReadApart'
  <2> SUFFICES ASSUME NEW d \in Context, Holds(d)
               PROVE  /\ \A e \in Context : \A i \in DOMAIN completed'[e] : completed'[e][i] # Report(d)
                      /\ \A i \in DOMAIN queue' : queue'[i].sequence # Report(d)
                      /\ worker'.sequence # Report(d) /\ Report(d) \notin handled
    BY <1>1, <1>14 DEF ReadApart, Holds, Report
  <2>1. \A e \in Context : \A i \in DOMAIN completed'[e] : completed'[e][i] # Report(d)
    BY <1>5 DEF ErrorsInv, ReadApart
  <2>2. \A i \in DOMAIN queue' : queue'[i].sequence # Report(d)
    BY <1>8, <1>12 DEF ErrorsInv, ReadApart
  <2> QED BY <2>1, <2>2, <1>9 DEF ErrorsInv, ReadApart
<1>20. CompletedApart'
  <2> SUFFICES ASSUME NEW d \in Context, NEW i \in DOMAIN completed'[d]
               PROVE  /\ \A j \in DOMAIN queue' : queue'[j].sequence # completed'[d][i]
                      /\ worker'.sequence # completed'[d][i]
                      /\ completed'[d][i] \notin handled
    BY <1>1 DEF CompletedApart
  <2>1. \A j \in DOMAIN queue' : queue'[j].sequence # completed'[d][i]
    BY <1>5, <1>8, <1>12 DEF ErrorsInv, CompletedApart
  <2> QED BY <2>1, <1>5, <1>9 DEF ErrorsInv, CompletedApart
<1>21. QueuedApart'
  BY <1>1, <1>8, <1>9, <1>12 DEF ErrorsInv, QueuedApart
<1>22. ResultOfLatest'
  BY <1>1 DEF ErrorsInv, ResultOfLatest
<1> QED BY <1>13, <1>15, <1>16, <1>17, <1>18, <1>19, <1>20, <1>21, <1>22 DEF ErrorsInv, ErrorsBounds

\* A worker that works has a report.
LEMMA HeldReport ==
  ErrorsInv /\ Works => worker \in Reports
BY DEF ErrorsInv, ErrorsTyped, Works

\* The worker takes the oldest report.
LEMMA TakesKeeps == ErrorsInv /\ WorkerTakes => ErrorsInv'
<1> SUFFICES ASSUME ErrorsInv, WorkerTakes PROVE ErrorsInv'
  OBVIOUS
<1>1. /\ worker = Waits /\ queue # <<>> /\ worker' = Head(queue) /\ queue' = Tail(queue)
      /\ UNCHANGED <<captures, notifications, nextSequence, completed, handled>>
  BY DEF WorkerTakes
<1>2. queue \in Seq(Reports) /\ Len(queue) <= MaxQueue /\ MaxQueue \in Nat
  BY DEF ErrorsInv, ErrorsTyped, ErrorsBounds
<1>3. /\ 1 \in DOMAIN queue /\ worker' = queue[1] /\ worker' \in Reports
      /\ queue' \in Seq(Reports) /\ Len(queue') <= MaxQueue
      /\ \A i \in DOMAIN queue' :
           i \in Nat \ {0} /\ i + 1 \in DOMAIN queue /\ queue'[i] = queue[i + 1]
  <2>1. Len(queue) \in Nat \ {0} /\ DOMAIN queue = 1 .. Len(queue)
    BY <1>1, <1>2, LenProperties, EmptySeq
  <2>2. /\ Tail(queue) \in Seq(Reports) /\ Len(Tail(queue)) = Len(queue) - 1 /\ Head(queue) = queue[1]
        /\ \A i \in 1 .. Len(queue) - 1 : Tail(queue)[i] = queue[i + 1]
    BY <1>1, <1>2, <2>1, HeadTailProperties
  <2>3. queue[1] \in Reports
    BY <2>1, <1>2, ElementOfSeq
  <2>4. DOMAIN Tail(queue) = 1 .. Len(queue) - 1
    BY <2>2, LenProperties
  <2> QED BY <2>1, <2>2, <2>3, <2>4, <1>1, <1>2
<1>4. ErrorsTyped'
  BY <1>1, <1>3 DEF ErrorsInv, ErrorsTyped
<1>5. ErrorsNumbered'
  BY <1>1, <1>3 DEF ErrorsInv, ErrorsNumbered, Report, Holds
<1>6. OnceRead' /\ OnceCompleted' /\ ResultOfLatest'
  BY <1>1 DEF ErrorsInv, OnceRead, OnceCompleted, ResultOfLatest, Holds, Report
<1>7. OnceQueued'
  <2> SUFFICES ASSUME NEW i \in DOMAIN queue', NEW j \in DOMAIN queue',
                      queue'[i].sequence = queue'[j].sequence
               PROVE  i = j
    BY DEF OnceQueued
  <2>1. i + 1 = j + 1
    BY <1>3 DEF ErrorsInv, OnceQueued
  <2> QED BY <2>1, <1>3
<1>8. ReadApart'
  BY <1>1, <1>3 DEF ErrorsInv, ReadApart, Report, Holds
<1>9. CompletedApart'
  BY <1>1, <1>3 DEF ErrorsInv, CompletedApart
<1>10. QueuedApart'
  <2>1. \A i \in DOMAIN queue' : queue'[i].sequence # worker'.sequence
    <3> SUFFICES ASSUME NEW i \in DOMAIN queue', queue'[i].sequence = worker'.sequence PROVE FALSE
      OBVIOUS
    <3>1. i + 1 = 1
      BY <1>3 DEF ErrorsInv, OnceQueued
    <3> QED BY <3>1, <1>3
  <2> QED BY <2>1, <1>1, <1>3 DEF ErrorsInv, QueuedApart
<1> QED BY <1>4, <1>5, <1>6, <1>7, <1>8, <1>9, <1>10 DEF ErrorsInv, ErrorsBounds

\* The worker is done with its report.
LEMMA DoneKeeps ==
  ASSUME ErrorsInv, WorkerGivesUp \/ WorkerNotifies
  PROVE  ErrorsInv'
<1>1. /\ worker \in Reports /\ worker' = Waits /\ handled' = handled \cup {worker.sequence}
      /\ UNCHANGED <<captures, nextSequence, completed, queue>>
  BY HeldReport DEF WorkerGivesUp, WorkerNotifies
<1>2. /\ worker.sequence \in Numbers /\ worker.context \in Context /\ worker'.sequence = 0
      /\ nextSequence \in Nat
  BY <1>1 DEF Reports, Waits, ErrorsInv, ErrorsTyped, ErrorsBounds
<1>3. /\ \A i \in DOMAIN queue : queue[i] \in Reports /\ queue[i].sequence # 0
      /\ \A c \in Context : \A i \in DOMAIN completed[c] : completed[c][i] # 0
  <2>1. queue \in Seq(Reports) /\ DOMAIN queue = 1 .. Len(queue)
    BY LenProperties DEF ErrorsInv, ErrorsTyped
  <2>2. ASSUME NEW i \in DOMAIN queue PROVE queue[i] \in Reports /\ queue[i].sequence # 0
    <3>1. queue[i] \in Reports
      BY <2>1, ElementOfSeq
    <3> QED BY <3>1 DEF Reports, Numbers
  <2>3. ASSUME NEW c \in Context, NEW i \in DOMAIN completed[c] PROVE completed[c][i] # 0
    <3>1. completed[c] \in Seq(Numbers)
      BY CaptureType
    <3>2. completed[c][i] \in Numbers
      BY <3>1, ElementOfSeq, LenProperties
    <3> QED BY <3>2 DEF Numbers
  <2> QED BY <2>2, <2>3
<1>4. notifications' \in [Context -> [sequence : Nat, code : Nat]] /\ ResultOfLatest'
  <2>1. CASE UNCHANGED notifications
    BY <2>1 DEF ErrorsInv, ErrorsTyped, ResultOfLatest
  <2>2. CASE /\ notifications' = [notifications EXCEPT ![worker.context].code = worker.sequence]
             /\ notifications[worker.context].sequence = worker.sequence
    <3> DEFINE w == worker.context
               m == [notifications[w] EXCEPT !.code = worker.sequence]
    <3>1. /\ notifications \in [Context -> [sequence : Nat, code : Nat]] /\ w \in Context
          /\ worker.sequence \in Nat
      BY <1>2 DEF ErrorsInv, ErrorsTyped, Numbers
    <3>2. /\ m \in [sequence : Nat, code : Nat] /\ m.code = worker.sequence
          /\ m.sequence = worker.sequence
      BY <2>2, <3>1
    <3>3. notifications' = [notifications EXCEPT ![w] = m]
      BY <2>2, <3>1
    <3> HIDE DEF w, m
    <3>4. /\ notifications' \in [Context -> [sequence : Nat, code : Nat]]
          /\ \A c \in Context : notifications'[c] = IF c = w THEN m ELSE notifications[c]
      BY <3>1, <3>2, <3>3
    <3> QED BY <3>2, <3>4 DEF ErrorsInv, ResultOfLatest
  <2> QED BY <2>1, <2>2 DEF WorkerGivesUp, WorkerNotifies
<1>5. ErrorsTyped'
  BY <1>1, <1>4 DEF ErrorsInv, ErrorsTyped
<1>6. ErrorsNumbered'
  <2>1. worker.sequence \in 1 .. nextSequence
    BY <1>2 DEF ErrorsInv, ErrorsNumbered, Numbers
  <2> QED BY <2>1, <1>1, <1>2 DEF ErrorsInv, ErrorsNumbered, Report, Holds
<1>7. OnceRead' /\ OnceCompleted' /\ OnceQueued'
  BY <1>1 DEF ErrorsInv, OnceRead, OnceCompleted, OnceQueued, Holds, Report
<1>8. ReadApart'
  BY <1>1, <1>2 DEF ErrorsInv, ReadApart, Report, Holds, NoReport
<1>9. CompletedApart'
  BY <1>1, <1>2, <1>3 DEF ErrorsInv, CompletedApart
<1>10. QueuedApart'
  <2>1. 0 \notin handled'
    <3>1. 0 \notin handled
      BY <1>2 DEF ErrorsInv, ErrorsNumbered
    <3> QED BY <3>1, <1>1, <1>2 DEF Numbers
  <2> QED BY <2>1, <1>1, <1>2, <1>3 DEF ErrorsInv, QueuedApart
<1> QED BY <1>4, <1>5, <1>6, <1>7, <1>8, <1>9, <1>10 DEF ErrorsInv, ErrorsBounds

\* Every step keeps the invariant.
LEMMA ErrorsStepKeeps == ErrorsInv /\ [Next]_vars => ErrorsInv'
<1> SUFFICES ASSUME ErrorsInv, [Next]_vars PROVE ErrorsInv'
  OBVIOUS
<1>1. CASE \E c \in Context : BeginErrorBlock(c) \/ EndErrorBlock(c) \/ Enqueue(c)
  BY <1>1, BlockKeeps, EnqueueKeeps
<1>2. CASE \E c \in Context, line \in Line, eligible \in BOOLEAN : CaptureLine(c, line, eligible)
  BY <1>2, CaptureKeeps
<1>3. CASE \E c \in Context : CaptureHeading(c)
  BY <1>3, CaptureKeeps
<1>4. CASE \E c \in Context, begin \in Begin : CapturePartial(c, begin)
  BY <1>4, CaptureKeeps
<1>5. CASE WorkerTakes
  BY <1>5, TakesKeeps
<1>6. CASE WorkerGivesUp \/ WorkerNotifies
  BY <1>6, DoneKeeps
<1>7. CASE UNCHANGED vars
  BY <1>7 DEF vars, ErrorsInv, ErrorsBounds, ErrorsTyped, ErrorsNumbered, OnceRead, OnceCompleted, OnceQueued,
              ReadApart, CompletedApart, QueuedApart, ResultOfLatest, Report, Holds
<1> QED BY <1>1, <1>2, <1>3, <1>4, <1>5, <1>6, <1>7 DEF Next

\* The inductive invariant holds.
LEMMA ErrorsInvariant == ErrorsBounds /\ Spec => []ErrorsInv
<1>1. ErrorsBounds /\ Init => ErrorsInv
  BY ErrorsInitEstablishes
<1>2. ErrorsInv /\ [Next]_vars => ErrorsInv'
  BY ErrorsStepKeeps
<1> QED BY <1>1, <1>2, PTL DEF Spec

-----------------------------------------------------------------------------
(* Theorems *)

\* A set without two different elements has at most one.
LEMMA AtMostOne ==
  ASSUME NEW S, \A x, y \in S : x = y
  PROVE  Cardinality(S) <= 1
<1>1. CASE S = {}
  BY <1>1, FS_EmptySet
<1>2. CASE S # {}
  <2>1. PICK x \in S : S = {x}
    BY <1>2
  <2> QED BY <2>1, FS_Singleton
<1> QED BY <1>1, <1>2

\* However the contexts and the worker interleave, no report is in two places or is
\* handled twice, and the result a context shows is that of the latest report handled for
\* it (Capture, Enqueue, WorkerLoop).
THEOREM ReportsAreTrue ==
  ASSUME ErrorsBounds
  PROVE  Spec => []ReportsTrue
<1>1. ErrorsInv => ReportedOnce
  <2> SUFFICES ASSUME ErrorsInv, NEW n \in 1 .. nextSequence
      PROVE  LET places == {<<"read", c>> : c \in {d \in Context : /\ captures[d].phase # "Idle"
                                                                   /\ captures[d].report = n}}
                  \cup {<<"call", c>> : c \in {d \in Context : n \in {completed[d][i] :
                                                        i \in DOMAIN completed[d]}}}
                  \cup {<<"queue", i>> : i \in {j \in DOMAIN queue : queue[j].sequence = n}}
                  \cup (IF worker.sequence = n THEN {<<"worker", "has">>} ELSE {})
                  \cup (IF n \in handled THEN {<<"worker", "had">>} ELSE {})
             IN  Cardinality(places) <= 1
    BY DEF ReportedOnce
  <2> DEFINE reads == {d \in Context : captures[d].phase # "Idle" /\ captures[d].report = n}
             calls == {d \in Context : n \in {completed[d][i] : i \in DOMAIN completed[d]}}
             queued == {j \in DOMAIN queue : queue[j].sequence = n}
             places == {<<"read", c>> : c \in reads} \cup {<<"call", c>> : c \in calls}
                       \cup {<<"queue", i>> : i \in queued}
                       \cup (IF worker.sequence = n THEN {<<"worker", "has">>} ELSE {})
                       \cup (IF n \in handled THEN {<<"worker", "had">>} ELSE {})
  <2>1. n # NoReport
    BY DEF NoReport, ErrorsInv, ErrorsTyped, ErrorsBounds
  <2>2. /\ \A c \in reads : c \in Context /\ Holds(c) /\ Report(c) = n
        /\ \A c \in calls : c \in Context /\ \E i \in DOMAIN completed[c] : completed[c][i] = n
    BY <2>1 DEF Holds, Report
  <2>3. \A c, d \in reads : c = d
    BY <2>2 DEF ErrorsInv, OnceRead
  <2>4. \A c, d \in calls : c = d
    BY <2>2 DEF ErrorsInv, OnceCompleted
  <2>5. \A i, j \in queued : i = j
    BY DEF ErrorsInv, OnceQueued
  <2>6. reads # {} => calls = {} /\ queued = {} /\ worker.sequence # n /\ n \notin handled
    BY <2>2 DEF ErrorsInv, ReadApart
  <2>7. calls # {} => queued = {} /\ worker.sequence # n /\ n \notin handled
    BY <2>2 DEF ErrorsInv, CompletedApart
  <2>8. queued # {} => worker.sequence # n /\ n \notin handled
    BY DEF ErrorsInv, QueuedApart
  <2>9. worker.sequence = n => n \notin handled
    BY DEF ErrorsInv, QueuedApart
  <2> HIDE DEF reads, calls, queued
  <2>10. \A x, y \in places : x = y
    BY <2>3, <2>4, <2>5, <2>6, <2>7, <2>8, <2>9
  <2>11. Cardinality(places) <= 1
    <3> HIDE DEF places
    <3> QED BY <2>10, AtMostOne
  <2> QED BY <2>11 DEF reads, calls, queued
<1>2. ErrorsInv => ReportsTrue
  BY <1>1 DEF ReportsTrue, ErrorsInv
<1> QED BY <1>2, ErrorsInvariant, PTL

\* Every variable of ScriptErrorTelemetry keeps its type, and the queue never holds more
\* than it may.
THEOREM ErrorsTypes ==
  ASSUME ErrorsBounds
  PROVE  Spec => []TypeOK
<1>1. ErrorsInv => TypeOK
  <2> SUFFICES ASSUME ErrorsInv PROVE TypeOK
    OBVIOUS
  <2>1. ASSUME NEW c \in Context
        PROVE  captures[c] \in [phase : {"Idle", "AwaitCallstack", "Callstack", "Details"},
                                blocks : 0 .. MaxBlocks, partial : Begin \cup {NoLine},
                                report : 0 .. nextSequence]
    <3>1. captures[c].report <= nextSequence /\ captures[c] \in Captures /\ nextSequence \in Nat
      BY CaptureType DEF ErrorsInv, ErrorsNumbered, Report
    <3> QED BY <3>1 DEF Captures, Phase
  <2>2. worker \in {NotStarted, Waits} \cup [context : Context, sequence : 1 .. nextSequence]
    <3>1. CASE worker \in Reports
      <4>1. worker.sequence <= nextSequence /\ nextSequence \in Nat
        BY DEF ErrorsInv, ErrorsNumbered, ErrorsTyped, ErrorsBounds
      <4> QED BY <3>1, <4>1 DEF Reports, Numbers
    <3> QED BY <3>1 DEF ErrorsInv, ErrorsTyped
  <2> QED BY <2>1, <2>2 DEF ErrorsInv, ErrorsTyped, TypeOK
<1> QED BY <1>1, ErrorsInvariant, PTL

-----------------------------------------------------------------------------
(* FlightRing *)

\* What the code fixes at compile time: a ring has slots, and an event has words.
RingBounds == Capacity \in Nat \ {0} /\ EventWords \in Nat /\ MaxSequence \in Nat

-----------------------------------------------------------------------------
(* The inductive invariant *)

\* An event a thread records.
Event == [seq : Nat, slot : Ring!Slot, seen : Ring!Stamps(Nat), stored : 0 .. EventWords]

RingTyped ==
  /\ sequence \in Nat /\ tickets \in Nat
  /\ stamp \in [Ring!Slot -> Ring!Stamps(Nat)]
  /\ words \in [Ring!Slot -> [Ring!Word -> Nat]]
  /\ pc \in [Thread -> {"idle", "ticket", "load", "claim", "store"}]
  /\ mine \in [Thread -> Event]
  /\ reader \in [pc : {"idle", "words", "complete"}, slot : Ring!Slot, stamp : Ring!Stamps(Nat),
                 got : Seq(Nat)]

\* Numbers have been taken before they are used, and nobody else has taken them.
Bounded ==
  \A t \in Thread :
    /\ pc[t] # "idle" => mine[t].seq <= sequence
    /\ pc[t] # "store" => mine[t].stored = 0

\* No number belongs to two threads.
Distinct ==
  \A t, u \in Thread :
    t # u /\ pc[t] # "idle" /\ pc[u] # "idle" => mine[t].seq # mine[u].seq

\* The stamp a thread is about to exchange was one it may claim.
ClaimHolds == \A t \in Thread : pc[t] = "claim" => Ring!CanClaim(mine[t].seen, mine[t].seq)

\* Who stores words has the slot, sealed or not, and the words are its own.
StoreHolds ==
  \A t \in Thread : pc[t] = "store" =>
    /\ stamp[mine[t].slot].busy
    /\ stamp[mine[t].slot].version = mine[t].seq
    /\ \A w \in 1 .. mine[t].stored : words[mine[t].slot][w] = mine[t].seq

\* A slot that may be read holds one event.
UsableWhole == \A s \in Ring!Slot : Ring!Usable(stamp[s]) => \A w \in Ring!Word : words[s][w] = stamp[s].version

\* A stamp only ever changes in one direction, so one that was left is not met again.
RingLater(new, old) == new.version > old.version \/ (new.sealed /\ ~ old.sealed)

\* What a reader has is of one event, or the slot's stamp has changed.
ReadHolds ==
  /\ reader.pc = "words" =>
       /\ Ring!Usable(reader.stamp)
       /\ Len(reader.got) <= EventWords
       /\ stamp[reader.slot] = reader.stamp =>
            \A w \in 1 .. Len(reader.got) : reader.got[w] = reader.stamp.version
       /\ stamp[reader.slot] # reader.stamp => RingLater(stamp[reader.slot], reader.stamp)
  /\ reader.pc = "complete" => \A w \in Ring!Word : reader.got[w] = reader.stamp.version

RingInv ==
  /\ RingTyped /\ Bounded /\ Distinct /\ ClaimHolds /\ StoreHolds /\ UsableWhole /\ ReadHolds

-----------------------------------------------------------------------------
(* Stamps *)

\* What is done to stamps gives stamps.
LEMMA StampTypes ==
  /\ Ring!Blank \in Ring!Stamps(Nat)
  /\ \A n \in Nat : Ring!Claimed(n) \in Ring!Stamps(Nat)
  /\ \A x \in Ring!Stamps(Nat), n \in Nat : Ring!Published(x, n) \in Ring!Stamps(Nat)
  /\ \A x \in Ring!Stamps(Nat) : Ring!Sealed(x) \in Ring!Stamps(Nat)
BY DEF Ring!Stamps, Ring!Blank, Ring!Claimed, Ring!Published, Ring!Sealed

\* A stamp is its version and its two bits.
LEMMA StampEqual ==
  ASSUME NEW x \in Ring!Stamps(Nat), NEW y \in Ring!Stamps(Nat),
         x.version = y.version, x.busy = y.busy, x.sealed = y.sealed
  PROVE  x = y
BY DEF Ring!Stamps

\* A claimed stamp is later than the one it replaces.
LEMMA ClaimedStamp ==
  ASSUME NEW x \in Ring!Stamps(Nat), NEW n \in Nat, Ring!CanClaim(x, n)
  PROVE  /\ Ring!Claimed(n).busy /\ Ring!Claimed(n).version = n /\ ~ Ring!Claimed(n).sealed
         /\ ~ Ring!Usable(Ring!Claimed(n))
         /\ ~ x.busy /\ ~ x.sealed
         /\ \A y \in Ring!Stamps(Nat) : x = y \/ RingLater(x, y) => Ring!Claimed(n) # y /\ RingLater(Ring!Claimed(n), y)
BY DEF Ring!Stamps, Ring!CanClaim, Ring!Claimed, Ring!Usable, RingLater

\* Sealing changes nothing else.
LEMMA SealedStamp ==
  ASSUME NEW x \in Ring!Stamps(Nat)
  PROVE  /\ Ring!Sealed(x).busy = x.busy /\ Ring!Sealed(x).version = x.version /\ Ring!Sealed(x).sealed
         /\ x.sealed => Ring!Sealed(x) = x
         /\ Ring!Usable(Ring!Sealed(x)) <=> Ring!Usable(x)
         /\ \A y \in Ring!Stamps(Nat) :
              (x = y \/ RingLater(x, y)) => Ring!Sealed(x) = y \/ RingLater(Ring!Sealed(x), y)
         /\ \A y \in Ring!Stamps(Nat) : x # y /\ RingLater(x, y) => Ring!Sealed(x) # y
BY DEF Ring!Stamps, Ring!Sealed, Ring!Usable, RingLater

\* A published stamp keeps its number.
LEMMA PublishedStamp ==
  ASSUME NEW x \in Ring!Stamps(Nat), NEW n \in Nat, x.busy, x.version = n
  PROVE  /\ Ring!Published(x, n).version = n
         /\ Ring!Published(x, n).sealed = x.sealed
         /\ x.sealed => Ring!Published(x, n) = x
         /\ \A y \in Ring!Stamps(Nat) : RingLater(x, y) => Ring!Published(x, n) # y /\ RingLater(Ring!Published(x, n), y)
<1>1. CASE x = Ring!Claimed(n)
  BY <1>1 DEF Ring!Stamps, Ring!Published, Ring!Claimed, Ring!Usable, RingLater
<1>2. CASE x # Ring!Claimed(n)
  <2>1. x.sealed
    BY <1>2 DEF Ring!Stamps, Ring!Claimed
  <2>2. Ring!Published(x, n) = x
    BY <1>2, Zenon DEF Ring!Published
  <2>3. \A y \in Ring!Stamps(Nat) : RingLater(x, y) => x # y
    BY DEF Ring!Stamps, RingLater
  <2> QED BY <2>2, <2>3, Zenon
<1> QED BY <1>1, <1>2

-----------------------------------------------------------------------------
(* Every action keeps the invariant *)

LEMMA RingStarts == RingBounds /\ Ring!Init => RingInv
<1> SUFFICES ASSUME RingBounds, Ring!Init PROVE RingInv
  OBVIOUS
<1>1. 0 \in Ring!Slot /\ 0 \in 0 .. EventWords /\ Ring!Blank \in Ring!Stamps(Nat)
  BY StampTypes DEF RingBounds, Ring!Slot
<1>2. RingTyped
  BY <1>1 DEF RingTyped, Event, Ring!Init, Ring!NoEvent, Ring!NoRead, RingBounds
<1>3. \A s \in Ring!Slot : ~ Ring!Usable(stamp[s])
  BY DEF Ring!Init, Ring!Blank, Ring!Usable
<1> QED BY <1>2, <1>3 DEF RingInv, Bounded, Distinct, ClaimHolds, StoreHolds, UsableWhole, ReadHolds,
                          Ring!Init, Ring!NoEvent, Ring!NoRead

\* Only the counters, the gate and what a freeze still has to do change.
LEMMA Bookkeeping ==
  ASSUME RingInv, UNCHANGED <<sequence, Ring!slots, Ring!threads, reader>>, tickets' \in Nat
  PROVE  RingInv'
BY DEF RingInv, RingTyped, Bounded, Distinct, ClaimHolds, StoreHolds, UsableWhole, ReadHolds,
       Ring!slots, Ring!threads

\* Events are updated field by field.
LEMMA EventFields ==
  ASSUME NEW e \in Event
  PROVE  /\ \A n \in Nat : [e EXCEPT !.seq = n] \in Event
         /\ \A s \in Ring!Slot : [e EXCEPT !.slot = s] \in Event
         /\ \A x \in Ring!Stamps(Nat) : [e EXCEPT !.seen = x] \in Event
         /\ \A n \in 0 .. EventWords : [e EXCEPT !.stored = n] \in Event
BY DEF Event

\* A thread that is not storing words before or after, and takes no other number.
LEMMA ThreadMoves ==
  ASSUME RingInv, NEW t \in Thread, UNCHANGED <<sequence, Ring!slots, reader>>, tickets' \in Nat,
         pc[t] \in {"ticket", "load", "claim"},
         pc' \in [Thread -> {"idle", "ticket", "load", "claim"} \cup {"store"}],
         mine' \in [Thread -> Event],
         \A u \in Thread : u # t => pc'[u] = pc[u] /\ mine'[u] = mine[u],
         pc'[t] # "store", mine'[t].stored = 0,
         pc'[t] # "idle" => mine'[t].seq = mine[t].seq,
         pc'[t] = "claim" => Ring!CanClaim(mine'[t].seen, mine'[t].seq)
  PROVE  RingInv'
<1> USE DEF RingInv
<1>1. RingTyped'
  BY DEF RingTyped, Ring!slots
<1>2. Bounded'
  BY DEF Bounded
<1>3. Distinct'
  BY DEF Distinct
<1>4. ClaimHolds'
  BY DEF ClaimHolds
<1>5. StoreHolds'
  BY DEF StoreHolds, Ring!slots
<1>6. UsableWhole' /\ ReadHolds'
  BY DEF UsableWhole, ReadHolds, Ring!slots
<1> QED BY <1>1, <1>2, <1>3, <1>4, <1>5, <1>6

LEMMA MakeEventKeeps ==
  ASSUME RingBounds, RingInv, NEW t \in Thread, Ring!MakeEvent(t)
  PROVE  RingInv'
<1> USE DEF RingInv
<1>1. /\ sequence' = sequence + 1 /\ UNCHANGED <<tickets, Ring!slots, reader>>
      /\ pc' = [pc EXCEPT ![t] = "ticket"]
      /\ mine' = [mine EXCEPT ![t].seq = sequence + 1]
      /\ pc[t] = "idle"
  BY DEF Ring!MakeEvent, Ring!Goto
<1>2. RingTyped'
  <2>1. mine[t] \in Event /\ sequence + 1 \in Nat
    BY DEF RingTyped
  <2>2. [mine[t] EXCEPT !.seq = sequence + 1] \in Event
    BY <2>1, EventFields
  <2>3. mine' \in [Thread -> Event]
    BY <1>1, <2>2 DEF RingTyped
  <2> QED BY <1>1, <2>1, <2>3 DEF RingTyped, Ring!slots
<1>3. \A u \in Thread : u # t => pc'[u] = pc[u] /\ mine'[u] = mine[u]
  BY <1>1 DEF RingTyped
<1>4. pc'[t] = "ticket" /\ mine'[t].seq = sequence + 1 /\ mine'[t].stored = mine[t].stored
  BY <1>1 DEF RingTyped, Event
<1>5. Bounded'
  BY <1>1, <1>3, <1>4 DEF Bounded, RingTyped, Event
<1>6. Distinct'
  BY <1>1, <1>3, <1>4 DEF Distinct, Bounded, RingTyped, Event
<1>7. ClaimHolds' /\ StoreHolds'
  BY <1>1, <1>3, <1>4 DEF ClaimHolds, StoreHolds, Ring!slots
<1>8. UsableWhole' /\ ReadHolds'
  BY <1>1 DEF UsableWhole, ReadHolds, Ring!slots
<1> QED BY <1>2, <1>5, <1>6, <1>7, <1>8

LEMMA TakeTicketKeeps ==
  ASSUME RingBounds, RingInv, NEW t \in Thread, Ring!TakeTicket(t)
  PROVE  RingInv'
<1> USE DEF RingInv
<1>1. tickets % Capacity \in Ring!Slot
  BY DEF RingTyped, RingBounds, Ring!Slot
<1>2. /\ pc[t] = "ticket" /\ pc' = [pc EXCEPT ![t] = "load"]
      /\ mine' = [mine EXCEPT ![t].slot = tickets % Capacity]
      /\ tickets' = tickets + 1 /\ UNCHANGED <<sequence, Ring!slots, reader>>
  BY DEF Ring!TakeTicket, Ring!Goto
<1>3. /\ pc' \in [Thread -> {"idle", "ticket", "load", "claim"} \cup {"store"}]
      /\ mine' \in [Thread -> Event]
      /\ tickets' \in Nat
  <2>1. [mine[t] EXCEPT !.slot = tickets % Capacity] \in Event
    BY <1>1, EventFields DEF RingTyped
  <2> QED BY <1>2, <2>1 DEF RingTyped
<1>4. \A u \in Thread : u # t => pc'[u] = pc[u] /\ mine'[u] = mine[u]
  BY <1>2 DEF RingTyped
<1>5. pc'[t] = "load" /\ mine'[t].seq = mine[t].seq /\ mine'[t].stored = mine[t].stored
  BY <1>2 DEF RingTyped, Event
<1>6. mine[t].stored = 0
  BY <1>2 DEF Bounded
<1> QED BY <1>2, <1>3, <1>4, <1>5, <1>6, ThreadMoves

\* A call that leaves before it has stored anything.
LEMMA LeavesKeeps ==
  ASSUME RingBounds, RingInv, NEW t \in Thread, Ring!Leaves(t), pc[t] \in {"ticket", "load", "claim"},
         UNCHANGED <<Ring!numbers, Ring!slots, reader>>
  PROVE  RingInv'
<1> USE DEF RingInv
<1>1. pc' = [pc EXCEPT ![t] = "idle"] /\ mine' = [mine EXCEPT ![t] = Ring!NoEvent]
  BY DEF Ring!Leaves, Ring!Goto
<1>2. Ring!NoEvent \in Event
  BY StampTypes DEF Ring!NoEvent, Event, RingBounds, Ring!Slot
<1>3. /\ pc' \in [Thread -> {"idle", "ticket", "load", "claim"} \cup {"store"}]
      /\ mine' \in [Thread -> Event]
      /\ UNCHANGED <<sequence, Ring!slots, reader>> /\ tickets' \in Nat
  BY <1>1, <1>2 DEF RingTyped, Ring!numbers
<1>4. \A u \in Thread : u # t => pc'[u] = pc[u] /\ mine'[u] = mine[u]
  BY <1>1 DEF RingTyped
<1>5. pc'[t] = "idle" /\ mine'[t].stored = 0
  BY <1>1 DEF RingTyped, Ring!NoEvent
<1> QED BY <1>3, <1>4, <1>5, ThreadMoves

LEMMA LoadStampKeeps ==
  ASSUME RingBounds, RingInv, NEW t \in Thread, Ring!LoadStamp(t)
  PROVE  RingInv'
<1> USE DEF RingInv
<1> DEFINE seen == stamp[mine[t].slot]
<1>1. pc[t] = "load" /\ UNCHANGED <<Ring!numbers, Ring!slots, reader>>
  BY DEF Ring!LoadStamp
<1>2. CASE ~ Ring!CanClaim(seen, mine[t].seq)
  <2>1. Ring!Leaves(t)
    BY <1>2 DEF Ring!LoadStamp
  <2> QED BY <1>1, <2>1, LeavesKeeps
<1>3. CASE Ring!CanClaim(seen, mine[t].seq)
  <2>1. mine' = [mine EXCEPT ![t].seen = seen] /\ pc' = [pc EXCEPT ![t] = "claim"]
    BY <1>3 DEF Ring!LoadStamp, Ring!Goto
  <2>2. seen \in Ring!Stamps(Nat)
    BY DEF RingTyped, Event
  <2>3. /\ pc' \in [Thread -> {"idle", "ticket", "load", "claim"} \cup {"store"}]
        /\ mine' \in [Thread -> Event]
        /\ UNCHANGED <<sequence, Ring!slots, reader>> /\ tickets' \in Nat
    <3>1. [mine[t] EXCEPT !.seen = seen] \in Event
      BY <2>2, EventFields DEF RingTyped
    <3> QED BY <1>1, <2>1, <3>1 DEF RingTyped, Ring!numbers
  <2>4. \A u \in Thread : u # t => pc'[u] = pc[u] /\ mine'[u] = mine[u]
    BY <2>1 DEF RingTyped
  <2>5. /\ pc'[t] = "claim" /\ mine'[t].stored = mine[t].stored /\ mine'[t].seq = mine[t].seq
        /\ mine'[t].seen = seen
    BY <2>1 DEF RingTyped, Event
  <2>6. mine[t].stored = 0
    BY <1>1 DEF Bounded
  <2>7. Ring!CanClaim(mine'[t].seen, mine'[t].seq)
    BY <1>3, <2>5
  <2> QED BY <1>1, <2>3, <2>4, <2>5, <2>6, <2>7, ThreadMoves
<1> QED BY <1>2, <1>3

\* Threads that store words do so in slots of their own.
LEMMA OwnSlots ==
  ASSUME RingInv, NEW t \in Thread, NEW u \in Thread, t # u, pc[t] = "store", pc[u] = "store"
  PROVE  mine[t].slot # mine[u].slot
BY DEF RingInv, Distinct, StoreHolds

LEMMA ClaimSlotKeeps ==
  ASSUME RingBounds, RingInv, NEW t \in Thread, Ring!ClaimSlot(t)
  PROVE  RingInv'
<1> USE DEF RingInv
<1> DEFINE s == mine[t].slot
           n == mine[t].seq
<1>1. pc[t] = "claim" /\ UNCHANGED <<Ring!numbers, words, reader>>
  BY DEF Ring!ClaimSlot
<1>2. CASE stamp[s] # mine[t].seen
  <2>1. Ring!Leaves(t) /\ UNCHANGED stamp
    BY <1>2 DEF Ring!ClaimSlot
  <2> QED BY <1>1, <2>1, LeavesKeeps DEF Ring!slots
<1>3. CASE stamp[s] = mine[t].seen
  <2>1. /\ stamp' = [stamp EXCEPT ![s] = Ring!Claimed(n)]
        /\ pc' = [pc EXCEPT ![t] = "store"] /\ UNCHANGED mine
    BY <1>3 DEF Ring!ClaimSlot, Ring!Goto
  <2>2. s \in Ring!Slot /\ n \in Nat /\ stamp[s] \in Ring!Stamps(Nat) /\ Ring!CanClaim(stamp[s], n)
    BY <1>1, <1>3 DEF RingTyped, Event, ClaimHolds
  <2>3. /\ Ring!Claimed(n).busy /\ Ring!Claimed(n).version = n /\ ~ Ring!Usable(Ring!Claimed(n)) /\ ~ stamp[s].busy
        /\ \A y \in Ring!Stamps(Nat) :
             stamp[s] = y \/ RingLater(stamp[s], y) => Ring!Claimed(n) # y /\ RingLater(Ring!Claimed(n), y)
    BY <2>2, ClaimedStamp
  <2>4. /\ stamp'[s] = Ring!Claimed(n)
        /\ \A r \in Ring!Slot : r # s => stamp'[r] = stamp[r]
    BY <2>1, <2>2 DEF RingTyped
  <2>5. pc'[t] = "store" /\ \A u \in Thread : u # t => pc'[u] = pc[u]
    BY <2>1 DEF RingTyped
  <2>6. RingTyped'
    <3>1. Ring!Claimed(n) \in Ring!Stamps(Nat)
      BY <2>2, StampTypes
    <3> QED BY <1>1, <2>1, <2>2, <3>1 DEF RingTyped, Ring!numbers
  <2>7. Bounded' /\ Distinct' /\ ClaimHolds'
    BY <1>1, <2>1, <2>5 DEF Bounded, Distinct, ClaimHolds, Ring!numbers
  <2>8. StoreHolds'
    <3> SUFFICES ASSUME NEW u \in Thread, pc'[u] = "store"
                 PROVE  /\ stamp'[mine[u].slot].busy
                        /\ stamp'[mine[u].slot].version = mine[u].seq
                        /\ \A w \in 1 .. mine[u].stored : words[mine[u].slot][w] = mine[u].seq
      BY <1>1, <2>1 DEF StoreHolds
    <3>1. CASE u = t
      <4>1. mine[t].stored = 0
        BY <1>1 DEF Bounded
      <4> QED BY <2>3, <2>4, <3>1, <4>1
    <3>2. CASE u # t
      <4>1. pc[u] = "store" /\ mine[u].slot \in Ring!Slot
        BY <2>5, <3>2 DEF RingTyped, Event
      <4>2. stamp[mine[u].slot].busy
        BY <4>1 DEF StoreHolds
      <4>3. mine[u].slot # s
        BY <2>3, <4>2
      <4> QED BY <2>4, <4>1, <4>3 DEF StoreHolds
    <3> QED BY <3>1, <3>2
  <2>9. UsableWhole'
    BY <1>1, <2>3, <2>4 DEF UsableWhole
  <2>10. ReadHolds'
    <3>1. CASE reader.pc = "words" /\ reader.slot = s
      <4>1. reader.stamp \in Ring!Stamps(Nat)
        BY DEF RingTyped
      <4>2. stamp[s] = reader.stamp \/ RingLater(stamp[s], reader.stamp)
        BY <3>1 DEF ReadHolds
      <4>3. Ring!Claimed(n) # reader.stamp /\ RingLater(Ring!Claimed(n), reader.stamp)
        BY <2>3, <4>1, <4>2
      <4> QED BY <1>1, <2>4, <3>1, <4>3 DEF ReadHolds
    <3>2. CASE ~ (reader.pc = "words" /\ reader.slot = s)
      <4>1. reader.slot \in Ring!Slot
        BY DEF RingTyped
      <4> QED BY <1>1, <2>4, <3>2, <4>1 DEF ReadHolds
    <3> QED BY <3>1, <3>2
  <2> QED BY <2>6, <2>7, <2>8, <2>9, <2>10
<1> QED BY <1>2, <1>3

LEMMA StoreWordKeeps ==
  ASSUME RingBounds, RingInv, NEW t \in Thread, Ring!StoreWord(t)
  PROVE  RingInv'
<1> USE DEF RingInv
<1> DEFINE s == mine[t].slot
           n == mine[t].seq
           k == mine[t].stored
<1>1. /\ pc[t] = "store" /\ k < EventWords /\ UNCHANGED <<Ring!numbers, stamp, pc, reader>>
      /\ words' = [words EXCEPT ![s][k + 1] = n]
      /\ mine' = [mine EXCEPT ![t].stored = k + 1]
  BY DEF Ring!StoreWord
<1>2. /\ s \in Ring!Slot /\ n \in Nat /\ k \in 0 .. EventWords /\ k + 1 \in Ring!Word /\ k + 1 \in 0 .. EventWords
      /\ mine[t] \in Event
  BY <1>1 DEF RingTyped, Event, Ring!Word, RingBounds
<1>3. /\ words'[s] = [words[s] EXCEPT ![k + 1] = n]
      /\ \A r \in Ring!Slot : r # s => words'[r] = words[r]
  BY <1>1, <1>2 DEF RingTyped
<1>4. words'[s] \in [Ring!Word -> Nat] /\ words'[s][k + 1] = n
      /\ \A w \in Ring!Word : w # k + 1 => words'[s][w] = words[s][w]
  BY <1>2, <1>3 DEF RingTyped
<1>5. /\ mine'[t].seq = n /\ mine'[t].slot = s /\ mine'[t].stored = k + 1
      /\ \A u \in Thread : u # t => mine'[u] = mine[u]
  BY <1>1, <1>2 DEF RingTyped, Event
<1>6. RingTyped'
  <2>1. [mine[t] EXCEPT !.stored = k + 1] \in Event
    BY <1>2, EventFields
  <2>2. mine' \in [Thread -> Event]
    BY <1>1, <2>1 DEF RingTyped
  <2>3. words' \in [Ring!Slot -> [Ring!Word -> Nat]]
    BY <1>1, <1>2, <1>3, <1>4 DEF RingTyped
  <2> QED BY <1>1, <2>2, <2>3 DEF RingTyped, Ring!numbers
<1>7. Bounded' /\ Distinct' /\ ClaimHolds'
  BY <1>1, <1>5 DEF Bounded, Distinct, ClaimHolds, Ring!numbers
<1>8. StoreHolds'
  <2> SUFFICES ASSUME NEW u \in Thread, pc[u] = "store"
               PROVE  /\ stamp[mine'[u].slot].busy
                      /\ stamp[mine'[u].slot].version = mine'[u].seq
                      /\ \A w \in 1 .. mine'[u].stored : words'[mine'[u].slot][w] = mine'[u].seq
    BY <1>1 DEF StoreHolds
  <2>1. CASE u = t
    <3>1. \A w \in 1 .. k + 1 : w \in Ring!Word /\ (w = k + 1 \/ w \in 1 .. k)
      BY <1>1, <1>2 DEF Ring!Word, RingBounds
    <3>2. \A w \in 1 .. k : words[s][w] = n
      BY <1>1 DEF StoreHolds
    <3>3. \A w \in 1 .. k + 1 : words'[s][w] = n
      BY <1>4, <3>1, <3>2
    <3> QED BY <1>1, <1>5, <2>1, <3>3 DEF StoreHolds
  <2>2. CASE u # t
    <3>1. mine[u].slot # s /\ mine[u].slot \in Ring!Slot
      BY <1>1, <2>2, OwnSlots DEF RingTyped, Event
    <3> QED BY <1>3, <1>5, <2>2, <3>1 DEF StoreHolds
  <2> QED BY <2>1, <2>2
<1>9. UsableWhole'
  <2>1. ~ Ring!Usable(stamp[s])
    BY <1>1 DEF StoreHolds, Ring!Usable
  <2> QED BY <1>1, <1>3, <2>1 DEF UsableWhole
<1>10. ReadHolds'
  BY <1>1 DEF ReadHolds
<1> QED BY <1>6, <1>7, <1>8, <1>9, <1>10

LEMMA PublishSlotKeeps ==
  ASSUME RingBounds, RingInv, NEW t \in Thread, Ring!PublishSlot(t)
  PROVE  RingInv'
<1> USE DEF RingInv
<1> DEFINE s == mine[t].slot
           n == mine[t].seq
           p == Ring!Published(stamp[s], n)
<1>1. /\ pc[t] = "store" /\ mine[t].stored = EventWords /\ UNCHANGED <<Ring!numbers, words, reader>>
      /\ stamp' = [stamp EXCEPT ![s] = p]
      /\ pc' = [pc EXCEPT ![t] = "idle"] /\ mine' = [mine EXCEPT ![t] = Ring!NoEvent]
  BY DEF Ring!PublishSlot, Ring!Leaves, Ring!Goto
<1>2. s \in Ring!Slot /\ n \in Nat /\ stamp[s] \in Ring!Stamps(Nat) /\ p \in Ring!Stamps(Nat)
  BY StampTypes DEF RingTyped, Event
<1>3. /\ stamp[s].busy /\ stamp[s].version = n
      /\ \A w \in 1 .. EventWords : words[s][w] = n
  BY <1>1 DEF StoreHolds
<1>4. /\ p.version = n
      /\ \A y \in Ring!Stamps(Nat) : RingLater(stamp[s], y) => p # y /\ RingLater(p, y)
  BY <1>2, <1>3, PublishedStamp
<1>5. stamp'[s] = p /\ \A r \in Ring!Slot : r # s => stamp'[r] = stamp[r]
  BY <1>1, <1>2 DEF RingTyped
<1>6. /\ pc'[t] = "idle" /\ mine'[t].stored = 0
      /\ \A u \in Thread : u # t => pc'[u] = pc[u] /\ mine'[u] = mine[u]
  BY <1>1 DEF RingTyped, Ring!NoEvent
<1>7. RingTyped'
  <2>1. Ring!NoEvent \in Event
    BY StampTypes DEF Ring!NoEvent, Event, RingBounds, Ring!Slot
  <2> QED BY <1>1, <1>2, <2>1 DEF RingTyped, Ring!numbers
<1>8. Bounded' /\ Distinct' /\ ClaimHolds'
  BY <1>1, <1>6 DEF Bounded, Distinct, ClaimHolds, Ring!numbers
<1>9. StoreHolds'
  <2> SUFFICES ASSUME NEW u \in Thread, pc'[u] = "store"
               PROVE  /\ stamp'[mine[u].slot].busy
                      /\ stamp'[mine[u].slot].version = mine[u].seq
                      /\ \A w \in 1 .. mine[u].stored : words[mine[u].slot][w] = mine[u].seq
                      /\ mine'[u] = mine[u]
    BY <1>1 DEF StoreHolds
  <2>1. u # t /\ pc[u] = "store" /\ mine'[u] = mine[u]
    BY <1>6
  <2>2. mine[u].slot # s /\ mine[u].slot \in Ring!Slot
    BY <1>1, <2>1, OwnSlots DEF RingTyped, Event
  <2> QED BY <1>5, <2>1, <2>2 DEF StoreHolds
<1>10. UsableWhole'
  BY <1>1, <1>3, <1>4, <1>5 DEF UsableWhole, Ring!Word
<1>11. ReadHolds'
  <2>1. CASE reader.pc = "words" /\ reader.slot = s
    <3>1. reader.stamp \in Ring!Stamps(Nat) /\ stamp[s] # reader.stamp
      BY <1>3, <2>1 DEF RingTyped, ReadHolds, Ring!Usable
    <3>2. RingLater(stamp[s], reader.stamp)
      BY <2>1, <3>1 DEF ReadHolds
    <3>3. p # reader.stamp /\ RingLater(p, reader.stamp)
      BY <1>4, <3>1, <3>2
    <3> QED BY <1>1, <1>5, <2>1, <3>3 DEF ReadHolds
  <2>2. CASE ~ (reader.pc = "words" /\ reader.slot = s)
    <3>1. reader.slot \in Ring!Slot
      BY DEF RingTyped
    <3> QED BY <1>1, <1>5, <2>2, <3>1 DEF ReadHolds
  <2> QED BY <2>1, <2>2
<1> QED BY <1>7, <1>8, <1>9, <1>10, <1>11

LEMMA SealSlotKeeps ==
  ASSUME RingBounds, RingInv, NEW s \in Ring!Slot, Ring!SealSlot(s)
  PROVE  RingInv'
<1> USE DEF RingInv
<1>1. stamp' = [stamp EXCEPT ![s] = Ring!Sealed(stamp[s])] /\ UNCHANGED <<Ring!numbers, words, Ring!threads, reader>>
  BY DEF Ring!SealSlot
<1>2. stamp[s] \in Ring!Stamps(Nat) /\ Ring!Sealed(stamp[s]) \in Ring!Stamps(Nat)
  BY StampTypes DEF RingTyped
<1>3. /\ stamp'[s] = Ring!Sealed(stamp[s])
      /\ \A r \in Ring!Slot : r # s => stamp'[r] = stamp[r]
  BY <1>1 DEF RingTyped
<1>4. /\ Ring!Sealed(stamp[s]).busy = stamp[s].busy /\ Ring!Sealed(stamp[s]).version = stamp[s].version
      /\ Ring!Usable(Ring!Sealed(stamp[s])) <=> Ring!Usable(stamp[s])
      /\ \A y \in Ring!Stamps(Nat) :
           stamp[s] = y \/ RingLater(stamp[s], y) => Ring!Sealed(stamp[s]) = y \/ RingLater(Ring!Sealed(stamp[s]), y)
      /\ \A y \in Ring!Stamps(Nat) : stamp[s] # y /\ RingLater(stamp[s], y) => Ring!Sealed(stamp[s]) # y
  BY <1>2, SealedStamp
<1>5. RingTyped'
  BY <1>1, <1>2 DEF RingTyped, Ring!numbers, Ring!threads
<1>6. Bounded' /\ Distinct' /\ ClaimHolds'
  BY <1>1 DEF Bounded, Distinct, ClaimHolds, Ring!numbers, Ring!threads
<1>7. StoreHolds'
  <2> SUFFICES ASSUME NEW u \in Thread, pc[u] = "store"
               PROVE  /\ stamp'[mine[u].slot].busy
                      /\ stamp'[mine[u].slot].version = mine[u].seq
                      /\ \A w \in 1 .. mine[u].stored : words[mine[u].slot][w] = mine[u].seq
    BY <1>1 DEF StoreHolds, Ring!threads
  <2>1. mine[u].slot \in Ring!Slot
    BY DEF RingTyped, Event
  <2>2. /\ stamp[mine[u].slot].busy /\ stamp[mine[u].slot].version = mine[u].seq
        /\ \A w \in 1 .. mine[u].stored : words[mine[u].slot][w] = mine[u].seq
    BY DEF StoreHolds
  <2>3. CASE mine[u].slot = s
    <3>1. Ring!Sealed(stamp[s]).busy /\ Ring!Sealed(stamp[s]).version = mine[u].seq
      BY <1>4, <2>2, <2>3
    <3> QED BY <1>3, <2>2, <2>3, <3>1
  <2>4. CASE mine[u].slot # s
    BY <1>3, <2>1, <2>2, <2>4
  <2> QED BY <2>3, <2>4
<1>8. UsableWhole'
  BY <1>1, <1>3, <1>4 DEF UsableWhole
<1>9. ReadHolds'
  <2>1. CASE reader.pc = "words" /\ reader.slot = s
    <3>1. reader.stamp \in Ring!Stamps(Nat) /\ (stamp[s] = reader.stamp \/ RingLater(stamp[s], reader.stamp))
      BY <2>1 DEF RingTyped, ReadHolds
    <3>2. /\ Ring!Sealed(stamp[s]) = reader.stamp \/ RingLater(Ring!Sealed(stamp[s]), reader.stamp)
          /\ Ring!Sealed(stamp[s]) = reader.stamp => stamp[s] = reader.stamp
      BY <1>4, <3>1
    <3> QED BY <1>1, <1>3, <2>1, <3>2 DEF ReadHolds
  <2>2. CASE ~ (reader.pc = "words" /\ reader.slot = s)
    <3>1. reader.slot \in Ring!Slot
      BY DEF RingTyped
    <3> QED BY <1>1, <1>3, <2>2, <3>1 DEF ReadHolds
  <2> QED BY <2>1, <2>2
<1> QED BY <1>5, <1>6, <1>7, <1>8, <1>9

\* Steps of a report change nothing but the report.
LEMMA ReaderKeeps ==
  ASSUME RingInv, UNCHANGED <<Ring!numbers, Ring!slots, Ring!threads>>, ReadHolds',
         reader' \in [pc : {"idle", "words", "complete"}, slot : Ring!Slot, stamp : Ring!Stamps(Nat),
                      got : Seq(Nat)]
  PROVE  RingInv'
BY DEF RingInv, RingTyped, Bounded, Distinct, ClaimHolds, StoreHolds, UsableWhole,
       Ring!numbers, Ring!slots, Ring!threads

LEMMA ReadStampKeeps ==
  ASSUME RingBounds, RingInv, NEW s \in Ring!Slot, Ring!ReadStamp(s)
  PROVE  RingInv'
<1>1. /\ reader' = [pc |-> "words", slot |-> s, stamp |-> stamp[s], got |-> <<>>]
      /\ Ring!Usable(stamp[s]) /\ UNCHANGED <<Ring!numbers, Ring!slots, Ring!threads>>
  BY DEF Ring!ReadStamp
<1>2. reader' \in [pc : {"idle", "words", "complete"}, slot : Ring!Slot, stamp : Ring!Stamps(Nat),
                   got : Seq(Nat)]
  BY <1>1 DEF RingInv, RingTyped
<1>3. ReadHolds'
  BY <1>1 DEF ReadHolds, Ring!slots, RingBounds
<1> QED BY <1>1, <1>2, <1>3, ReaderKeeps

LEMMA ReadWordKeeps ==
  ASSUME RingBounds, RingInv, Ring!ReadWord
  PROVE  RingInv'
<1> DEFINE k == Len(reader.got) + 1
           word == words[reader.slot][k]
<1>1. /\ reader.pc = "words" /\ Len(reader.got) < EventWords
      /\ reader' = [reader EXCEPT !.got = Append(reader.got, word)]
      /\ UNCHANGED <<Ring!numbers, Ring!slots, Ring!threads>>
  BY DEF Ring!ReadWord
<1>2. /\ reader.slot \in Ring!Slot /\ reader.got \in Seq(Nat) /\ k \in Ring!Word /\ word \in Nat
  BY <1>1 DEF RingInv, RingTyped, Ring!Word, RingBounds
<1>3. /\ Append(reader.got, word) \in Seq(Nat) /\ Len(Append(reader.got, word)) = k
      /\ Append(reader.got, word)[k] = word
      /\ \A w \in 1 .. Len(reader.got) : Append(reader.got, word)[w] = reader.got[w]
  BY <1>2
<1>4. /\ reader'.pc = reader.pc /\ reader'.slot = reader.slot /\ reader'.stamp = reader.stamp
      /\ reader'.got = Append(reader.got, word)
      /\ reader' \in [pc : {"idle", "words", "complete"}, slot : Ring!Slot, stamp : Ring!Stamps(Nat),
                       got : Seq(Nat)]
  BY <1>1, <1>3 DEF RingInv, RingTyped
<1>5. ReadHolds'
  <2>1. ASSUME stamp[reader.slot] = reader.stamp, NEW w \in 1 .. k
        PROVE  reader'.got[w] = reader.stamp.version
    <3>1. Ring!Usable(reader.stamp)
      BY <1>1 DEF RingInv, ReadHolds
    <3>2. word = reader.stamp.version
      BY <1>2, <2>1, <3>1 DEF RingInv, UsableWhole
    <3>3. w = k \/ w \in 1 .. Len(reader.got)
      BY <1>2
    <3> QED BY <1>1, <1>3, <1>4, <2>1, <3>2, <3>3 DEF RingInv, ReadHolds
  <2>2. Len(reader'.got) = k /\ k <= EventWords
    BY <1>1, <1>2, <1>3, <1>4 DEF RingBounds
  <2> QED BY <1>1, <1>4, <2>1, <2>2 DEF RingInv, ReadHolds, Ring!slots
<1> QED BY <1>1, <1>4, <1>5, ReaderKeeps

LEMMA ValidateKeeps ==
  ASSUME RingBounds, RingInv, Ring!Validate
  PROVE  RingInv'
<1>1. /\ reader.pc = "words" /\ Len(reader.got) = EventWords /\ UNCHANGED <<Ring!numbers, Ring!slots, Ring!threads>>
      /\ reader' = IF stamp[reader.slot] = reader.stamp THEN [reader EXCEPT !.pc = "complete"] ELSE Ring!NoRead
  BY DEF Ring!Validate
<1>2. Ring!NoRead.pc = "idle" /\ Ring!NoRead \in [pc : {"idle", "words", "complete"}, slot : Ring!Slot,
                                                  stamp : Ring!Stamps(Nat), got : Seq(Nat)]
  BY StampTypes DEF Ring!NoRead, RingBounds, Ring!Slot
<1>3. reader' \in [pc : {"idle", "words", "complete"}, slot : Ring!Slot, stamp : Ring!Stamps(Nat),
                   got : Seq(Nat)]
  BY <1>1, <1>2 DEF RingInv, RingTyped
<1>4. ReadHolds'
  <2>1. CASE stamp[reader.slot] = reader.stamp
    <3>1. /\ reader'.pc = "complete" /\ reader'.got = reader.got /\ reader'.stamp = reader.stamp
      BY <1>1, <2>1 DEF RingInv, RingTyped
    <3>2. \A w \in Ring!Word : reader.got[w] = reader.stamp.version
      BY <1>1, <2>1 DEF RingInv, ReadHolds, Ring!Word
    <3> QED BY <3>1, <3>2 DEF ReadHolds
  <2>2. CASE stamp[reader.slot] # reader.stamp
    BY <1>1, <1>2, <2>2 DEF ReadHolds
  <2> QED BY <2>1, <2>2
<1> QED BY <1>1, <1>3, <1>4, ReaderKeeps

LEMMA EndReadKeeps ==
  ASSUME RingBounds, RingInv, Ring!EndRead
  PROVE  RingInv'
<1>1. Ring!NoRead.pc = "idle" /\ Ring!NoRead \in [pc : {"idle", "words", "complete"}, slot : Ring!Slot,
                                                  stamp : Ring!Stamps(Nat), got : Seq(Nat)]
  BY StampTypes DEF Ring!NoRead, RingBounds, Ring!Slot
<1>2. reader' = Ring!NoRead /\ UNCHANGED <<Ring!numbers, Ring!slots, Ring!threads>>
  BY DEF Ring!EndRead
<1>3. ReadHolds'
  BY <1>1, <1>2 DEF ReadHolds
<1> QED BY <1>1, <1>2, <1>3, ReaderKeeps

-----------------------------------------------------------------------------
(* Theorems *)

LEMMA RingStepKeeps == RingBounds /\ RingInv /\ [Ring!Next]_(Ring!vars) => RingInv'
<1> SUFFICES ASSUME RingBounds, RingInv, [Ring!Next]_(Ring!vars) PROVE RingInv'
  OBVIOUS
<1>1. ASSUME NEW t \in Thread, Ring!Writer(t) PROVE RingInv'
  BY <1>1, MakeEventKeeps, TakeTicketKeeps, LoadStampKeeps, ClaimSlotKeeps, StoreWordKeeps,
     PublishSlotKeeps DEF Ring!Writer
<1>2. CASE Ring!Freeze
  <2>1. ASSUME NEW s \in Ring!Slot, Ring!SealSlot(s) PROVE RingInv'
    BY <2>1, SealSlotKeeps
  <2>2. CASE Ring!CloseGate \/ Ring!FreezeComplete
    <3>1. UNCHANGED <<sequence, Ring!slots, Ring!threads, reader>> /\ tickets' \in Nat
      BY <2>2 DEF Ring!CloseGate, Ring!FreezeComplete, RingInv, RingTyped, Ring!numbers
    <3> QED BY <3>1, Bookkeeping
  <2> QED BY <1>2, <2>1, <2>2 DEF Ring!Freeze
<1>3. CASE Ring!Reader
  BY <1>3, ReadStampKeeps, ReadWordKeeps, ValidateKeeps, EndReadKeeps DEF Ring!Reader
<1>4. CASE UNCHANGED Ring!vars
  <2>1. UNCHANGED <<sequence, Ring!slots, Ring!threads, reader>> /\ tickets' \in Nat
    BY <1>4 DEF Ring!vars, RingInv, RingTyped, Ring!numbers
  <2> QED BY <2>1, Bookkeeping
<1> QED BY <1>1, <1>2, <1>3, <1>4 DEF Ring!Next

\* The inductive invariant holds in every reachable state of a ring (PublishIntoRing,
\* Freeze and ReadSlot in any interleaving).
THEOREM RingInvariant ==
  ASSUME RingBounds
  PROVE  Ring!Spec => []RingInv
<1>1. Ring!Init => RingInv
  BY RingStarts
<1>2. RingInv /\ [Ring!Next]_(Ring!vars) => RingInv'
  BY RingStepKeeps
<1> QED BY <1>1, <1>2, PTL DEF Ring!Spec

\* Neither a slot that a report or a dump finds usable nor what a report has
\* validated mixes the words of two events (ReadSlot, PublishSlot), for any number
\* of writers that overtake each other and a freeze at any moment.
THEOREM RecordsNotMixed ==
  ASSUME RingBounds
  PROVE  Ring!Spec => []Ring!NoMixedRecord
<1>1. RingInv => Ring!NoMixedRecord
  BY DEF RingInv, UsableWhole, ReadHolds, Ring!NoMixedRecord
<1> QED BY <1>1, RingInvariant, PTL

LEMMA StepKeepsSealed == RingInv /\ [Ring!Next]_(Ring!vars) => Ring!KeepsSealed \/ UNCHANGED Ring!vars
<1> SUFFICES ASSUME RingInv, Ring!Next, NEW s \in Ring!Slot, stamp[s].sealed
             PROVE  /\ stamp'[s] = stamp[s]
                    /\ Ring!Usable(stamp[s]) => words'[s] = words[s]
  BY DEF Ring!KeepsSealed
<1> USE DEF RingInv
<1>1. stamp[s] \in Ring!Stamps(Nat)
  BY DEF RingTyped
<1>2. CASE UNCHANGED Ring!slots
  BY <1>2 DEF Ring!slots
<1>3. ASSUME NEW t \in Thread, Ring!ClaimSlot(t) PROVE UNCHANGED words /\ stamp'[s] = stamp[s]
  <2>1. CASE stamp[mine[t].slot] # mine[t].seen
    BY <1>3, <2>1 DEF Ring!ClaimSlot
  <2>2. CASE stamp[mine[t].slot] = mine[t].seen
    <3>1. ~ stamp[mine[t].slot].sealed
      BY <1>3, <2>2 DEF Ring!ClaimSlot, ClaimHolds, Ring!CanClaim
    <3>2. mine[t].slot # s
      BY <3>1
    <3> QED BY <1>3, <2>2, <3>2 DEF Ring!ClaimSlot, RingTyped
  <2> QED BY <2>1, <2>2
<1>4. ASSUME NEW t \in Thread, Ring!StoreWord(t)
      PROVE  UNCHANGED stamp /\ (Ring!Usable(stamp[s]) => words'[s] = words[s])
  <2>1. pc[t] = "store" /\ UNCHANGED stamp
        /\ words' = [words EXCEPT ![mine[t].slot][mine[t].stored + 1] = mine[t].seq]
    BY <1>4 DEF Ring!StoreWord
  <2>2. Ring!Usable(stamp[s]) => mine[t].slot # s
    BY <2>1 DEF StoreHolds, Ring!Usable
  <2> QED BY <2>1, <2>2 DEF RingTyped
<1>5. ASSUME NEW t \in Thread, Ring!PublishSlot(t) PROVE UNCHANGED words /\ stamp'[s] = stamp[s]
  <2>1. /\ pc[t] = "store" /\ UNCHANGED words
        /\ stamp' = [stamp EXCEPT ![mine[t].slot] = Ring!Published(stamp[mine[t].slot], mine[t].seq)]
    BY <1>5 DEF Ring!PublishSlot
  <2>2. CASE mine[t].slot = s
    <3>1. stamp[s].busy /\ stamp[s].version = mine[t].seq /\ mine[t].seq \in Nat
      BY <2>1, <2>2 DEF StoreHolds, RingTyped, Event
    <3>2. Ring!Published(stamp[s], mine[t].seq) = stamp[s]
      BY <1>1, <3>1, PublishedStamp
    <3> QED BY <2>1, <2>2, <3>2 DEF RingTyped
  <2>3. CASE mine[t].slot # s
    BY <2>1, <2>3 DEF RingTyped
  <2> QED BY <2>2, <2>3
<1>6. ASSUME NEW r \in Ring!Slot, Ring!SealSlot(r) PROVE UNCHANGED words /\ stamp'[s] = stamp[s]
  <2>1. Ring!Sealed(stamp[s]) = stamp[s]
    BY <1>1, SealedStamp
  <2>2. UNCHANGED words /\ stamp' = [stamp EXCEPT ![r] = Ring!Sealed(stamp[r])]
    BY <1>6 DEF Ring!SealSlot
  <2> QED BY <2>1, <2>2 DEF RingTyped
<1>7. Ring!Next => \/ UNCHANGED Ring!slots
                   \/ \E t \in Thread : Ring!ClaimSlot(t) \/ Ring!StoreWord(t) \/ Ring!PublishSlot(t)
                   \/ \E r \in Ring!Slot : Ring!SealSlot(r)
  BY DEF Ring!Next, Ring!Writer, Ring!Freeze, Ring!Reader, Ring!MakeEvent, Ring!TakeTicket,
         Ring!LoadStamp, Ring!CloseGate, Ring!FreezeComplete, Ring!ReadStamp, Ring!ReadWord,
         Ring!Validate, Ring!EndRead
<1> QED BY <1>2, <1>3, <1>4, <1>5, <1>6, <1>7

\* A seal holds (PublishSlot, Freeze): no writer, wherever the freeze met it, changes
\* the stamp of a sealed slot or the words of one that is usable.
THEOREM SealsHold ==
  ASSUME RingBounds
  PROVE  Ring!Spec => Ring!SealHolds
<1>1. RingInv /\ [Ring!Next]_(Ring!vars) => [Ring!KeepsSealed]_(Ring!vars)
  BY StepKeepsSealed
<1> QED BY <1>1, RingInvariant, PTL DEF Ring!Spec, Ring!SealHolds

-----------------------------------------------------------------------------
(* Types and bounds *)

\* Who has a number and no ticket yet.
Ticketless == {t \in Thread : pc[t] = "ticket"}

\* Nobody knows a number that has not been taken, and every ticket is one event's.
RingCounts ==
  /\ gate \in BOOLEAN /\ frozen \in BOOLEAN /\ unsealed \subseteq Ring!Slot
  /\ sequence <= MaxSequence
  /\ \A s \in Ring!Slot : stamp[s].version <= sequence
  /\ \A s \in Ring!Slot : \A w \in Ring!Word : words[s][w] <= sequence
  /\ \A t \in Thread : mine[t].seq <= sequence /\ mine[t].seen.version <= sequence
  /\ tickets + Cardinality(Ticketless) <= sequence

\* The threads without a ticket, when one of them takes a number or a ticket.
LEMMA TicketlessCounts ==
  ASSUME IsFiniteSet(Thread), NEW t \in Thread
  PROVE  /\ Cardinality(Ticketless) \in Nat
         /\ Ticketless' = Ticketless \cup {t} /\ t \notin Ticketless =>
              Cardinality(Ticketless') = Cardinality(Ticketless) + 1
         /\ Ticketless' = Ticketless \ {t} /\ t \in Ticketless =>
              Cardinality(Ticketless') = Cardinality(Ticketless) - 1
<1>1. IsFiniteSet(Ticketless)
  BY FS_Subset DEF Ticketless
<1>2. Cardinality(Ticketless) \in Nat
  BY <1>1, FS_CardinalityType
<1> QED BY <1>1, <1>2, FS_AddElement, FS_RemoveElement

\* A step that takes neither a number nor a ticket.
LEMMA RingCountsKept ==
  ASSUME RingInv, RingCounts,
         gate' \in BOOLEAN, frozen' \in BOOLEAN, unsealed' \subseteq Ring!Slot,
         sequence' = sequence, tickets' = tickets, Ticketless' = Ticketless,
         \A s \in Ring!Slot : stamp'[s].version <= sequence,
         \A s \in Ring!Slot : \A w \in Ring!Word : words'[s][w] <= sequence,
         \A t \in Thread : mine'[t].seq <= sequence /\ mine'[t].seen.version <= sequence
  PROVE  RingCounts'
BY DEF RingCounts

\* The steps of a thread that records.
LEMMA WriterKeepsCounts ==
  ASSUME RingBounds, IsFiniteSet(Thread), RingInv, RingCounts, NEW t \in Thread, Ring!Writer(t)
  PROVE  RingCounts'
<1> USE DEF RingInv
<1>1. /\ sequence \in Nat /\ tickets \in Nat /\ MaxSequence \in Nat
      /\ pc \in [Thread -> {"idle", "ticket", "load", "claim", "store"}]
      /\ mine \in [Thread -> Event] /\ mine[t] \in Event
      /\ stamp \in [Ring!Slot -> Ring!Stamps(Nat)] /\ words \in [Ring!Slot -> [Ring!Word -> Nat]]
      /\ mine[t].slot \in Ring!Slot /\ mine[t].seq \in Nat
  BY DEF RingTyped, RingBounds, Event
<1>2. \A s \in Ring!Slot : stamp[s].version \in Nat
  BY <1>1 DEF Ring!Stamps
<1>3. /\ \A u \in Thread : mine[u].seq \in Nat /\ mine[u].seen.version \in Nat
      /\ \A s \in Ring!Slot : \A w \in Ring!Word : words[s][w] \in Nat
  BY <1>1 DEF Event, Ring!Stamps
<1>4. CASE Ring!MakeEvent(t)
  <2>1. /\ pc[t] = "idle" /\ sequence < MaxSequence /\ sequence' = sequence + 1
        /\ mine' = [mine EXCEPT ![t].seq = sequence + 1] /\ pc' = [pc EXCEPT ![t] = "ticket"]
        /\ tickets' = tickets /\ UNCHANGED <<Ring!slots, Ring!freezing>>
    BY <1>4 DEF Ring!MakeEvent, Ring!Goto
  <2>2. Ticketless' = Ticketless \cup {t} /\ t \notin Ticketless
    BY <1>1, <2>1 DEF Ticketless
  <2>3. /\ Cardinality(Ticketless) \in Nat
        /\ Cardinality(Ticketless') = Cardinality(Ticketless) + 1
    BY <2>2, TicketlessCounts
  <2>4. tickets' + Cardinality(Ticketless') <= sequence'
    BY <1>1, <2>1, <2>3 DEF RingCounts
  <2>5. \A u \in Thread : mine'[u].seq <= sequence' /\ mine'[u].seen.version <= sequence'
    <3> SUFFICES ASSUME NEW u \in Thread
                 PROVE  mine'[u].seq <= sequence' /\ mine'[u].seen.version <= sequence'
      OBVIOUS
    <3>1. mine'[u].seen = mine[u].seen /\ mine'[u].seq \in {mine[u].seq, sequence + 1}
      BY <1>1, <2>1 DEF Event
    <3>2. /\ mine[u].seq <= sequence /\ mine[u].seen.version <= sequence
          /\ mine[u].seq \in Nat /\ mine[u].seen.version \in Nat
      BY <1>3 DEF RingCounts
    <3> QED BY <1>1, <2>1, <3>1, <3>2
  <2>6. /\ \A s \in Ring!Slot : stamp'[s].version <= sequence'
        /\ \A s \in Ring!Slot : \A w \in Ring!Word : words'[s][w] <= sequence'
    BY <1>1, <1>2, <1>3, <2>1 DEF RingCounts, Ring!slots
  <2> QED BY <1>1, <2>1, <2>4, <2>5, <2>6 DEF RingCounts, Ring!freezing
<1>5. CASE Ring!TakeTicket(t)
  <2>1. /\ pc[t] = "ticket" /\ sequence' = sequence /\ tickets' = tickets + 1
        /\ mine' = [mine EXCEPT ![t].slot = tickets % Capacity] /\ pc' = [pc EXCEPT ![t] = "load"]
        /\ UNCHANGED <<Ring!slots, Ring!freezing>>
    BY <1>5 DEF Ring!TakeTicket, Ring!Goto
  <2>2. Ticketless' = Ticketless \ {t} /\ t \in Ticketless
    BY <1>1, <2>1 DEF Ticketless
  <2>3. /\ Cardinality(Ticketless) \in Nat
        /\ Cardinality(Ticketless') = Cardinality(Ticketless) - 1
    BY <2>2, TicketlessCounts
  <2>4. tickets' + Cardinality(Ticketless') <= sequence'
    BY <1>1, <2>1, <2>3 DEF RingCounts
  <2>5. \A u \in Thread : mine'[u].seq = mine[u].seq /\ mine'[u].seen = mine[u].seen
    BY <1>1, <2>1 DEF Event
  <2> QED BY <2>1, <2>4, <2>5 DEF RingCounts, Ring!freezing, Ring!slots
<1>6. ASSUME Ring!Leaves(t), pc[t] # "ticket", UNCHANGED <<Ring!numbers, words, Ring!freezing>>,
             \A s \in Ring!Slot : stamp'[s].version = stamp[s].version
      PROVE  RingCounts'
  <2>1. mine' = [mine EXCEPT ![t] = Ring!NoEvent] /\ pc' = [pc EXCEPT ![t] = "idle"]
    BY <1>6 DEF Ring!Leaves, Ring!Goto
  <2>2. Ticketless' = Ticketless
    BY <1>1, <1>6, <2>1 DEF Ticketless
  <2>3. Ring!NoEvent.seq = 0 /\ Ring!NoEvent.seen.version = 0
    BY DEF Ring!NoEvent, Ring!Blank
  <2>4. \A u \in Thread : mine'[u].seq <= sequence /\ mine'[u].seen.version <= sequence
    BY <1>1, <2>1, <2>3 DEF RingCounts
  <2> QED BY <1>6, <2>2, <2>4, RingCountsKept DEF Ring!numbers, Ring!freezing, RingCounts
<1>7. CASE Ring!LoadStamp(t)
  <2>1. CASE ~ Ring!CanClaim(stamp[mine[t].slot], mine[t].seq)
    BY <1>6, <1>7, <2>1 DEF Ring!LoadStamp, Ring!slots
  <2>2. CASE Ring!CanClaim(stamp[mine[t].slot], mine[t].seq)
    <3>1. /\ mine' = [mine EXCEPT ![t].seen = stamp[mine[t].slot]] /\ pc' = [pc EXCEPT ![t] = "claim"]
          /\ pc[t] = "load" /\ UNCHANGED <<Ring!numbers, Ring!slots, Ring!freezing>>
      BY <1>7, <2>2 DEF Ring!LoadStamp, Ring!Goto
    <3>2. Ticketless' = Ticketless
      BY <1>1, <3>1 DEF Ticketless
    <3>3. \A u \in Thread : /\ mine'[u].seq = mine[u].seq
                            /\ mine'[u].seen \in {mine[u].seen, stamp[mine[t].slot]}
      BY <1>1, <3>1 DEF Event
    <3>4. stamp[mine[t].slot].version <= sequence
      BY <1>1 DEF RingCounts
    <3>5. \A u \in Thread : mine'[u].seq <= sequence /\ mine'[u].seen.version <= sequence
      BY <3>3, <3>4 DEF RingCounts
    <3> QED BY <3>1, <3>2, <3>5, RingCountsKept DEF Ring!numbers, Ring!slots, Ring!freezing, RingCounts
  <2> QED BY <2>1, <2>2
<1>8. CASE Ring!ClaimSlot(t)
  <2>1. CASE stamp[mine[t].slot] # mine[t].seen
    BY <1>6, <1>8, <2>1 DEF Ring!ClaimSlot
  <2>2. CASE stamp[mine[t].slot] = mine[t].seen
    <3>1. /\ stamp' = [stamp EXCEPT ![mine[t].slot] = Ring!Claimed(mine[t].seq)]
          /\ mine' = mine /\ pc' = [pc EXCEPT ![t] = "store"] /\ pc[t] = "claim"
          /\ UNCHANGED <<Ring!numbers, words, Ring!freezing>>
      BY <1>8, <2>2 DEF Ring!ClaimSlot, Ring!Goto
    <3>2. Ticketless' = Ticketless
      BY <1>1, <3>1 DEF Ticketless
    <3>3. Ring!Claimed(mine[t].seq).version <= sequence
      BY DEF Ring!Claimed, RingCounts
    <3>4. \A s \in Ring!Slot : stamp'[s].version <= sequence
      BY <1>1, <3>1, <3>3 DEF RingCounts
    <3> QED BY <3>1, <3>2, <3>4, RingCountsKept DEF Ring!numbers, Ring!freezing, RingCounts
  <2> QED BY <2>1, <2>2
<1>9. CASE Ring!StoreWord(t)
  <2>1. /\ words' = [words EXCEPT ![mine[t].slot][mine[t].stored + 1] = mine[t].seq]
        /\ mine' = [mine EXCEPT ![t].stored = @ + 1]
        /\ UNCHANGED <<Ring!numbers, stamp, pc, Ring!freezing>>
    BY <1>9 DEF Ring!StoreWord
  <2>2. \A u \in Thread : mine'[u].seq = mine[u].seq /\ mine'[u].seen = mine[u].seen
    BY <1>1, <2>1 DEF Event
  <2>3. \A s \in Ring!Slot : \A w \in Ring!Word : words'[s][w] \in {words[s][w], mine[t].seq}
    BY <1>1, <2>1
  <2>4. \A s \in Ring!Slot : \A w \in Ring!Word : words'[s][w] <= sequence
    BY <2>3 DEF RingCounts
  <2>5. Ticketless' = Ticketless
    BY <2>1 DEF Ticketless
  <2> QED BY <2>1, <2>2, <2>4, <2>5, RingCountsKept DEF Ring!numbers, Ring!freezing, RingCounts
<1>10. CASE Ring!PublishSlot(t)
  <2>1. /\ pc[t] = "store" /\ Ring!Leaves(t) /\ UNCHANGED <<Ring!numbers, words, Ring!freezing>>
        /\ stamp' = [stamp EXCEPT ![mine[t].slot] = Ring!Published(stamp[mine[t].slot], mine[t].seq)]
    BY <1>10 DEF Ring!PublishSlot
  <2>2. \A x \in Ring!Stamps(Nat), n \in Nat : Ring!Published(x, n).version = x.version
    BY DEF Ring!Published, Ring!Stamps
  <2>3. \A s \in Ring!Slot : stamp'[s].version = stamp[s].version
    BY <1>1, <2>1, <2>2
  <2> QED BY <1>6, <2>1, <2>3
<1> QED BY <1>4, <1>5, <1>7, <1>8, <1>9, <1>10 DEF Ring!Writer

\* Every step keeps the counts.
LEMMA StepKeepsCounts ==
  ASSUME RingBounds, IsFiniteSet(Thread), RingInv, RingCounts, [Ring!Next]_(Ring!vars)
  PROVE  RingCounts'
<1> USE DEF RingInv
<1>1. ASSUME NEW s \in Ring!Slot, Ring!SealSlot(s)
      PROVE  RingCounts'
  <2>1. /\ stamp' = [stamp EXCEPT ![s] = Ring!Sealed(stamp[s])] /\ unsealed' = unsealed \ {s}
        /\ UNCHANGED <<Ring!numbers, words, Ring!threads, gate, frozen>>
    BY <1>1 DEF Ring!SealSlot
  <2>2. stamp \in [Ring!Slot -> Ring!Stamps(Nat)] /\ Ring!Sealed(stamp[s]).version = stamp[s].version
    BY SealedStamp DEF RingTyped
  <2>3. \A r \in Ring!Slot : stamp'[r].version = stamp[r].version
    BY <2>1, <2>2
  <2>4. Ticketless' = Ticketless
    BY <2>1 DEF Ticketless, Ring!threads
  <2> QED BY <2>1, <2>3, <2>4, RingCountsKept DEF Ring!numbers, Ring!threads, RingCounts
<1>2. CASE Ring!CloseGate \/ Ring!FreezeComplete \/ Ring!Reader \/ UNCHANGED Ring!vars
  <2>1. UNCHANGED <<Ring!numbers, Ring!slots, Ring!threads>> /\ gate' \in BOOLEAN /\ frozen' \in BOOLEAN
        /\ unsealed' = unsealed
    BY <1>2
       DEF Ring!CloseGate, Ring!FreezeComplete, Ring!Reader, Ring!ReadStamp, Ring!ReadWord,
           Ring!Validate, Ring!EndRead, Ring!vars, Ring!freezing, RingCounts
  <2>2. Ticketless' = Ticketless
    BY <2>1 DEF Ticketless, Ring!threads
  <2> QED BY <2>1, <2>2, RingCountsKept DEF Ring!numbers, Ring!slots, Ring!threads, RingCounts
<1> QED BY <1>1, <1>2, WriterKeepsCounts DEF Ring!Next, Ring!Freeze

\* At first no number has been taken.
LEMMA RingInitCounts == RingBounds /\ Ring!Init => RingCounts
<1> SUFFICES ASSUME RingBounds, Ring!Init PROVE RingCounts
  OBVIOUS
<1>1. Ticketless = {} /\ Cardinality({}) = 0
  BY FS_EmptySet DEF Ticketless, Ring!Init
<1>2. /\ \A s \in Ring!Slot : stamp[s].version = 0
      /\ \A s \in Ring!Slot : \A w \in Ring!Word : words[s][w] = 0
      /\ \A t \in Thread : mine[t].seq = 0 /\ mine[t].seen.version = 0
  BY DEF Ring!Init, Ring!Blank, Ring!NoEvent
<1>3. tickets + Cardinality(Ticketless) = 0 /\ sequence = 0 /\ 0 <= MaxSequence
  BY <1>1 DEF Ring!Init, RingBounds
<1>4. /\ \A s \in Ring!Slot : stamp[s].version <= sequence
      /\ \A s \in Ring!Slot : \A w \in Ring!Word : words[s][w] <= sequence
      /\ \A t \in Thread : mine[t].seq <= sequence /\ mine[t].seen.version <= sequence
  BY <1>2, <1>3
<1>5. /\ gate \in BOOLEAN /\ frozen \in BOOLEAN /\ unsealed \subseteq Ring!Slot
      /\ sequence <= MaxSequence /\ tickets + Cardinality(Ticketless) <= sequence
  <2>1. gate \in BOOLEAN /\ frozen \in BOOLEAN /\ unsealed \subseteq Ring!Slot
    BY DEF Ring!Init
  <2>2. sequence <= MaxSequence /\ tickets + Cardinality(Ticketless) <= sequence
    BY <1>3
  <2> QED BY <2>1, <2>2
<1> QED BY <1>4, <1>5 DEF RingCounts

\* Types and bounds: no more tickets than numbers are given out, and no slot, word or
\* event knows a number that was not (MakeEvent, PublishIntoRing).
THEOREM RingTypes ==
  ASSUME RingBounds, IsFiniteSet(Thread)
  PROVE  Ring!Spec => []Ring!TypeOK
<1>1. Ring!Init => RingCounts
  BY RingInitCounts
<1>2. RingInv /\ RingCounts /\ [Ring!Next]_(Ring!vars) => RingCounts'
  BY StepKeepsCounts
<1>3. RingInv /\ RingCounts => Ring!TypeOK
  <2> SUFFICES ASSUME RingInv, RingCounts PROVE Ring!TypeOK
    OBVIOUS
  <2> USE DEF RingInv
  <2>1. sequence \in Nat /\ tickets \in Nat /\ MaxSequence \in Nat
    BY DEF RingTyped, RingBounds
  <2>2. IsFiniteSet(Ticketless)
    BY FS_Subset DEF Ticketless
  <2>3. Cardinality(Ticketless) \in Nat
    BY <2>2, FS_CardinalityType
  <2>4. sequence \in Ring!Sequence /\ tickets \in Ring!Sequence
    BY <2>1, <2>3 DEF RingCounts, Ring!Sequence
  <2>5. \A n \in Nat : n <= sequence => n \in Ring!Sequence
    BY <2>1 DEF RingCounts, Ring!Sequence
  <2>6. \A x \in Ring!Stamps(Nat) : x.version <= sequence => x \in Ring!Stamps(Ring!Sequence)
    BY <2>5 DEF Ring!Stamps
  <2>7. stamp \in [Ring!Slot -> Ring!Stamps(Ring!Sequence)]
    BY <2>6 DEF RingTyped, RingCounts
  <2>8. words \in [Ring!Slot -> [Ring!Word -> Ring!Sequence]]
    BY <2>5 DEF RingTyped, RingCounts
  <2>9. mine \in [Thread -> [seq : Ring!Sequence, slot : Ring!Slot, seen : Ring!Stamps(Ring!Sequence),
                             stored : 0 .. EventWords]]
    BY <2>5, <2>6 DEF RingTyped, RingCounts, Event
  <2> QED BY <2>4, <2>7, <2>8, <2>9 DEF RingTyped, RingCounts, Ring!TypeOK
<1> QED BY <1>1, <1>2, <1>3, RingInvariant, PTL DEF Ring!Spec

-----------------------------------------------------------------------------
(* FlightIdentity *)

\* The threads are finitely many, None is neither a thread nor an address, and there is a
\* way.
IdentityBounds ==
  /\ MaxSequence \in Nat /\ IsFiniteSet(Thread) /\ Identity!None \notin Thread \cup Key
  /\ Ways \in Nat \ {0}

-----------------------------------------------------------------------------
(* The inductive invariant *)

\* Where a thread can be in UpdateResource.
IdentityLabels == {"idle", "lock", "scan", "select", "claim", "key", "generation", "epoch", "publish", "invalidate",
                   "unlock"}

\* A key of the bucket, or none yet.
Keys == Key \cup {Identity!None}

\* What a call of UpdateResource is about.
Calling == [kind : {"create", "release", "use"}, key : Keys, gen : Identity!Number, seq : Identity!Number,
            epoch : Identity!Number, way : 0 .. Ways, free : SUBSET Identity!Way, retired : BOOLEAN,
            passed : BOOLEAN]

Finders == [pc : {"idle", "stamp", "words", "epoch", "found"}, key : Keys, epoch : Identity!Number, way : 0 .. Ways,
            stamp : Identity!Stamps(Identity!Number), got : Seq(Keys \cup Identity!Number),
            floor : [any : Identity!Number, sure : Identity!Number]]

Records == Keys \X Identity!Number \X Identity!Number \X BOOLEAN

\* Who looks for a way, who has chosen one, and who has claimed it.
Looking == {"scan", "select"}
Chosen == {"claim", "key", "generation", "epoch", "publish"}
Filling == {"key", "generation", "epoch", "publish"}

\* All of these have the bucket.
Inside == Looking \cup Chosen

IdentityTyped ==
  /\ gate \in BOOLEAN /\ sequence \in Identity!Number /\ generation \in Identity!Number
  /\ writing \in Thread \cup {Identity!None} /\ epoch \in Identity!Number
  /\ mark \in [Identity!Way -> Identity!Stamps(Identity!Number)]
  /\ record \in [Identity!Way -> Records]
  /\ place \in [Thread -> IdentityLabels] /\ op \in [Thread -> Calling]
  /\ finder \in Finders
  /\ owns \in [Key -> Identity!Number]
  /\ keyOf \in [1 .. MaxSequence -> Keys]
  /\ newest \in [Key -> [any : Identity!Number, sure : Identity!Number]]

\* Who may still raise the epoch.
Active == {t \in Thread : place[t] \notin {"idle", "unlock"}}

\* Every epoch and every generation is that of a number that has been taken.
IdentityCounted == generation <= sequence /\ epoch + Cardinality(Active) <= sequence

\* The generation g was made for the address k.
Made(g, k) == g \in 1 .. generation /\ k \in Key /\ keyOf[g] = k

\* Every generation that somebody knows was made, for the address it is known for.
Generations ==
  /\ \A g \in 1 .. generation : keyOf[g] \in Key
  /\ \A t \in Thread : place[t] # "idle" => Made(op[t].gen, op[t].key)
  /\ \A k \in Key : newest[k].sure # 0 => Made(newest[k].sure, k)

\* An address belongs to the last record created for it, and calls that create or release
\* records of one address do not overlap: the engine does not let them.
Owners ==
  /\ \A k \in Key : owns[k] # 0 => /\ Made(owns[k], k)
                                   /\ \A g \in 1 .. generation : keyOf[g] = k => g <= owns[k]
  /\ \A t \in Thread : place[t] # "idle" /\ op[t].kind # "use" => owns[op[t].key] = op[t].gen
  /\ \A t, u \in Thread :
       /\ t # u
       /\ place[t] # "idle" /\ op[t].kind # "use"
       /\ place[u] # "idle" /\ op[u].kind # "use"
       => op[t].key # op[u].key

\* Who is between the lock and the unlock has the lock.
Locked == \A t \in Thread : place[t] \in Inside => writing = t

\* Calls have numbers that have been taken, and epochs that were reached.
IdentityNumbered ==
  \A t \in Thread : op[t].epoch <= epoch /\ (place[t] # "idle" => op[t].seq \in 1 .. sequence)

\* Two ways hold the same address.
Twins(v, w) == v # w /\ record[v][1] = record[w][1] /\ record[v][1] \in Key

\* A way that holds an address was published once; one that is busy has an owner, or stays
\* so for ever; and of two with the same address one is sealed, for it was passed over.
Apart ==
  /\ \A w \in Identity!Way : record[w][1] \in Key => mark[w].version # 0
  /\ \A w \in Identity!Way : mark[w].busy /\ ~ mark[w].sealed => \E t \in Thread : place[t] \in Filling /\ op[t].way = w
  /\ \A v, w \in Identity!Way : Twins(v, w) => mark[v].sealed \/ mark[w].sealed

\* What a thread has seen of the ways it has looked at: none of those it could use had a
\* twin that it could use too, not even one it had yet to look at.
Looked ==
  \A t \in Thread :
    /\ place[t] = "lock" => op[t].way = 0 /\ op[t].free = {}
    /\ place[t] = "scan" => op[t].way < Ways
    /\ place[t] = "select" => op[t].way = Ways
    /\ place[t] \in Looking =>
         /\ \A w \in Identity!Way : w <= op[t].way => w \in op[t].free \/ (mark[w].sealed /\ op[t].passed)
         /\ \A w \in op[t].free : w <= op[t].way /\ ~ mark[w].busy
         /\ \A v \in op[t].free, w \in Identity!Way : Twins(v, w) => mark[w].sealed /\ w \notin op[t].free

\* The slot holds what the thread that claimed it has stored so far.
Filled ==
  \A t \in Thread : place[t] \in Filling =>
    /\ mark[op[t].way].busy /\ mark[op[t].way].version = op[t].seq
    /\ place[t] # "key" => record[op[t].way][1] = op[t].key
    /\ place[t] \in {"epoch", "publish"} => record[op[t].way][2] = op[t].gen
    /\ place[t] = "publish" => record[op[t].way][3] = op[t].epoch

\* A record (k, g) that could still be served is no older than any creation that has
\* returned, or is about to, without having passed over a sealed way.
Worth(k, g) ==
  /\ g >= newest[k].sure
  /\ \A t \in Thread : place[t] = "unlock" /\ op[t].kind = "create" /\ op[t].key = k /\ ~ op[t].passed => g >= op[t].gen

\* While the epoch of a usable way is the present one, what it says is still worth
\* finding.
SlotHolds(w) ==
  Identity!Usable(mark[w]) =>
    /\ Made(record[w][2], record[w][1])
    /\ record[w][3] <= epoch
    /\ record[w][3] = epoch => Worth(record[w][1], record[w][2])

SlotCurrent == \A w \in Identity!Way : SlotHolds(w)

\* No other way could be served in place of the one a thread has chosen, but those that a
\* creation has passed over.
AloneIn(t) ==
  /\ op[t].way \in Identity!Way
  /\ \A v \in Identity!Way : v # op[t].way /\ record[v][1] = op[t].key =>
       mark[v].sealed /\ (op[t].kind = "create" => op[t].passed)

\* What a thread is about to store there is worth finding.
WriterCurrent ==
  \A t \in Thread : place[t] \in Chosen =>
    /\ AloneIn(t)
    /\ op[t].epoch = epoch => Worth(op[t].key, op[t].gen)

\* A stamp only ever changes in one direction, so one that was left is not met again.
IdentityLater(new, old) == new.version > old.version \/ (new.sealed /\ ~ old.sealed)

\* What a lookup has read is from one publication, or the slot's stamp has changed.
ReaderHolds ==
  /\ finder.pc # "idle" =>
       /\ finder.key \in Key /\ finder.way \in Identity!Way
       /\ finder.epoch <= epoch /\ finder.floor.sure <= newest[finder.key].sure
  /\ finder.pc = "stamp" => finder.got = <<>>
  /\ finder.pc = "words" =>
       /\ Identity!Usable(finder.stamp)
       /\ Len(finder.got) <= 3
       /\ mark[finder.way] = finder.stamp => \A n \in DOMAIN finder.got : finder.got[n] = record[finder.way][n]
       /\ mark[finder.way] # finder.stamp => IdentityLater(mark[finder.way], finder.stamp)
  /\ finder.pc \in {"epoch", "found"} => Made(finder.got[2], finder.key)
  /\ finder.pc = "epoch" /\ epoch = finder.epoch => finder.got[2] >= finder.floor.sure
  /\ finder.pc = "found" => finder.got[2] >= finder.floor.sure

\* LookupCurrent speaks of a finished lookup; the parts follow the ways, the threads that
\* write them and the lookup on the way there.
IdentityInv ==
  /\ IdentityTyped /\ IdentityCounted /\ Generations /\ Owners /\ Locked /\ IdentityNumbered
  /\ Apart /\ Looked /\ Filled /\ SlotCurrent /\ WriterCurrent /\ ReaderHolds

-----------------------------------------------------------------------------
(* Lemmas *)

\* A generation that was made stays made.
LEMMA StaysMade ==
  ASSUME generation \in Nat, generation' \in Nat, generation <= generation', \A g \in 1 .. generation : keyOf'[g] = keyOf[g],
         NEW g, NEW k, Made(g, k)
  PROVE  Made(g, k)'
  BY DEF Made

\* Types of parts.
LEMMA PartTypes ==
  ASSUME IdentityBounds, IdentityTyped
  PROVE  /\ \A w \in Identity!Way :
              /\ mark[w] \in Identity!Stamps(Identity!Number)
              /\ mark[w].version \in Nat /\ mark[w].busy \in BOOLEAN /\ mark[w].sealed \in BOOLEAN
              /\ record[w] \in Records
              /\ record[w][1] \in Keys /\ record[w][2] \in Nat /\ record[w][3] \in Nat
         /\ \A t \in Thread :
              /\ op[t] \in Calling /\ op[t].gen \in Nat /\ op[t].seq \in Nat /\ op[t].epoch \in Nat
              /\ op[t].way \in 0 .. Ways /\ op[t].passed \in BOOLEAN /\ op[t].free \subseteq Identity!Way
         /\ \A k \in Key : newest[k].sure \in Nat
         /\ epoch \in Nat /\ generation \in Nat /\ sequence \in Nat /\ 0 \in Identity!Number
         /\ Identity!Way = 1 .. Ways /\ Identity!Way \subseteq Nat
  <1>1. Identity!Number \subseteq Nat /\ 0 \in Identity!Number /\ Identity!Way = 1 .. Ways
    BY DEF Identity!Number, Identity!Way, IdentityBounds
  <1>2. Identity!Way \subseteq Nat
    BY <1>1 DEF IdentityBounds
  <1>3. \A w \in Identity!Way :
              /\ mark[w] \in Identity!Stamps(Identity!Number)
              /\ mark[w].version \in Nat /\ mark[w].busy \in BOOLEAN /\ mark[w].sealed \in BOOLEAN
    BY <1>1 DEF IdentityTyped, Identity!Stamps
  <1>4. \A w \in Identity!Way :
              /\ record[w] \in Records
              /\ record[w][1] \in Keys /\ record[w][2] \in Nat /\ record[w][3] \in Nat
    BY <1>1 DEF IdentityTyped, Records
  <1>5. \A t \in Thread :
              /\ op[t] \in Calling /\ op[t].gen \in Nat /\ op[t].seq \in Nat /\ op[t].epoch \in Nat
              /\ op[t].way \in 0 .. Ways /\ op[t].passed \in BOOLEAN /\ op[t].free \subseteq Identity!Way
    BY <1>1 DEF IdentityTyped, Calling
  <1>6. /\ \A k \in Key : newest[k].sure \in Nat
        /\ epoch \in Nat /\ generation \in Nat /\ sequence \in Nat
    BY <1>1 DEF IdentityTyped
  <1>7. QED
    BY <1>1, <1>2, <1>3, <1>4, <1>5, <1>6

\* The bucket has one thread at a time.
LEMMA OthersOutside ==
  ASSUME IdentityInv, NEW t \in Thread, place[t] \in Inside
  PROVE  \A u \in Thread \ {t} : place[u] \notin Inside
  BY DEF IdentityInv, Locked

LEMMA ActiveCounts ==
  ASSUME IsFiniteSet(Thread), NEW t \in Thread
  PROVE  /\ Cardinality(Active) \in Nat
         /\ Active' = Active \cup {t} /\ t \notin Active => Cardinality(Active') = Cardinality(Active) + 1
         /\ Active' = Active \ {t} /\ t \in Active => Cardinality(Active') = Cardinality(Active) - 1
  <1>1. IsFiniteSet(Active)
    BY FS_Subset DEF Active
  <1>2. Cardinality(Active) \in Nat
    BY <1>1, FS_CardinalityType
  <1>3. QED
    BY <1>1, <1>2, FS_AddElement, FS_RemoveElement

\* A thread goes on inside its call.
LEMMA GoesOn ==
  ASSUME IdentityBounds, IdentityTyped, IdentityCounted, NEW t \in Thread, NEW l \in IdentityLabels, Identity!Goto(t, l),
         place[t] # "idle", UNCHANGED <<generation, sequence>>,
         \/ place[t] # "unlock" /\ l # "idle" /\ epoch' = epoch
         \/ place[t] = "unlock" /\ l = "idle" /\ epoch' = epoch
         \/ place[t] = "invalidate" /\ l = "unlock" /\ epoch' = epoch + 1
  PROVE  IdentityCounted' /\ epoch' \in Identity!Number
  <1>1. /\ place \in [Thread -> IdentityLabels] /\ place' = [place EXCEPT ![t] = l] /\ epoch \in Nat
        /\ sequence \in Nat /\ sequence <= MaxSequence /\ MaxSequence \in Nat
    BY DEF IdentityTyped, Identity!Goto, Identity!Number, IdentityBounds
  <1>2. CASE place[t] # "unlock" /\ l # "unlock"
    <2>1. Active' = Active
      BY <1>1, <1>2 DEF Active
    <2>2. QED
      BY <1>1, <1>2, <2>1, ActiveCounts DEF IdentityCounted, IdentityBounds, IdentityTyped
  <1>3. CASE place[t] # "unlock" /\ l = "unlock"
    <2>1. Active' = Active \ {t} /\ t \in Active
      BY <1>1, <1>3 DEF Active
    <2>2. Cardinality(Active) \in Nat /\ Cardinality(Active') = Cardinality(Active) - 1
      BY <2>1, ActiveCounts DEF IdentityBounds
    <2>3. epoch' \in Nat /\ epoch' <= epoch + 1 /\ Cardinality(Active') \in Nat
      <3>1. IsFiniteSet(Active')
        BY FS_Subset DEF Active, IdentityBounds
      <3>2. QED
        BY <1>1, <3>1, FS_CardinalityType
    <2>4. QED
      BY <1>1, <2>2, <2>3 DEF IdentityCounted, Identity!Number
  <1>4. CASE place[t] = "unlock"
    <2>1. l = "idle"
      BY <1>4
    <2>2. Active' = Active
      BY <1>1, <1>4, <2>1 DEF Active
    <2>3. QED
      BY <1>1, <1>4, <2>2, ActiveCounts DEF IdentityCounted, IdentityBounds, IdentityTyped
  <1>5. QED
    BY <1>2, <1>3, <1>4
\* A way that was usable and stays as it was is worth what it was.
LEMMA SlotKept ==
  ASSUME NEW w \in Identity!Way, SlotHolds(w), record'[w] = record[w],
         Identity!Usable(mark'[w]) => Identity!Usable(mark[w]),
         \A k, g : Made(g, k) => Made(g, k)', epoch' = epoch,
         \A k, g : Identity!Usable(mark[w]) /\ k = record[w][1] /\ g = record[w][2] /\ record[w][3] = epoch /\ Worth(k, g) => Worth(k, g)'
  PROVE  SlotHolds(w)'
  <1>1. PICK k, g : k = record[w][1] /\ g = record[w][2]
    OBVIOUS
  <1>2. Identity!Usable(mark'[w]) => Made(g, k)'
    BY <1>1 DEF SlotHolds
  <1>3. Identity!Usable(mark'[w]) /\ record[w][3] = epoch => Worth(k, g)'
    BY <1>1 DEF SlotHolds
  <1>4. QED
    BY <1>1, <1>2, <1>3 DEF SlotHolds, Made, Worth

\* What a step may do to a way that a lookup is reading.
Moves(w) ==
  \/ mark'[w] = mark[w] /\ (Identity!Usable(mark[w]) => record'[w] = record[w])
  \/ /\ mark'[w].version >= mark[w].version /\ (mark[w].sealed => mark'[w].sealed)
     /\ ~ Identity!Usable(mark[w]) \/ IdentityLater(mark'[w], mark[w])

\* No step of a thread or of the freeze misleads a lookup.
LEMMA ReaderKept ==
  ASSUME IdentityBounds, IdentityInv, IdentityTyped', UNCHANGED finder, \A g, k : Made(g, k) => Made(g, k)',
         epoch' >= epoch, \A k \in Key : newest'[k].sure >= newest[k].sure,
         \A w \in Identity!Way : Moves(w)
  PROVE  ReaderHolds'
  <1>1. ReaderHolds /\ finder' = finder /\ epoch \in Nat /\ epoch' \in Nat
    BY PartTypes DEF IdentityInv, IdentityTyped, Identity!Number, IdentityBounds
  <1>2. /\ finder.epoch \in Nat /\ finder.floor.sure \in Nat
        /\ finder.stamp.version \in Nat /\ finder.stamp.busy \in BOOLEAN /\ finder.stamp.sealed \in BOOLEAN
    BY DEF IdentityInv, IdentityTyped, Finders, Identity!Stamps, Identity!Number, IdentityBounds
  <1>3. finder.pc # "idle" => finder.epoch <= epoch' /\ finder.floor.sure <= newest'[finder.key].sure
    <2> SUFFICES ASSUME finder.pc # "idle" PROVE finder.epoch <= epoch' /\ finder.floor.sure <= newest'[finder.key].sure
      OBVIOUS
    <2>1. /\ finder.key \in Key /\ finder.epoch <= epoch /\ finder.floor.sure <= newest[finder.key].sure
          /\ newest[finder.key].sure \in Nat /\ newest'[finder.key].sure >= newest[finder.key].sure
      BY <1>1, PartTypes DEF ReaderHolds, IdentityInv
    <2>2. newest'[finder.key].sure \in Nat
      BY <2>1 DEF IdentityTyped, Identity!Number, IdentityBounds
    <2>3. QED
      BY <1>1, <1>2, <2>1, <2>2
  <1>4. ASSUME finder.pc = "words"
        PROVE  /\ mark'[finder.way] = finder.stamp =>
                    \A n \in DOMAIN finder.got : finder.got[n] = record'[finder.way][n]
               /\ mark'[finder.way] # finder.stamp => IdentityLater(mark'[finder.way], finder.stamp)
    <2> DEFINE w == finder.way
    <2>1. /\ w \in Identity!Way /\ Identity!Usable(finder.stamp)
          /\ mark[w] = finder.stamp => \A n \in DOMAIN finder.got : finder.got[n] = record[w][n]
          /\ mark[w] # finder.stamp => IdentityLater(mark[w], finder.stamp)
      BY <1>1, <1>4 DEF ReaderHolds
    <2>2. /\ mark[w].version \in Nat /\ mark[w].sealed \in BOOLEAN
          /\ mark'[w].version \in Nat /\ mark'[w].sealed \in BOOLEAN
      <3>1. mark[w].version \in Nat /\ mark[w].sealed \in BOOLEAN
        BY <2>1, PartTypes DEF IdentityInv
      <3>2. mark'[w] \in Identity!Stamps(Identity!Number)
        BY <2>1 DEF IdentityTyped
      <3>3. QED
        BY <3>1, <3>2 DEF Identity!Stamps, Identity!Number, IdentityBounds
    <2>3. Moves(w)
      BY <2>1
    <2>4. CASE mark'[w] = mark[w] /\ (Identity!Usable(mark[w]) => record'[w] = record[w])
      BY <2>1, <2>4
    <2>5. CASE /\ mark'[w].version >= mark[w].version /\ (mark[w].sealed => mark'[w].sealed)
               /\ ~ Identity!Usable(mark[w]) \/ IdentityLater(mark'[w], mark[w])
      <3>1. IdentityLater(mark'[w], finder.stamp)
        <4>1. CASE mark[w] = finder.stamp
          BY <2>1, <2>5, <4>1
        <4>2. CASE mark[w] # finder.stamp
          BY <1>2, <2>1, <2>2, <2>5, <4>2 DEF IdentityLater
        <4>3. QED
          BY <4>1, <4>2
      <3>2. mark'[w] # finder.stamp
        BY <1>2, <3>1 DEF IdentityLater
      <3>3. QED
        BY <3>1, <3>2
    <2>6. QED
      BY <2>3, <2>4, <2>5 DEF Moves
  <1>5. finder.pc \in {"epoch", "found"} => Made(finder.got[2], finder.key)'
    <2>1. PICK g, k : g = finder.got[2] /\ k = finder.key
      OBVIOUS
    <2>2. finder.pc \in {"epoch", "found"} => Made(g, k)'
      BY <1>1, <2>1 DEF ReaderHolds
    <2>3. QED
      BY <1>1, <2>1, <2>2 DEF Made
  <1>6. finder.pc = "epoch" /\ epoch' = finder.epoch => epoch = finder.epoch
    BY <1>1, <1>2 DEF ReaderHolds
  <1>7. QED
    BY <1>1, <1>3, <1>4, <1>5, <1>6 DEF ReaderHolds, IdentityLater
-----------------------------------------------------------------------------
(* The calls *)

\* A call of UpdateResource begins.
LEMMA BeginsKeeps ==
  ASSUME IdentityBounds, IdentityInv, NEW t \in Thread, NEW kind \in {"create", "release", "use"}, NEW k \in Key,
         NEW g \in Nat, Identity!Begins(t, kind, k, g),
         generation' \in {generation, generation + 1},
         keyOf' \in [1 .. MaxSequence -> Keys],
         \A h \in 1 .. generation : keyOf'[h] = keyOf[h],
         Made(g, k)',
         generation' = generation + 1 => g = generation',
         owns' \in [Key -> Identity!Number],
         kind # "use" => owns'[k] = g /\ ~ Identity!Busy(k),
         \A j \in Key : (j = k /\ kind = "create") \/ owns'[j] = owns[j],
         kind = "create" <=> generation' = generation + 1
  PROVE  IdentityInv'
  <1> USE DEF IdentityInv
  <1> DEFINE o == Identity!Event(kind, k, g, sequence + 1)
  <1>1. /\ MaxSequence \in Nat /\ sequence \in Nat /\ generation \in Nat /\ epoch \in Nat
        /\ sequence + 1 <= MaxSequence /\ generation <= sequence /\ sequence' = sequence + 1
        /\ place \in [Thread -> IdentityLabels] /\ op \in [Thread -> Calling]
        /\ UNCHANGED <<gate, Identity!bucket, Identity!slot, finder, newest>>
    BY DEF IdentityBounds, IdentityTyped, Identity!Begins, IdentityCounted, Identity!Number
  <1>2. generation' \in Identity!Number /\ sequence' \in Identity!Number /\ generation' <= sequence'
    BY <1>1 DEF Identity!Number
  <1>3. /\ o \in Calling /\ o.kind = kind /\ o.key = k /\ o.gen = g /\ o.seq = sequence + 1 /\ o.epoch = 0
        /\ o.way = 0 /\ o.free = {}
    BY <1>1, <1>2 DEF Calling, Keys, Made, Identity!Number, Identity!Event, IdentityBounds
  <1> HIDE DEF o
  <1>4. /\ place[t] = "idle" /\ place'[t] = "lock" /\ op'[t] = o
        /\ op'[t].kind = kind /\ op'[t].key = k /\ op'[t].gen = g
        /\ \A u \in Thread \ {t} : place'[u] = place[u] /\ op'[u] = op[u]
        /\ place' \in [Thread -> IdentityLabels] /\ op' \in [Thread -> Calling]
    BY <1>1, <1>3 DEF Identity!Begins, Identity!Goto, IdentityLabels, o
  <1>5. IdentityTyped'
    BY <1>1, <1>2, <1>4 DEF IdentityTyped, Identity!bucket, Identity!slot, Keys
  <1>6. IdentityCounted'
    <2>1. Active' = Active \cup {t} /\ t \notin Active
      BY <1>4 DEF Active
    <2>2. Cardinality(Active) \in Nat /\ Cardinality(Active') = Cardinality(Active) + 1
      BY <2>1, ActiveCounts DEF IdentityBounds
    <2>3. QED
      BY <1>1, <1>2, <2>2 DEF IdentityCounted, Identity!bucket
  <1>7. \A h, j : Made(h, j) => Made(h, j)'
    BY <1>1, <1>2, StaysMade
  <1>8. Generations'
    <2>1. \A h \in 1 .. generation' : keyOf'[h] \in Key
      <3> SUFFICES ASSUME NEW h \in 1 .. generation' PROVE keyOf'[h] \in Key
        OBVIOUS
      <3>1. CASE h \in 1 .. generation
        BY <3>1 DEF Generations
      <3>2. CASE h \notin 1 .. generation
        <4>1. h = generation' /\ generation' = generation + 1
          BY <1>1, <3>2
        <4>2. QED
          BY <4>1 DEF Made
      <3>3. QED
        BY <3>1, <3>2
    <2>2. \A u \in Thread : place'[u] # "idle" => Made(op[u].gen, op[u].key)'
      BY <1>4, <1>7 DEF Generations
    <2>3. \A j \in Key : newest'[j].sure # 0 => Made(newest[j].sure, j)'
      BY <1>1, <1>7 DEF Generations
    <2>4. QED
      BY <2>1, <2>2, <2>3 DEF Generations
  <1>9. Owners'
    <2>1. ASSUME NEW j \in Key, owns'[j] # 0
          PROVE  Made(owns[j], j)' /\ \A h \in 1 .. generation' : keyOf'[h] = j => h <= owns'[j]
      <3>1. CASE j = k /\ kind = "create"
        <4>1. owns'[j] = generation' /\ g = generation'
          BY <3>1
        <4>2. QED
          BY <1>1, <3>1, <4>1
      <3>2. CASE ~ (j = k /\ kind = "create")
        <4>1. owns'[j] = owns[j] /\ Made(owns[j], j) /\ \A h \in 1 .. generation : keyOf[h] = j => h <= owns[j]
          BY <2>1, <3>2 DEF Owners
        <4>2. \A h \in 1 .. generation' : keyOf'[h] = j => h \in 1 .. generation
          <5> SUFFICES ASSUME NEW h \in 1 .. generation', keyOf'[h] = j, h \notin 1 .. generation
                       PROVE  FALSE
            OBVIOUS
          <5>1. h = generation' /\ generation' = generation + 1
            BY <1>1
          <5>2. kind = "create" /\ keyOf'[h] = k
            BY <5>1 DEF Made
          <5>3. QED
            BY <3>2, <5>2
        <4>3. QED
          BY <1>7, <4>1, <4>2
      <3>3. QED
        BY <3>1, <3>2
    <2>2. ASSUME NEW u \in Thread, place'[u] # "idle", op'[u].kind # "use"
          PROVE  owns'[op'[u].key] = op'[u].gen
      <3>1. CASE u = t
        BY <1>4, <2>2, <3>1
      <3>2. CASE u # t
        <4>1. place[u] # "idle" /\ op[u].kind # "use" /\ op'[u] = op[u] /\ owns[op[u].key] = op[u].gen
              /\ op[u].key \in Key
          BY <1>4, <2>2, <3>2 DEF Owners, Generations, Made
        <4>2. kind # "use" => op[u].key # k
          BY <4>1 DEF Identity!Busy
        <4>3. owns'[op[u].key] = owns[op[u].key]
          BY <4>1, <4>2
        <4>4. QED
          BY <4>1, <4>3
      <3>3. QED
        BY <3>1, <3>2
    <2>3. ASSUME NEW u \in Thread, NEW v \in Thread, u # v,
                 place'[u] # "idle", op'[u].kind # "use", place'[v] # "idle", op'[v].kind # "use"
          PROVE  op'[u].key # op'[v].key
      BY <1>4, <2>3 DEF Owners, Identity!Busy
    <2>4. QED
      BY <2>1, <2>2, <2>3 DEF Owners
  <1>10. Locked' /\ Filled'
    BY <1>1, <1>4 DEF Locked, Filled, Inside, Looking, Chosen, Filling, Identity!bucket, Identity!slot
  <1>11. IdentityNumbered'
    <2> SUFFICES ASSUME NEW u \in Thread
                 PROVE  op'[u].epoch <= epoch' /\ (place'[u] # "idle" => op'[u].seq \in 1 .. sequence')
      BY DEF IdentityNumbered
    <2>1. CASE u = t
      BY <1>1, <1>3, <1>4, <2>1 DEF Identity!bucket
    <2>2. CASE u # t
      BY <1>1, <1>4, <2>2 DEF IdentityNumbered, Identity!bucket
    <2>3. QED
      BY <2>1, <2>2
  <1>12. \A j, h : Worth(j, h) => Worth(j, h)'
    BY <1>1, <1>4 DEF Worth
  <1>13. SlotCurrent'
    <2> SUFFICES ASSUME NEW w \in Identity!Way PROVE SlotHolds(w)'
      BY DEF SlotCurrent
    <2>1. QED
      BY <1>1, <1>7, <1>12, SlotKept DEF SlotCurrent, Identity!bucket, Identity!slot
  <1>14. WriterCurrent'
    BY <1>1, <1>4, <1>12 DEF WriterCurrent, AloneIn, Chosen, Identity!bucket, Identity!slot
  <1>15. Apart'
    BY <1>1, <1>4 DEF Apart, Twins, Filling, Identity!slot
  <1>16. Looked'
    <2>1. op'[t].way = 0 /\ op'[t].free = {}
      BY <1>3, <1>4
    <2>2. QED
      BY <1>1, <1>4, <2>1 DEF Looked, Twins, Looking, Identity!slot
  <1>17. ReaderHolds'
    <2>1. \A w \in Identity!Way : Moves(w)
      BY <1>1 DEF Moves, Identity!slot
    <2>2. epoch' >= epoch /\ \A j \in Key : newest'[j].sure >= newest[j].sure
      BY <1>1, PartTypes DEF Identity!bucket
    <2>3. QED
      BY <1>1, <1>5, <1>7, <2>1, <2>2, ReaderKept
  <1>18. QED
    BY <1>5, <1>6, <1>8, <1>9, <1>10, <1>11, <1>13, <1>14, <1>15, <1>16, <1>17

\* The three calls.
LEMMA CallsKeep ==
  ASSUME IdentityBounds, IdentityInv, NEW t \in Thread,
         \/ \E k \in Key : Identity!ResourceCreateBegin(t, k) \/ Identity!ResourceRelease(t, k)
         \/ \E g \in 1 .. MaxSequence : Identity!ResourceUse(t, g)
  PROVE  IdentityInv'
  <1>1. /\ MaxSequence \in Nat /\ sequence \in Nat /\ generation \in Nat
        /\ owns \in [Key -> Identity!Number] /\ keyOf \in [1 .. MaxSequence -> Keys]
        /\ generation <= sequence
    BY DEF IdentityBounds, IdentityInv, IdentityTyped, IdentityCounted, Identity!Number
  <1>2. ASSUME NEW k \in Key, Identity!ResourceCreateBegin(t, k)
        PROVE  IdentityInv'
    <2>1. /\ generation' = generation + 1 /\ Identity!Begins(t, "create", k, generation') /\ ~ Identity!Busy(k)
          /\ keyOf' = [keyOf EXCEPT ![generation'] = k] /\ owns' = [owns EXCEPT ![k] = generation']
      BY <1>2 DEF Identity!ResourceCreateBegin
    <2>2. PICK g \in Nat : g = generation' /\ g \in 1 .. MaxSequence
      BY <1>1, <2>1 DEF Identity!Begins
    <2>3. Made(g, k)'
      BY <1>1, <2>1, <2>2 DEF Made
    <2>4. /\ keyOf' \in [1 .. MaxSequence -> Keys]
          /\ \A h \in 1 .. generation : keyOf'[h] = keyOf[h]
      BY <1>1, <2>1, <2>2 DEF Keys
    <2>5. owns' \in [Key -> Identity!Number] /\ owns'[k] = generation' /\ \A j \in Key \ {k} : owns'[j] = owns[j]
      BY <1>1, <2>1, <2>2 DEF Identity!Number
    <2>6. QED
      BY <1>1, <2>1, <2>2, <2>3, <2>4, <2>5, BeginsKeeps
  <1>3. ASSUME NEW k \in Key, Identity!ResourceRelease(t, k)
        PROVE  IdentityInv'
    <2>1. /\ Identity!Begins(t, "release", k, owns[k]) /\ ~ Identity!Busy(k) /\ owns[k] # 0
          /\ UNCHANGED <<generation, keyOf, owns>>
      BY <1>3 DEF Identity!ResourceRelease
    <2>2. Made(owns[k], k) /\ owns[k] \in Nat
      BY <1>1, <2>1 DEF IdentityInv, Owners, Identity!Number
    <2>3. Made(owns[k], k)'
      BY <2>1, <2>2 DEF Made
    <2>4. QED
      BY <1>1, <2>1, <2>2, <2>3, BeginsKeeps
  <1>4. ASSUME NEW g \in 1 .. MaxSequence, Identity!ResourceUse(t, g)
        PROVE  IdentityInv'
    <2>1. /\ Identity!Begins(t, "use", keyOf[g], g) /\ g \in 1 .. generation
          /\ UNCHANGED <<generation, keyOf, owns>>
      BY <1>4 DEF Identity!ResourceUse
    <2>2. keyOf[g] \in Key /\ g \in Nat
      BY <1>1, <2>1 DEF IdentityInv, Generations
    <2>3. Made(g, keyOf[g])'
      BY <2>1, <2>2 DEF Made
    <2>4. QED
      BY <1>1, <2>1, <2>2, <2>3, BeginsKeeps
  <1>5. QED
    BY <1>2, <1>3, <1>4

-----------------------------------------------------------------------------
(* UpdateResource *)

\* The steps of a thread between its call and the return, with what all of them
\* leave alone.
Proceeds(t, l) ==
  /\ l \in IdentityLabels \ {"idle", "lock"} /\ place[t] \notin {"idle", "unlock"}
  /\ Identity!Goto(t, l)
  /\ op' \in [Thread -> Calling]
  /\ \A u \in Thread \ {t} : op'[u] = op[u]
  /\ \A u \in Thread : /\ op'[u].kind = op[u].kind /\ op'[u].key = op[u].key
                       /\ op'[u].gen = op[u].gen /\ op'[u].seq = op[u].seq
  /\ UNCHANGED <<gate, Identity!numbers, finder, Identity!history>>

\* A thread goes on, and no record is created or released.
LEMMA ProceedsKeeps ==
  ASSUME IdentityBounds, IdentityInv, NEW t \in Thread, NEW l, Proceeds(t, l)
  PROVE  /\ place' \in [Thread -> IdentityLabels] /\ place'[t] = l /\ \A u \in Thread \ {t} : place'[u] = place[u]
         /\ Generations' /\ Owners'
         /\ \A g, k : Made(g, k)' <=> Made(g, k)
  <1>1. place' \in [Thread -> IdentityLabels] /\ place'[t] = l /\ \A u \in Thread \ {t} : place'[u] = place[u]
    BY DEF Proceeds, Identity!Goto, IdentityInv, IdentityTyped
  <1>2. \A g, k : Made(g, k)' <=> Made(g, k)
    BY DEF Made, Proceeds, Identity!numbers, Identity!history
  <1>3. \A u \in Thread : place'[u] # "idle" <=> place[u] # "idle"
    BY <1>1 DEF Proceeds
  <1>4. Generations'
    <2>1. \A g \in 1 .. generation' : keyOf'[g] \in Key
      BY DEF IdentityInv, Generations, Proceeds, Identity!numbers, Identity!history
    <2>2. \A u \in Thread : place'[u] # "idle" => Made(op[u].gen, op[u].key)'
      BY <1>3, <1>2 DEF IdentityInv, Generations, Proceeds, Made
    <2>3. \A k \in Key : newest'[k].sure # 0 => Made(newest[k].sure, k)'
      BY <1>2 DEF IdentityInv, Generations, Proceeds, Identity!history, Made
    <2>4. QED
      BY <2>1, <2>2, <2>3 DEF Generations
  <1>5. Owners'
    <2>1. \A k \in Key : owns'[k] # 0 => /\ Made(owns[k], k)'
                                        /\ \A g \in 1 .. generation' : keyOf'[g] = k => g <= owns'[k]
      BY <1>2 DEF IdentityInv, Owners, Proceeds, Identity!numbers, Identity!history, Made
    <2>2. \A u \in Thread : place'[u] # "idle" /\ op'[u].kind # "use" => owns'[op'[u].key] = op'[u].gen
      BY <1>3 DEF IdentityInv, Owners, Proceeds, Identity!history
    <2>3. \A u, v \in Thread :
            /\ u # v
            /\ place'[u] # "idle" /\ op'[u].kind # "use"
            /\ place'[v] # "idle" /\ op'[v].kind # "use"
            => op'[u].key # op'[v].key
      BY <1>3 DEF IdentityInv, Owners, Proceeds
    <2>4. QED
      BY <2>1, <2>2, <2>3 DEF Owners
  <1>6. QED
    BY <1>1, <1>2, <1>4, <1>5

\* As long as no creation is about to return, a record stays worth what it was.
LEMMA ProceedsWorth ==
  ASSUME IdentityBounds, IdentityInv, NEW t \in Thread, NEW l, Proceeds(t, l),
         NEW k, NEW g, Worth(k, g),
         l = "unlock" /\ op[t].kind = "create" /\ op[t].key = k /\ ~ op'[t].passed => g >= op[t].gen
  PROVE  Worth(k, g)'
  <1>1. /\ place'[t] = l /\ \A u \in Thread \ {t} : place'[u] = place[u] /\ op'[u] = op[u]
    BY ProceedsKeeps DEF Proceeds
  <1>2. newest' = newest
    BY DEF Proceeds, Identity!history
  <1>3. ASSUME NEW u \in Thread, place'[u] = "unlock", op'[u].kind = "create", op'[u].key = k, ~ op'[u].passed
        PROVE  g >= op'[u].gen
    <2>1. CASE u = t
      BY <1>1, <1>3, <2>1 DEF Proceeds
    <2>2. CASE u # t
      BY <1>1, <1>3, <2>2 DEF Worth
    <2>3. QED
      BY <2>1, <2>2
  <1>4. QED
    BY <1>2, <1>3 DEF Worth

\* A thread has the bucket, or gives up.
LEMMA TryLockKeeps ==
  ASSUME IdentityBounds, IdentityInv, NEW t \in Thread, Identity!TryLock(t)
  PROVE  IdentityInv'
  <1> USE DEF IdentityInv
  <1>1. PICK l \in {"scan", "unlock", "invalidate"} :
          /\ Identity!Goto(t, l)
          /\ l = "scan" => writing = Identity!None /\ writing' = t
          /\ l # "scan" => writing' = writing
          /\ l = "unlock" => op[t].kind = "use"
    BY DEF Identity!TryLock, Identity!AfterLoss
  <1>2. place[t] = "lock" /\ UNCHANGED <<gate, Identity!numbers, epoch, Identity!slot, op, finder, Identity!history>>
    BY DEF Identity!TryLock
  <1>3. Proceeds(t, l)
    BY <1>1, <1>2 DEF Proceeds, IdentityLabels, IdentityTyped
  <1>4. /\ place' \in [Thread -> IdentityLabels] /\ place'[t] = l /\ \A u \in Thread \ {t} : place'[u] = place[u]
        /\ Generations' /\ Owners'
        /\ \A g, k : Made(g, k)' <=> Made(g, k)
    BY <1>3, ProceedsKeeps
  <1>5. IdentityTyped'
    BY <1>1, <1>2, <1>4 DEF IdentityTyped, Identity!numbers, Identity!slot, Identity!history
  <1>6. IdentityCounted'
    BY <1>1, <1>2, GoesOn DEF IdentityLabels, Identity!numbers
  <1>7. Locked'
    BY <1>1, <1>2, <1>4, IdentityBounds DEF Locked, Inside, Looking, Chosen, IdentityBounds
  <1>8. Filled' /\ Apart'
    BY <1>1, <1>2, <1>4 DEF Filled, Filling, Apart, Twins, Identity!slot
  <1>9. \A k, g : Worth(k, g) => Worth(k, g)'
    BY <1>1, <1>3, ProceedsWorth
  <1>10. SlotCurrent'
    <2> SUFFICES ASSUME NEW w \in Identity!Way PROVE SlotHolds(w)'
      BY DEF SlotCurrent
    <2>1. QED
      BY <1>2, <1>4, <1>9, SlotKept DEF SlotCurrent, Identity!slot
  <1>11. WriterCurrent'
    BY <1>1, <1>2, <1>4, <1>9 DEF WriterCurrent, AloneIn, Chosen, Identity!slot
  <1>12. Looked'
    <2>1. op'[t].way = 0 /\ op'[t].free = {}
      BY <1>2 DEF Looked
    <2>2. Ways \in Nat \ {0} /\ \A w \in Identity!Way : ~ w <= 0
      BY DEF Identity!Way, IdentityBounds
    <2>3. \A u \in Thread \ {t} : op'[u] = op[u] /\ place'[u] = place[u]
      BY <1>2, <1>4
    <2>4. QED
      BY <1>1, <1>2, <1>4, <2>1, <2>2, <2>3 DEF Looked, Looking, Twins, Identity!slot
  <1>13. ReaderHolds'
    <2>1. \A w \in Identity!Way : Moves(w)
      BY <1>2 DEF Moves, Identity!slot
    <2>2. epoch' >= epoch /\ \A j \in Key : newest'[j].sure >= newest[j].sure
      BY <1>2, PartTypes DEF Identity!history
    <2>3. QED
      BY <1>2, <1>4, <1>5, <2>1, <2>2, ReaderKept
  <1>14. IdentityNumbered'
    BY <1>2, <1>4 DEF IdentityNumbered, Identity!numbers
  <1>15. QED
    BY <1>4, <1>5, <1>6, <1>7, <1>8, <1>10, <1>11, <1>12, <1>13, <1>14

\* A thread looks at the next way.
LEMMA ScanKeeps ==
  ASSUME IdentityBounds, IdentityInv, NEW t \in Thread, Identity!Scan(t)
  PROVE  IdentityInv'
  <1> USE DEF IdentityInv
  <1> DEFINE w == op[t].way + 1
             free == ~ mark[w].busy /\ ~ mark[w].sealed
             l == IF w = Ways THEN "select" ELSE "scan"
  <1>1. /\ place[t] = "scan" /\ Identity!Goto(t, l)
        /\ op' = [op EXCEPT ![t].epoch = IF w = 1 THEN epoch ELSE @,
                            ![t].way = w,
                            ![t].free = IF free THEN @ \cup {w} ELSE @,
                            ![t].passed = @ \/ mark[w].sealed]
        /\ UNCHANGED <<gate, Identity!numbers, Identity!bucket, Identity!slot, finder, Identity!history>>
    BY DEF Identity!Scan
  <1>2. /\ op[t] \in Calling /\ op[t].way \in Nat /\ op[t].way < Ways /\ w \in Identity!Way /\ w \in Nat
        /\ epoch \in Identity!Number /\ op \in [Thread -> Calling] /\ mark[w].sealed \in BOOLEAN
        /\ Identity!Way = 1 .. Ways /\ Ways \in Nat
    <2>1. op[t].way \in 0 .. Ways /\ op[t].way < Ways
      BY <1>1, PartTypes DEF Looked
    <2>2. w \in 1 .. Ways
      BY <2>1 DEF IdentityBounds
    <2>3. QED
      BY <2>1, <2>2, PartTypes DEF IdentityTyped, IdentityBounds
  <1> HIDE DEF free, l
  <1>3. /\ op'[t].epoch = (IF w = 1 THEN epoch ELSE op[t].epoch) /\ op'[t].way = w
        /\ op'[t].free = (IF free THEN op[t].free \cup {w} ELSE op[t].free)
        /\ op'[t].passed = (op[t].passed \/ mark[w].sealed)
        /\ op'[t].kind = op[t].kind /\ op'[t].key = op[t].key /\ op'[t].gen = op[t].gen /\ op'[t].seq = op[t].seq
        /\ \A u \in Thread \ {t} : op'[u] = op[u]
        /\ op' \in [Thread -> Calling]
    <2>1. PICK e, f : e = (IF w = 1 THEN epoch ELSE op[t].epoch) /\ f = (IF free THEN op[t].free \cup {w} ELSE op[t].free)
      OBVIOUS
    <2>2. e \in Identity!Number /\ f \in SUBSET Identity!Way
      <3>1. op[t].epoch \in Identity!Number /\ op[t].free \in SUBSET Identity!Way
        BY <1>2 DEF Calling
      <3>2. QED
        BY <1>2, <2>1, <3>1
    <2>3. PICK p \in BOOLEAN : p = (op[t].passed \/ mark[w].sealed)
      OBVIOUS
    <2>4. op' = [op EXCEPT ![t] = [op[t] EXCEPT !.epoch = e, !.way = w, !.free = f, !.passed = p]]
      BY <1>1, <1>2, <2>1, <2>3
    <2>5. PICK n : n = [op[t] EXCEPT !.epoch = e, !.way = w, !.free = f, !.passed = p]
      OBVIOUS
    <2>6. /\ n \in Calling /\ n.epoch = e /\ n.way = w /\ n.free = f /\ n.passed = p
          /\ n.kind = op[t].kind /\ n.key = op[t].key /\ n.gen = op[t].gen /\ n.seq = op[t].seq
      <3>1. w \in 0 .. Ways
        BY <1>2
      <3> HIDE DEF w
      <3>2. QED
        BY <1>2, <2>2, <2>3, <2>5, <3>1 DEF Calling
    <2>7. op' = [op EXCEPT ![t] = n]
      BY <2>4, <2>5
    <2> HIDE DEF w
    <2>8. QED
      BY <1>2, <2>1, <2>3, <2>6, <2>7
  <1>4. l \in {"scan", "select"} /\ (l = "scan" => w < Ways) /\ (l = "select" => w = Ways)
    BY <1>2 DEF l
  <1>5. Proceeds(t, l)
    BY <1>1, <1>3, <1>4 DEF Proceeds, IdentityLabels
  <1>6. /\ place' \in [Thread -> IdentityLabels] /\ place'[t] = l /\ \A u \in Thread \ {t} : place'[u] = place[u]
        /\ Generations' /\ Owners'
        /\ \A g, k : Made(g, k)' <=> Made(g, k)
    BY <1>5, ProceedsKeeps
  <1>7. IdentityTyped'
    BY <1>1, <1>3, <1>6 DEF IdentityTyped, Identity!numbers, Identity!bucket, Identity!slot, Identity!history
  <1>8. IdentityCounted'
    BY <1>1, <1>4, GoesOn DEF IdentityLabels, Identity!numbers, Identity!bucket
  <1>9. \A u \in Thread \ {t} : place'[u] \notin Inside
    BY <1>1, <1>6, OthersOutside DEF Inside, Looking
  <1>10. Locked'
    BY <1>1, <1>6 DEF Locked, Inside, Looking, Identity!bucket
  <1>11. Filled' /\ WriterCurrent'
    BY <1>4, <1>6, <1>9 DEF Filled, WriterCurrent, Inside, Filling, Chosen
  <1>12. Apart'
    <2>1. \A v \in Identity!Way : mark'[v].busy /\ ~ mark'[v].sealed =>
            \E u \in Thread : place'[u] \in Filling /\ op'[u].way = v
      <3>1. \A u \in Thread : place[u] \in Filling => place'[u] = place[u] /\ op'[u] = op[u]
        <4>1. place[t] \notin Filling
          BY <1>1 DEF Filling
        <4>2. QED
          BY <1>3, <1>6, <4>1
      <3>2. mark' = mark
        BY <1>1 DEF Identity!slot
      <3>3. QED
        BY <3>1, <3>2 DEF Apart
    <2>2. QED
      BY <1>1, <2>1 DEF Apart, Twins, Identity!slot
  <1>13. \A k, g : Worth(k, g) => Worth(k, g)'
    BY <1>4, <1>5, ProceedsWorth
  <1>14. SlotCurrent'
    <2> SUFFICES ASSUME NEW v \in Identity!Way PROVE SlotHolds(v)'
      BY DEF SlotCurrent
    <2>1. QED
      BY <1>1, <1>6, <1>13, SlotKept DEF SlotCurrent, Identity!slot, Identity!bucket
  <1>15. Looked'
    <2>1. mark' = mark /\ record' = record
      BY <1>1 DEF Identity!slot
    <2>2. \A v \in Identity!Way : v <= op'[t].way => v \in op'[t].free \/ (mark[v].sealed /\ op'[t].passed)
      <3> SUFFICES ASSUME NEW v \in Identity!Way, v <= w PROVE v \in op'[t].free \/ (mark[v].sealed /\ op'[t].passed)
        BY <1>3
      <3>1. CASE v <= op[t].way
        <4>1. v \in op[t].free \/ (mark[v].sealed /\ op[t].passed)
          BY <1>1, <3>1 DEF Looked, Looking
        <4>2. QED
          BY <1>3, <4>1
      <3>2. CASE ~ v <= op[t].way
        <4>1. v = w
          BY <1>2, <3>2
        <4>2. mark[w].busy => mark[w].sealed
          <5>1. \A u \in Thread : place[u] \notin Filling
            BY <1>1, OthersOutside DEF Inside, Looking, Chosen, Filling
          <5>2. QED
            BY <1>2, <5>1 DEF Apart
        <4>3. QED
          BY <1>3, <4>1, <4>2 DEF free
      <3>3. QED
        BY <3>1, <3>2
    <2>3. \A v \in op'[t].free : v <= op'[t].way /\ ~ mark[v].busy
      <3> SUFFICES ASSUME NEW v \in op'[t].free PROVE v <= w /\ ~ mark[v].busy
        BY <1>3
      <3>1. CASE v \in op[t].free
        <4>1. v <= op[t].way /\ ~ mark[v].busy /\ v \in Identity!Way
          BY <1>1, <3>1, PartTypes DEF Looked, Looking
        <4>2. QED
          BY <1>2, <4>1
      <3>2. CASE v \notin op[t].free
        <4>1. v = w /\ free
          BY <1>3, <3>2
        <4>2. QED
          BY <1>2, <4>1 DEF free
      <3>3. QED
        BY <3>1, <3>2
    <2>4. ASSUME NEW v \in op'[t].free, NEW x \in Identity!Way, Twins(v, x)
          PROVE  mark[x].sealed /\ x \notin op'[t].free
      <3>1. CASE v \in op[t].free
        <4>1. mark[x].sealed /\ x \notin op[t].free
          BY <1>1, <2>4, <3>1 DEF Looked, Looking
        <4>2. QED
          BY <1>3, <4>1 DEF free
      <3>2. CASE v \notin op[t].free
        <4>1. v = w /\ ~ mark[w].sealed /\ free
          BY <1>3, <3>2 DEF free
        <4>2. mark[x].sealed
          BY <1>2, <2>4, <4>1 DEF Apart
        <4>3. x \notin op[t].free
          <5> SUFFICES ASSUME x \in op[t].free PROVE FALSE
            OBVIOUS
          <5>1. Twins(x, w) /\ w \in Identity!Way
            BY <1>2, <2>4, <4>1 DEF Twins
          <5>2. mark[w].sealed
            BY <1>1, <5>1 DEF Looked, Looking
          <5>3. QED
            BY <4>1, <5>2
        <4>4. QED
          BY <1>3, <2>4, <4>1, <4>2, <4>3 DEF Twins
      <3>3. QED
        BY <3>1, <3>2
    <2>5. ASSUME NEW u \in Thread
          PROVE  /\ place'[u] = "lock" => op'[u].way = 0 /\ op'[u].free = {}
                 /\ place'[u] = "scan" => op'[u].way < Ways
                 /\ place'[u] = "select" => op'[u].way = Ways
                 /\ place'[u] \in Looking => u = t
      <3>1. CASE u = t
        BY <1>3, <1>4, <1>6, <3>1
      <3>2. CASE u # t
        <4>1. place'[u] \notin Looking /\ place'[u] = place[u] /\ op'[u] = op[u]
          BY <1>3, <1>6, <1>9, <3>2 DEF Inside
        <4>2. QED
          BY <4>1 DEF Looked, Looking
      <3>3. QED
        BY <3>1, <3>2
    <2>6. \A v, x : Twins(v, x)' <=> Twins(v, x)
      BY <2>1 DEF Twins
    <2> HIDE DEF w
    <2>7. QED
      BY <2>1, <2>2, <2>3, <2>4, <2>5, <2>6 DEF Looked
  <1>16. ReaderHolds'
    <2>1. \A v \in Identity!Way : Moves(v)
      BY <1>1 DEF Moves, Identity!slot
    <2>2. epoch' >= epoch /\ \A j \in Key : newest'[j].sure >= newest[j].sure
      BY <1>1, PartTypes DEF Identity!history, Identity!bucket
    <2>3. QED
      BY <1>1, <1>6, <1>7, <2>1, <2>2, ReaderKept
  <1>17. IdentityNumbered'
    <2>1. epoch \in Nat /\ \A u \in Thread : op[u].epoch <= epoch /\ op'[u].seq = op[u].seq
      BY <1>3, PartTypes DEF IdentityNumbered
    <2>2. \A u \in Thread : op'[u].epoch <= epoch
      BY <1>3, <2>1
    <2>3. \A u \in Thread : place'[u] # "idle" => place[u] # "idle"
      BY <1>1, <1>6
    <2>4. QED
      BY <1>1, <2>1, <2>2, <2>3 DEF IdentityNumbered, Identity!numbers, Identity!bucket
  <1>18. QED
    BY <1>6, <1>7, <1>8, <1>10, <1>11, <1>12, <1>14, <1>15, <1>16, <1>17

\* A thread chooses a way, or has nothing to do there.
LEMMA SelectKeeps ==
  ASSUME IdentityBounds, IdentityInv, NEW t \in Thread, Identity!Select(t)
  PROVE  IdentityInv'
  <1> USE DEF IdentityInv
  <1> DEFINE o == op[t]
             selected == Identity!Selected(o)
  <1>0. /\ place[t] = "select"
        /\ UNCHANGED <<gate, Identity!numbers, Identity!bucket, Identity!slot, finder, Identity!history>>
    BY DEF Identity!Select
  \* What has been seen: no two free ways hold the same address.
  <1>1. /\ o \in Calling /\ o.free \subseteq Identity!Way /\ o.passed \in BOOLEAN
        /\ \A w \in Identity!Way : w \in o.free \/ (mark[w].sealed /\ o.passed)
        /\ \A w \in o.free : ~ mark[w].busy
        /\ \A v \in o.free, w \in Identity!Way : Twins(v, w) => mark[w].sealed /\ w \notin o.free
    <2>1. /\ \A w \in Identity!Way : w <= o.way => w \in o.free \/ (mark[w].sealed /\ o.passed)
          /\ \A w \in o.free : w <= o.way /\ ~ mark[w].busy
          /\ \A v \in o.free, w \in Identity!Way : Twins(v, w) => mark[w].sealed /\ w \notin o.free
          /\ o.way = Ways
      BY <1>0 DEF Looked, Looking
    <2>2. o \in Calling /\ o.free \subseteq Identity!Way /\ o.passed \in BOOLEAN /\ Identity!Way = 1 .. Ways /\ Ways \in Nat
      BY PartTypes DEF IdentityBounds
    <2>3. \A w \in Identity!Way : w <= o.way
      BY <2>1, <2>2
    <2> HIDE DEF o
    <2>4. QED
      BY <2>1, <2>2, <2>3
  <1>2. Made(o.gen, o.key) /\ o.key \in Key
    BY <1>0 DEF Generations, Made
  <1>3. \A w \in selected : /\ w \in o.free /\ w \in Identity!Way /\ record[w][1] = o.key /\ Identity!Usable(mark[w])
                            /\ \A v \in Identity!Way : v # w /\ record[v][1] = o.key => mark[v].sealed /\ v \notin o.free
    BY <1>1, <1>2 DEF Identity!Selected, Identity!Usable, Twins
  <1>4. selected = {} => \A w \in o.free : record[w][1] # o.key
    <2> SUFFICES ASSUME NEW w \in o.free, record[w][1] = o.key PROVE selected # {}
      OBVIOUS
    <2>1. mark[w].version # 0
      BY <1>1, <1>2 DEF Apart
    <2>2. \A v \in o.free : record[v][1] = o.key => v = w
      BY <1>1, <1>2 DEF Twins
    <2>3. w <= w
      BY <1>1, PartTypes
    <2>4. w \in selected
      BY <2>1, <2>2, <2>3 DEF Identity!Selected
    <2>5. QED
      BY <2>4
  <1> HIDE DEF selected
  <1> DEFINE Chooses(l, n) ==
               /\ Identity!Goto(t, l) /\ op' = [op EXCEPT ![t] = n]
               /\ n.kind = o.kind /\ n.key = o.key /\ n.gen = o.gen /\ n.seq = o.seq /\ n.epoch = o.epoch /\ n.passed = o.passed
               /\ l = "claim" => /\ n.way \in o.free
                                 /\ IF o.kind = "create" THEN selected = {} \/ n.way \in selected
                                    ELSE n.way \in selected /\ record[n.way][3] = o.epoch /\ record[n.way][2] = o.gen
               /\ l = "unlock" /\ o.kind = "create" => \E w \in selected : record[w][2] >= o.gen
  \* Where it goes on, and what it takes along.
  <1>5. \E l \in {"claim", "unlock", "invalidate"}, n \in Calling : Chooses(l, n)
    <2>1. CASE /\ \E w \in selected : Identity!Stale(o, w)
               /\ Identity!Goto(t, "unlock") /\ op' = op
      <3>1. op' = [op EXCEPT ![t] = o]
        BY <2>1 DEF IdentityTyped
      <3>2. o.kind = "create" => \E w \in selected : record[w][2] >= o.gen
        BY <2>1 DEF Identity!Stale
      <3> HIDE DEF o
      <3>3. QED
        BY <1>1, <2>1, <3>1, <3>2
    <2>2. ASSUME ~ \E w \in selected : Identity!Stale(o, w),
                 NEW w \in Identity!Target(o),
                 op' = [op EXCEPT ![t].way = w,
                                  ![t].retired = IF o.kind = "use" THEN record[w][4] ELSE o.kind = "release"],
                 Identity!Goto(t, "claim")
          PROVE  \E l \in {"claim", "unlock", "invalidate"}, n \in Calling : Chooses(l, n)
      <3>1. /\ w \in o.free
            /\ IF o.kind = "create" THEN selected = {} \/ w \in selected
               ELSE w \in selected /\ record[w][3] = o.epoch /\ record[w][2] = o.gen
        BY <1>3, <2>2 DEF Identity!Target, Identity!Stale, Identity!Victim, selected
      <3>2. PICK r \in BOOLEAN : r = IF o.kind = "use" THEN record[w][4] ELSE o.kind = "release"
        <4>1. record[w] \in Records /\ record[w][4] \in BOOLEAN
          BY <1>1, <3>1, PartTypes DEF Records
        <4>2. QED
          BY <4>1
      <3>3. op' = [op EXCEPT ![t] = [o EXCEPT !.way = w, !.retired = r]]
        BY <2>2, <3>2 DEF IdentityTyped
      <3>4. PICK n : n = [o EXCEPT !.way = w, !.retired = r]
        OBVIOUS
      <3>5. w \in 0 .. Ways
        BY <1>1, <3>1, PartTypes DEF IdentityBounds
      <3>6. /\ n \in Calling /\ n.way = w
            /\ n.kind = o.kind /\ n.key = o.key /\ n.gen = o.gen /\ n.seq = o.seq /\ n.epoch = o.epoch /\ n.passed = o.passed
        <4> HIDE DEF o
        <4>1. QED
          BY <1>1, <3>4, <3>5 DEF Calling
      <3>7. op' = [op EXCEPT ![t] = n]
        BY <3>3, <3>4
      <3> HIDE DEF o
      <3>8. QED
        BY <2>2, <3>1, <3>6, <3>7
    <2>3. CASE Identity!Goto(t, Identity!AfterLoss(t)) /\ op' = op
      <3>1. op' = [op EXCEPT ![t] = o]
        BY <2>3 DEF IdentityTyped
      <3>2. PICK l \in {"unlock", "invalidate"} : l = Identity!AfterLoss(t) /\ (l = "unlock" => o.kind # "create")
        BY DEF Identity!AfterLoss
      <3> HIDE DEF o
      <3>3. QED
        BY <1>1, <2>3, <3>1, <3>2
    <2>4. QED
      BY <2>1, <2>2, <2>3 DEF Identity!Select, selected
  <1>6. PICK l \in {"claim", "unlock", "invalidate"}, n \in Calling : Chooses(l, n)
    BY <1>5
  <1>7. /\ op' \in [Thread -> Calling] /\ op'[t] = n /\ \A u \in Thread \ {t} : op'[u] = op[u]
        /\ \A u \in Thread : /\ op'[u].kind = op[u].kind /\ op'[u].key = op[u].key /\ op'[u].epoch = op[u].epoch
                             /\ op'[u].gen = op[u].gen /\ op'[u].seq = op[u].seq /\ op'[u].passed = op[u].passed
    <2>1. op \in [Thread -> Calling]
      BY DEF IdentityTyped
    <2>2. op' = [op EXCEPT ![t] = n] /\ op' \in [Thread -> Calling] /\ op'[t] = n /\ \A u \in Thread \ {t} : op'[u] = op[u]
      BY <1>6, <2>1
    <2>3. QED
      BY <1>6, <2>2
  <1>8. Proceeds(t, l)
    BY <1>0, <1>6, <1>7 DEF Proceeds, IdentityLabels
  <1>9. /\ place' \in [Thread -> IdentityLabels] /\ place'[t] = l /\ \A u \in Thread \ {t} : place'[u] = place[u]
        /\ Generations' /\ Owners'
        /\ \A g, k : Made(g, k)' <=> Made(g, k)
    BY <1>8, ProceedsKeeps
  <1>10. IdentityTyped'
    BY <1>0, <1>7, <1>9 DEF IdentityTyped, Identity!numbers, Identity!bucket, Identity!slot, Identity!history
  <1>11. IdentityCounted'
    <2>1. Identity!Goto(t, l)
      BY <1>6
    <2>2. QED
      BY <1>0, <2>1, GoesOn DEF IdentityLabels, Identity!numbers, Identity!bucket
  <1>12. \A u \in Thread \ {t} : place'[u] \notin Inside
    BY <1>0, <1>9, OthersOutside DEF Inside, Looking
  <1>13. Locked'
    BY <1>0, <1>9 DEF Locked, Inside, Looking, Identity!bucket
  <1>14. Filled' /\ Looked'
    <2>1. \A u \in Thread : place'[u] \notin Filling /\ place'[u] \notin Looking
      BY <1>9, <1>12 DEF Inside, Looking, Filling, Chosen
    <2>2. \A u \in Thread : place'[u] = "lock" => place[u] = "lock" /\ op'[u] = op[u]
      BY <1>7, <1>9
    <2>3. QED
      BY <2>1, <2>2 DEF Filled, Looked, Looking
  <1>15. Apart'
    <2>1. \A u \in Thread : place[u] \in Filling => place'[u] = place[u] /\ op'[u] = op[u]
      <3>1. place[t] \notin Filling
        BY <1>0 DEF Filling
      <3>2. QED
        BY <1>7, <1>9, <3>1
    <2>2. mark' = mark /\ record' = record
      BY <1>0 DEF Identity!slot
    <2>3. \A w \in Identity!Way : mark'[w].busy /\ ~ mark'[w].sealed =>
            \E u \in Thread : place'[u] \in Filling /\ op'[u].way = w
      BY <2>1, <2>2 DEF Apart
    <2>4. QED
      BY <2>2, <2>3 DEF Apart, Twins
  <1>16. SlotCurrent'
    <2> SUFFICES ASSUME NEW w \in Identity!Way PROVE SlotHolds(w)'
      BY DEF SlotCurrent
    <2>1. ASSUME NEW k, NEW g, Identity!Usable(mark[w]), k = record[w][1], g = record[w][2], Worth(k, g)
          PROVE  Worth(k, g)'
      <3>1. l = "unlock" /\ o.kind = "create" /\ o.key = k /\ ~ o.passed => g >= o.gen
        <4> SUFFICES ASSUME l = "unlock", o.kind = "create", o.key = k, ~ o.passed PROVE g >= o.gen
          OBVIOUS
        <4>1. PICK v \in selected : record[v][2] >= o.gen
          BY <1>6
        <4>2. v = w
          BY <1>1, <1>3, <2>1, <4>1
        <4>3. QED
          BY <2>1, <4>1, <4>2
      <3>2. QED
        BY <1>7, <1>8, <2>1, <3>1, ProceedsWorth
    <2>2. QED
      BY <1>0, <1>9, <2>1, SlotKept DEF SlotCurrent, Identity!slot, Identity!bucket
  <1>17. WriterCurrent'
    <2> SUFFICES ASSUME NEW u \in Thread, place'[u] \in Chosen
                 PROVE  /\ AloneIn(u)'
                        /\ op'[u].epoch = epoch' => Worth(op[u].key, op[u].gen)'
      BY DEF WriterCurrent, Worth
    <2>1. u = t /\ l = "claim"
      BY <1>9, <1>12 DEF Inside, Chosen
    <2>2. PICK k0, g0 : k0 = o.key /\ g0 = o.gen
      OBVIOUS
    <2>3. epoch' = epoch /\ mark' = mark /\ record' = record
      BY <1>0 DEF Identity!bucket, Identity!slot
    <2>4. n.way \in o.free /\ n.way \in Identity!Way
      BY <1>1, <1>6, <2>1
    <2>5. \A v \in Identity!Way : v # n.way /\ record[v][1] = o.key => mark[v].sealed /\ v \notin o.free
      <3>1. CASE n.way \in selected
        BY <1>3, <3>1
      <3>2. CASE n.way \notin selected
        <4>1. selected = {} /\ \A w \in o.free : record[w][1] # o.key
          BY <1>4, <1>6, <2>1, <3>2
        <4> SUFFICES ASSUME NEW v \in Identity!Way, v # n.way, record[v][1] = o.key PROVE mark[v].sealed /\ v \notin o.free
          OBVIOUS
        <4>2. v \notin o.free
          BY <4>1
        <4>3. QED
          BY <1>1, <4>2
      <3>3. QED
        BY <3>1, <3>2
    <2>6. AloneIn(t)'
      BY <1>1, <1>6, <1>7, <2>3, <2>4, <2>5 DEF AloneIn
    <2>7. ASSUME o.epoch = epoch PROVE Worth(k0, g0)
      <3>1. CASE o.kind = "create"
        <4>1. Made(g0, k0) /\ owns[k0] = g0
          BY <1>0, <1>2, <2>2, <3>1 DEF Owners
        <4>2. /\ k0 \in Key /\ g0 \in 1 .. generation /\ g0 # 0 /\ generation \in Nat
              /\ newest[k0].sure \in Nat
          BY <4>1, PartTypes DEF Made
        <4>3. \A h \in 1 .. generation : keyOf[h] = k0 => h <= g0
          BY <4>1, <4>2 DEF Owners
        <4>4. newest[k0].sure <= g0
          <5>1. CASE newest[k0].sure = 0
            BY <4>2, <5>1
          <5>2. CASE newest[k0].sure # 0
            BY <4>2, <4>3, <5>2 DEF Generations, Made
          <5>3. QED
            BY <5>1, <5>2
        <4>5. ~ \E v \in Thread : place[v] = "unlock" /\ op[v].kind = "create" /\ op[v].key = k0
          BY <1>0, <2>2, <3>1 DEF Owners
        <4>6. QED
          BY <4>2, <4>4, <4>5 DEF Worth
      <3>2. CASE o.kind # "create"
        <4>1. /\ n.way \in selected /\ record[n.way][3] = epoch /\ record[n.way][2] = g0 /\ record[n.way][1] = k0
              /\ Identity!Usable(mark[n.way])
          BY <1>3, <1>6, <2>1, <2>2, <2>7, <3>2
        <4>2. QED
          BY <2>4, <4>1 DEF SlotCurrent, SlotHolds
      <3>3. QED
        BY <3>1, <3>2
    <2>8. o.epoch = epoch => Worth(k0, g0)'
      BY <1>8, <2>1, <2>7, ProceedsWorth
    <2>9. op'[t].key = k0 /\ op'[t].gen = g0 /\ op'[t].epoch = o.epoch
      BY <1>7, <2>2
    <2>10. QED
      BY <2>1, <2>3, <2>6, <2>8, <2>9 DEF Worth
  <1>18. ReaderHolds'
    <2>1. \A v \in Identity!Way : Moves(v)
      BY <1>0 DEF Moves, Identity!slot
    <2>2. epoch' >= epoch /\ \A j \in Key : newest'[j].sure >= newest[j].sure
      BY <1>0, PartTypes DEF Identity!history, Identity!bucket
    <2>3. QED
      BY <1>0, <1>9, <1>10, <2>1, <2>2, ReaderKept
  <1>19. IdentityNumbered'
    BY <1>0, <1>7, <1>9 DEF IdentityNumbered, Identity!numbers, Identity!bucket
  <1>20. QED
    BY <1>9, <1>10, <1>11, <1>13, <1>14, <1>15, <1>16, <1>17, <1>18, <1>19

\* A thread claims the way it chose, or finds that it may not.
LEMMA ClaimKeeps ==
  ASSUME IdentityBounds, IdentityInv, NEW t \in Thread, Identity!ClaimSlot(t)
  PROVE  IdentityInv'
  <1> USE DEF IdentityInv
  <1> DEFINE w == op[t].way
             claimed == Identity!Claimed(op[t].seq)
  <1>1. PICK l \in {"key", "unlock", "invalidate"} :
          /\ Identity!Goto(t, l)
          /\ l = "key" => Identity!CanClaim(mark[w], op[t].seq) /\ mark' = [mark EXCEPT ![w] = claimed]
          /\ l # "key" => mark' = mark
          /\ l = "unlock" => op[t].kind = "use"
    BY DEF Identity!ClaimSlot, Identity!AfterLoss
  <1>2. place[t] = "claim" /\ UNCHANGED <<gate, Identity!numbers, Identity!bucket, record, op, finder, Identity!history>>
    BY DEF Identity!ClaimSlot
  <1>3. Proceeds(t, l)
    BY <1>1, <1>2 DEF Proceeds, IdentityLabels, IdentityTyped
  <1>4. /\ place' \in [Thread -> IdentityLabels] /\ place'[t] = l /\ \A u \in Thread \ {t} : place'[u] = place[u]
        /\ Generations' /\ Owners'
        /\ \A g, k : Made(g, k)' <=> Made(g, k)
    BY <1>3, ProceedsKeeps
  <1>5. /\ w \in Identity!Way /\ mark \in [Identity!Way -> Identity!Stamps(Identity!Number)]
        /\ claimed \in Identity!Stamps(Identity!Number) /\ claimed.busy /\ ~ claimed.sealed
        /\ claimed.version = op[t].seq /\ op[t].seq \in Nat /\ op[t].seq # 0
    <2>1. w \in Identity!Way
      BY <1>2 DEF WriterCurrent, AloneIn, Chosen
    <2>2. op[t].seq \in Identity!Number /\ op[t].seq \in 1 .. sequence
      BY <1>2 DEF IdentityTyped, Calling, IdentityNumbered
    <2>3. QED
      BY <2>1, <2>2, PartTypes DEF IdentityTyped, Identity!Stamps, Identity!Claimed
  \* Only that way changes, from one that was free.
  <1>6. /\ \A v \in Identity!Way : v # w => mark'[v] = mark[v]
        /\ l # "key" => mark'[w] = mark[w]
        /\ l = "key" => /\ mark'[w] = claimed /\ ~ mark[w].busy /\ ~ mark[w].sealed
                        /\ mark'[w].version > mark[w].version
    BY <1>1, <1>5 DEF Identity!CanClaim
  <1>7. IdentityTyped'
    BY <1>1, <1>2, <1>4, <1>5
       DEF IdentityTyped, Identity!numbers, Identity!bucket, Identity!history
  <1>8. IdentityCounted'
    BY <1>1, <1>2, GoesOn DEF IdentityLabels, Identity!numbers, Identity!bucket
  <1>9. \A u \in Thread \ {t} : place'[u] \notin Inside /\ place[u] \notin Inside
    BY <1>2, <1>4, OthersOutside DEF Inside, Chosen
  <1>10. Locked'
    BY <1>1, <1>2, <1>4 DEF Locked, Inside, Looking, Chosen, Identity!bucket
  <1>11. Filled'
    <2> SUFFICES ASSUME NEW u \in Thread, place'[u] \in Filling
                 PROVE  u = t /\ l = "key"
      BY <1>2, <1>4, <1>5, <1>6 DEF Filled
    <2>1. QED
      BY <1>1, <1>4, <1>9 DEF Inside, Chosen, Filling
  <1>12. Looked'
    <2>1. \A u \in Thread : place'[u] \notin Looking
      BY <1>1, <1>4, <1>9 DEF Inside, Looking
    <2>2. \A u \in Thread : place'[u] = "lock" => place[u] = "lock" /\ op'[u] = op[u]
      BY <1>1, <1>2, <1>4
    <2>3. QED
      BY <2>1, <2>2 DEF Looked, Looking
  <1>13. Apart'
    <2>1. ASSUME NEW v \in Identity!Way, record[v][1] \in Key PROVE mark'[v].version # 0
      <3>1. CASE v = w /\ l = "key"
        BY <1>5, <1>6, <3>1
      <3>2. CASE ~ (v = w /\ l = "key")
        BY <1>6, <2>1, <3>2 DEF Apart
      <3>3. QED
        BY <3>1, <3>2
    <2>2. ASSUME NEW v \in Identity!Way, mark'[v].busy, ~ mark'[v].sealed
          PROVE  \E u \in Thread : place'[u] \in Filling /\ op[u].way = v
      <3>1. CASE v = w /\ l = "key"
        BY <1>4, <3>1 DEF Filling
      <3>2. CASE ~ (v = w /\ l = "key")
        <4>1. PICK u \in Thread : place[u] \in Filling /\ op[u].way = v
          BY <1>6, <2>2, <3>2 DEF Apart
        <4>2. FALSE
          BY <1>2, <1>9, <4>1 DEF Filling, Inside, Chosen
        <4>3. QED
          BY <4>2
      <3>3. QED
        BY <3>1, <3>2
    <2>3. ASSUME NEW v \in Identity!Way, NEW x \in Identity!Way, Twins(v, x)
          PROVE  mark'[v].sealed \/ mark'[x].sealed
      BY <1>6, <2>3 DEF Apart
    <2>4. record' = record /\ op' = op
      BY <1>2
    <2>5. QED
      BY <2>1, <2>2, <2>3, <2>4 DEF Apart, Twins
  <1>14. \A k, g : Worth(k, g) => Worth(k, g)'
    BY <1>1, <1>3, ProceedsWorth
  <1>15. SlotCurrent'
    <2> SUFFICES ASSUME NEW v \in Identity!Way PROVE SlotHolds(v)'
      BY DEF SlotCurrent
    <2>1. Identity!Usable(mark'[v]) => Identity!Usable(mark[v])
      BY <1>5, <1>6 DEF Identity!Usable
    <2>2. QED
      BY <1>2, <1>4, <1>14, <2>1, SlotKept DEF SlotCurrent, Identity!bucket
  <1>16. WriterCurrent'
    <2>1. AloneIn(t) => AloneIn(t)'
      BY <1>2, <1>6 DEF AloneIn
    <2>2. \A u \in Thread : place'[u] \in Chosen => u = t
      BY <1>9 DEF Inside
    <2>3. QED
      BY <1>2, <1>14, <2>1, <2>2 DEF WriterCurrent, Chosen, Identity!bucket
  <1>17. ReaderHolds'
    <2>1. \A v \in Identity!Way : Moves(v)
      <3> SUFFICES ASSUME NEW v \in Identity!Way PROVE Moves(v)
        OBVIOUS
      <3>1. CASE mark'[v] = mark[v]
        BY <1>2, <3>1 DEF Moves
      <3>2. CASE mark'[v] # mark[v]
        <4>1. v = w /\ mark'[v].version > mark[v].version /\ ~ mark[v].sealed
          BY <1>6, <3>2
        <4>2. mark'[v].version \in Nat /\ mark[v].version \in Nat
          BY <1>5, <1>6, <3>2, PartTypes
        <4>3. QED
          BY <4>1, <4>2 DEF Moves, IdentityLater
      <3>3. QED
        BY <3>1, <3>2
    <2>2. epoch' >= epoch /\ \A j \in Key : newest'[j].sure >= newest[j].sure
      BY <1>2, PartTypes DEF Identity!history, Identity!bucket
    <2>3. QED
      BY <1>2, <1>4, <1>7, <2>1, <2>2, ReaderKept
  <1>18. IdentityNumbered'
    BY <1>2, <1>4 DEF IdentityNumbered, Identity!numbers, Identity!bucket
  <1>19. QED
    BY <1>4, <1>7, <1>8, <1>10, <1>11, <1>12, <1>13, <1>15, <1>16, <1>17, <1>18

\* A thread stores a word into the way it claimed.
LEMMA StoreKeeps ==
  ASSUME IdentityBounds, IdentityInv, NEW t \in Thread, Identity!StoreWord(t)
  PROVE  IdentityInv'
  <1> USE DEF IdentityInv
  <1> DEFINE w == op[t].way
  <1>1. PICK l \in {"generation", "epoch", "publish"} :
          /\ Identity!Goto(t, l)
          /\ l = "generation" => place[t] = "key" /\ record' = [record EXCEPT ![w][1] = op[t].key]
          /\ l = "epoch" => place[t] = "generation" /\ record' = [record EXCEPT ![w][2] = op[t].gen]
          /\ l = "publish" =>
               place[t] = "epoch" /\ record' = [record EXCEPT ![w][3] = op[t].epoch, ![w][4] = op[t].retired]
    BY DEF Identity!StoreWord
  <1>2. place[t] \in Filling /\ UNCHANGED <<gate, Identity!numbers, Identity!bucket, mark, op, finder, Identity!history>>
    BY DEF Identity!StoreWord, Filling
  <1>3. Proceeds(t, l)
    BY <1>1, <1>2 DEF Proceeds, IdentityLabels, IdentityTyped, Filling
  <1>4. /\ place' \in [Thread -> IdentityLabels] /\ place'[t] = l /\ \A u \in Thread \ {t} : place'[u] = place[u]
        /\ Generations' /\ Owners'
        /\ \A g, k : Made(g, k)' <=> Made(g, k)
    BY <1>3, ProceedsKeeps
  <1>5. /\ w \in Identity!Way /\ record \in [Identity!Way -> Records] /\ AloneIn(t)
        /\ op[t].key \in Keys /\ op[t].gen \in Identity!Number /\ op[t].epoch \in Identity!Number
        /\ op[t].retired \in BOOLEAN
    BY <1>2 DEF IdentityTyped, Calling, WriterCurrent, AloneIn, Chosen, Filling
  <1>6. /\ record' \in [Identity!Way -> Records] /\ \A v \in Identity!Way : v # w => record'[v] = record[v]
        /\ l = "generation" => record'[w][1] = op[t].key
        /\ l = "epoch" => record'[w][1] = record[w][1] /\ record'[w][2] = op[t].gen
        /\ l = "publish" => record'[w][1] = record[w][1] /\ record'[w][2] = record[w][2] /\ record'[w][3] = op[t].epoch
    <2>1. record[w] \in Records
      BY <1>5
    <2>2. PICK r : /\ record' = [record EXCEPT ![w] = r] /\ r \in Records
                   /\ l = "generation" => r[1] = op[t].key
                   /\ l = "epoch" => r[1] = record[w][1] /\ r[2] = op[t].gen
                   /\ l = "publish" => r[1] = record[w][1] /\ r[2] = record[w][2] /\ r[3] = op[t].epoch
      <3>1. CASE l = "generation"
        <4>1. [record[w] EXCEPT ![1] = op[t].key] \in Records
          BY <1>5, <2>1 DEF Records
        <4>2. QED
          BY <1>1, <2>1, <3>1, <4>1 DEF Records
      <3>2. CASE l = "epoch"
        <4>1. [record[w] EXCEPT ![2] = op[t].gen] \in Records
          BY <1>5, <2>1 DEF Records
        <4>2. QED
          BY <1>1, <2>1, <3>2, <4>1 DEF Records
      <3>3. CASE l = "publish"
        <4>1. [record[w] EXCEPT ![3] = op[t].epoch, ![4] = op[t].retired] \in Records
          BY <1>5, <2>1 DEF Records
        <4>2. record' = [record EXCEPT ![w] = [record[w] EXCEPT ![3] = op[t].epoch, ![4] = op[t].retired]]
          BY <1>1, <1>5, <3>3
        <4>3. /\ [record[w] EXCEPT ![3] = op[t].epoch, ![4] = op[t].retired][1] = record[w][1]
              /\ [record[w] EXCEPT ![3] = op[t].epoch, ![4] = op[t].retired][2] = record[w][2]
              /\ [record[w] EXCEPT ![3] = op[t].epoch, ![4] = op[t].retired][3] = op[t].epoch
          BY <2>1 DEF Records
        <4>4. QED
          BY <3>3, <4>1, <4>2, <4>3
      <3>4. QED
        BY <3>1, <3>2, <3>3
    <2>3. QED
      BY <1>5, <2>2
  <1>7. IdentityTyped'
    BY <1>2, <1>4, <1>6
       DEF IdentityTyped, Identity!numbers, Identity!bucket, Identity!history
  <1>8. IdentityCounted'
    BY <1>1, <1>2, GoesOn DEF IdentityLabels, Identity!numbers, Identity!bucket, Filling
  <1>9. \A u \in Thread \ {t} : place'[u] \notin Inside /\ place[u] \notin Inside
    BY <1>2, <1>4, OthersOutside DEF Inside, Chosen, Filling
  <1>10. Locked'
    BY <1>1, <1>2, <1>4 DEF Locked, Inside, Chosen, Filling, Identity!bucket
  <1>11. Filled'
    <2>1. \A u \in Thread \ {t} : place'[u] \notin Filling
      BY <1>9 DEF Inside, Chosen, Filling
    <2>2. mark'[w].busy /\ mark'[w].version = op[t].seq
      BY <1>2 DEF Filled
    <2>3. l # "generation" => record[w][1] = op[t].key
      BY <1>1, <1>2 DEF Filled
    <2>4. l = "publish" => record[w][2] = op[t].gen
      BY <1>1, <1>2 DEF Filled
    <2>5. QED
      BY <1>1, <1>2, <1>4, <1>6, <2>1, <2>2, <2>3, <2>4 DEF Filled
  <1>12. Looked'
    <2>1. \A u \in Thread : place'[u] \notin Looking
      BY <1>1, <1>4, <1>9 DEF Inside, Looking
    <2>2. \A u \in Thread : place'[u] = "lock" => place[u] = "lock" /\ op'[u] = op[u]
      BY <1>1, <1>2, <1>4
    <2>3. QED
      BY <2>1, <2>2 DEF Looked, Looking
  <1>13. \A k, g : Worth(k, g) => Worth(k, g)'
    BY <1>1, <1>3, ProceedsWorth
  <1>14. ~ Identity!Usable(mark[w]) /\ mark' = mark
    BY <1>2 DEF Filled, Identity!Usable
  \* The address appears where there was another, and nowhere else that could be used.
  <1>15. \A v \in Identity!Way : v # w /\ record[v][1] = record'[w][1] /\ record[v][1] \in Key => mark[v].sealed \/ mark[w].sealed
    <2> SUFFICES ASSUME NEW v \in Identity!Way, v # w, record[v][1] = record'[w][1]
                 PROVE  mark[v].sealed
      OBVIOUS
    <2>1. record'[w][1] = op[t].key
      BY <1>1, <1>2, <1>6 DEF Filled
    <2>2. QED
      BY <1>5, <2>1 DEF AloneIn
  <1>16. Apart'
    <2>1. ASSUME NEW v \in Identity!Way PROVE record'[v][1] \in Key => mark[v].version # 0
      <3>1. CASE v = w
        <4>1. mark[w].version = op[t].seq /\ op[t].seq \in 1 .. sequence
          BY <1>2 DEF Filled, IdentityNumbered, Filling
        <4>2. QED
          BY <3>1, <4>1, PartTypes
      <3>2. CASE v # w
        BY <1>6, <3>2 DEF Apart
      <3>3. QED
        BY <3>1, <3>2
    <2>2. \A u \in Thread : place[u] \in Filling => place'[u] \in Filling
      BY <1>1, <1>4 DEF Filling
    <2>3. ASSUME NEW v \in Identity!Way, mark[v].busy, ~ mark[v].sealed
          PROVE  \E u \in Thread : place'[u] \in Filling /\ op[u].way = v
      BY <2>2, <2>3 DEF Apart
    <2>4. ASSUME NEW v \in Identity!Way, NEW x \in Identity!Way, v # x, record'[v][1] = record'[x][1], record'[v][1] \in Key
          PROVE  mark[v].sealed \/ mark[x].sealed
      <3>1. CASE v = w
        BY <1>6, <1>15, <2>4, <3>1
      <3>2. CASE x = w
        BY <1>6, <1>15, <2>4, <3>2
      <3>3. CASE v # w /\ x # w
        BY <1>6, <2>4, <3>3 DEF Apart, Twins
      <3>4. QED
        BY <3>1, <3>2, <3>3
    <2>5. op' = op
      BY <1>2
    <2>6. QED
      BY <1>14, <2>1, <2>3, <2>4, <2>5 DEF Apart, Twins
  <1>17. SlotCurrent'
    <2> SUFFICES ASSUME NEW v \in Identity!Way PROVE SlotHolds(v)'
      BY DEF SlotCurrent
    <2>1. CASE v = w
      BY <1>14, <2>1 DEF SlotHolds
    <2>2. CASE v # w
      BY <1>2, <1>4, <1>6, <1>13, <1>14, <2>2, SlotKept DEF SlotCurrent, Identity!bucket
    <2>3. QED
      BY <2>1, <2>2
  <1>18. WriterCurrent'
    <2>1. AloneIn(t)'
      BY <1>2, <1>5, <1>6 DEF AloneIn
    <2>2. \A u \in Thread : place'[u] \in Chosen => u = t
      BY <1>9 DEF Inside
    <2>3. QED
      BY <1>2, <1>13, <2>1, <2>2 DEF WriterCurrent, Chosen, Filling, Identity!bucket
  <1>19. ReaderHolds'
    <2>1. \A v \in Identity!Way : Moves(v)
      BY <1>6, <1>14 DEF Moves
    <2>2. epoch' >= epoch /\ \A j \in Key : newest'[j].sure >= newest[j].sure
      BY <1>2, PartTypes DEF Identity!history, Identity!bucket
    <2>3. QED
      BY <1>2, <1>4, <1>7, <2>1, <2>2, ReaderKept
  <1>20. IdentityNumbered'
    BY <1>2, <1>4 DEF IdentityNumbered, Identity!numbers, Identity!bucket, Filling
  <1>21. QED
    BY <1>4, <1>7, <1>8, <1>10, <1>11, <1>12, <1>16, <1>17, <1>18, <1>19, <1>20

\* A thread publishes the way, unless it was sealed meanwhile.
LEMMA PublishKeeps ==
  ASSUME IdentityBounds, IdentityInv, NEW t \in Thread, Identity!PublishSlot(t)
  PROVE  IdentityInv'
  <1> USE DEF IdentityInv
  <1> DEFINE w == op[t].way
             claimed == Identity!Claimed(op[t].seq)
  <1>1. PICK l \in {"unlock", "invalidate"} :
          /\ Identity!Goto(t, l)
          /\ l = "unlock" => op[t].kind = "use" \/ mark[w] = claimed
    BY DEF Identity!PublishSlot, Identity!AfterLoss
  <1>2. /\ place[t] = "publish" /\ mark' = [mark EXCEPT ![w] = Identity!Published(mark[w], op[t].seq)]
        /\ UNCHANGED <<gate, Identity!numbers, Identity!bucket, record, op, finder, Identity!history>>
    BY DEF Identity!PublishSlot
  <1>3. Proceeds(t, l)
    BY <1>1, <1>2 DEF Proceeds, IdentityLabels, IdentityTyped
  <1>4. /\ place' \in [Thread -> IdentityLabels] /\ place'[t] = l /\ \A u \in Thread \ {t} : place'[u] = place[u]
        /\ Generations' /\ Owners'
        /\ \A g, k : Made(g, k)' <=> Made(g, k)
    BY <1>3, ProceedsKeeps
  <1>5. w \in Identity!Way /\ mark \in [Identity!Way -> Identity!Stamps(Identity!Number)] /\ AloneIn(t)
    BY <1>2 DEF IdentityTyped, WriterCurrent, AloneIn, Chosen
  <1>6. mark[w].busy /\ mark[w].version = op[t].seq
        /\ record[w][1] = op[t].key /\ record[w][2] = op[t].gen /\ record[w][3] = op[t].epoch
    BY <1>2 DEF Filled, Filling
  <1>7. /\ \A v \in Identity!Way : v # w => mark'[v] = mark[v]
        /\ mark'[w] \in Identity!Stamps(Identity!Number)
        /\ mark'[w].version = mark[w].version /\ mark'[w].sealed = mark[w].sealed
        /\ mark[w] # claimed => mark'[w] = mark[w] /\ mark[w].sealed
        /\ mark[w] = claimed => ~ mark'[w].busy
    <2>1. /\ \A v \in Identity!Way : v # w => mark'[v] = mark[v]
          /\ mark'[w] = Identity!Published(mark[w], op[t].seq) /\ mark[w] \in Identity!Stamps(Identity!Number)
      BY <1>2, <1>5
    <2>2. ~ mark[w].sealed => mark[w] = claimed
      BY <1>6, <2>1 DEF Identity!Stamps, Identity!Claimed
    <2> HIDE DEF w
    <2>3. QED
      BY <2>1, <2>2 DEF Identity!Stamps, Identity!Published
  <1>8. IdentityTyped'
    <2>1. mark' \in [Identity!Way -> Identity!Stamps(Identity!Number)]
      BY <1>2, <1>5, <1>7
    <2>2. QED
      BY <1>2, <1>4, <2>1 DEF IdentityTyped, Identity!numbers, Identity!bucket, Identity!history
  <1>9. IdentityCounted'
    BY <1>1, <1>2, GoesOn DEF IdentityLabels, Identity!numbers, Identity!bucket
  <1>10. \A u \in Thread \ {t} : place'[u] \notin Inside /\ place[u] \notin Inside
    BY <1>2, <1>4, OthersOutside DEF Inside, Chosen
  <1>11. Locked'
    BY <1>1, <1>2, <1>4 DEF Locked, Inside, Looking, Chosen, Identity!bucket
  <1>12. Filled' /\ WriterCurrent' /\ Looked'
    <2>1. \A u \in Thread : place'[u] \notin Inside
      BY <1>1, <1>4, <1>10 DEF Inside, Looking, Chosen
    <2>2. \A u \in Thread : place'[u] = "lock" => place[u] = "lock" /\ op'[u] = op[u]
      BY <1>1, <1>2, <1>4
    <2>3. QED
      BY <2>1, <2>2 DEF Filled, WriterCurrent, Looked, Inside, Looking, Chosen, Filling
  <1>13. Apart'
    <2>1. ASSUME NEW v \in Identity!Way, mark'[v].busy, ~ mark'[v].sealed PROVE FALSE
      <3>1. v # w /\ mark'[v] = mark[v]
        BY <1>7, <2>1
      <3>2. PICK u \in Thread : place[u] \in Filling /\ op[u].way = v
        BY <2>1, <3>1 DEF Apart
      <3>3. QED
        BY <1>10, <3>1, <3>2 DEF Inside, Chosen, Filling
    <2>2. \A v \in Identity!Way : mark'[v].version = mark[v].version /\ mark'[v].sealed = mark[v].sealed
      BY <1>7
    <2>3. QED
      BY <1>2, <2>1, <2>2 DEF Apart, Twins
  \* A creation that has passed over nothing has no older record beside it.
  <1>14. ASSUME NEW k, NEW g, Worth(k, g), NEW v \in Identity!Way, v # w, k = record[v][1]
         PROVE  Worth(k, g)'
    <2>1. op[t].kind = "create" /\ op[t].key = k => op[t].passed
      BY <1>5, <1>14 DEF AloneIn
    <2>2. QED
      BY <1>2, <1>3, <1>14, <2>1, ProceedsWorth
  <1>15. SlotCurrent'
    <2> SUFFICES ASSUME NEW v \in Identity!Way PROVE SlotHolds(v)'
      BY DEF SlotCurrent
    <2>1. CASE v # w
      <3>1. \A k, g : Identity!Usable(mark[v]) /\ k = record[v][1] /\ g = record[v][2] /\ record[v][3] = epoch /\ Worth(k, g)
                      => Worth(k, g)'
        BY <1>14, <2>1
      <3>2. QED
        BY <1>2, <1>4, <1>7, <2>1, <3>1, SlotKept DEF SlotCurrent, Identity!bucket
    <2>2. CASE v = w /\ mark[w] # claimed
      BY <1>6, <1>7, <2>2 DEF SlotHolds, Identity!Usable
    <2>3. CASE v = w /\ mark[w] = claimed
      <3>1. PICK k, g : k = op[t].key /\ g = op[t].gen
        OBVIOUS
      <3>2. Made(g, k)'
        BY <1>2, <1>4, <3>1 DEF Generations
      <3>3. op[t].epoch <= epoch /\ (op[t].epoch = epoch => Worth(k, g))
        BY <1>2, <3>1 DEF WriterCurrent, Chosen, IdentityNumbered
      <3>4. g \in Nat
        BY <3>1, PartTypes
      <3>5. op[t].epoch = epoch => Worth(k, g)'
        BY <1>3, <3>1, <3>3, <3>4, ProceedsWorth
      <3>6. record' = record /\ epoch' = epoch
        BY <1>2 DEF Identity!bucket
      <3>7. QED
        BY <1>6, <2>3, <3>1, <3>2, <3>3, <3>5, <3>6 DEF SlotHolds, Made, Worth
    <2>4. QED
      BY <2>1, <2>2, <2>3
  <1>16. ReaderHolds'
    <2>1. \A v \in Identity!Way : Moves(v)
      <3> SUFFICES ASSUME NEW v \in Identity!Way PROVE Moves(v)
        OBVIOUS
      <3>1. CASE v = w
        <4>1. ~ Identity!Usable(mark[w]) /\ mark[w].version \in Nat
          BY <1>5, <1>6, PartTypes DEF Identity!Usable
        <4>2. QED
          BY <1>7, <3>1, <4>1 DEF Moves
      <3>2. CASE v # w
        BY <1>2, <1>7, <3>2 DEF Moves
      <3>3. QED
        BY <3>1, <3>2
    <2>2. epoch' >= epoch /\ \A j \in Key : newest'[j].sure >= newest[j].sure
      BY <1>2, PartTypes DEF Identity!history, Identity!bucket
    <2>3. QED
      BY <1>2, <1>4, <1>8, <2>1, <2>2, ReaderKept
  <1>17. IdentityNumbered'
    BY <1>2, <1>4 DEF IdentityNumbered, Identity!numbers, Identity!bucket
  <1>18. QED
    BY <1>4, <1>8, <1>9, <1>11, <1>12, <1>13, <1>15, <1>16, <1>17

\* A thread raises the epoch because it could not keep the bucket right.
LEMMA InvalidateKeeps ==
  ASSUME IdentityBounds, IdentityInv, NEW t \in Thread, Identity!InvalidateBucket(t)
  PROVE  IdentityInv'
  <1> USE DEF IdentityInv
  <1>1. /\ Identity!Goto(t, "unlock") /\ place[t] = "invalidate" /\ epoch' = epoch + 1
        /\ op' = [op EXCEPT ![t].passed = FALSE]
        /\ UNCHANGED <<gate, Identity!numbers, writing, Identity!slot, finder, Identity!history>>
    BY DEF Identity!InvalidateBucket
  <1>2. /\ op' \in [Thread -> Calling] /\ \A u \in Thread \ {t} : op'[u] = op[u]
        /\ \A u \in Thread : /\ op'[u].kind = op[u].kind /\ op'[u].key = op[u].key /\ op'[u].epoch = op[u].epoch
                             /\ op'[u].gen = op[u].gen /\ op'[u].seq = op[u].seq
    <2>1. op \in [Thread -> Calling]
      BY DEF IdentityTyped
    <2>2. PICK n : n = [op[t] EXCEPT !.passed = FALSE]
      OBVIOUS
    <2>3. /\ n \in Calling /\ n.kind = op[t].kind /\ n.key = op[t].key /\ n.epoch = op[t].epoch
          /\ n.gen = op[t].gen /\ n.seq = op[t].seq
      BY <2>1, <2>2 DEF Calling
    <2>4. op' = [op EXCEPT ![t] = n]
      BY <1>1, <2>1, <2>2
    <2>5. QED
      BY <2>1, <2>3, <2>4
  <1>3. Proceeds(t, "unlock")
    BY <1>1, <1>2 DEF Proceeds, IdentityLabels
  <1>4. /\ place' \in [Thread -> IdentityLabels] /\ place'[t] = "unlock" /\ \A u \in Thread \ {t} : place'[u] = place[u]
        /\ Generations' /\ Owners'
        /\ \A g, k : Made(g, k)' <=> Made(g, k)
    BY <1>3, ProceedsKeeps
  <1>5. IdentityCounted' /\ epoch' \in Identity!Number
    BY <1>1, GoesOn DEF IdentityLabels, Identity!numbers
  <1>6. IdentityTyped'
    BY <1>1, <1>2, <1>4, <1>5 DEF IdentityTyped, Identity!numbers, Identity!slot, Identity!history
  <1>7. mark' = mark /\ record' = record /\ newest' = newest
    BY <1>1 DEF Identity!slot, Identity!history
  <1>8. \A u \in Thread : place'[u] \in Inside \cup {"lock"} => place'[u] = place[u] /\ op'[u] = op[u]
    BY <1>2, <1>4 DEF Inside, Looking, Chosen
  <1>9. Locked'
    BY <1>1, <1>8 DEF Locked
  <1>10. Filled'
    BY <1>7, <1>8 DEF Filled, Filling, Inside, Chosen
  <1>11. Looked'
    <2>1. \A u \in Thread : place'[u] \in Looking \cup {"lock", "scan", "select"} => place'[u] \in Inside \cup {"lock"}
      BY DEF Inside, Looking
    <2>2. \A u \in Thread : place'[u] \in Looking \cup {"lock", "scan", "select"} => place'[u] = place[u] /\ op'[u] = op[u]
      BY <1>8, <2>1
    <2>3. QED
      BY <1>7, <2>2 DEF Looked, Twins, Looking
  <1>12. Apart'
    <2>1. \A u \in Thread : place[u] \in Filling => place'[u] = place[u] /\ op'[u] = op[u]
      <3>1. place[t] \notin Filling
        BY <1>1 DEF Filling
      <3>2. QED
        BY <1>2, <1>4, <3>1
    <2>2. \A w \in Identity!Way : mark'[w].busy /\ ~ mark'[w].sealed =>
            \E u \in Thread : place'[u] \in Filling /\ op'[u].way = w
      BY <1>7, <2>1 DEF Apart
    <2>3. QED
      BY <1>7, <2>2 DEF Apart, Twins
  <1>13. epoch \in Nat /\ \A e \in Nat : e <= epoch => e <= epoch' /\ e # epoch'
    BY <1>1, PartTypes
  <1>14. SlotCurrent'
    <2> SUFFICES ASSUME NEW w \in Identity!Way PROVE SlotHolds(w)'
      BY DEF SlotCurrent
    <2>1. record[w][3] \in Nat
      BY PartTypes
    <2>2. Identity!Usable(mark[w]) => Made(record[w][2], record[w][1])' /\ record[w][3] <= epoch
      BY <1>4, <1>7 DEF SlotCurrent, SlotHolds, Made
    <2>3. QED
      BY <1>7, <1>13, <2>1, <2>2 DEF SlotHolds, Made
  <1>15. \A u \in Thread : op'[u].epoch <= epoch' /\ op'[u].epoch # epoch'
    BY <1>2, <1>13, PartTypes DEF IdentityNumbered
  <1>16. WriterCurrent'
    <2>1. \A u \in Thread : place'[u] \in Chosen => place[u] \in Chosen /\ op'[u] = op[u]
      BY <1>8 DEF Inside
    <2>2. QED
      BY <1>7, <1>15, <2>1 DEF WriterCurrent, AloneIn
  <1>17. IdentityNumbered'
    BY <1>1, <1>2, <1>4, <1>15 DEF IdentityNumbered, Identity!numbers
  <1>18. ReaderHolds'
    <2>1. \A v \in Identity!Way : Moves(v)
      BY <1>7 DEF Moves
    <2>2. epoch' >= epoch /\ \A j \in Key : newest'[j].sure >= newest[j].sure
      BY <1>1, <1>7, PartTypes
    <2>3. QED
      BY <1>1, <1>4, <1>6, <2>1, <2>2, ReaderKept
  <1>19. QED
    BY <1>4, <1>5, <1>6, <1>9, <1>10, <1>11, <1>12, <1>14, <1>16, <1>17, <1>18

\* A call returns: nobody creates or releases its key meanwhile, so a creation is then
\* the newest of its key.
LEMMA ReturnKeeps ==
  ASSUME IdentityBounds, IdentityInv, NEW t \in Thread, Identity!Return(t)
  PROVE  IdentityInv'
  <1> USE DEF IdentityInv
  <1> DEFINE k == op[t].key
             g == op[t].gen
             surely == op[t].kind = "create" /\ ~ op[t].passed
  <1>1. /\ place[t] = "unlock" /\ Identity!Goto(t, "idle") /\ op' = [op EXCEPT ![t] = Identity!NoOp]
        /\ writing' = IF writing = t THEN Identity!None ELSE writing
        /\ newest' = IF op[t].kind = "create"
                     THEN [newest EXCEPT ![k] = [any |-> g, sure |-> IF op[t].passed THEN @.sure ELSE g]]
                     ELSE newest
        /\ owns' = IF op[t].kind = "release" THEN [owns EXCEPT ![k] = 0] ELSE owns
        /\ UNCHANGED <<gate, Identity!numbers, epoch, Identity!slot, keyOf, finder>>
    BY DEF Identity!Return
  <1>2. /\ place \in [Thread -> IdentityLabels] /\ op \in [Thread -> Calling] /\ op[t] \in Calling
        /\ MaxSequence \in Nat /\ owns \in [Key -> Identity!Number]
        /\ newest \in [Key -> [any : Identity!Number, sure : Identity!Number]]
        /\ 0 \in Identity!Number
    BY DEF IdentityTyped, IdentityBounds, Identity!Number
  <1>3. Made(g, k) /\ k \in Key /\ g \in 1 .. generation /\ g \in Identity!Number /\ g \in Nat /\ generation \in Nat
    <2>1. Made(g, k) /\ g \in Identity!Number
      BY <1>1, <1>2 DEF Generations, Calling
    <2>2. QED
      BY <1>2, <2>1, PartTypes DEF Made
  <1>4. Identity!NoOp \in Calling /\ Identity!NoOp.epoch = 0
    BY <1>2 DEF Identity!NoOp, Identity!Event, Calling, Keys, IdentityBounds
  <1>5. /\ place' \in [Thread -> IdentityLabels] /\ place'[t] = "idle" /\ \A u \in Thread \ {t} : place'[u] = place[u]
        /\ op' \in [Thread -> Calling] /\ op'[t] = Identity!NoOp /\ \A u \in Thread \ {t} : op'[u] = op[u]
    BY <1>1, <1>2, <1>4 DEF Identity!Goto, IdentityLabels
  <1>6. /\ newest' \in [Key -> [any : Identity!Number, sure : Identity!Number]]
        /\ \A j \in Key : newest'[j].sure = IF surely /\ j = k THEN g ELSE newest[j].sure
    <2>1. CASE op[t].kind # "create"
      BY <1>1, <1>2, <2>1
    <2>2. CASE op[t].kind = "create"
      <3>1. PICK n : n = [any |-> g, sure |-> IF op[t].passed THEN newest[k].sure ELSE g]
        OBVIOUS
      <3>2. n \in [any : Identity!Number, sure : Identity!Number] /\ n.sure = IF op[t].passed THEN newest[k].sure ELSE g
        BY <1>2, <1>3, <3>1
      <3>3. newest' = [newest EXCEPT ![k] = n]
        BY <1>1, <1>2, <1>3, <2>2, <3>1
      <3>4. QED
        BY <1>2, <1>3, <2>2, <3>2, <3>3
    <2>3. QED
      BY <2>1, <2>2
  <1>7. /\ owns' \in [Key -> Identity!Number]
        /\ \A j \in Key : owns'[j] = IF op[t].kind = "release" /\ j = k THEN 0 ELSE owns[j]
    BY <1>1, <1>2, <1>3
  <1>8. \A h, j : Made(h, j)' <=> Made(h, j)
    BY <1>1 DEF Made, Identity!numbers
  <1>9. IdentityTyped'
    BY <1>1, <1>5, <1>6, <1>7 DEF IdentityTyped, Identity!numbers, Identity!slot
  <1>10. IdentityCounted'
    BY <1>1, GoesOn DEF IdentityLabels, Identity!numbers
  <1>11. Generations'
    <2>1. \A h \in 1 .. generation' : keyOf'[h] \in Key
      BY <1>1 DEF Generations, Identity!numbers
    <2>2. \A u \in Thread : place'[u] # "idle" => Made(op[u].gen, op[u].key)' /\ op'[u] = op[u]
      BY <1>5, <1>8 DEF Generations, Made
    <2>3. \A u \in Thread : place'[u] # "idle" => (Made(op[u].gen, op[u].key))'
      BY <2>2
    <2>4. \A j \in Key : newest'[j].sure # 0 => keyOf'[newest'[j].sure] = j /\ newest'[j].sure \in 1 .. generation'
      <3>1. \A j \in Key : newest'[j].sure # 0 => Made(newest'[j].sure, j)
        BY <1>3, <1>6 DEF Generations
      <3>2. QED
        BY <1>1, <3>1 DEF Made, Identity!numbers
    <2>5. QED
      BY <2>1, <2>3, <2>4 DEF Generations, Made
  <1>12. Owners'
    <2>1. ASSUME NEW j \in Key, owns'[j] # 0
          PROVE  /\ owns'[j] \in 1 .. generation' /\ keyOf'[owns'[j]] = j
                 /\ \A h \in 1 .. generation' : keyOf'[h] = j => h <= owns'[j]
      BY <1>1, <1>7, <2>1 DEF Owners, Made, Identity!numbers
    <2>2. ASSUME NEW u \in Thread, place'[u] # "idle", op'[u].kind # "use"
          PROVE  owns'[op'[u].key] = op'[u].gen
      <3>1. u # t /\ place[u] # "idle" /\ op'[u] = op[u] /\ op[u].key \in Key
        BY <1>5, <2>2 DEF Generations, Made
      <3>2. op[t].kind = "release" => op[u].key # k
        BY <1>1, <2>2, <3>1 DEF Owners
      <3>3. QED
        BY <1>7, <2>2, <3>1, <3>2 DEF Owners
    <2>3. \A u, v \in Thread :
            /\ u # v
            /\ place'[u] # "idle" /\ op'[u].kind # "use"
            /\ place'[v] # "idle" /\ op'[v].kind # "use"
            => op'[u].key # op'[v].key
      BY <1>5 DEF Owners
    <2>4. QED
      BY <2>1, <2>2, <2>3 DEF Owners, Made
  <1>13. \A u \in Thread : place'[u] \in Inside \cup {"lock"} => u # t /\ place'[u] = place[u] /\ op'[u] = op[u]
    BY <1>5 DEF Inside, Looking, Chosen
  <1>14. Locked'
    BY <1>1, <1>13 DEF Locked
  <1>15. mark' = mark /\ record' = record /\ epoch' = epoch
    BY <1>1 DEF Identity!slot
  <1>16. Filled'
    BY <1>13, <1>15 DEF Filled, Filling, Inside, Chosen
  <1>17. Looked'
    <2>1. \A u \in Thread : place'[u] \in Looking \cup {"lock", "scan", "select"} => place'[u] \in Inside \cup {"lock"}
      BY DEF Inside, Looking
    <2>2. \A u \in Thread : place'[u] \in Looking \cup {"lock", "scan", "select"} => place'[u] = place[u] /\ op'[u] = op[u]
      BY <1>13, <2>1
    <2>3. QED
      BY <1>15, <2>2 DEF Looked, Twins, Looking
  <1>18. Apart'
    <2>1. \A u \in Thread : place[u] \in Filling => place'[u] = place[u] /\ op'[u] = op[u]
      <3>1. place[t] \notin Filling
        BY <1>1 DEF Filling
      <3>2. QED
        BY <1>5, <3>1
    <2>2. \A w \in Identity!Way : mark'[w].busy /\ ~ mark'[w].sealed =>
            \E u \in Thread : place'[u] \in Filling /\ op'[u].way = w
      BY <1>15, <2>1 DEF Apart
    <2>3. QED
      BY <1>15, <2>2 DEF Apart, Twins
  <1>19. IdentityNumbered'
    BY <1>1, <1>4, <1>5, <1>15, PartTypes DEF IdentityNumbered, Identity!numbers
  <1>20. ASSUME NEW j, NEW h, Worth(j, h), Made(h, j)
         PROVE  Worth(j, h)'
    <2>1. j \in Key /\ h >= newest'[j].sure
      <3>1. j \in Key
        BY <1>20 DEF Made
      <3>2. surely /\ j = k => h >= g
        BY <1>1, <1>20 DEF Worth
      <3>3. QED
        BY <1>6, <1>20, <3>1, <3>2 DEF Worth
    <2>2. \A u \in Thread : place'[u] = "unlock" /\ op'[u].kind = "create" /\ op'[u].key = j /\ ~ op'[u].passed => h >= op'[u].gen
      BY <1>5, <1>20 DEF Worth
    <2>3. QED
      BY <2>1, <2>2 DEF Worth
  <1>21. SlotCurrent'
    <2> SUFFICES ASSUME NEW w \in Identity!Way PROVE SlotHolds(w)'
      BY DEF SlotCurrent
    <2>1. \A j, h : Identity!Usable(mark[w]) /\ j = record[w][1] /\ h = record[w][2] /\ record[w][3] = epoch /\ Worth(j, h)
                    => Worth(j, h)'
      BY <1>20 DEF SlotCurrent, SlotHolds
    <2>2. QED
      BY <1>8, <1>15, <2>1, SlotKept DEF SlotCurrent
  <1>22. WriterCurrent'
    <2> SUFFICES ASSUME NEW u \in Thread, place'[u] \in Chosen
                 PROVE  /\ AloneIn(u)'
                        /\ op'[u].epoch = epoch' => Worth(op[u].key, op[u].gen)'
      BY DEF WriterCurrent
    <2>1. u # t /\ place[u] \in Chosen /\ op'[u] = op[u]
      BY <1>13 DEF Inside
    <2>2. AloneIn(u)'
      BY <1>15, <2>1 DEF WriterCurrent, AloneIn
    <2>3. PICK a, b : a = op[u].key /\ b = op[u].gen
      OBVIOUS
    <2>4. Made(b, a)
      BY <2>1, <2>3 DEF Generations, Chosen
    <2>5. op[u].epoch = epoch => Worth(a, b)'
      BY <1>20, <2>1, <2>3, <2>4 DEF WriterCurrent
    <2>6. QED
      BY <1>15, <2>1, <2>2, <2>3, <2>5 DEF Worth
  <1>23. ReaderHolds'
    <2>1. \A v \in Identity!Way : Moves(v)
      BY <1>15 DEF Moves
    <2>2. surely => newest[k].sure <= g
      <3> SUFFICES ASSUME surely PROVE newest[k].sure <= g
        OBVIOUS
      <3>1. owns[k] = g /\ g # 0
        BY <1>1, <1>3 DEF Owners
      <3>2. newest[k].sure # 0 => newest[k].sure \in 1 .. generation /\ keyOf[newest[k].sure] = k
        BY <1>3 DEF Generations, Made
      <3>3. newest[k].sure # 0 => newest[k].sure <= g
        BY <1>3, <3>1, <3>2 DEF Owners
      <3>4. QED
        BY <1>3, <3>3
    <2>3. epoch' >= epoch /\ \A j \in Key : newest'[j].sure >= newest[j].sure
      BY <1>3, <1>6, <1>15, <2>2, PartTypes
    <2>4. QED
      BY <1>1, <1>8, <1>9, <2>1, <2>3, ReaderKept
  <1>24. QED
    BY <1>9, <1>10, <1>11, <1>12, <1>14, <1>16, <1>17, <1>18, <1>19, <1>21, <1>22, <1>23

-----------------------------------------------------------------------------
(* The freeze and the lookup *)

\* The dump closes the gate, or seals a way.
LEMMA FreezeKeeps ==
  ASSUME IdentityBounds, IdentityInv, Identity!Freeze
  PROVE  IdentityInv'
  <1> USE DEF IdentityInv
  <1>1. /\ gate' \in BOOLEAN
        /\ UNCHANGED <<Identity!numbers, Identity!bucket, record, Identity!threads, finder, Identity!history>>
        /\ \/ mark' = mark
           \/ \E w \in Identity!Way : ~ mark[w].sealed /\ mark' = [mark EXCEPT ![w] = Identity!Sealed(@)]
    BY DEF Identity!Freeze, IdentityTyped
  <1> DEFINE Sealing(v) == /\ mark'[v].busy = mark[v].busy /\ mark'[v].version = mark[v].version
                           /\ mark'[v] = mark[v] \/ (mark'[v].sealed /\ ~ mark[v].sealed)
  <1>2. /\ mark' \in [Identity!Way -> Identity!Stamps(Identity!Number)]
        /\ \A v \in Identity!Way : Sealing(v)
    <2>1. mark \in [Identity!Way -> Identity!Stamps(Identity!Number)]
      BY DEF IdentityTyped
    <2>2. CASE mark' = mark
      BY <2>1, <2>2
    <2>3. ASSUME NEW w \in Identity!Way, ~ mark[w].sealed, mark' = [mark EXCEPT ![w] = Identity!Sealed(@)]
          PROVE  mark' \in [Identity!Way -> Identity!Stamps(Identity!Number)] /\ \A v \in Identity!Way : Sealing(v)
      <3>1. PICK s : s = Identity!Sealed(mark[w])
        OBVIOUS
      <3>2. s \in Identity!Stamps(Identity!Number) /\ s.busy = mark[w].busy /\ s.version = mark[w].version /\ s.sealed
        BY <2>1, <3>1 DEF Identity!Stamps, Identity!Sealed
      <3>3. mark' = [mark EXCEPT ![w] = s]
        BY <2>1, <2>3, <3>1
      <3>4. QED
        BY <2>1, <2>3, <3>2, <3>3
    <2>4. QED
      BY <1>1, <2>2, <2>3
  <1>3. \A v \in Identity!Way : mark[v].sealed => mark'[v].sealed
    BY <1>2
  <1>4. place' = place /\ op' = op /\ record' = record /\ epoch' = epoch
    BY <1>1 DEF Identity!threads, Identity!bucket
  <1>5. IdentityTyped'
    BY <1>1, <1>2
       DEF IdentityTyped, Identity!numbers, Identity!bucket, Identity!threads, Identity!history
  <1>6. IdentityCounted' /\ Generations' /\ Owners' /\ Locked' /\ IdentityNumbered'
    BY <1>1
       DEF IdentityCounted, Active, Generations, Owners, Locked, IdentityNumbered, Made,
           Identity!numbers, Identity!bucket, Identity!threads, Identity!history
  <1>7. Filled'
    <2>1. \A t \in Thread : place[t] \in Filling => op[t].way \in Identity!Way
      BY DEF WriterCurrent, AloneIn, Chosen, Filling
    <2>2. QED
      BY <1>2, <1>4, <2>1 DEF Filled
  <1>8. Apart' /\ Looked'
    <2>1. Apart'
      <3>1. \A w \in Identity!Way : mark'[w].busy /\ ~ mark'[w].sealed => mark[w].busy /\ ~ mark[w].sealed
        BY <1>2, <1>3
      <3>2. QED
        BY <1>2, <1>3, <1>4, <3>1 DEF Apart, Twins
    <2>2. \A t \in Thread : op[t].free \subseteq Identity!Way
      BY PartTypes
    <2>3. Looked'
      BY <1>2, <1>3, <1>4, <2>2 DEF Looked, Twins
    <2>4. QED
      BY <2>1, <2>3
  <1>9. \A g, k : (Made(g, k)' <=> Made(g, k)) /\ (Worth(k, g)' <=> Worth(k, g))
    BY <1>1, <1>4 DEF Made, Worth, Identity!numbers, Identity!history
  <1>10. SlotCurrent'
    <2> SUFFICES ASSUME NEW w \in Identity!Way PROVE SlotHolds(w)'
      BY DEF SlotCurrent
    <2>1. Identity!Usable(mark'[w]) => Identity!Usable(mark[w])
      BY <1>2 DEF Identity!Usable
    <2>2. QED
      BY <1>4, <1>9, <2>1, SlotKept DEF SlotCurrent
  <1>11. WriterCurrent'
    <2>1. \A t \in Thread : AloneIn(t) => AloneIn(t)'
      BY <1>3, <1>4 DEF AloneIn
    <2>2. QED
      BY <1>4, <1>9, <2>1 DEF WriterCurrent, Worth
  <1>12. ReaderHolds'
    <2>1. \A v \in Identity!Way : Moves(v)
      <3> SUFFICES ASSUME NEW v \in Identity!Way PROVE Moves(v)
        OBVIOUS
      <3>1. mark[v].version \in Nat
        BY PartTypes
      <3>2. QED
        BY <1>2, <1>4, <3>1 DEF Moves, IdentityLater
    <2>2. epoch' >= epoch /\ \A j \in Key : newest'[j].sure >= newest[j].sure
      BY <1>1, <1>4, PartTypes DEF Identity!history
    <2>3. QED
      BY <1>1, <1>5, <1>9, <2>1, <2>2, ReaderKept
  <1>13. QED
    BY <1>5, <1>6, <1>7, <1>8, <1>10, <1>11, <1>12

\* A lookup changes nothing but its own variables.
LEMMA LookupFrame ==
  ASSUME IdentityInv, UNCHANGED <<gate, Identity!numbers, Identity!bucket, Identity!slot, Identity!threads, Identity!history>>
  PROVE  /\ IdentityCounted' /\ Generations' /\ Owners' /\ Locked' /\ Filled' /\ IdentityNumbered'
         /\ SlotCurrent' /\ WriterCurrent' /\ Apart' /\ Looked'
         /\ \A g, k : Made(g, k)' <=> Made(g, k)
  <1> USE DEF IdentityInv
  <1>1. \A g, k : Made(g, k)' <=> Made(g, k)
    BY DEF Made, Identity!numbers, Identity!history
  <1>2. IdentityCounted' /\ Generations' /\ Owners' /\ Locked' /\ IdentityNumbered'
    BY DEF IdentityCounted, Active, Generations, Owners, Locked, IdentityNumbered, Made,
           Identity!numbers, Identity!bucket, Identity!threads, Identity!history
  <1>3. Filled' /\ SlotCurrent' /\ WriterCurrent'
    BY DEF Filled, SlotCurrent, SlotHolds, WriterCurrent, AloneIn, Identity!Usable, Made, Worth, Identity!numbers,
           Identity!bucket, Identity!threads, Identity!slot, Identity!history
  <1>4. Apart' /\ Looked'
    BY DEF Apart, Looked, Twins, Identity!threads, Identity!slot
  <1>5. QED
    BY <1>1, <1>2, <1>3, <1>4

\* A record has three words that a lookup reads.
LEMMA UpToThree ==
  \A n \in Nat : n < 3 => n \in {0, 1, 2} /\ n + 1 \in {1, 2, 3}
  OBVIOUS

\* The steps of a lookup.
LEMMA LookupKeeps ==
  ASSUME IdentityBounds, IdentityInv, Identity!Reader
  PROVE  IdentityInv'
  <1> USE DEF IdentityInv
  <1> DEFINE Goal == finder' \in Finders /\ ReaderHolds'
             w == finder.way
  <1>0. UNCHANGED <<gate, Identity!numbers, Identity!bucket, Identity!slot, Identity!threads, Identity!history>>
    BY DEF Identity!Reader, Identity!LookUp, Identity!ReadStamp, Identity!ReadWord,
           Identity!ReadStampAgain, Identity!ReadEpochAgain, Identity!EndLookUp, Identity!Reads
  <1>1. /\ finder \in Finders /\ 0 \in Identity!Number /\ epoch \in Identity!Number /\ epoch \in Nat
        /\ finder.got \in Seq(Keys \cup Identity!Number)
        /\ finder.floor.sure \in Nat /\ finder.way \in 0 .. Ways /\ Ways \in Nat \ {0} /\ Identity!Way = 1 .. Ways
    BY PartTypes DEF IdentityTyped, Finders, Identity!Number, IdentityBounds
  <1>2. Identity!Blank \in Identity!Stamps(Identity!Number) /\ <<>> \in Seq(Keys \cup Identity!Number)
    BY <1>1 DEF Identity!Blank, Identity!Stamps
  <1>3. Identity!NoRead \in Finders /\ Identity!NoRead.pc = "idle"
    BY <1>1, <1>2 DEF Identity!NoRead, Identity!Nothing, Finders, Keys, IdentityBounds
  <1>4. mark' = mark /\ record' = record /\ epoch' = epoch /\ newest' = newest /\ \A g, k : Made(g, k)' <=> Made(g, k)
    BY <1>0, LookupFrame DEF Identity!slot, Identity!bucket, Identity!history
  <1>5. SUFFICES Goal
    BY <1>0, LookupFrame
       DEF IdentityTyped, Identity!numbers, Identity!bucket, Identity!slot, Identity!threads, Identity!history
  <1>6. ASSUME finder' = Identity!NoRead
        PROVE  Goal
    BY <1>3, <1>6 DEF ReaderHolds
  <1>7. ASSUME finder.pc \in {"stamp", "words", "epoch"}, finder' = Identity!NextWay
        PROVE  Goal
    <2>1. CASE w = Ways
      BY <1>6, <1>7, <2>1 DEF Identity!NextWay
    <2>2. CASE w # Ways
      <3>1. finder' = [finder EXCEPT !.pc = "stamp", !.way = w + 1, !.stamp = Identity!Blank, !.got = <<>>]
        BY <1>1, <1>7, <2>2 DEF Identity!NextWay, Finders
      <3>2. w + 1 \in Identity!Way /\ w + 1 \in 0 .. Ways
        <4>1. w \in 1 .. Ways
          BY <1>1, <1>7 DEF ReaderHolds
        <4>2. QED
          BY <1>1, <2>2, <4>1
      <3> HIDE DEF w
      <3>3. /\ finder' \in Finders
            /\ finder'.pc = "stamp" /\ finder'.got = <<>> /\ finder'.way = w + 1
            /\ finder'.key = finder.key /\ finder'.epoch = finder.epoch /\ finder'.floor = finder.floor
        BY <1>1, <1>2, <3>1, <3>2 DEF Finders
      <3>4. ReaderHolds'
        BY <1>4, <1>7, <3>2, <3>3 DEF ReaderHolds
      <3>5. QED
        BY <3>3, <3>4
    <2>3. QED
      BY <2>1, <2>2
  <1>8. ASSUME NEW k \in Key, Identity!LookUp(k)
        PROVE  Goal
    <2>1. finder' = [Identity!NoRead EXCEPT !.pc = "stamp", !.key = k, !.epoch = epoch, !.way = 1, !.floor = newest[k]]
      BY <1>8 DEF Identity!LookUp, Identity!Reads
    <2>2. k \in Keys /\ 1 \in 0 .. Ways /\ 1 \in Identity!Way /\ newest[k] \in [any : Identity!Number, sure : Identity!Number]
      BY <1>1 DEF Keys, IdentityTyped
    <2>3. /\ finder' \in Finders
          /\ finder'.pc = "stamp" /\ finder'.key = k /\ finder'.epoch = epoch /\ finder'.way = 1
          /\ finder'.floor = newest[k] /\ finder'.got = <<>>
      BY <1>1, <1>2, <1>3, <2>1, <2>2 DEF Identity!NoRead, Finders
    <2>4. newest[k].sure \in Nat
      BY PartTypes
    <2>5. ReaderHolds'
      BY <1>1, <1>4, <2>2, <2>3, <2>4 DEF ReaderHolds
    <2>6. QED
      BY <2>3, <2>5
  <1>9. CASE Identity!ReadStamp
    <2>0. finder.pc = "stamp" /\ w \in Identity!Way /\ finder.got = <<>>
      BY <1>9 DEF Identity!ReadStamp, ReaderHolds
    <2>1. CASE ~ Identity!Usable(mark[w])
      BY <1>7, <1>9, <2>0, <2>1 DEF Identity!ReadStamp, Identity!Reads
    <2>2. CASE Identity!Usable(mark[w])
      <3>1. finder' = [finder EXCEPT !.pc = "words", !.stamp = mark[w]]
        BY <1>9, <2>2 DEF Identity!ReadStamp, Identity!Reads
      <3>2. mark[w] \in Identity!Stamps(Identity!Number)
        BY <2>0, PartTypes
      <3>3. /\ finder' \in Finders /\ finder'.pc = "words" /\ finder'.key = finder.key /\ finder'.epoch = finder.epoch
            /\ finder'.stamp = mark[w] /\ finder'.got = <<>> /\ finder'.way = w /\ finder'.floor = finder.floor
        BY <1>1, <2>0, <3>1, <3>2 DEF Finders
      <3>4. Len(finder'.got) = 0 /\ DOMAIN finder'.got = {}
        BY <3>3
      <3>5. ReaderHolds'
        BY <1>4, <2>0, <2>2, <3>3, <3>4 DEF ReaderHolds, Identity!Usable
      <3>6. QED
        BY <3>3, <3>5
    <2>3. QED
      BY <2>1, <2>2
  <1>10. CASE Identity!ReadWord
    <2> DEFINE got == finder.got
               word == record[w][Len(got) + 1]
               All == Keys \cup Identity!Number
    <2>1. finder' = [finder EXCEPT !.got = Append(got, word)] /\ finder.pc = "words" /\ Len(got) < 3
      BY <1>10 DEF Identity!ReadWord, Identity!Reads
    <2>2. got \in Seq(All) /\ w \in Identity!Way
      BY <1>1, <2>1 DEF ReaderHolds
    <2>3. Len(got) \in {0, 1, 2} /\ Len(got) + 1 \in {1, 2, 3}
      <3> HIDE DEF got, All
      <3>1. Len(got) \in Nat /\ Len(got) < 3
        BY <2>1, <2>2
      <3>2. QED
        BY <3>1, UpToThree, Zenon
    <2>4. word \in All
      <3>1. record[w] \in Records
        BY <2>2, PartTypes
      <3>2. record[w][1] \in All /\ record[w][2] \in All /\ record[w][3] \in All
        BY <3>1 DEF Records
      <3> HIDE DEF got, All, w
      <3>3. QED
        BY <2>3, <3>2
    <2>5. Append(got, word) \in Seq(All) /\ Len(Append(got, word)) = Len(got) + 1
      BY <2>2, <2>4
    <2>6. \A i \in DOMAIN Append(got, word) :
            \/ i \in DOMAIN got /\ Append(got, word)[i] = got[i]
            \/ Append(got, word)[i] = record[w][i]
      <3> HIDE DEF got, word, All, w
      <3>1. DOMAIN got = 1 .. Len(got) /\ DOMAIN Append(got, word) = 1 .. Len(got) + 1
        BY <2>2, <2>4, <2>5
      <3>2. Append(got, word)[Len(got) + 1] = word
        BY <2>2, <2>4
      <3>3. \A i \in 1 .. Len(got) : Append(got, word)[i] = got[i]
        BY <2>2, <2>4
      <3>4. \A i \in 1 .. Len(got) + 1 : i \in 1 .. Len(got) \/ i = Len(got) + 1
        BY <2>3
      <3>5. word = record[w][Len(got) + 1]
        BY DEF word, w
      <3>6. QED
        BY <3>1, <3>2, <3>3, <3>4, <3>5
    <2>7. /\ finder' \in Finders
          /\ finder'.pc = "words" /\ finder'.key = finder.key /\ finder'.epoch = finder.epoch
          /\ finder'.stamp = finder.stamp /\ finder'.got = Append(got, word)
          /\ finder'.way = w /\ finder'.floor = finder.floor
      <3> HIDE DEF word
      <3>1. Append(got, word) \in Seq(Keys \cup Identity!Number)
        BY <2>5
      <3> HIDE DEF got, All
      <3>2. QED
        BY <1>1, <2>1, <3>1 DEF Finders
    <2>8. /\ Identity!Usable(finder.stamp)
          /\ mark[w] = finder.stamp => \A i \in DOMAIN got : got[i] = record[w][i]
          /\ mark[w] # finder.stamp => IdentityLater(mark[w], finder.stamp)
          /\ finder.key \in Key /\ finder.epoch <= epoch /\ finder.floor.sure <= newest[finder.key].sure
      BY <2>1 DEF ReaderHolds
    <2> HIDE DEF got, word, w
    <2>9. Len(finder'.got) <= 3
      BY <2>3, <2>5, <2>7
    <2>10. mark[w] = finder.stamp => \A i \in DOMAIN Append(got, word) : Append(got, word)[i] = record[w][i]
      BY <2>6, <2>8
    <2>11. ReaderHolds'
      BY <1>4, <2>2, <2>7, <2>8, <2>9, <2>10 DEF ReaderHolds, IdentityLater, Identity!Usable
    <2>12. QED
      BY <2>7, <2>11
  <1>11. CASE Identity!ReadStampAgain
    <2> DEFINE got == finder.got
    <2>0. finder.pc = "words" /\ Len(got) = 3
      BY <1>11 DEF Identity!ReadStampAgain
    <2>1. CASE ~ (got[1] = finder.key /\ got[3] = finder.epoch /\ Identity!SameStamp)
      BY <1>7, <1>11, <2>0, <2>1 DEF Identity!ReadStampAgain, Identity!Reads
    <2>2. CASE got[1] = finder.key /\ got[3] = finder.epoch /\ Identity!SameStamp
      <3>1. finder' = [finder EXCEPT !.pc = "epoch"]
        BY <1>11, <2>2 DEF Identity!ReadStampAgain, Identity!Reads
      <3>2. /\ finder' \in Finders /\ finder'.pc = "epoch" /\ finder'.key = finder.key /\ finder'.epoch = finder.epoch
            /\ finder'.got = finder.got /\ finder'.way = w /\ finder'.floor = finder.floor
        BY <1>1, <3>1 DEF Finders
      <3>3. mark[w] = finder.stamp /\ Identity!Usable(mark[w]) /\ w \in Identity!Way
        BY <2>0, <2>2 DEF ReaderHolds, Identity!SameStamp
      <3>4. got[1] = record[w][1] /\ got[2] = record[w][2] /\ got[3] = record[w][3]
        <4>1. 1 \in DOMAIN got /\ 2 \in DOMAIN got /\ 3 \in DOMAIN got
          BY <1>1, <2>0
        <4>2. QED
          BY <2>0, <3>3, <4>1 DEF ReaderHolds
      <3>5. Made(got[2], finder.key) /\ (got[3] = epoch => Worth(finder.key, got[2]))
        BY <2>2, <3>3, <3>4 DEF SlotCurrent, SlotHolds
      <3>6. finder.key \in Key /\ finder.epoch <= epoch /\ finder.floor.sure <= newest[finder.key].sure
        BY <2>0 DEF ReaderHolds
      <3>7. newest[finder.key].sure \in Nat /\ got[2] \in Nat
        BY <3>3, <3>4, <3>6, PartTypes
      <3>8. epoch = finder.epoch => got[2] >= finder.floor.sure
        <4> HIDE DEF got
        <4>1. epoch = finder.epoch => got[2] >= newest[finder.key].sure
          BY <2>2, <3>5 DEF Worth
        <4>2. QED
          BY <1>1, <3>6, <3>7, <4>1
      <3>9. finder'.got[2] \in 1 .. generation' /\ finder'.key \in Key /\ keyOf'[finder'.got[2]] = finder'.key
        <4>1. PICK g, k : g = got[2] /\ k = finder.key
          OBVIOUS
        <4>2. Made(g, k)'
          BY <1>4, <3>5, <4>1
        <4>3. g = finder'.got[2] /\ k = finder'.key
          BY <3>2, <4>1
        <4> HIDE DEF got
        <4>4. QED
          BY <4>2, <4>3 DEF Made
      <3>10. ReaderHolds'
        <4> HIDE DEF w
        <4>1. epoch' = finder'.epoch => finder'.got[2] >= finder'.floor.sure
          BY <1>4, <3>2, <3>8
        <4>2. /\ finder'.way \in Identity!Way /\ finder'.epoch <= epoch'
              /\ finder'.floor.sure <= newest'[finder'.key].sure
          BY <1>4, <3>2, <3>3, <3>6
        <4> HIDE DEF got
        <4>3. QED
          BY <3>2, <3>9, <4>1, <4>2 DEF ReaderHolds, Made
      <3>11. QED
        BY <3>2, <3>10
    <2>3. QED
      BY <2>1, <2>2
  <1>12. CASE Identity!ReadEpochAgain
    <2>0. finder.pc = "epoch"
      BY <1>12 DEF Identity!ReadEpochAgain
    <2>1. CASE epoch # finder.epoch
      BY <1>7, <1>12, <2>0, <2>1 DEF Identity!ReadEpochAgain, Identity!Reads
    <2>2. CASE epoch = finder.epoch
      <3>1. finder' = [finder EXCEPT !.pc = "found"]
        BY <1>12, <2>2 DEF Identity!ReadEpochAgain, Identity!Reads
      <3>2. /\ finder' \in Finders /\ finder'.pc = "found" /\ finder'.key = finder.key /\ finder'.epoch = finder.epoch
            /\ finder'.got = finder.got /\ finder'.way = w /\ finder'.floor = finder.floor
        BY <1>1, <3>1 DEF Finders
      <3>3. ReaderHolds'
        BY <1>0, <1>4, <2>0, <2>2, <3>2 DEF ReaderHolds, Made, Identity!numbers, Identity!history
      <3>4. QED
        BY <3>2, <3>3
    <2>3. QED
      BY <2>1, <2>2
  <1>13. CASE Identity!EndLookUp
    BY <1>6, <1>13 DEF Identity!EndLookUp, Identity!Reads
  <1>14. QED
    BY <1>8, <1>9, <1>10, <1>11, <1>12, <1>13 DEF Identity!Reader

\* At first there is no record.
LEMMA IdentityStarts ==
  ASSUME IdentityBounds, Identity!Init
  PROVE  IdentityInv
  <1> USE DEF Identity!Init
  <1>1. 0 \in Identity!Number /\ MaxSequence \in Nat /\ Ways \in Nat
    BY DEF IdentityBounds, Identity!Number
  <1>2. /\ Identity!Blank \in Identity!Stamps(Identity!Number) /\ ~ Identity!Usable(Identity!Blank)
        /\ ~ Identity!Blank.busy
        /\ <<>> \in Seq(Keys \cup Identity!Number)
    BY <1>1 DEF Identity!Blank, Identity!Stamps, Identity!Usable
  <1>3. Identity!NoOp \in Calling /\ Identity!NoOp.epoch = 0
    BY <1>1 DEF Identity!NoOp, Identity!Event, Calling, Keys
  <1>4. finder \in Finders /\ finder.pc = "idle"
    BY <1>1, <1>2 DEF Identity!NoRead, Identity!Nothing, Finders, Keys
  <1>5. record \in [Identity!Way -> Records] /\ \A w \in Identity!Way : record[w][1] = Identity!None
    BY <1>1 DEF Records, Keys
  <1>6. place \in [Thread -> IdentityLabels] /\ op \in [Thread -> Calling] /\ mark \in [Identity!Way -> Identity!Stamps(Identity!Number)]
    BY <1>2, <1>3 DEF IdentityLabels
  <1>7. IdentityTyped
    BY <1>1, <1>4, <1>5, <1>6 DEF IdentityTyped, Keys, Identity!Nothing
  <1>8. Active = {} /\ Cardinality({}) = 0 /\ 1 .. generation = {}
    BY FS_EmptySet DEF Active
  <1>9. IdentityCounted
    BY <1>8 DEF IdentityCounted
  <1>10. Generations /\ Owners
    BY <1>8 DEF Generations, Owners, Identity!Nothing
  <1>11. Locked /\ Filled /\ Looked /\ WriterCurrent
    BY DEF Locked, Filled, Looked, WriterCurrent, Inside, Looking, Filling, Chosen
  <1>12. IdentityNumbered
    BY <1>3 DEF IdentityNumbered
  <1>13. SlotCurrent
    BY <1>2 DEF SlotCurrent, SlotHolds
  <1>14. Apart
    BY <1>2, <1>5 DEF Apart, Twins, IdentityBounds
  <1>15. ReaderHolds
    BY <1>4 DEF ReaderHolds
  <1>16. QED
    BY <1>7, <1>9, <1>10, <1>11, <1>12, <1>13, <1>14, <1>15 DEF IdentityInv

\* Nothing changes.
LEMMA IdentityStutters ==
  ASSUME IdentityInv, UNCHANGED Identity!vars
  PROVE  IdentityInv'
  <1> USE DEF Identity!vars, IdentityInv
  <1>1. UNCHANGED <<gate, Identity!numbers, Identity!bucket, Identity!slot, Identity!threads, Identity!history>>
    OBVIOUS
  <1>2. IdentityTyped'
    BY DEF IdentityTyped, Identity!numbers, Identity!bucket, Identity!slot, Identity!threads,
           Identity!history
  <1>3. ReaderHolds'
    BY DEF ReaderHolds, Made, Identity!numbers, Identity!bucket, Identity!slot, Identity!history
  <1>4. QED
    BY <1>1, <1>2, <1>3, LookupFrame

\* Every step keeps the invariant.
LEMMA IdentityStepKeeps ==
  ASSUME IdentityBounds, IdentityInv, [Identity!Next]_(Identity!vars)
  PROVE  IdentityInv'
  <1>1. ASSUME NEW t \in Thread, Identity!Writer(t)
        PROVE  IdentityInv'
    BY <1>1, CallsKeep, TryLockKeeps, ScanKeeps, SelectKeeps, ClaimKeeps, StoreKeeps, PublishKeeps,
       InvalidateKeeps, ReturnKeeps DEF Identity!Writer
  <1>2. QED
    BY <1>1, FreezeKeeps, LookupKeeps, IdentityStutters DEF Identity!Next

\* The inductive invariant holds.
LEMMA IdentityInvariant == IdentityBounds /\ Identity!Spec => []IdentityInv
  <1>1. IdentityBounds /\ Identity!Init => IdentityBounds /\ IdentityInv
    BY IdentityStarts
  <1>2. (IdentityBounds /\ IdentityInv) /\ [Identity!Next]_(Identity!vars) => (IdentityBounds /\ IdentityInv)'
    BY IdentityStepKeeps DEF IdentityBounds
  <1>3. QED
    BY <1>1, <1>2, PTL DEF Identity!Spec

\* Whichever threads create, use and release texture records while a lookup reads,
\* whatever the lock, a full bucket and a freeze make them lose and whichever way they take,
\* a lookup that succeeds finds a generation of its address that is no older than the last
\* one whose creation had returned when it began, not counting creations that a freeze
\* had overtaken (UpdateResource, ResourceGeneration).
THEOREM LookupsCurrent ==
  ASSUME IdentityBounds
  PROVE  Identity!Spec => []Identity!LookupCurrent
  <1>1. IdentityInv => Identity!LookupCurrent
    BY DEF IdentityInv, ReaderHolds, Identity!LookupCurrent, Identity!FoundSince, Made
  <1>2. QED
    BY <1>1, IdentityInvariant, PTL

\* Every variable of FlightIdentity keeps its type: epochs and generations never pass the
\* numbers taken for them.
THEOREM IdentityTypes ==
  ASSUME IdentityBounds
  PROVE  Identity!Spec => []Identity!TypeOK
  <1>1. IdentityInv => Identity!TypeOK
    BY DEF IdentityInv, IdentityTyped, Identity!TypeOK, Records, Keys
  <1>2. QED
    BY <1>1, IdentityInvariant, PTL
=============================================================================
