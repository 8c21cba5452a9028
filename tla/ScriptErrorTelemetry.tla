------------------------ MODULE ScriptErrorTelemetry ------------------------
(***************************************************************************)
(* The client of the script error service                                  *)
(* (engine/net/script_error_telemetry.cpp: class Service).  What a script  *)
(* machine prints inside an error block is read line by line: an error, a  *)
(* call stack, sections that end the report.  Complete reports go into a   *)
(* queue, a worker posts them, and the answer's code is shown beside the   *)
(* notification of the context, which may be of a later error by then.     *)
(*                                                                         *)
(* A report is the sequence number of its error, and so is the code the    *)
(* service answers with.  stateMutex_ and queueMutex_ make each action one *)
(* step; a call releases the first before it takes the second.             *)
(***************************************************************************)
EXTENDS Naturals, Sequences, FiniteSets

CONSTANTS
  Context,  \* VmContext
  MaxQueue, \* kMaxQueueEntries
  MaxErrors, MaxBlocks \* bounds: errors, nested error blocks

VARIABLES
  captures,      \* of a context: [phase, blocks, partial, report]
  notifications, \* of a context: [sequence, code]
  nextSequence,
  completed,     \* the reports a call for the context has still to put into the queue
  queue,         \* [context, sequence]
  worker,        \* NotStarted, Waits or the report it posts
  handled        \* history: the reports the worker is done with

vars == <<captures, notifications, nextSequence, completed, queue, worker, handled>>

NoReport == 0
NotStarted == [context |-> "none", sequence |-> 0]
Waits == [context |-> "waits", sequence |-> 0]

\* A line with an error, one whose error text is unknown, the head of the call
\* stack, a function of it (or an empty line), a section after it, and others.
Line == {"error", "unknown", "callstack", "function", "section", "other"}
NoLine == "none"
Begin == {"error", "begun"}
IsError(line) == line \in {"error", "unknown"}

Init ==
  /\ captures = [c \in Context |->
                  [phase |-> "Idle", blocks |-> 0, partial |-> NoLine, report |-> NoReport]]
  /\ notifications = [c \in Context |-> [sequence |-> 0, code |-> 0]]
  /\ nextSequence = 0
  /\ completed = [c \in Context |-> <<>>]
  /\ queue = <<>> /\ worker = NotStarted /\ handled = {}

-----------------------------------------------------------------------------
(* The lines of one call: s has the phase, the report, nextSequence as last *)
(* and the reports completed so far.                                        *)

FinishReport(s) ==
  [s EXCEPT !.done = IF s.phase # "Idle" /\ s.report # NoReport THEN Append(@, s.report) ELSE @,
            !.report = NoReport, !.phase = "Idle"]

\* A report that is not eligible, reporting being switched off, has a number all
\* the same.
BeginReport(s, eligible) ==
  [s EXCEPT !.phase = "AwaitCallstack", !.last = @ + 1,
            !.report = IF eligible THEN s.last + 1 ELSE NoReport]

ProcessLine(s, line, eligible) ==
  CASE s.phase = "Details" -> s
    [] s.phase # "Details" /\ line = "error" -> BeginReport(FinishReport(s), eligible)
    [] s.phase # "Details" /\ line = "unknown" ->
         FinishReport(BeginReport(FinishReport(s), eligible))
    [] s.phase \in {"AwaitCallstack", "Callstack"} /\ line = "section" ->
         [FinishReport(s) EXCEPT !.phase = "Details"]
    [] s.phase = "AwaitCallstack" /\ line = "callstack" -> [s EXCEPT !.phase = "Callstack"]
    [] s.phase = "Callstack" /\ line \in {"callstack", "other"} -> FinishReport(s)
    [] OTHER -> s

-----------------------------------------------------------------------------
(* Actions *)

\* The next call for a context comes when the last one has returned.
Calls(c) == completed[c] = <<>>

BeginErrorBlock(c) ==
  /\ Calls(c)
  /\ captures[c].blocks < MaxBlocks
  /\ captures' = [captures EXCEPT ![c] =
       IF @.blocks = 0 THEN [phase |-> "Idle", blocks |-> 1, partial |-> NoLine, report |-> NoReport]
       ELSE [@ EXCEPT !.blocks = captures[c].blocks + 1]]
  /\ UNCHANGED <<notifications, nextSequence, completed, queue, worker, handled>>

\* What a call of Capture makes of its lines, s.  A text of several lines is as many
\* calls here, so its first reports are in the queue before its last lines are read.
Captured(c, s, partial) ==
  /\ Calls(c)
  /\ captures[c].blocks > 0
  /\ s.last <= MaxErrors
  /\ captures' = [captures EXCEPT ![c] =
       [@ EXCEPT !.phase = s.phase, !.report = s.report, !.partial = partial]]
  /\ notifications' = IF s.last = nextSequence THEN notifications
                      ELSE [notifications EXCEPT ![c] = [sequence |-> s.last, code |-> 0]]
  /\ nextSequence' = s.last
  /\ completed' = [completed EXCEPT ![c] = s.done]
  /\ UNCHANGED <<queue, worker, handled>>

Reads(c) == [phase |-> captures[c].phase, report |-> captures[c].report,
             last |-> nextSequence, done |-> <<>>]

\* A line that ends in the text, which an earlier call may have begun.
CaptureLine(c, line, eligible) ==
  /\ captures[c].partial = "error" => IsError(line)
  /\ Captured(c, ProcessLine(Reads(c), line, eligible), NoLine)

\* The heading of a section need not end.
CaptureHeading(c) ==
  /\ captures[c].partial = NoLine
  /\ captures[c].phase # "Idle"
  /\ Captured(c, ProcessLine(Reads(c), "section", FALSE), NoLine)

\* ShouldKeepPartial: the begin of a line, with all of the error marker or not.
CapturePartial(c, begin) ==
  /\ captures[c].partial = NoLine
  /\ Captured(c, Reads(c), begin)

EndErrorBlock(c) ==
  LET s == FinishReport([phase |-> captures[c].phase, report |-> captures[c].report, done |-> <<>>])
  IN  /\ Calls(c)
      /\ captures[c].blocks > 0
      /\ captures' = [captures EXCEPT ![c] =
           IF @.blocks = 1
           THEN [phase |-> s.phase, blocks |-> 0, partial |-> NoLine, report |-> s.report]
           ELSE [@ EXCEPT !.blocks = captures[c].blocks - 1]]
      /\ completed' = IF captures[c].blocks = 1 THEN [completed EXCEPT ![c] = s.done] ELSE completed
      /\ UNCHANGED <<notifications, nextSequence, queue, worker, handled>>

\* The oldest report makes room.  Without a worker thread there are no reports.
Enqueue(c) ==
  LET room == IF Len(queue) = MaxQueue THEN Tail(queue) ELSE queue
  IN  /\ completed[c] # <<>>
      /\ completed' = [completed EXCEPT ![c] = Tail(@)]
      /\ \/ /\ queue' = Append(room, [context |-> c, sequence |-> Head(completed[c])])
            /\ worker' = IF worker = NotStarted THEN Waits ELSE worker
         \/ /\ worker = NotStarted
            /\ queue' = <<>>
            /\ UNCHANGED worker
      /\ UNCHANGED <<captures, notifications, nextSequence, handled>>

WorkerTakes ==
  /\ worker = Waits /\ queue # <<>>
  /\ worker' = Head(queue)
  /\ queue' = Tail(queue)
  /\ UNCHANGED <<captures, notifications, nextSequence, completed, handled>>

Works == worker \notin {NotStarted, Waits}

\* Reporting was switched off meanwhile, or the post failed.
WorkerGivesUp ==
  /\ Works
  /\ worker' = Waits
  /\ handled' = handled \cup {worker.sequence}
  /\ UNCHANGED <<captures, notifications, nextSequence, completed, queue>>

\* Mutant: the notification is taken to be of the report.
WorkerNotifies_Always ==
  /\ Works
  /\ notifications' = [notifications EXCEPT ![worker.context].code = worker.sequence]
  /\ worker' = Waits
  /\ handled' = handled \cup {worker.sequence}
  /\ UNCHANGED <<captures, nextSequence, completed, queue>>

WorkerNotifies ==
  /\ Works
  /\ notifications' =
       IF notifications[worker.context].sequence # worker.sequence THEN notifications
       ELSE [notifications EXCEPT ![worker.context].code = worker.sequence]
  /\ worker' = Waits
  /\ handled' = handled \cup {worker.sequence}
  /\ UNCHANGED <<captures, nextSequence, completed, queue>>

Next ==
  \/ \E c \in Context : BeginErrorBlock(c) \/ EndErrorBlock(c) \/ Enqueue(c)
  \/ \E c \in Context, line \in Line, eligible \in BOOLEAN : CaptureLine(c, line, eligible)
  \/ \E c \in Context : CaptureHeading(c)
  \/ \E c \in Context, begin \in Begin : CapturePartial(c, begin)
  \/ WorkerTakes \/ WorkerGivesUp \/ WorkerNotifies

Spec == Init /\ [][Next]_vars

-----------------------------------------------------------------------------
(* Properties *)

TypeOK ==
  /\ nextSequence \in 0 .. MaxErrors
  /\ \A c \in Context :
       captures[c] \in [phase : {"Idle", "AwaitCallstack", "Callstack", "Details"}, blocks : 0 .. MaxBlocks,
                        partial : Begin \cup {NoLine}, report : 0 .. nextSequence]
  /\ Len(queue) <= MaxQueue
  /\ worker \in {NotStarted, Waits} \cup [context : Context, sequence : 1 .. nextSequence]

\* A notification shows no code but that of its own error, the context's last one,
\* however late the service answers (script_error_telemetry.cpp:1114).
ResultOfLatest ==
  \A c \in Context : notifications[c].code \in {0, notifications[c].sequence}

\* An error is reported at most once: it is still being read, or on its way into
\* the queue, in it, with the worker, or done with.
ReportedOnce ==
  \A n \in 1 .. nextSequence :
    LET places == {<<"read", c>> : c \in {d \in Context : /\ captures[d].phase # "Idle"
                                                          /\ captures[d].report = n}}
                  \cup {<<"call", c>> : c \in {d \in Context : n \in {completed[d][i] :
                                                        i \in DOMAIN completed[d]}}}
                  \cup {<<"queue", i>> : i \in {j \in DOMAIN queue : queue[j].sequence = n}}
                  \cup (IF worker.sequence = n THEN {<<"worker", "has">>} ELSE {})
                  \cup (IF n \in handled THEN {<<"worker", "had">>} ELSE {})
    IN  Cardinality(places) <= 1

\* Both.
ReportsTrue == ResultOfLatest /\ ReportedOnce
=============================================================================
