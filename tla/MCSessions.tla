----------------------------- MODULE MCSessions -----------------------------
(***************************************************************************)
(* What must happen in the end to the TURN client and to the connection    *)
(* attempts, side by side: part says which one a behaviour is of.  The     *)
(* properties of the TURN client are those of TurnClient.                  *)
(***************************************************************************)
EXTENDS TurnClient

CONSTANTS MaxAttempts, UdpCand, EosCand, OverlayCand

MCHosts == {"h1", "h2"}
MCUsers == {"u1", "u2"}
MCUdp == {"direct"}
MCEos == {"eos"}
MCNoOverlay == {}

VARIABLES
  part,  \* whose steps a behaviour consists of, and the variables of ConnectSession
  c1, c2, c3, c4, c5, c6, c7, c8, c9, c10, c11, c12, c13, c14, c15

Connect == INSTANCE ConnectSession WITH
  generation <- c1, active <- c2, engine <- c3, pc <- c4, sock <- c5, cand <- c6, prep <- c7,
  timeUp <- c8, toClose <- c9, plan <- c10, cmds <- c11, excused <- c12, open <- c13,
  attested <- c14, nextId <- c15

connectVars == <<c1, c2, c3, c4, c5, c6, c7, c8, c9, c10, c11, c12, c13, c14, c15>>
sessionsVars == <<part, vars, connectVars>>

\* A step of one part; the other stays in its initial state.
TurnOnly == part = "turn" /\ UNCHANGED <<part, connectVars>>
ConnectOnly == part = "connect" /\ UNCHANGED <<part, vars>>

SessionsInit == part \in {"turn", "connect"} /\ Init /\ Connect!Init

TurnNext ==
  \/ \E c \in Credentials : TurnOnly /\ StartKeeps(c)
  \/ \E c \in Credentials : TurnOnly /\ StartRestarts(c)
  \/ TurnOnly /\ StarterStops
  \/ TurnOnly /\ StarterJoins
  \/ TurnOnly /\ Launch
  \/ \E s \in Stopper : TurnOnly /\ ServiceFindsIdle(s)
  \/ \E s \in Stopper : TurnOnly /\ StopperStops(s)
  \/ \E s \in Stopper : TurnOnly /\ StopperJoins(s)
  \/ \E g \in Gen : TurnOnly /\ Reset(g)
  \/ \E g \in Gen : TurnOnly /\ SetUpFails(g)
  \/ \E g \in Gen : TurnOnly /\ Opens(g)
  \/ \E g \in Gen : TurnOnly /\ LoopHead(g)
  \/ \E g \in Gen : TurnOnly /\ Quiet(g)
  \/ \E g \in Gen, r \in pending : TurnOnly /\ Granted(g, r)
  \/ \E g \in Gen, r \in pending : TurnOnly /\ Challenged(g, r)
  \/ \E g \in Gen, r \in pending : TurnOnly /\ Refused(g, r)
  \/ \E g \in Gen : TurnOnly /\ Tick(g)
  \/ \E g \in Gen : TurnOnly /\ Release(g)
  \/ \E g \in Gen : TurnOnly /\ Close(g)

\* Without overlay candidates, which have actions of their own: the preparation
\* that may hang is that of EOS.
ConnectNext ==
  \/ \E kind \in {"plain", "best"} : ConnectOnly /\ Connect!StartAttempt(kind)
  \/ ConnectOnly /\ Connect!TakeActive
  \/ ConnectOnly /\ Connect!CloseActive
  \/ ConnectOnly /\ Connect!ConnectPlain
  \/ ConnectOnly /\ Connect!CreateSession
  \/ \E g \in Connect!Attempt, c \in EosCand : ConnectOnly /\ Connect!PrepareEnds(g, c)
  \/ \E g \in Connect!Attempt, c \in Connect!Cand : ConnectOnly /\ Connect!Pong(g, c)
  \/ \E g \in Connect!Attempt, c \in Connect!Cand : ConnectOnly /\ Connect!NoAnswer(g, c)
  \/ \E g \in Connect!Attempt : ConnectOnly /\ Connect!Deadline(g)
  \/ \E g \in Connect!Attempt : ConnectOnly /\ Connect!GiveUpEarly(g)
  \/ \E g \in Connect!Attempt : ConnectOnly /\ Connect!NoRoutes(g)
  \/ \E g \in Connect!Attempt : ConnectOnly /\ Connect!StartProbing(g)
  \/ \E g \in Connect!Attempt : ConnectOnly /\ Connect!ProbeEnds(g)
  \/ \E g \in Connect!Attempt : ConnectOnly /\ Connect!Superseded(g)
  \/ \E g \in Connect!Attempt : ConnectOnly /\ Connect!PickWinner(g)
  \/ \E g \in Connect!Attempt : ConnectOnly /\ Connect!CleanupDone(g)
  \/ \E g \in Connect!Attempt : ConnectOnly /\ Connect!LosersClosed(g)
  \/ \E g \in Connect!Attempt : ConnectOnly /\ Connect!IdentifyEnds(g)
  \/ \E g \in Connect!Attempt : ConnectOnly /\ Connect!CheckCurrent(g)
  \/ \E g \in Connect!Attempt : ConnectOnly /\ Connect!Command(g)

SessionsNext == TurnNext \/ ConnectNext

\* The fairness of both modules.
SessionsSpec ==
  SessionsInit /\ [][SessionsNext]_sessionsVars /\ Fairness /\ Connect!Fairness

\* Every connection attempt comes to an end (RunSession).
AttemptEnds == Connect!AttemptEnds
=============================================================================
