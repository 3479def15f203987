----------------------------- MODULE Supervisor -----------------------------
(***************************************************************************)
(* The supervisor loops (multi_agent_workflow.go): a model names the next  *)
(* agent until it says FINISH or the steps are over.  "plain" is           *)
(* MultiAgentWorkflow, "stream" is StreamMultiAgentWorkflow, "old" is one  *)
(* of the latter's runs that began before its approval gate.  Signals are  *)
(* buffered in a channel; each Receive takes the oldest.  An activity is   *)
(* tried MaximumAttempts times, and one that runs code may have run it by  *)
(* the time an attempt fails.                                              *)
(***************************************************************************)
EXTENDS Naturals, Sequences

CONSTANTS SvMaxSteps,  \* steps of each kind: 5, and 20 for the streamed ones
          SvMaxSignals \* bound on the user's signals

VARIABLES
  svKind, svStep, svPhase,
  svSignals,  \* the signal channel
  svSent,     \* history: how many approvals were sent
  svAsked,    \* history: how many times an approval was waited for
  svTry,      \* failed attempts of the run of code under way
  svRuns,     \* history: how many times code was run
  svSaved     \* the turn saved: what it holds

svChannel == <<svSignals, svSent>>
svVars == <<svKind, svStep, svPhase, svChannel, svAsked, svTry, svRuns, svSaved>>

MaximumAttempts == 3
SvOver == {"finished", "limit", "failed"}
Kinds == {"plain", "stream", "old"}

ASSUME SvBounds == SvMaxSteps \in [Kinds -> Nat \ {0}]

SvInit ==
  /\ svKind \in Kinds /\ svStep = 0 /\ svPhase = "decide"
  /\ svSignals = <<>> /\ svSent = 0
  /\ svAsked = 0 /\ svTry = 0 /\ svRuns = 0 /\ svSaved = "nothing"

\* The end of a turn of the loop, and the loop's bound; a turn that reaches it
\* is answered with a notice and not saved.
Report ==
  /\ svStep' = svStep + 1
  /\ svPhase' = IF svStep' = SvMaxSteps[svKind] THEN "limit" ELSE "decide"
  /\ UNCHANGED <<svKind, svSaved>>

\* Where the loop goes on within a turn.
At(phase) == svPhase' = phase /\ UNCHANGED <<svKind, svStep, svSaved>>
NoRun == UNCHANGED <<svTry, svRuns>>
Same == UNCHANGED <<svChannel, svAsked>> /\ NoRun

\* SupervisorDecide(Stream) fails after its attempts, or names an agent
DecideFails == svPhase = "decide" /\ At("failed") /\ Same

ChooseFinish == svPhase = "decide" /\ At(IF svKind = "plain" THEN "finished" ELSE "reply") /\ Same

\* A researcher's result or error; an agent unknown to the plain loop gives an
\* empty report.
ChooseWorker == svPhase = "decide" /\ Report /\ Same

\* The coder is asked for code, or, in a plain loop, the user for his word.
ChooseCoder ==
  /\ svPhase = "decide"
  /\ CASE svKind = "plain" -> At("waiting") /\ svAsked' = svAsked + 1
       [] svKind = "stream" -> At("generate") /\ UNCHANGED svAsked
       [] svKind = "old" -> At("run") /\ UNCHANGED svAsked
  /\ NoRun /\ UNCHANGED svChannel

\* CoderGenerateCode: an error, no code, or code to review
GenerateCode ==
  /\ svPhase = "generate"
  /\ \/ Report /\ UNCHANGED svAsked
     \/ At("waiting") /\ svAsked' = svAsked + 1
  /\ NoRun /\ UNCHANGED svChannel

\* POST /chat/approve
SvSignal(approved) ==
  /\ svPhase \notin SvOver /\ svSent < SvMaxSignals /\ Len(svSignals) < SvMaxSignals
  /\ svSignals' = Append(svSignals, approved)
  /\ svSent' = svSent + (IF approved THEN 1 ELSE 0)
  /\ NoRun /\ UNCHANGED <<svKind, svStep, svPhase, svAsked, svSaved>>

\* Mutation: a refusal is read as an answer only.
ReceiveAny ==
  /\ svPhase = "waiting" /\ svSignals # <<>>
  /\ svSignals' = Tail(svSignals)
  /\ At("run") /\ NoRun /\ UNCHANGED <<svSent, svAsked>>

\* Receive
ReceiveSignal ==
  /\ svPhase = "waiting" /\ svSignals # <<>>
  /\ svSignals' = Tail(svSignals)
  /\ IF Head(svSignals) THEN At("run") ELSE Report
  /\ NoRun /\ UNCHANGED <<svSent, svAsked>>

\* An attempt of CoderRun, CoderExecuteCode or, ungated, WorkerRunStream.  It may
\* have run code, by now or, after its timeout, later; the loop goes on with its
\* result, with its error when it was the last one, or with the next attempt.
RunCode ==
  /\ svPhase = "run"
  /\ svRuns' \in {svRuns, svRuns + 1}
  /\ \/ Report /\ svTry' = 0
     \/ svTry + 1 < MaximumAttempts /\ svTry' = svTry + 1 /\ At("run")
  /\ UNCHANGED <<svChannel, svAsked>>

\* FinalReplyStream, then SaveChatTurn, whose error is dropped
FinalReply ==
  /\ svPhase = "reply"
  /\ \/ svPhase' = "finished" /\ svSaved' \in {"answer", "nothing"}
     \/ svPhase' = "failed" /\ UNCHANGED svSaved
  /\ Same /\ UNCHANGED <<svKind, svStep>>

SvWork ==
  \/ DecideFails \/ ChooseFinish \/ ChooseWorker \/ ChooseCoder
  \/ GenerateCode \/ ReceiveSignal \/ RunCode \/ FinalReply
SvNext == SvWork \/ \E approved \in BOOLEAN : SvSignal(approved)

SvSpec == SvInit /\ [][SvNext]_svVars

-----------------------------------------------------------------------------
\* Properties

\* Behind the gate code runs by an approval that was waited for and sent, and by
\* each one as often as its activity is tried, no more; and a turn is saved only
\* with a reply the user was given, never when the loop was cut off or failed.
GatedAndSaved ==
  /\ svKind # "old" => /\ svRuns <= MaximumAttempts * svSent
                       /\ svRuns <= MaximumAttempts * svAsked
  /\ svSaved = "answer" => svPhase = "finished"

\* Only the user can hold a loop up.
LoopEnds == []<>(svPhase \in SvOver \cup {"waiting"})
=============================================================================
