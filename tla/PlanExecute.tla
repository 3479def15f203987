---------------------------- MODULE PlanExecute ---------------------------
(***************************************************************************)
(* PlanExecuteWorkflow of internal/workflow/plan_execute_workflow.go with   *)
(* the activities it calls: one planner answer, the steps executed level by *)
(* level, human approval of generated code, the final reply and the saved   *)
(* chat turn.  The workflow is one sequential process (pc); the activities  *)
(* it launched, the user who answers approval requests and the user who     *)
(* cancels are concurrent with it.                                          *)
(***************************************************************************)
EXTENDS PlanLevels

CONSTANTS
  Registered,     \* agents the registry knows
  NeedsApproval,  \* those whose card says RequiresApproval
  MaxAttempts,    \* RetryPolicy.MaximumAttempts
  Clicks,         \* bound: answers a user sends to one approval request
  CanCancel,      \* whether the user may cancel the workflow
  Lossy           \* whether an approval_required event may fail to reach him

ASSUME AgentsAssumption ==
  /\ NeedsApproval \subseteq Registered
  /\ Registered \subseteq Agents

ASSUME BoundsAssumption ==
  /\ MaxAttempts \in Nat \ {0}
  /\ Clicks \in Nat
  /\ CanCancel \in BOOLEAN
  /\ Lossy \in BOOLEAN

VARIABLES
  pc,          \* where the workflow function is
  hasSession,  \* sessionID # ""
  cur,         \* index of the level being executed
  fut,         \* per step, the activity launched for it
  input,       \* per step, the AgentInput its activity was given
  results,     \* results map, keyed by step id
  collected,   \* steps whose future has been awaited and answered for
  asking,      \* the step whose approval is awaited or being executed, or 0
  signals,     \* buffered signals of the approval channel, oldest first
  using,       \* the signal just received
  attempts,    \* failed attempts of the current AgentExecuteApproved
  cancelled,   \* cancellation has been requested
  outcome,     \* what the workflow function returns
  saved,       \* SaveChatTurn succeeded
  clicks,      \* per step, answers the user sent to its request
  approved,    \* steps the user approved, looking at their own request
  shown,       \* steps whose approval request reached the user
  ran          \* code runs of the sandbox

workVars == <<fut, input, results, collected, cur>>
userVars == <<clicks, approved, shown>>
approvalVars == <<asking, signals, using, attempts>>
endVars == <<outcome, saved>>
vars == <<levelVars, pc, hasSession, workVars, approvalVars, cancelled,
          endVars, userVars, ran>>

(* ApprovalSignal.  The code's signal carries no step; `about` is what the  *)
(* user was looking at when he sent it, which the workflow never reads.     *)
Signal == [ok : BOOLEAN, modified : BOOLEAN, about : Nat]
NoSignal == [ok |-> FALSE, modified |-> FALSE, about |-> 0]

(* A run of the sandbox for `step`, allowed by a signal about `about` (0:   *)
(* no signal), of the previewed or of the user's modified code.             *)
Run == [step : Nat, about : Nat, modified : BOOLEAN]

ResultKind == {"absent", "done", "error", "rejected", "nothing"}
FutureState == {"none", "running", "ok", "empty", "failed"}

Init ==
  /\ LevelsInit(<<>>)
  /\ hasSession \in BOOLEAN
  /\ pc = IF hasSession THEN "history" ELSE "plan"
  /\ cur = 0
  /\ fut = <<>>
  /\ input = <<>>
  /\ results = [d \in Ids |-> "absent"]
  /\ collected = {}
  /\ asking = 0
  /\ signals = <<>>
  /\ using = NoSignal
  /\ attempts = 0
  /\ cancelled = FALSE
  /\ outcome = "none"
  /\ saved = FALSE
  /\ clicks = <<>>
  /\ approved = {}
  /\ shown = {}
  /\ ran = {}

---------------------------------------------------------------------------
(* Phase 1: the plan.                                                       *)

(* LoadChatHistory; a failure is logged and the history taken as empty.     *)
LoadHistory ==
  /\ pc = "history"
  /\ pc' = "plan"
  /\ UNCHANGED <<levelVars, hasSession, workVars, approvalVars, cancelled,
                 endVars, userVars, ran>>

(* Mutation: the model's own flag is believed.                              *)
EnrichNothing(p) == p

(* PlannerDecide overrides RequiresApproval for every agent it knows; for   *)
(* an unknown agent the model's own flag stays.                             *)
Enrich(p) ==
  [i \in DOMAIN p |->
     [p[i] EXCEPT !.approval = IF p[i].agent \in Registered
                               THEN p[i].agent \in NeedsApproval ELSE @]]

(* The plan arrives.  An empty one is answered directly.                    *)
PlanArrives(p) ==
  /\ pc = "plan"
  /\ ~cancelled
  /\ plan' = p
  /\ pc' = IF p = <<>> THEN "summary" ELSE "build"
  /\ fut' = [i \in DOMAIN p |-> "none"]
  /\ input' = [i \in DOMAIN p |-> [step |-> 0, prior |-> {}]]
  /\ clicks' = [i \in DOMAIN p |-> 0]
  /\ UNCHANGED <<levels, placed, hasSession, results, collected, cur, approvalVars,
                 cancelled, endVars, approved, shown, ran>>

PlanFails ==
  /\ pc = "plan"
  /\ pc' = "end"
  /\ outcome' = "failed"
  /\ UNCHANGED <<levelVars, hasSession, workVars, approvalVars, cancelled,
                 saved, userVars, ran>>

Build ==
  /\ pc = "build"
  /\ BuildLevel
  /\ pc' = IF placed' = Steps THEN "level" ELSE "build"
  /\ UNCHANGED <<hasSession, workVars, approvalVars, cancelled, endVars,
                 userVars, ran>>

---------------------------------------------------------------------------
(* Phase 2: the levels.                                                     *)

(* agentInputs and futures are maps keyed by step id, filled in order: of   *)
(* the steps of a level that share an id, the last one's entry remains.     *)
Writer(level, i) ==
  CHOOSE j \in level :
    /\ plan[j].id = plan[i].id
    /\ \A k \in level : plan[k].id = plan[i].id => k <= j

(* Mutation: only the results of successful dependencies are passed on.     *)
InputOfSuccesses(level, i) ==
  LET w == Writer(level, i)
  IN [step |-> w, prior |-> {d \in plan[w].deps : results[d] = "done"}]

(* The AgentInput found in agentInputs under step i's id: the last writer's *)
(* instruction and those of its dependencies that have a result.            *)
InputOf(level, i) ==
  LET w == Writer(level, i)
  IN [step |-> w, prior |-> {d \in plan[w].deps : results[d] # "absent"}]

(* Build the inputs of a level, then launch its steps.  On a cancelled      *)
(* context an activity is never scheduled and its future fails at once.     *)
StartLevel ==
  /\ pc = "level"
  /\ pc' = "collect"
  /\ cur' = cur + 1
  /\ LET level == levels[cur + 1] IN
       /\ input' = [i \in Steps |->
            IF i \in level THEN InputOf(level, i) ELSE input[i]]
       /\ fut' = [i \in Steps |->
            IF i \notin level THEN fut[i]
            ELSE IF cancelled THEN "failed" ELSE "running"]
  /\ UNCHANGED <<levelVars, hasSession, results, collected, approvalVars,
                 cancelled, endVars, userVars, ran>>

(* What the activity of step i may end with: AgentPreview for a step that   *)
(* requires approval, AgentExecute for the others.                          *)
ActivityOutcomes(i) ==
  IF plan[i].agent \notin Registered THEN {"failed"}
  ELSE IF ~plan[i].approval THEN {"ok", "failed"}
  ELSE IF plan[i].agent \in NeedsApproval THEN {"ok", "empty", "failed"}
  ELSE {"failed"}

(* AgentExecute of an agent that writes code generates it and runs it.      *)
UnreviewedRuns(i) ==
  IF ~plan[i].approval /\ plan[i].agent \in NeedsApproval
  THEN {[step |-> i, about |-> 0, modified |-> FALSE]} ELSE {}

ActivityEnds(i, o) ==
  /\ fut[i] = "running"
  /\ o \in ActivityOutcomes(i)
  /\ fut' = [fut EXCEPT ![i] = o]
  /\ ran' = ran \cup UnreviewedRuns(i)
  /\ UNCHANGED <<levelVars, pc, hasSession, input, results, collected, cur,
                 approvalVars, cancelled, endVars, userVars>>

(* Non-approvable steps are collected first, each group in plan order.      *)
Before(i, j) ==
  \/ ~plan[i].approval /\ plan[j].approval
  \/ plan[i].approval = plan[j].approval /\ i <= j

Pending == levels[cur] \ collected

IsNext(i) == i \in Pending /\ \A j \in Pending : Before(i, j)

(* f.Get for step i: the future stored under its id.  A preview decoded as  *)
(* a result, or the reverse, is an error.                                   *)
Fetched(i) ==
  LET w == Writer(levels[cur], i) IN
  IF fut[w] # "running" /\ plan[w].approval # plan[i].approval
  THEN "failed" ELSE fut[w]

(* Mutation: the result is written for every step of the level.             *)
SettleLevel(i, kind) ==
  /\ results' = [d \in Ids |->
       IF \E j \in levels[cur] : plan[j].id = d THEN kind ELSE results[d]]
  /\ collected' = collected \cup {i}

Settle(i, kind) ==
  /\ results' = [results EXCEPT ![plan[i].id] = kind]
  /\ collected' = collected \cup {i}

CollectExecuted(i) ==
  /\ pc = "collect"
  /\ IsNext(i)
  /\ ~plan[i].approval
  /\ Fetched(i) \in {"ok", "failed"}
  /\ Settle(i, IF Fetched(i) = "ok" THEN "done" ELSE "error")
  /\ UNCHANGED <<levelVars, pc, hasSession, fut, input, cur, approvalVars,
                 cancelled, endVars, userVars, ran>>

(* Mutation: an empty preview is not handled.                               *)
CollectFailedPreview(i) ==
  /\ pc = "collect"
  /\ IsNext(i)
  /\ plan[i].approval
  /\ Fetched(i) = "failed"
  /\ Settle(i, "error")
  /\ UNCHANGED <<levelVars, pc, hasSession, fut, input, cur, approvalVars,
                 cancelled, endVars, userVars, ran>>

(* No preview, or an empty one: nothing to approve.                         *)
CollectWithoutPreview(i) ==
  /\ pc = "collect"
  /\ IsNext(i)
  /\ plan[i].approval
  /\ Fetched(i) \in {"empty", "failed"}
  /\ Settle(i, IF Fetched(i) = "empty" THEN "nothing" ELSE "error")
  /\ UNCHANGED <<levelVars, pc, hasSession, fut, input, cur, approvalVars,
                 cancelled, endVars, userVars, ran>>

(* Publish approval_required and start receiving.  The publication's error  *)
(* is ignored; on a cancelled context it is never scheduled.                *)
AskApproval(i, seen) ==
  /\ pc = "collect"
  /\ IsNext(i)
  /\ plan[i].approval
  /\ Fetched(i) = "ok"
  /\ seen \in (IF cancelled THEN {FALSE} ELSE IF Lossy THEN BOOLEAN ELSE {TRUE})
  /\ pc' = "await"
  /\ asking' = i
  /\ shown' = IF seen THEN shown \cup {i} ELSE shown
  /\ UNCHANGED <<levelVars, hasSession, workVars, signals, using, attempts,
                 cancelled, endVars, clicks, approved, ran>>

(* Mutation: the Approved field of the signal is not looked at.             *)
ReceiveAnySignal ==
  /\ pc = "await"
  /\ ~cancelled
  /\ signals # <<>>
  /\ pc' = "execute"
  /\ using' = Head(signals)
  /\ signals' = Tail(signals)
  /\ attempts' = 0
  /\ UNCHANGED <<levelVars, hasSession, workVars, asking, cancelled, endVars,
                 userVars, ran>>

(* approvalCh.Receive takes the oldest signal, whatever it was about, and   *)
(* does not wake up on cancellation.                                        *)
ReceiveApproval ==
  /\ pc = "await"
  /\ ~cancelled
  /\ signals # <<>>
  /\ Head(signals).ok
  /\ pc' = "execute"
  /\ using' = Head(signals)
  /\ signals' = Tail(signals)
  /\ attempts' = 0
  /\ UNCHANGED <<levelVars, hasSession, workVars, asking, cancelled, endVars,
                 userVars, ran>>

ReceiveRejection ==
  /\ pc = "await"
  /\ signals # <<>>
  /\ ~Head(signals).ok
  /\ pc' = "collect"
  /\ signals' = Tail(signals)
  /\ asking' = 0
  /\ Settle(asking, "rejected")
  /\ UNCHANGED <<levelVars, hasSession, fut, input, cur, using, attempts,
                 cancelled, endVars, userVars, ran>>

(* An approval on a cancelled context: the execution is never scheduled.    *)
ReceiveTooLate ==
  /\ pc = "await"
  /\ cancelled
  /\ signals # <<>>
  /\ Head(signals).ok
  /\ pc' = "collect"
  /\ signals' = Tail(signals)
  /\ asking' = 0
  /\ Settle(asking, "error")
  /\ UNCHANGED <<levelVars, hasSession, fut, input, cur, using, attempts,
                 cancelled, endVars, userVars, ran>>

(* The code the current AgentExecuteApproved runs.                          *)
ApprovedRun == [step |-> asking, about |-> using.about, modified |-> using.modified]

ExecuteSucceeds ==
  /\ pc = "execute"
  /\ ~cancelled
  /\ pc' = "collect"
  /\ asking' = 0
  /\ ran' = ran \cup {ApprovedRun}
  /\ Settle(asking, "done")
  /\ UNCHANGED <<levelVars, hasSession, fut, input, cur, signals, using,
                 attempts, cancelled, endVars, userVars>>

(* Whether a failed attempt is retried.                                     *)
Retried == attempts + 1 < MaxAttempts /\ ~cancelled

(* An attempt fails, before or after the code ran in the sandbox.  The last *)
(* one, and any on a cancelled context, is the step's error.  The agent     *)
(* does not look at its context (coder_agent.go), so the code of an attempt *)
(* that was given up may run after the step is settled; the two are one     *)
(* step here: which code runs, and by which answer, was fixed when the      *)
(* attempt began.                                                           *)
ExecuteFails(effect) ==
  /\ pc = "execute"
  /\ ran' = IF effect THEN ran \cup {ApprovedRun} ELSE ran
  /\ attempts' = attempts + 1
  /\ IF Retried
     THEN UNCHANGED <<pc, asking, results, collected>>
     ELSE /\ pc' = "collect"
          /\ asking' = 0
          /\ Settle(asking, "error")
  /\ UNCHANGED <<levelVars, hasSession, fut, input, cur, signals, using,
                 cancelled, endVars, userVars>>

(* Mutation: the last level is forgotten.                                   *)
LevelDoneEarly ==
  /\ pc = "collect"
  /\ Pending = {}
  /\ pc' = IF cur + 1 >= Len(levels) THEN "summary" ELSE "level"
  /\ UNCHANGED <<levelVars, hasSession, workVars, approvalVars, cancelled,
                 endVars, userVars, ran>>

LevelDone ==
  /\ pc = "collect"
  /\ Pending = {}
  /\ pc' = IF cur = Len(levels) THEN "summary" ELSE "level"
  /\ UNCHANGED <<levelVars, hasSession, workVars, approvalVars, cancelled,
                 endVars, userVars, ran>>

---------------------------------------------------------------------------
(* Phase 3: the final reply and the saved turn.                             *)

(* FinalReplyStream returns an answer (possibly an empty one) ...           *)
ReplySucceeds ==
  /\ pc = "summary"
  /\ ~cancelled
  /\ outcome' \in {"answered", "empty"}
  /\ pc' = "save"
  /\ UNCHANGED <<levelVars, hasSession, workVars, approvalVars, cancelled,
                 saved, userVars, ran>>

(* ... or its last attempt fails and the answer stays empty.                *)
ReplyFails ==
  /\ pc = "summary"
  /\ outcome' = "failed"
  /\ pc' = "save"
  /\ UNCHANGED <<levelVars, hasSession, workVars, approvalVars, cancelled,
                 saved, userVars, ran>>

(* Mutation: a failed reply is saved too.                                   *)
WorthSavingAlways == hasSession

(* saveTurn skips a turn without session or answer.                         *)
WorthSaving == hasSession /\ outcome = "answered"

(* The error of SaveChatTurn is ignored.                                    *)
SaveTurn(works) ==
  /\ pc = "save"
  /\ works => WorthSaving /\ ~cancelled
  /\ saved' = works
  /\ pc' = "end"
  /\ UNCHANGED <<levelVars, hasSession, workVars, approvalVars, cancelled,
                 outcome, userVars, ran>>

---------------------------------------------------------------------------
(* The user.                                                                *)

(* He answers a request he was shown, perhaps again: a second click, or     *)
(* another tab.  Modified code makes sense only with an approval.           *)
Click(i, ok, modified) ==
  /\ pc # "end"
  /\ i \in shown
  /\ clicks[i] < Clicks
  /\ modified => ok
  /\ clicks' = [clicks EXCEPT ![i] = @ + 1]
  /\ approved' = IF ok THEN approved \cup {i} ELSE approved
  /\ signals' = Append(signals, [ok |-> ok, modified |-> modified, about |-> i])
  /\ UNCHANGED <<levelVars, pc, hasSession, workVars, asking, using, attempts,
                 cancelled, endVars, shown, ran>>

(* CancelWorkflow: pending futures fail with CanceledError.                 *)
Cancel ==
  /\ CanCancel
  /\ pc # "end"
  /\ ~cancelled
  /\ cancelled' = TRUE
  /\ fut' = [i \in Steps |-> IF fut[i] = "running" THEN "failed" ELSE fut[i]]
  /\ UNCHANGED <<levelVars, pc, hasSession, input, results, collected, cur,
                 approvalVars, endVars, userVars, ran>>

---------------------------------------------------------------------------
Collect ==
  \E i \in Steps :
    \/ CollectExecuted(i)
    \/ CollectWithoutPreview(i)
    \/ \E seen \in BOOLEAN : AskApproval(i, seen)

Workflow ==
  \/ LoadHistory
  \/ \E p \in Plans : PlanArrives(Enrich(p))
  \/ PlanFails
  \/ Build
  \/ StartLevel
  \/ Collect
  \/ ReceiveApproval
  \/ ReceiveRejection
  \/ ReceiveTooLate
  \/ ExecuteSucceeds
  \/ \E effect \in BOOLEAN : ExecuteFails(effect)
  \/ LevelDone
  \/ ReplySucceeds
  \/ ReplyFails
  \/ \E works \in BOOLEAN : SaveTurn(works)

Activity == \E i \in Steps, o \in FutureState : ActivityEnds(i, o)

Answer == \E i \in Steps, ok \in BOOLEAN, modified \in BOOLEAN : Click(i, ok, modified)

Next == Workflow \/ Activity \/ Answer \/ Cancel

Spec == Init /\ [][Next]_vars

(* Temporal runs the workflow and its activities as long as a worker lives; *)
(* a user who did not cancel answers what he is shown, in the end.          *)
FairSpec ==
  /\ Spec
  /\ WF_vars(Workflow)
  /\ WF_vars(Activity)
  /\ WF_vars(~cancelled /\ Answer)

---------------------------------------------------------------------------
Launched == {i \in Steps : fut[i] # "none"}

TypeOK ==
  /\ LevelsTypeOK
  /\ pc \in {"history", "plan", "build", "level", "collect", "await",
             "execute", "summary", "save", "end"}
  /\ hasSession \in BOOLEAN
  /\ cur \in 0..Len(levels)
  /\ fut \in [Steps -> FutureState]
  /\ input \in [Steps -> [step : Nat, prior : SUBSET Ids]]
  /\ results \in [Ids -> ResultKind]
  /\ collected \subseteq Steps
  /\ asking \in Steps \cup {0}
  /\ signals \in Seq(Signal)
  /\ using \in Signal
  /\ attempts \in 0..MaxAttempts
  /\ cancelled \in BOOLEAN
  /\ outcome \in {"none", "answered", "empty", "failed"}
  /\ saved \in BOOLEAN
  /\ clicks \in [Steps -> Nat]
  /\ approved \subseteq shown
  /\ shown \subseteq Steps
  /\ ran \subseteq Run

(* Context injection: in a well-formed plan a launched step was given its   *)
(* own instruction and the result of every step it depends on, however the  *)
(* earlier steps ended.                                                     *)
DependenciesInjected ==
  WellFormed(plan) =>
    \A i \in Launched : input[i] = [step |-> i, prior |-> plan[i].deps]

(* The sandbox runs only "content that has been reviewed and approved by    *)
(* the user" (agent_activities.go:104): for an approvable step, after an    *)
(* approval the user gave looking at that step's own code.                  *)
ReviewedCodeOnly ==
  \A r \in ran :
    /\ plan[r.step].approval
    /\ r.about = r.step
    /\ r.step \in approved

(* The final reply is asked for when every step has been answered for, and  *)
(* a turn is saved only with an answer given to the user.                   *)
AnswerLast ==
  /\ pc \in {"summary", "save"} => collected = Steps
  /\ saved => outcome = "answered" /\ hasSession /\ collected = Steps

(* In a well-formed plan a result never changes once recorded: the final    *)
(* summary reports what dependent steps were told.                          *)
ResultsFinal ==
  [][WellFormed(plan) =>
       \A d \in Ids : results[d] # "absent" => results'[d] = results[d]]_vars

(* A workflow ends, unless it stays in Receive: waiting for the answer to a *)
(* request that never reached the user, or that he will not give because he *)
(* cancelled.  Nothing else blocks it, however its activities end.          *)
OnlyApprovalBlocks ==
  <>[](pc = "end" \/ (pc = "await" /\ (cancelled \/ asking \notin shown)))

---------------------------------------------------------------------------
(* How far the workflow is, in terms of its levels: the strengthening the   *)
(* proofs need.                                                             *)

Planning == pc \in {"history", "plan"}
InLevel == pc \in {"collect", "await", "execute"}

(* The steps of the levels up to k.                                         *)
UpTo(k) == UNION {levels[l] : l \in 1..k}

(* Exactly the levels up to the current one have been launched; all levels  *)
(* before it have been collected, and of it a part; the step awaiting its   *)
(* approval is an uncollected approvable one of it; every collected step    *)
(* has a result under its id.                                               *)
LevelByLevel ==
  /\ Planning => plan = <<>> /\ placed = {} /\ levels = <<>>
  /\ Planning \/ pc = "build" => cur = 0
  /\ pc \in {"level", "summary", "save"} \/ InLevel => placed = Steps
  /\ pc = "level" => cur < Len(levels)
  /\ InLevel => cur \in 1..Len(levels)
  /\ Launched = UpTo(cur)
  /\ IF InLevel THEN UpTo(cur - 1) \subseteq collected /\ collected \subseteq UpTo(cur)
     ELSE pc # "end" => collected = UpTo(cur)
  /\ pc \in {"summary", "save"} => cur = Len(levels)
  /\ pc \in {"await", "execute"} <=> asking # 0
  /\ asking # 0 => asking \in levels[cur] \ collected /\ plan[asking].approval
  /\ \A i \in collected : results[plan[i].id] # "absent"
  /\ pc \notin {"save", "end"} => outcome = "none"
  /\ outcome \in {"answered", "empty"} => collected = Steps
  /\ saved => pc = "end" /\ outcome = "answered" /\ hasSession
  /\ pc = "execute" => attempts < MaxAttempts

(* With one answer per request, a buffered signal is about the request that *)
(* is awaited, and a settled request takes no further answer.               *)
SignalsMatchRequests ==
  /\ \A i \in Steps : plan[i].agent \in NeedsApproval => plan[i].approval
  /\ shown \subseteq collected \cup {asking}
  /\ \A i \in Steps : clicks[i] = 0 \/ i \in shown
  /\ \A i \in shown : clicks[i] = 0 => pc = "await" /\ i = asking /\ signals = <<>>
  /\ signals # <<>> =>
       /\ pc = "await"
       /\ Len(signals) = 1
       /\ signals[1].about = asking
       /\ signals[1].ok => asking \in approved
  /\ pc = "execute" => using.about = asking /\ asking \in approved

---------------------------------------------------------------------------
(* The promise kept, as long as each request is answered at most once.      *)
StatusOf(i) ==
  IF i \in collected THEN "settled"
  ELSE IF fut[i] = "none" THEN "pending" ELSE "running"

Status == [i \in Steps |-> StatusOf(i)]

Promise == INSTANCE PlanPromise WITH
  status <- Status,
  ran <- {r.step : r \in ran},
  answered <- (outcome \in {"answered", "empty"})

KeepsPromise == Promise!Spec
===========================================================================
