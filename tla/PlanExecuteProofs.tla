------------------------- MODULE PlanExecuteProofs ------------------------
(* Proofs about the workflow, for every set of plans, agents and bounds.    *)
EXTENDS PlanExecute, PlanLevelsProofs, Integers, WellFoundedInduction, FiniteSetTheorems

---------------------------------------------------------------------------
(* PlannerDecide's enrichment only touches approval flags.                  *)
LEMMA EnrichType ==
  ASSUME NEW p \in Plans
  PROVE  /\ Enrich(p) \in Seq(PlanStep)
         /\ DOMAIN Enrich(p) = DOMAIN p
         /\ \A i \in DOMAIN p :
              Enrich(p)[i].agent \in NeedsApproval => Enrich(p)[i].approval
<1> DEFINE q == Enrich(p)
<1>1. p \in Seq(PlanStep) /\ DOMAIN p = 1..Len(p) /\ Len(p) \in Nat
  BY PlansAssumption
<1>2. ASSUME NEW i \in DOMAIN p PROVE q[i] \in PlanStep
  <2>1. p[i] \in PlanStep
    BY <1>1
  <2>2. q[i] = [p[i] EXCEPT !.approval = IF p[i].agent \in Registered
                               THEN p[i].agent \in NeedsApproval ELSE p[i].approval]
    BY DEF Enrich
  <2>3. (IF p[i].agent \in Registered
         THEN p[i].agent \in NeedsApproval ELSE p[i].approval) \in BOOLEAN
    <3>1. p[i].approval \in BOOLEAN
      BY <2>1 DEF PlanStep
    <3>2. (p[i].agent \in NeedsApproval) \in BOOLEAN
      OBVIOUS
    <3> QED
      BY <3>1, <3>2, Zenon
  <2> QED
    BY <2>1, <2>2, <2>3 DEF PlanStep
<1>3. DOMAIN q = 1..Len(p)
  BY <1>1 DEF Enrich
<1>4. q \in Seq(PlanStep)
  <2>1. q \in [1..Len(p) -> PlanStep]
    BY <1>1, <1>2, <1>3, Zenon DEF Enrich
  <2> QED
    BY <2>1, <1>1
<1>5. ASSUME NEW i \in DOMAIN p, q[i].agent \in NeedsApproval PROVE q[i].approval
  <2>1. p[i] \in PlanStep
    BY <1>1
  <2>2. q[i].agent = p[i].agent
    BY <2>1 DEF Enrich, PlanStep
  <2> QED
    BY <2>1, <2>2, <1>5, AgentsAssumption DEF Enrich, PlanStep
<1> QED
  BY <1>1, <1>3, <1>4, <1>5
---------------------------------------------------------------------------
(* Type correctness and the progress of the workflow through its levels are *)
(* one inductive invariant: the types of cur and asking need the control.   *)

ControlInv == TypeOK /\ LevelsInv /\ LevelByLevel

LEMMA ControlInit == Init => ControlInv
<1> SUFFICES ASSUME Init PROVE ControlInv
  OBVIOUS
<1>1. LevelsInv
  <2>1. <<>> \in Seq(PlanStep)
    OBVIOUS
  <2> QED
    BY <2>1, LevelsInvInit DEF Init
<1>2. TypeOK
  <2>1. Steps = {} /\ Len(levels) = 0
    BY DEF Init, LevelsInit, Steps
  <2>2. /\ fut \in [Steps -> FutureState]
        /\ input \in [Steps -> [step : Nat, prior : SUBSET Ids]]
        /\ clicks \in [Steps -> Nat]
    BY <2>1 DEF Init
  <2>3. /\ signals \in Seq(Signal)
        /\ using \in Signal
        /\ results \in [Ids -> ResultKind]
        /\ pc \in {"history", "plan"}
    BY DEF Init, NoSignal, Signal, ResultKind
  <2>4. attempts \in 0..MaxAttempts /\ cur \in 0..Len(levels) /\ asking \in Steps \cup {0}
    BY <2>1, BoundsAssumption DEF Init
  <2>5. hasSession \in BOOLEAN /\ cancelled \in BOOLEAN /\ saved \in BOOLEAN
    BY DEF Init
  <2> QED
    BY <1>1, <2>1, <2>2, <2>3, <2>4, <2>5 DEF Init, TypeOK, LevelsInv
<1>3. LevelByLevel
  BY DEF Init, LevelsInit, LevelByLevel, Planning, InLevel, UpTo, Launched, Steps
<1> QED
  BY <1>1, <1>2, <1>3 DEF ControlInv

(* What the steps of the current level are.                                 *)
LEMMA CurrentLevel ==
  ASSUME ControlInv, InLevel
  PROVE  /\ cur \in 1..Len(levels)
         /\ levels[cur] \subseteq Steps
         /\ UpTo(cur) = UpTo(cur - 1) \cup levels[cur]
<1>1. cur \in 1..Len(levels) /\ Len(levels) \in Nat /\ DOMAIN levels = 1..Len(levels)
  BY DEF ControlInv, LevelByLevel, LevelsInv, LevelsTypeOK
<1>2. levels[cur] \subseteq Steps
  BY <1>1 DEF ControlInv, LevelsInv, LevelsTypeOK
<1>3. 1..cur = (1..(cur - 1)) \cup {cur}
  BY <1>1
<1>4. UpTo(cur) = UpTo(cur - 1) \cup levels[cur]
  BY <1>3 DEF UpTo
<1> QED
  BY <1>1, <1>2, <1>4
LEMMA LevelsKept ==
  ASSUME LevelsInv, UNCHANGED levelVars
  PROVE  /\ LevelsInv'
         /\ Steps' = Steps
BY DEF LevelsInv, LevelsTypeOK, EachStepOnce, DependenciesEarlier, levelVars, Steps

LEMMA StepTypes ==
  ASSUME LevelsInv
  PROVE  /\ Steps \subseteq Nat \ {0}
         /\ \A j \in Steps : plan[j].id \in Ids /\ plan[j].deps \subseteq Ids
<1>1. Steps = 1..Len(plan) /\ Len(plan) \in Nat /\ \A j \in Steps : plan[j] \in PlanStep
  BY DEF LevelsInv, LevelsTypeOK, Steps
<1> QED
  BY <1>1 DEF PlanStep

(* What stays the same in a step that touches neither levels nor futures.   *)
LEMMA LaunchKept ==
  ASSUME UNCHANGED <<levelVars, cur, fut>>
  PROVE  /\ Launched' = Launched
         /\ UpTo(cur)' = UpTo(cur)
         /\ UpTo(cur - 1)' = UpTo(cur - 1)
BY DEF levelVars, Launched, UpTo, Steps

(* Once everything is placed, the levels up to the last are all the steps.  *)
LEMMA UpToLast ==
  ASSUME LevelsInv, placed = Steps
  PROVE  UpTo(Len(levels)) = Steps
BY DEF LevelsInv, LevelsTypeOK, EachStepOnce, UpTo

LEMMA LoadHistoryControl ==
  ASSUME ControlInv, LoadHistory
  PROVE  ControlInv'
<1>1. LevelsInv' /\ Steps' = Steps
  BY LevelsKept DEF ControlInv, LoadHistory
<1>2. TypeOK'
  BY <1>1 DEF ControlInv, TypeOK, LevelsInv, LoadHistory, levelVars, workVars, approvalVars, endVars, userVars
<1>3. LevelByLevel'
  BY <1>1 DEF ControlInv, TypeOK, LevelByLevel, Planning, InLevel, UpTo, Launched,
     LoadHistory, levelVars, workVars, approvalVars, endVars, userVars
<1> QED
  BY <1>1, <1>2, <1>3 DEF ControlInv

LEMMA PlanFailsControl ==
  ASSUME ControlInv, PlanFails
  PROVE  ControlInv'
<1>1. LevelsInv' /\ Steps' = Steps
  BY LevelsKept DEF ControlInv, PlanFails
<1>2. TypeOK'
  BY <1>1 DEF ControlInv, TypeOK, LevelsInv, PlanFails, levelVars, workVars, approvalVars, endVars, userVars
<1>3. LevelByLevel'
  BY <1>1 DEF ControlInv, TypeOK, LevelByLevel, Planning, InLevel, UpTo, Launched,
     PlanFails, levelVars, workVars, approvalVars, endVars, userVars
<1> QED
  BY <1>1, <1>2, <1>3 DEF ControlInv

LEMMA ReplySucceedsControl ==
  ASSUME ControlInv, ReplySucceeds
  PROVE  ControlInv'
<1>1. LevelsInv' /\ Steps' = Steps
  BY LevelsKept DEF ControlInv, ReplySucceeds
<1>2. TypeOK'
  BY <1>1 DEF ControlInv, TypeOK, LevelsInv, ReplySucceeds, levelVars, workVars, approvalVars, endVars, userVars
<1>3. collected = Steps
  BY UpToLast DEF ControlInv, LevelByLevel, InLevel, ReplySucceeds
<1>4. LevelByLevel'
  BY <1>1, <1>3 DEF ControlInv, TypeOK, LevelByLevel, Planning, InLevel, UpTo, Launched,
     ReplySucceeds, levelVars, workVars, approvalVars, endVars, userVars
<1> QED
  BY <1>1, <1>2, <1>4 DEF ControlInv

LEMMA ReplyFailsControl ==
  ASSUME ControlInv, ReplyFails
  PROVE  ControlInv'
<1>1. LevelsInv' /\ Steps' = Steps
  BY LevelsKept DEF ControlInv, ReplyFails
<1>2. TypeOK'
  BY <1>1 DEF ControlInv, TypeOK, LevelsInv, ReplyFails, levelVars, workVars, approvalVars, endVars, userVars
<1>3. LevelByLevel'
  BY <1>1 DEF ControlInv, TypeOK, LevelByLevel, Planning, InLevel, UpTo, Launched,
     ReplyFails, levelVars, workVars, approvalVars, endVars, userVars
<1> QED
  BY <1>1, <1>2, <1>3 DEF ControlInv

LEMMA ReceiveApprovalControl ==
  ASSUME ControlInv, ReceiveApproval
  PROVE  ControlInv'
<1>1. LevelsInv' /\ Steps' = Steps
  BY LevelsKept DEF ControlInv, ReceiveApproval
<1>2. TypeOK'
  <2>1. signals \in Seq(Signal) /\ signals # <<>>
    BY DEF ControlInv, TypeOK, ReceiveApproval
  <2>2. signals' \in Seq(Signal) /\ using' \in Signal /\ attempts' \in 0..MaxAttempts
    BY <2>1, BoundsAssumption DEF ReceiveApproval
  <2> QED
    BY <1>1, <2>2 DEF ControlInv, TypeOK, LevelsInv, ReceiveApproval, levelVars, workVars, approvalVars, endVars, userVars
<1>3. LevelByLevel'
  BY <1>1, BoundsAssumption DEF ControlInv, TypeOK, LevelByLevel, Planning, InLevel, UpTo, Launched,
     ReceiveApproval, levelVars, workVars, approvalVars, endVars, userVars
<1> QED
  BY <1>1, <1>2, <1>3 DEF ControlInv

LEMMA CancelControl ==
  ASSUME ControlInv, Cancel
  PROVE  ControlInv'
<1>1. LevelsInv' /\ Steps' = Steps
  BY LevelsKept DEF ControlInv, Cancel
<1>2. TypeOK'
  BY <1>1 DEF ControlInv, TypeOK, LevelsInv, Cancel, levelVars, workVars, approvalVars, endVars, userVars, FutureState
<1>3. LevelByLevel'
  BY <1>1 DEF ControlInv, TypeOK, LevelByLevel, Planning, InLevel, UpTo, Launched,
     Cancel, levelVars, workVars, approvalVars, endVars, userVars, FutureState
<1> QED
  BY <1>1, <1>2, <1>3 DEF ControlInv

(* Settling a step of the current level.                                    *)
LEMMA SettleControl ==
  ASSUME ControlInv, InLevel, UNCHANGED levelVars, NEW i \in levels[cur],
         NEW kind \in ResultKind \ {"absent"}, Settle(i, kind)
  PROVE  /\ results' \in [Ids -> ResultKind]
         /\ collected' \subseteq Steps
         /\ UpTo(cur - 1) \subseteq collected'
         /\ collected' \subseteq UpTo(cur)
         /\ \A j \in collected' : results'[plan[j].id] # "absent"
<1>1. /\ levels[cur] \subseteq Steps
      /\ UpTo(cur) = UpTo(cur - 1) \cup levels[cur]
  BY CurrentLevel
<1>2. \A j \in Steps : plan[j].id \in Ids
  BY StepTypes DEF ControlInv
<1>3. /\ results \in [Ids -> ResultKind]
      /\ collected \subseteq Steps
      /\ UpTo(cur - 1) \subseteq collected
      /\ collected \subseteq UpTo(cur)
      /\ \A j \in collected : results[plan[j].id] # "absent"
  BY DEF ControlInv, TypeOK, LevelByLevel
<1> QED
  BY <1>1, <1>2, <1>3 DEF Settle

LEMMA LevelDoneControl ==
  ASSUME ControlInv, LevelDone
  PROVE  ControlInv'
<1>1. LevelsInv' /\ Steps' = Steps
  BY LevelsKept DEF ControlInv, LevelDone
<1>2. TypeOK'
  BY <1>1 DEF ControlInv, TypeOK, LevelsInv, LevelDone, levelVars, workVars, approvalVars, endVars, userVars
<1>3. /\ cur \in 1..Len(levels)
      /\ collected = UpTo(cur)
  BY CurrentLevel DEF LevelDone, InLevel, Pending, ControlInv, LevelByLevel
<1>4. LevelByLevel'
  BY <1>1, <1>3 DEF ControlInv, TypeOK, LevelByLevel, Planning, InLevel, UpTo, Launched,
     LevelDone, levelVars, workVars, approvalVars, endVars, userVars
<1> QED
  BY <1>1, <1>2, <1>4 DEF ControlInv

LEMMA ReceiveRejectionControl ==
  ASSUME ControlInv, ReceiveRejection
  PROVE  ControlInv'
<1>1. LevelsInv' /\ Steps' = Steps
  BY LevelsKept DEF ControlInv, ReceiveRejection
<1>2. InLevel /\ asking \in levels[cur]
  BY DEF ControlInv, LevelByLevel, InLevel, ReceiveRejection
<1>3. /\ results' \in [Ids -> ResultKind]
      /\ collected' \subseteq Steps
      /\ UpTo(cur - 1) \subseteq collected'
      /\ collected' \subseteq UpTo(cur)
      /\ \A j \in collected' : results'[plan[j].id] # "absent"
  BY <1>2, SettleControl DEF ReceiveRejection, ResultKind
<1>4. TypeOK'
  BY <1>1, <1>3 DEF ControlInv, TypeOK, LevelsInv, ReceiveRejection, levelVars, workVars, approvalVars, endVars, userVars
<1>5. LevelByLevel'
  BY <1>1, <1>2, <1>3 DEF ControlInv, TypeOK, LevelByLevel, Planning, InLevel, UpTo, Launched,
     ReceiveRejection, levelVars, workVars, approvalVars, endVars, userVars
<1> QED
  BY <1>1, <1>4, <1>5 DEF ControlInv

LEMMA ReceiveTooLateControl ==
  ASSUME ControlInv, ReceiveTooLate
  PROVE  ControlInv'
<1>1. LevelsInv' /\ Steps' = Steps
  BY LevelsKept DEF ControlInv, ReceiveTooLate
<1>2. InLevel /\ asking \in levels[cur]
  BY DEF ControlInv, LevelByLevel, InLevel, ReceiveTooLate
<1>3. /\ results' \in [Ids -> ResultKind]
      /\ collected' \subseteq Steps
      /\ UpTo(cur - 1) \subseteq collected'
      /\ collected' \subseteq UpTo(cur)
      /\ \A j \in collected' : results'[plan[j].id] # "absent"
  BY <1>2, SettleControl DEF ReceiveTooLate, ResultKind
<1>4. TypeOK'
  BY <1>1, <1>3 DEF ControlInv, TypeOK, LevelsInv, ReceiveTooLate, levelVars, workVars, approvalVars, endVars, userVars
<1>5. LevelByLevel'
  BY <1>1, <1>2, <1>3 DEF ControlInv, TypeOK, LevelByLevel, Planning, InLevel, UpTo, Launched,
     ReceiveTooLate, levelVars, workVars, approvalVars, endVars, userVars
<1> QED
  BY <1>1, <1>4, <1>5 DEF ControlInv

LEMMA ExecuteSucceedsControl ==
  ASSUME ControlInv, ExecuteSucceeds
  PROVE  ControlInv'
<1>1. LevelsInv' /\ Steps' = Steps
  BY LevelsKept DEF ControlInv, ExecuteSucceeds
<1>2. InLevel /\ asking \in levels[cur]
  BY DEF ControlInv, LevelByLevel, InLevel, ExecuteSucceeds
<1>3. /\ results' \in [Ids -> ResultKind]
      /\ collected' \subseteq Steps
      /\ UpTo(cur - 1) \subseteq collected'
      /\ collected' \subseteq UpTo(cur)
      /\ \A j \in collected' : results'[plan[j].id] # "absent"
  BY <1>2, SettleControl DEF ExecuteSucceeds, ResultKind
<1>4. TypeOK'
  <2>1. ran' \subseteq Run
    BY StepTypes DEF ControlInv, TypeOK, ExecuteSucceeds, ApprovedRun, Run, Signal
  <2> QED
    BY <1>1, <1>3, <2>1 DEF ControlInv, TypeOK, LevelsInv, ExecuteSucceeds, levelVars, workVars, approvalVars, endVars, userVars
<1>5. LevelByLevel'
  BY <1>1, <1>2, <1>3 DEF ControlInv, TypeOK, LevelByLevel, Planning, InLevel, UpTo, Launched,
     ExecuteSucceeds, levelVars, workVars, approvalVars, endVars, userVars
<1> QED
  BY <1>1, <1>4, <1>5 DEF ControlInv

LEMMA CollectExecutedControl ==
  ASSUME ControlInv, NEW i \in Steps, CollectExecuted(i)
  PROVE  ControlInv'
<1>1. LevelsInv' /\ Steps' = Steps
  BY LevelsKept DEF ControlInv, CollectExecuted
<1>2. InLevel /\ i \in levels[cur]
  BY DEF ControlInv, LevelByLevel, InLevel, CollectExecuted, IsNext, Pending
<1>3. /\ results' \in [Ids -> ResultKind]
      /\ collected' \subseteq Steps
      /\ UpTo(cur - 1) \subseteq collected'
      /\ collected' \subseteq UpTo(cur)
      /\ \A j \in collected' : results'[plan[j].id] # "absent"
  BY <1>2, SettleControl DEF CollectExecuted, ResultKind
<1>4. TypeOK'
  BY <1>1, <1>3 DEF ControlInv, TypeOK, LevelsInv, CollectExecuted, levelVars, workVars, approvalVars, endVars, userVars
<1>5. LevelByLevel'
  <2>1. UNCHANGED <<levelVars, pc, cur, fut, asking, outcome, saved, attempts>>
    BY DEF CollectExecuted, approvalVars, endVars
  <2>2. outcome' = "none"
    BY <2>1 DEF CollectExecuted, ControlInv, LevelByLevel
  <2>3. Launched' = Launched /\ UpTo(cur)' = UpTo(cur) /\ UpTo(cur - 1)' = UpTo(cur - 1)
    BY <2>1, LaunchKept
  <2>4. pc = "collect" /\ pc' = "collect" /\ asking' = 0
    BY <2>1 DEF CollectExecuted, ControlInv, LevelByLevel
  <2>5. cur' \in 1..Len(levels') /\ placed' = Steps'
    BY <1>1, <2>1, <2>4 DEF ControlInv, LevelByLevel, InLevel, levelVars
  <2>6. plan' = plan /\ Launched' = UpTo(cur)' /\ ~saved'
    BY <2>1, <2>3, <2>4 DEF ControlInv, LevelByLevel, levelVars
  <2> QED
    BY <1>1, <1>3, <2>2, <2>3, <2>4, <2>5, <2>6 DEF LevelByLevel, Planning, InLevel
<1> QED
  BY <1>1, <1>4, <1>5 DEF ControlInv

LEMMA CollectWithoutPreviewControl ==
  ASSUME ControlInv, NEW i \in Steps, CollectWithoutPreview(i)
  PROVE  ControlInv'
<1>1. LevelsInv' /\ Steps' = Steps
  BY LevelsKept DEF ControlInv, CollectWithoutPreview
<1>2. InLevel /\ i \in levels[cur]
  BY DEF ControlInv, LevelByLevel, InLevel, CollectWithoutPreview, IsNext, Pending
<1>3. /\ results' \in [Ids -> ResultKind]
      /\ collected' \subseteq Steps
      /\ UpTo(cur - 1) \subseteq collected'
      /\ collected' \subseteq UpTo(cur)
      /\ \A j \in collected' : results'[plan[j].id] # "absent"
  BY <1>2, SettleControl DEF CollectWithoutPreview, ResultKind
<1>4. TypeOK'
  BY <1>1, <1>3 DEF ControlInv, TypeOK, LevelsInv, CollectWithoutPreview, levelVars, workVars, approvalVars, endVars, userVars
<1>5. LevelByLevel'
  <2>1. UNCHANGED <<levelVars, pc, cur, fut, asking, outcome, saved, attempts>>
    BY DEF CollectWithoutPreview, approvalVars, endVars
  <2>2. outcome' = "none"
    BY <2>1 DEF CollectWithoutPreview, ControlInv, LevelByLevel
  <2>3. Launched' = Launched /\ UpTo(cur)' = UpTo(cur) /\ UpTo(cur - 1)' = UpTo(cur - 1)
    BY <2>1, LaunchKept
  <2>4. pc = "collect" /\ pc' = "collect" /\ asking' = 0
    BY <2>1 DEF CollectWithoutPreview, ControlInv, LevelByLevel
  <2>5. cur' \in 1..Len(levels') /\ placed' = Steps'
    BY <1>1, <2>1, <2>4 DEF ControlInv, LevelByLevel, InLevel, levelVars
  <2>6. plan' = plan /\ Launched' = UpTo(cur)' /\ ~saved'
    BY <2>1, <2>3, <2>4 DEF ControlInv, LevelByLevel, levelVars
  <2> QED
    BY <1>1, <1>3, <2>2, <2>3, <2>4, <2>5, <2>6 DEF LevelByLevel, Planning, InLevel
<1> QED
  BY <1>1, <1>4, <1>5 DEF ControlInv

LEMMA AskApprovalControl ==
  ASSUME ControlInv, NEW i \in Steps, NEW seen \in BOOLEAN, AskApproval(i, seen)
  PROVE  ControlInv'
<1>1. LevelsInv' /\ Steps' = Steps
  BY LevelsKept DEF ControlInv, AskApproval
<1>2. TypeOK'
  BY <1>1 DEF ControlInv, TypeOK, LevelsInv, AskApproval, levelVars, workVars, approvalVars, endVars, userVars
<1>3. i # 0 /\ i \in levels[cur] \ collected
  BY DEF AskApproval, IsNext, Pending, ControlInv, LevelsInv, LevelsTypeOK, Steps
<1>4. LevelByLevel'
  BY <1>1, <1>3 DEF ControlInv, TypeOK, LevelByLevel, Planning, InLevel, UpTo, Launched,
     AskApproval, levelVars, workVars, approvalVars, endVars, userVars
<1> QED
  BY <1>1, <1>2, <1>4 DEF ControlInv

LEMMA ClickControl ==
  ASSUME ControlInv, NEW i \in Steps, NEW ok \in BOOLEAN, NEW modified \in BOOLEAN,
         Click(i, ok, modified)
  PROVE  ControlInv'
<1>1. LevelsInv' /\ Steps' = Steps
  BY LevelsKept DEF ControlInv, Click
<1>2. [ok |-> ok, modified |-> modified, about |-> i] \in Signal
  BY DEF Signal, ControlInv, LevelsInv, LevelsTypeOK, Steps
<1>3. /\ signals' \in Seq(Signal)
      /\ clicks' \in [Steps -> Nat]
      /\ approved' \subseteq shown
  BY <1>2 DEF Click, ControlInv, TypeOK
<1>4. TypeOK'
  BY <1>1, <1>3 DEF ControlInv, TypeOK, LevelsInv, Click, levelVars, workVars, approvalVars, endVars, userVars
<1>5. LevelByLevel'
  BY <1>1 DEF ControlInv, TypeOK, LevelByLevel, Planning, InLevel, UpTo, Launched,
     Click, levelVars, workVars, approvalVars, endVars, userVars
<1> QED
  BY <1>1, <1>4, <1>5 DEF ControlInv

LEMMA SaveTurnControl ==
  ASSUME ControlInv, NEW works \in BOOLEAN, SaveTurn(works)
  PROVE  ControlInv'
<1>1. LevelsInv' /\ Steps' = Steps
  BY LevelsKept DEF ControlInv, SaveTurn
<1>2. TypeOK'
  BY <1>1 DEF ControlInv, TypeOK, LevelsInv, SaveTurn, levelVars, workVars, approvalVars, endVars, userVars
<1>3. LevelByLevel'
  BY <1>1 DEF ControlInv, TypeOK, LevelByLevel, Planning, InLevel, UpTo, Launched,
     SaveTurn, WorthSaving, levelVars, workVars, approvalVars, endVars, userVars
<1> QED
  BY <1>1, <1>2, <1>3 DEF ControlInv

LEMMA ActivityEndsControl ==
  ASSUME ControlInv, NEW i \in Steps, NEW o \in FutureState, ActivityEnds(i, o)
  PROVE  ControlInv'
<1>1. LevelsInv' /\ Steps' = Steps
  BY LevelsKept DEF ControlInv, ActivityEnds
<1>2. ran' \subseteq Run
  <2>1. i \in Nat
    BY StepTypes DEF ControlInv
  <2>2. [step |-> i, about |-> 0, modified |-> FALSE] \in Run
    BY <2>1 DEF Run
  <2>3. UnreviewedRuns(i) \subseteq Run
    BY <2>2, Zenon DEF UnreviewedRuns
  <2> QED
    BY <2>3 DEF ActivityEnds, ControlInv, TypeOK
<1>3. o # "none" /\ fut[i] # "none" /\ fut' = [fut EXCEPT ![i] = o]
  BY DEF ActivityEnds, ActivityOutcomes
<1>4. TypeOK'
  BY <1>1, <1>2, <1>3 DEF ControlInv, TypeOK, LevelsInv, ActivityEnds, levelVars, workVars, approvalVars, endVars, userVars
<1>5. Launched' = Launched
  BY <1>1, <1>3 DEF Launched, ControlInv, TypeOK
<1>6. LevelByLevel'
  BY <1>1, <1>5 DEF ControlInv, TypeOK, LevelByLevel, Planning, InLevel, UpTo,
     ActivityEnds, levelVars, workVars, approvalVars, endVars, userVars
<1> QED
  BY <1>1, <1>4, <1>6 DEF ControlInv

LEMMA ExecuteFailsControl ==
  ASSUME ControlInv, NEW effect \in BOOLEAN, ExecuteFails(effect)
  PROVE  ControlInv'
<1>1. LevelsInv' /\ Steps' = Steps
  BY LevelsKept DEF ControlInv, ExecuteFails
<1>2. InLevel /\ asking \in levels[cur]
  BY DEF ControlInv, LevelByLevel, InLevel, ExecuteFails
<1>3. attempts' \in 0..MaxAttempts /\ ran' \subseteq Run
  BY BoundsAssumption DEF ControlInv, TypeOK, LevelByLevel, LevelsInv, LevelsTypeOK, Steps,
     ExecuteFails, ApprovedRun, Run, Signal
<1>4. CASE ~Retried
  <2>1. /\ results' \in [Ids -> ResultKind]
        /\ collected' \subseteq Steps
        /\ UpTo(cur - 1) \subseteq collected'
        /\ collected' \subseteq UpTo(cur)
        /\ \A j \in collected' : results'[plan[j].id] # "absent"
    BY <1>2, <1>4, SettleControl DEF ExecuteFails, ResultKind
  <2>2. TypeOK'
    BY <1>1, <1>3, <1>4, <2>1 DEF ControlInv, TypeOK, LevelsInv, ExecuteFails, levelVars, workVars, approvalVars, endVars, userVars
  <2>3. LevelByLevel'
    BY <1>1, <1>2, <1>4, <2>1 DEF ControlInv, TypeOK, LevelByLevel, Planning, InLevel, UpTo,
       Launched, ExecuteFails, levelVars, workVars, approvalVars, endVars, userVars
  <2> QED
    BY <1>1, <2>2, <2>3 DEF ControlInv
<1>5. CASE Retried
  <2>1. UNCHANGED <<pc, asking, results, collected>> /\ attempts' < MaxAttempts
    BY <1>3, <1>5, BoundsAssumption DEF ExecuteFails, Retried
  <2>2. TypeOK'
    BY <1>1, <1>3, <2>1 DEF ControlInv, TypeOK, LevelsInv, ExecuteFails, levelVars, workVars, approvalVars, endVars, userVars
  <2>3. LevelByLevel'
    BY <1>1, <2>1 DEF ControlInv, TypeOK, LevelByLevel, Planning, InLevel, UpTo,
       Launched, ExecuteFails, levelVars, workVars, approvalVars, endVars, userVars
  <2> QED
    BY <1>1, <2>2, <2>3 DEF ControlInv
<1> QED
  BY <1>4, <1>5

---------------------------------------------------------------------------
(* A non-empty bounded set of naturals has a greatest member.               *)
LEMMA NatMax ==
  ASSUME NEW T, T \subseteq Nat, T # {}, NEW n \in Nat, \A t \in T : t <= n
  PROVE  \E m \in T : \A t \in T : t <= m
<1> DEFINE R == OpToRel(<, Nat)
           D == {n - t : t \in T}
<1>1. D \subseteq Nat /\ D # {}
  <2>1. ASSUME NEW t \in T PROVE n - t \in Nat
    OBVIOUS
  <2>2. PICK t \in T : TRUE
    OBVIOUS
  <2>3. n - t \in D
    OBVIOUS
  <2> QED
    BY <2>1, <2>3
<1>2. IsWellFoundedOn(R, Nat)
  BY NatLessThanWellFounded
<1>3. PICK x \in D : \A y \in D : ~ (<<y, x>> \in R)
  <2> HIDE DEF R, D
  <2> QED BY <1>1, <1>2, WFMin
<1>4. \A y \in D : ~(y < x)
  BY <1>1, <1>3 DEF OpToRel
<1>5. PICK m \in T : x = n - m
  BY <1>3
<1>6. ASSUME NEW t \in T PROVE t <= m
  <2>1. n - t \in D
    OBVIOUS
  <2>2. ~(n - t < n - m)
    BY <2>1, <1>4, <1>5
  <2> QED
    BY <2>2
<1> QED
  BY <1>6

(* Of the steps of a level that share an id one is the last writer.         *)
LEMMA WriterInLevel ==
  ASSUME LevelsInv, NEW level \in SUBSET Steps, NEW i \in level
  PROVE  /\ Writer(level, i) \in level
         /\ plan[Writer(level, i)].id = plan[i].id
<1> DEFINE T == {j \in level : plan[j].id = plan[i].id}
<1>1. Steps = 1..Len(plan) /\ Len(plan) \in Nat
  BY DEF LevelsInv, LevelsTypeOK, Steps
<1>2. T \subseteq Nat /\ T # {} /\ \A t \in T : t <= Len(plan)
  <2>1. i \in T
    OBVIOUS
  <2>2. T \subseteq 1..Len(plan)
    BY <1>1
  <2> QED
    BY <1>1, <2>1, <2>2
<1>3. \E m \in T : \A t \in T : t <= m
  <2> HIDE DEF T
  <2> QED BY <1>1, <1>2, NatMax
<1>4. \E j \in level : /\ plan[j].id = plan[i].id
                      /\ \A k \in level : plan[k].id = plan[i].id => k <= j
  BY <1>3
<1> QED
  BY <1>4 DEF Writer

LEMMA PlanArrivesControl ==
  ASSUME ControlInv, NEW p \in Plans, PlanArrives(Enrich(p))
  PROVE  ControlInv'
<1> DEFINE q == Enrich(p)
<1>1. q \in Seq(PlanStep) /\ DOMAIN q = 1..Len(q)
  BY EnrichType
<1>2. /\ plan' = q /\ levels' = <<>> /\ placed' = {} /\ cur' = 0
      /\ Steps' = DOMAIN q
      /\ collected = {}
      /\ shown = {}
      /\ approved = {}
      /\ asking = 0
  <2>1. pc = "plan" /\ levels = <<>> /\ placed = {} /\ plan = <<>> /\ cur = 0
    BY DEF PlanArrives, ControlInv, LevelByLevel, Planning
  <2>2. Steps = {}
    BY <2>1 DEF Steps
  <2> QED
    BY <2>1, <2>2 DEF PlanArrives, ControlInv, TypeOK, LevelByLevel, Steps
<1>3. LevelsInv'
  BY <1>1, <1>2 DEF LevelsInv, LevelsTypeOK, EachStepOnce, DependenciesEarlier
<1>4. /\ fut' \in [Steps' -> FutureState]
      /\ input' \in [Steps' -> [step : Nat, prior : SUBSET Ids]]
      /\ clicks' \in [Steps' -> Nat]
  BY <1>2 DEF PlanArrives, FutureState
<1>5. /\ pc' \in {"build", "summary"}
      /\ pc' = "summary" => Steps' = {}
  BY <1>2 DEF PlanArrives
<1>6. UNCHANGED <<hasSession, results, collected, approvalVars, cancelled, endVars,
                  approved, shown, ran>>
  BY DEF PlanArrives
<1>7. TypeOK'
  <2>1. cur' \in 0..Len(levels')
    BY <1>2
  <2> HIDE DEF q
  <2> QED
    BY <1>2, <1>3, <1>4, <1>5, <1>6, <2>1
       DEF ControlInv, TypeOK, LevelsInv, approvalVars, endVars
<1>8. Launched' = {} /\ UpTo(cur)' = {}
  <2>1. Launched' = {}
    BY <1>2 DEF Launched, PlanArrives
  <2>2. UpTo(cur)' = {}
    BY <1>2 DEF UpTo
  <2> QED
    BY <2>1, <2>2
<1>9. LevelByLevel'
  BY <1>2, <1>5, <1>6, <1>8
     DEF LevelByLevel, Planning, InLevel, ControlInv, PlanArrives, approvalVars, endVars
<1> QED
  BY <1>3, <1>7, <1>9 DEF ControlInv

LEMMA BuildControl ==
  ASSUME ControlInv, Build
  PROVE  ControlInv'
<1>1. LevelsInv'
  BY LevelsInvStep DEF ControlInv, Build
<1>2. /\ Steps' = Steps /\ plan' = plan /\ cur = 0 /\ cur' = 0
      /\ Len(levels') = Len(levels) + 1 /\ Len(levels) \in Nat
  BY DEF Build, BuildLevel, Steps, ControlInv, LevelByLevel, LevelsInv, LevelsTypeOK, workVars
<1>3. TypeOK'
  BY <1>1, <1>2 DEF ControlInv, TypeOK, LevelsInv, Build,
     workVars, approvalVars, endVars, userVars
<1>4. Launched' = {} /\ UpTo(cur)' = {} /\ collected' = {} /\ asking' = 0
  BY <1>2 DEF Launched, UpTo, Build, ControlInv, LevelByLevel, InLevel, workVars, approvalVars
<1>5. LevelByLevel'
  BY <1>2, <1>4 DEF ControlInv, LevelByLevel, Planning, InLevel, Build,
     workVars, approvalVars, endVars
<1> QED
  BY <1>1, <1>3, <1>5 DEF ControlInv

LEMMA StartLevelControl ==
  ASSUME ControlInv, StartLevel
  PROVE  ControlInv'
<1> DEFINE level == levels[cur + 1]
<1>1. LevelsInv' /\ Steps' = Steps
  BY LevelsKept DEF ControlInv, StartLevel
<1>2. /\ cur \in Nat /\ cur + 1 \in 1..Len(levels) /\ cur' = cur + 1
      /\ level \subseteq Steps
  BY DEF ControlInv, TypeOK, LevelByLevel, LevelsInv, LevelsTypeOK, StartLevel
<1>3. input' \in [Steps -> [step : Nat, prior : SUBSET Ids]]
  <2>1. ASSUME NEW i \in level
        PROVE  InputOf(level, i) \in [step : Nat, prior : SUBSET Ids]
    <3>1. Writer(level, i) \in Steps
      BY <1>2, WriterInLevel DEF ControlInv
    <3> QED
      BY <3>1, StepTypes DEF InputOf, ControlInv
  <2> QED
    BY <2>1 DEF StartLevel, ControlInv, TypeOK
<1>4. /\ fut' \in [Steps -> FutureState]
      /\ \A i \in Steps : fut'[i] # "none" <=> i \in level \/ fut[i] # "none"
  BY DEF StartLevel, ControlInv, TypeOK, FutureState
<1>5. TypeOK'
  BY <1>1, <1>2, <1>3, <1>4 DEF ControlInv, TypeOK, LevelsInv, StartLevel,
     levelVars, approvalVars, endVars, userVars
<1>6. Launched' = Launched \cup level
  BY <1>1, <1>2, <1>4 DEF Launched
<1>7. UpTo(cur)' = UpTo(cur) \cup level /\ UpTo(cur - 1)' = UpTo(cur)
  <2>1. levels' = levels
    BY DEF StartLevel, levelVars
  <2>2. 1..(cur + 1) = (1..cur) \cup {cur + 1} /\ (cur + 1) - 1 = cur
    BY <1>2
  <2> QED
    BY <1>2, <2>1, <2>2 DEF UpTo
<1>8. LevelByLevel'
  BY <1>1, <1>2, <1>6, <1>7 DEF ControlInv, TypeOK, LevelByLevel, Planning, InLevel, StartLevel,
     levelVars, approvalVars, endVars, userVars
<1> QED
  BY <1>1, <1>5, <1>8 DEF ControlInv

LEMMA ControlStep == ControlInv /\ [Next]_vars => ControlInv'
<1> SUFFICES ASSUME ControlInv, [Next]_vars PROVE ControlInv'
  OBVIOUS
<1>1. CASE Workflow
  BY <1>1, LoadHistoryControl, PlanArrivesControl, PlanFailsControl, BuildControl,
     StartLevelControl, CollectExecutedControl, CollectWithoutPreviewControl,
     AskApprovalControl, ReceiveApprovalControl, ReceiveRejectionControl,
     ReceiveTooLateControl,
     ExecuteSucceedsControl, ExecuteFailsControl, LevelDoneControl,
     ReplySucceedsControl, ReplyFailsControl, SaveTurnControl DEF Workflow, Collect
<1>2. CASE Activity
  BY <1>2, ActivityEndsControl DEF Activity
<1>3. CASE Answer
  BY <1>3, ClickControl DEF Answer
<1>4. CASE Cancel
  BY <1>4, CancelControl
<1>5. CASE UNCHANGED vars
  <2>1. LevelsInv' /\ Steps' = Steps
    BY <1>5, LevelsKept DEF ControlInv, vars
  <2>2. TypeOK'
    BY <1>5, <2>1 DEF ControlInv, TypeOK, LevelsInv, vars,
       levelVars, workVars, approvalVars, endVars, userVars
  <2>3. LevelByLevel'
    BY <1>5, <2>1 DEF ControlInv, LevelByLevel, Planning, InLevel, UpTo, Launched, vars,
       levelVars, workVars, approvalVars, endVars, userVars
  <2> QED
    BY <2>1, <2>2, <2>3 DEF ControlInv
<1> QED
  BY <1>1, <1>2, <1>3, <1>4, <1>5 DEF Next

LEMMA ControlInvariant == Spec => []ControlInv
BY ControlInit, ControlStep, PTL DEF Spec

(* Types of the workflow's variables.                                       *)
THEOREM TypeCorrect == Spec => []TypeOK
BY ControlInvariant, PTL DEF ControlInv

(* The workflow goes level by level: what is launched, collected and        *)
(* awaited is what the current level says.                                  *)
THEOREM RunsLevelByLevel == Spec => []LevelByLevel
BY ControlInvariant, PTL DEF ControlInv

(* The final reply is asked for when every step has been answered for, and  *)
(* only an answered turn of a session is saved.                             *)
THEOREM AnswerComesLast == Spec => []AnswerLast
<1>1. ControlInv => AnswerLast
  BY UpToLast DEF ControlInv, LevelByLevel, InLevel, AnswerLast
<1> QED
  BY <1>1, ControlInvariant, PTL

---------------------------------------------------------------------------
(* Context injection.                                                       *)

(* When the next level of a well-formed plan is launched, each of its steps *)
(* finds its own input under its id, with all its dependencies' results.    *)
LEMMA NextLevelInputs ==
  ASSUME ControlInv, WellFormed(plan), pc = "level", NEW i \in levels[cur + 1]
  PROVE  InputOf(levels[cur + 1], i) = [step |-> i, prior |-> plan[i].deps]
<1> DEFINE level == levels[cur + 1]
<1>1. /\ cur \in Nat /\ cur + 1 \in 1..Len(levels) /\ DOMAIN levels = 1..Len(levels)
      /\ level \subseteq Steps
      /\ collected = UpTo(cur)
  BY DEF ControlInv, TypeOK, LevelByLevel, InLevel, LevelsInv, LevelsTypeOK
<1>2. Writer(level, i) = i
  BY <1>1, WriterInLevel DEF ControlInv, WellFormed, UniqueIds, Steps
<1>3. ASSUME NEW d \in plan[i].deps PROVE results[d] # "absent"
  <2>1. PICK j \in Steps : plan[j].id = d
    BY <1>1 DEF WellFormed, NoMissingDep, Steps
  <2>2. j \in Waits(plan, i)
    BY <2>1 DEF Waits, Steps
  <2>3. PICK l \in DOMAIN levels : l < cur + 1 /\ j \in levels[l]
    BY <1>1, <2>2 DEF ControlInv, LevelsInv, DependenciesEarlier
  <2>4. l \in 1..cur
    BY <1>1, <2>3
  <2>5. j \in collected
    BY <1>1, <2>3, <2>4 DEF UpTo
  <2> QED
    BY <2>1, <2>5 DEF ControlInv, LevelByLevel
<1> QED
  BY <1>2, <1>3 DEF InputOf

(* Only StartLevel launches, and only a new plan resets what was launched.  *)
LEMMA LaunchedElsewhere ==
  ASSUME ControlInv, [Next]_vars, ~StartLevel, ~\E p \in Plans : PlanArrives(Enrich(p))
  PROVE  UNCHANGED <<plan, input>> /\ Launched' = Launched
<1>1. CASE Activity
  <2>1. PICK i \in Steps, o \in FutureState : ActivityEnds(i, o)
    BY <1>1 DEF Activity
  <2>2. /\ o # "none" /\ fut[i] # "none" /\ fut' = [fut EXCEPT ![i] = o]
        /\ UNCHANGED <<plan, input>>
    BY <2>1 DEF ActivityEnds, ActivityOutcomes, levelVars
  <2> QED
    BY <2>2 DEF Launched, ControlInv, TypeOK, Steps
<1>2. CASE Cancel
  BY <1>2 DEF Cancel, levelVars, Launched, Steps
<1>3. CASE Answer
  BY <1>3 DEF Answer, Click, levelVars, workVars, Launched, Steps
<1>4. CASE Build
  BY <1>4 DEF Build, BuildLevel, workVars, Launched, Steps
<1>5. CASE UNCHANGED vars
  BY <1>5 DEF vars, levelVars, workVars, Launched, Steps
<1>6. CASE Workflow /\ ~Build
  <2>1. UNCHANGED <<plan, input, fut>>
    BY <1>6 DEF Workflow, Collect, LoadHistory, PlanFails, CollectExecuted,
       CollectWithoutPreview, AskApproval, ReceiveApproval, ReceiveRejection, ReceiveTooLate,
       ExecuteSucceeds, ExecuteFails, LevelDone, ReplySucceeds, ReplyFails, SaveTurn,
       levelVars, workVars
  <2> QED
    BY <2>1 DEF Launched, Steps
<1> QED
  BY <1>1, <1>2, <1>3, <1>4, <1>5, <1>6 DEF Next

LEMMA InjectedStep ==
  ASSUME ControlInv, DependenciesInjected, [Next]_vars
  PROVE  DependenciesInjected'
<1>1. CASE StartLevel
  <2> SUFFICES ASSUME WellFormed(plan), NEW i \in Launched'
               PROVE  input'[i] = [step |-> i, prior |-> plan[i].deps]
    BY <1>1 DEF DependenciesInjected, StartLevel, levelVars
  <2>1. i \in Steps
    BY <1>1 DEF Launched, StartLevel, levelVars, Steps
  <2>2. CASE i \in levels[cur + 1]
    BY <1>1, <2>1, <2>2, NextLevelInputs DEF StartLevel
  <2>3. CASE i \notin levels[cur + 1]
    <3>1. i \in Launched
      BY <1>1, <2>1, <2>3 DEF StartLevel, Launched, Steps, levelVars
    <3> QED
      BY <1>1, <2>1, <2>3, <3>1 DEF StartLevel, DependenciesInjected
  <2> QED
    BY <2>2, <2>3
<1>2. ASSUME NEW p \in Plans, PlanArrives(Enrich(p)) PROVE DependenciesInjected'
  <2>1. Launched' = {}
    BY <1>2 DEF PlanArrives, Launched, Steps
  <2> QED
    BY <2>1 DEF DependenciesInjected
<1>3. CASE ~StartLevel /\ ~\E p \in Plans : PlanArrives(Enrich(p))
  BY <1>3, LaunchedElsewhere DEF DependenciesInjected
<1> QED
  BY <1>1, <1>2, <1>3

(* Whatever the plan, if it is well formed every launched step was given    *)
(* its instruction and the results of all it depends on.                    *)
THEOREM ContextInjection == Spec => []DependenciesInjected
<1>1. Init => DependenciesInjected
  BY DEF Init, LevelsInit, DependenciesInjected, Launched, Steps
<1> QED
  BY <1>1, InjectedStep, ControlInvariant, PTL DEF Spec

---------------------------------------------------------------------------
(* Approvals, with one answer per request: the invariant that keeps signals *)
(* and requests together.                                                   *)

ApprovalInv == SignalsMatchRequests /\ ReviewedCodeOnly

(* A step that settles the step being asked about, or any other.            *)
LEMMA ApprovalKept ==
  ASSUME ControlInv, ApprovalInv, UNCHANGED <<plan, clicks, approved, shown, ran>>,
         collected \subseteq collected', asking \in collected' \cup {asking'},
         signals' = <<>>, pc' # "execute",
         \A i \in shown : clicks[i] # 0
  PROVE  ApprovalInv'
BY DEF ApprovalInv, SignalsMatchRequests, ReviewedCodeOnly, Steps, ControlInv, TypeOK

(* Outside await nothing is buffered and every request shown was answered.  *)
LEMMA NothingBuffered ==
  ASSUME ControlInv, ApprovalInv, pc # "await"
  PROVE  signals = <<>> /\ \A i \in shown : clicks[i] # 0
BY DEF ApprovalInv, SignalsMatchRequests

LEMMA LoadHistoryApproval ==
  ASSUME ControlInv, ApprovalInv, LoadHistory
  PROVE  ApprovalInv'
BY ApprovalKept, NothingBuffered DEF LoadHistory, levelVars, workVars, approvalVars, endVars, userVars

LEMMA PlanFailsApproval ==
  ASSUME ControlInv, ApprovalInv, PlanFails
  PROVE  ApprovalInv'
BY ApprovalKept, NothingBuffered DEF PlanFails, levelVars, workVars, approvalVars, endVars, userVars

LEMMA LevelDoneApproval ==
  ASSUME ControlInv, ApprovalInv, LevelDone
  PROVE  ApprovalInv'
BY ApprovalKept, NothingBuffered DEF LevelDone, levelVars, workVars, approvalVars, endVars, userVars

LEMMA ReplySucceedsApproval ==
  ASSUME ControlInv, ApprovalInv, ReplySucceeds
  PROVE  ApprovalInv'
BY ApprovalKept, NothingBuffered DEF ReplySucceeds, levelVars, workVars, approvalVars, endVars, userVars

LEMMA ReplyFailsApproval ==
  ASSUME ControlInv, ApprovalInv, ReplyFails
  PROVE  ApprovalInv'
BY ApprovalKept, NothingBuffered DEF ReplyFails, levelVars, workVars, approvalVars, endVars, userVars

LEMMA BuildApproval ==
  ASSUME ControlInv, ApprovalInv, Build
  PROVE  ApprovalInv'
BY ApprovalKept, NothingBuffered DEF Build, BuildLevel, levelVars, workVars, approvalVars, endVars, userVars

LEMMA StartLevelApproval ==
  ASSUME ControlInv, ApprovalInv, StartLevel
  PROVE  ApprovalInv'
BY ApprovalKept, NothingBuffered DEF StartLevel, levelVars, workVars, approvalVars, endVars, userVars

LEMMA SaveTurnApproval ==
  ASSUME ControlInv, ApprovalInv, NEW works \in BOOLEAN, SaveTurn(works)
  PROVE  ApprovalInv'
BY ApprovalKept, NothingBuffered DEF SaveTurn, levelVars, workVars, approvalVars, endVars, userVars

LEMMA CollectExecutedApproval ==
  ASSUME ControlInv, ApprovalInv, NEW i \in Steps, CollectExecuted(i)
  PROVE  ApprovalInv'
BY ApprovalKept, NothingBuffered DEF CollectExecuted, Settle, levelVars, workVars, approvalVars, endVars, userVars

LEMMA CollectWithoutPreviewApproval ==
  ASSUME ControlInv, ApprovalInv, NEW i \in Steps, CollectWithoutPreview(i)
  PROVE  ApprovalInv'
BY ApprovalKept, NothingBuffered DEF CollectWithoutPreview, Settle, levelVars, workVars, approvalVars, endVars, userVars

LEMMA ReceiveRejectionApproval ==
  ASSUME ControlInv, ApprovalInv, ReceiveRejection
  PROVE  ApprovalInv'
<1>1. Len(signals) = 1 /\ signals \in Seq(Signal) /\ \A i \in shown : clicks[i] # 0
  BY DEF ApprovalInv, SignalsMatchRequests, ReceiveRejection, ControlInv, TypeOK
<1>2. signals' = <<>>
  BY <1>1 DEF ReceiveRejection
<1> QED
  BY <1>1, <1>2, ApprovalKept DEF ReceiveRejection, Settle, levelVars, workVars, approvalVars, endVars, userVars

LEMMA ReceiveTooLateApproval ==
  ASSUME ControlInv, ApprovalInv, ReceiveTooLate
  PROVE  ApprovalInv'
<1>1. Len(signals) = 1 /\ signals \in Seq(Signal) /\ \A i \in shown : clicks[i] # 0
  BY DEF ApprovalInv, SignalsMatchRequests, ReceiveTooLate, ControlInv, TypeOK
<1>2. signals' = <<>>
  BY <1>1 DEF ReceiveTooLate
<1> QED
  BY <1>1, <1>2, ApprovalKept DEF ReceiveTooLate, Settle, levelVars, workVars, approvalVars, endVars, userVars

LEMMA ReceiveApprovalApproval ==
  ASSUME ControlInv, ApprovalInv, ReceiveApproval
  PROVE  ApprovalInv'
<1>1. /\ Len(signals) = 1 /\ signals \in Seq(Signal) /\ \A i \in shown : clicks[i] # 0
      /\ signals[1].about = asking
      /\ signals[1].ok => asking \in approved
  BY DEF ApprovalInv, SignalsMatchRequests, ReceiveApproval, ControlInv, TypeOK
<1>2. signals' = <<>> /\ using'.about = asking /\ asking \in approved
  BY <1>1 DEF ReceiveApproval
<1> QED
  BY <1>1, <1>2 DEF ApprovalInv, SignalsMatchRequests, ReviewedCodeOnly, ReceiveApproval, Steps, levelVars, workVars, approvalVars, endVars, userVars

LEMMA ApprovedRunReviewed ==
  ASSUME ControlInv, ApprovalInv, pc = "execute"
  PROVE  /\ plan[ApprovedRun.step].approval
         /\ ApprovedRun.about = ApprovedRun.step
         /\ ApprovedRun.step \in approved
BY DEF ControlInv, LevelByLevel, ApprovalInv, SignalsMatchRequests, ApprovedRun

LEMMA ExecuteSucceedsApproval ==
  ASSUME ControlInv, ApprovalInv, ExecuteSucceeds
  PROVE  ApprovalInv'
<1>1. ReviewedCodeOnly'
  BY ApprovedRunReviewed DEF ApprovalInv, ReviewedCodeOnly, ExecuteSucceeds, levelVars, workVars, approvalVars, endVars, userVars
<1>2. SignalsMatchRequests'
  BY NothingBuffered DEF ApprovalInv, SignalsMatchRequests, ExecuteSucceeds, Settle, Steps,
     levelVars, workVars, approvalVars, endVars, userVars
<1> QED
  BY <1>1, <1>2 DEF ApprovalInv

LEMMA ExecuteFailsApproval ==
  ASSUME ControlInv, ApprovalInv, NEW effect \in BOOLEAN, ExecuteFails(effect)
  PROVE  ApprovalInv'
<1>1. ReviewedCodeOnly'
  BY ApprovedRunReviewed DEF ApprovalInv, ReviewedCodeOnly, ExecuteFails, levelVars, workVars, approvalVars, endVars, userVars
<1>2. SignalsMatchRequests'
  BY NothingBuffered DEF ApprovalInv, SignalsMatchRequests, ExecuteFails, Settle, Steps,
     levelVars, workVars, approvalVars, endVars, userVars
<1> QED
  BY <1>1, <1>2 DEF ApprovalInv

LEMMA AskApprovalApproval ==
  ASSUME ControlInv, ApprovalInv, NEW i \in Steps, NEW seen \in BOOLEAN, AskApproval(i, seen)
  PROVE  ApprovalInv'
<1>1. i # 0 /\ i \notin collected /\ asking = 0 /\ i \notin shown /\ clicks[i] = 0
  BY StepTypes DEF AskApproval, IsNext, Pending, ControlInv, LevelByLevel, ApprovalInv,
     SignalsMatchRequests
<1>2. ReviewedCodeOnly'
  BY DEF ApprovalInv, ReviewedCodeOnly, AskApproval, levelVars, workVars, approvalVars, endVars, userVars
<1>3. /\ pc = "collect" /\ pc' = "await" /\ asking' = i
      /\ UNCHANGED <<plan, clicks, collected, signals, approved>>
      /\ shown \subseteq shown' /\ shown' \subseteq shown \cup {i}
  BY DEF AskApproval, levelVars, workVars
<1>4. /\ signals = <<>> /\ \A j \in shown : clicks[j] # 0
      /\ shown \subseteq collected
      /\ Steps' = Steps
      /\ \A j \in Steps : clicks[j] = 0 \/ j \in shown
      /\ \A j \in Steps : plan[j].agent \in NeedsApproval => plan[j].approval
  BY <1>1, <1>3, NothingBuffered, StepTypes
     DEF ApprovalInv, SignalsMatchRequests, ControlInv, TypeOK, Steps
<1>5. SignalsMatchRequests'
  BY <1>3, <1>4 DEF SignalsMatchRequests
<1> QED
  BY <1>2, <1>5 DEF ApprovalInv

LEMMA PlanArrivesApproval ==
  ASSUME ControlInv, ApprovalInv, NEW p \in Plans, PlanArrives(Enrich(p))
  PROVE  ApprovalInv'
<1>1. shown = {} /\ approved = {} /\ ran = {} /\ signals = <<>>
  <2>1. Steps = {}
    BY DEF ControlInv, LevelByLevel, Planning, PlanArrives, Steps
  <2> QED
    BY <2>1, NothingBuffered DEF ControlInv, TypeOK, ApprovalInv, ReviewedCodeOnly, PlanArrives
<1>2. \A i \in Steps' : /\ plan'[i].agent \in NeedsApproval => plan'[i].approval
                        /\ clicks'[i] = 0
  BY EnrichType DEF PlanArrives, Steps
<1> QED
  BY <1>1, <1>2 DEF ApprovalInv, SignalsMatchRequests, ReviewedCodeOnly, PlanArrives, approvalVars

LEMMA CancelApproval ==
  ASSUME ControlInv, ApprovalInv, Cancel
  PROVE  ApprovalInv'
BY DEF ApprovalInv, SignalsMatchRequests, ReviewedCodeOnly, Cancel, Steps, levelVars, workVars, approvalVars, endVars, userVars

LEMMA ActivityEndsApproval ==
  ASSUME ControlInv, ApprovalInv, NEW i \in Steps, NEW o \in FutureState, ActivityEnds(i, o)
  PROVE  ApprovalInv'
<1>1. UnreviewedRuns(i) = {}
  BY DEF UnreviewedRuns, ApprovalInv, SignalsMatchRequests
<1>2. UNCHANGED <<plan, pc, collected, asking, signals, using, clicks, approved, shown, ran>>
  BY <1>1 DEF ActivityEnds, levelVars, workVars, approvalVars, endVars, userVars
<1> QED
  BY <1>2 DEF ApprovalInv, SignalsMatchRequests, ReviewedCodeOnly, Steps

LEMMA ClickApproval ==
  ASSUME Clicks = 1, ControlInv, ApprovalInv,
         NEW i \in Steps, NEW ok \in BOOLEAN, NEW modified \in BOOLEAN, Click(i, ok, modified)
  PROVE  ApprovalInv'
<1> DEFINE sig == [ok |-> ok, modified |-> modified, about |-> i]
<1>1. clicks \in [Steps -> Nat] /\ clicks[i] = 0 /\ i \in shown
  BY DEF Click, ControlInv, TypeOK
<1>2. pc = "await" /\ asking = i /\ signals = <<>>
  BY <1>1 DEF ApprovalInv, SignalsMatchRequests
<1>3. signals' = <<sig>> /\ Len(signals') = 1 /\ signals'[1] = sig
  BY <1>2 DEF Click
<1>4. /\ clicks' = [clicks EXCEPT ![i] = 1]
      /\ ok => i \in approved'
      /\ approved \subseteq approved'
      /\ UNCHANGED <<plan, pc, collected, asking, shown, ran>>
  BY <1>1 DEF Click, levelVars, workVars, approvalVars, endVars, userVars
<1>5. ReviewedCodeOnly'
  BY <1>4 DEF ApprovalInv, ReviewedCodeOnly
<1>6. /\ signals' # <<>>
      /\ signals'[1].about = asking'
      /\ signals'[1].ok => asking' \in approved'
  BY <1>2, <1>3, <1>4
<1>7. \A j \in Steps : (clicks'[j] = 0 <=> j \notin shown)
  BY <1>1, <1>2, <1>4 DEF ApprovalInv, SignalsMatchRequests
<1>8. shown \subseteq Steps /\ Steps' = Steps
  BY <1>4 DEF ControlInv, TypeOK, Steps
<1> HIDE DEF sig
<1>9. /\ shown \subseteq collected \cup {asking}
      /\ \A j \in Steps : plan[j].agent \in NeedsApproval => plan[j].approval
  BY DEF ApprovalInv, SignalsMatchRequests
<1>10. SignalsMatchRequests'
  <2>1. /\ \A j \in Steps' : plan'[j].agent \in NeedsApproval => plan'[j].approval
        /\ shown' \subseteq collected' \cup {asking'}
        /\ \A j \in Steps' : clicks'[j] = 0 \/ j \in shown'
        /\ \A j \in shown' : clicks'[j] # 0
    <3>1. plan' = plan /\ collected' = collected /\ asking' = asking /\ shown' = shown
      BY <1>4
    <3>2. \A j \in Steps' : plan'[j].agent \in NeedsApproval => plan'[j].approval
      BY <1>8, <1>9, <3>1
    <3>3. \A j \in shown' : clicks'[j] # 0
      BY <1>7, <1>8, <3>1
    <3>4. \A j \in Steps' : clicks'[j] = 0 \/ j \in shown'
      BY <1>7, <1>8, <3>1
    <3> QED
      BY <1>9, <3>1, <3>2, <3>3, <3>4
  <2>2. pc' = "await" /\ Len(signals') = 1
    BY <1>2, <1>3, <1>4
  <2> QED
    BY <1>6, <2>1, <2>2 DEF SignalsMatchRequests
<1> QED
  BY <1>5, <1>10 DEF ApprovalInv

LEMMA ApprovalStep ==
  ASSUME Clicks = 1, ControlInv, ApprovalInv, [Next]_vars
  PROVE  ApprovalInv'
<1>1. CASE Workflow
  BY <1>1, LoadHistoryApproval, PlanArrivesApproval, PlanFailsApproval, BuildApproval,
     StartLevelApproval, CollectExecutedApproval, CollectWithoutPreviewApproval,
     AskApprovalApproval, ReceiveApprovalApproval, ReceiveRejectionApproval,
     ReceiveTooLateApproval,
     ExecuteSucceedsApproval, ExecuteFailsApproval, LevelDoneApproval,
     ReplySucceedsApproval, ReplyFailsApproval, SaveTurnApproval DEF Workflow, Collect
<1>2. CASE Activity
  BY <1>2, ActivityEndsApproval DEF Activity
<1>3. CASE Answer
  BY <1>3, ClickApproval DEF Answer
<1>4. CASE Cancel
  BY <1>4, CancelApproval
<1>5. CASE UNCHANGED vars
  BY <1>5 DEF ApprovalInv, SignalsMatchRequests, ReviewedCodeOnly, Steps, vars, levelVars, workVars, approvalVars, endVars, userVars
<1> QED
  BY <1>1, <1>2, <1>3, <1>4, <1>5 DEF Next

LEMMA ApprovalInvariant ==
  ASSUME Clicks = 1
  PROVE  Spec => []ApprovalInv
<1>1. Init => ApprovalInv
  BY DEF Init, LevelsInit, ApprovalInv, SignalsMatchRequests, ReviewedCodeOnly, Steps
<1>2. ControlInv /\ ApprovalInv /\ [Next]_vars => ApprovalInv'
  BY ApprovalStep
<1> QED
  BY <1>1, <1>2, ControlInvariant, PTL DEF Spec

(* If a request is answered at most once, then whatever the plan, and       *)
(* however activities fail, are retried or cancelled, code runs only for a  *)
(* step whose code the user approved, by that very approval.                *)
THEOREM OnlyReviewedCodeRuns ==
  ASSUME Clicks = 1
  PROVE  Spec => []ReviewedCodeOnly
BY ApprovalInvariant, PTL DEF ApprovalInv

(* Under the same condition no signal is taken for another step's.          *)
THEOREM SignalsStayWithRequests ==
  ASSUME Clicks = 1
  PROVE  Spec => []SignalsMatchRequests
BY ApprovalInvariant, PTL DEF ApprovalInv
---------------------------------------------------------------------------
(* Results.                                                                 *)

(* A result is that of a collected step.                                    *)
ResultsOfCollected ==
  \A d \in Ids : results[d] # "absent" => \E i \in collected : plan[i].id = d

(* A step of the system records nothing, or settles one uncollected step.   *)
LEMMA SettlesOrKeeps ==
  ASSUME ControlInv, [Next]_vars
  PROVE  \/ UNCHANGED <<results, collected>> /\ (plan' = plan \/ collected = {})
         \/ /\ plan' = plan
            /\ \E i \in Steps \ collected, kind \in ResultKind : Settle(i, kind)
<1>1. asking # 0 => asking \in Steps \ collected
  BY CurrentLevel DEF ControlInv, LevelByLevel, InLevel, TypeOK
<1>2. CASE Activity \/ Answer \/ Cancel \/ UNCHANGED vars
  BY <1>2 DEF Activity, ActivityEnds, Answer, Click, Cancel, vars, levelVars, workVars
<1>3. CASE Collect
  <2>1. PICK i \in Steps :
          \/ CollectExecuted(i)
          \/ CollectWithoutPreview(i)
          \/ \E seen \in BOOLEAN : AskApproval(i, seen)
    BY <1>3 DEF Collect
  <2>2. i \notin collected
    BY <2>1 DEF CollectExecuted, CollectWithoutPreview, AskApproval, IsNext, Pending
  <2> QED
    BY <2>1, <2>2 DEF CollectExecuted, CollectWithoutPreview, AskApproval, ResultKind,
       levelVars, workVars
<1>4. CASE ReceiveRejection \/ ReceiveTooLate \/ ExecuteSucceeds
  BY <1>1, <1>4 DEF ReceiveRejection, ReceiveTooLate, ExecuteSucceeds, ResultKind, levelVars,
     ControlInv, LevelByLevel
<1>5. ASSUME NEW effect \in BOOLEAN, ExecuteFails(effect)
      PROVE  \/ UNCHANGED <<results, collected>> /\ plan' = plan
             \/ plan' = plan /\ \E i \in Steps \ collected, kind \in ResultKind : Settle(i, kind)
  BY <1>1, <1>5 DEF ExecuteFails, ResultKind, levelVars, ControlInv, LevelByLevel
<1>6. ASSUME NEW p \in Plans, PlanArrives(Enrich(p))
      PROVE  UNCHANGED <<results, collected>> /\ collected = {}
  BY <1>6 DEF PlanArrives, ControlInv, LevelByLevel, Planning, TypeOK, Steps
<1>7. CASE \/ LoadHistory \/ PlanFails \/ Build \/ StartLevel \/ ReceiveApproval \/ LevelDone
           \/ ReplySucceeds \/ ReplyFails \/ \E works \in BOOLEAN : SaveTurn(works)
  BY <1>7 DEF LoadHistory, PlanFails, Build, BuildLevel, StartLevel, ReceiveApproval, LevelDone,
     ReplySucceeds, ReplyFails, SaveTurn, levelVars, workVars
<1> QED
  BY <1>2, <1>3, <1>4, <1>5, <1>6, <1>7 DEF Next, Workflow

LEMMA ResultsStep ==
  ASSUME ControlInv, ResultsOfCollected, [Next]_vars
  PROVE  /\ ResultsOfCollected'
         /\ WellFormed(plan) =>
              \A d \in Ids : results[d] # "absent" => results'[d] = results[d]
<1>1. CASE UNCHANGED <<results, collected>> /\ (plan' = plan \/ collected = {})
  BY <1>1 DEF ResultsOfCollected
<1>2. ASSUME plan' = plan, NEW i \in Steps \ collected, NEW kind \in ResultKind, Settle(i, kind)
      PROVE  /\ ResultsOfCollected'
             /\ WellFormed(plan) =>
                  \A d \in Ids : results[d] # "absent" => results'[d] = results[d]
  <2>1. /\ results' = [results EXCEPT ![plan[i].id] = kind]
        /\ collected' = collected \cup {i}
    BY <1>2 DEF Settle
  <2>2. ResultsOfCollected'
    BY <1>2, <2>1 DEF ResultsOfCollected, ControlInv, TypeOK
  <2>3. ASSUME WellFormed(plan), NEW d \in Ids, results[d] # "absent"
        PROVE  results'[d] = results[d]
    <3>1. PICK j \in collected : plan[j].id = d
      BY <2>3 DEF ResultsOfCollected
    <3>2. d # plan[i].id
      BY <1>2, <2>3, <3>1 DEF WellFormed, UniqueIds, ControlInv, TypeOK, Steps
    <3> QED
      BY <2>1, <3>2
  <2> QED
    BY <2>2, <2>3
<1> QED
  BY <1>1, <1>2, SettlesOrKeeps

(* In a well-formed plan a recorded result never changes: what the final    *)
(* reply reports is what the dependent steps were told.                     *)
THEOREM ResultsNeverChange == Spec => ResultsFinal
<1>1. Init => ResultsOfCollected
  BY DEF Init, ResultsOfCollected
<1>2. ControlInv /\ ResultsOfCollected /\ [Next]_vars => ResultsOfCollected'
  BY ResultsStep
<1>3. ControlInv /\ ResultsOfCollected /\ [Next]_vars =>
        [WellFormed(plan) =>
          \A d \in Ids : results[d] # "absent" => results'[d] = results[d]]_vars
  BY ResultsStep
<1> QED
  BY <1>1, <1>2, <1>3, ControlInvariant, PTL DEF Spec, ResultsFinal

-----------------------------------------------------------------------------
(* The workflow implements PlanPromise, for every set of plans, agents and  *)
(* bounds, when a request is answered at most once.                         *)

Ran == {r.step : r \in ran}
Answered == outcome \in {"answered", "empty"}

(* Steps of the workflow that the promise does not see.                     *)
LEMMA Invisible ==
  ASSUME UNCHANGED <<plan, approved, saved>>, Status' = Status, Ran' = Ran,
         Answered' = Answered
  PROVE  UNCHANGED Promise!vars
BY DEF Promise!vars, Ran, Answered

LEMMA StatusKept ==
  ASSUME UNCHANGED <<plan, collected>>, Launched' = Launched
  PROVE  Status' = Status
<1>1. Steps' = Steps
  BY DEF Steps
<1>2. ASSUME NEW i \in Steps PROVE StatusOf(i)' = StatusOf(i)
  BY <1>1 DEF StatusOf, Launched
<1> QED
  BY <1>1, <1>2 DEF Status

(* A step of the current level that is not collected is running, and        *)
(* collecting it settles it.                                                *)
LEMMA RunningStatus ==
  ASSUME ControlInv, InLevel, NEW i \in levels[cur] \ collected
  PROVE  i \in Steps /\ Status[i] = "running"
BY CurrentLevel DEF ControlInv, LevelByLevel, Launched, Status, StatusOf

LEMMA SettledStatus ==
  ASSUME ControlInv, UNCHANGED <<plan, fut>>, NEW i \in Steps, collected' = collected \cup {i}
  PROVE  Status' = [Status EXCEPT ![i] = "settled"]
<1>1. Steps' = Steps
  BY DEF Steps
<1>2. \A j \in Steps : StatusOf(j)' = IF j = i THEN "settled" ELSE StatusOf(j)
  BY DEF StatusOf
<1> QED
  BY <1>1, <1>2 DEF Status

LEMMA PromiseAdopt ==
  ASSUME ControlInv, NEW p \in Plans, PlanArrives(Enrich(p))
  PROVE  Promise!Adopt
<1>1. plan = <<>> /\ plan' \in Seq(PlanStep) /\ collected' = {}
  <2>1. plan = <<>> /\ collected = {}
    BY DEF PlanArrives, ControlInv, LevelByLevel, Planning, TypeOK, Steps
  <2> QED
    BY <2>1, EnrichType DEF PlanArrives
<1>2. Status' = [i \in DOMAIN plan' |-> "pending"]
  BY <1>1 DEF Status, StatusOf, Steps, PlanArrives
<1>3. UNCHANGED <<approved, ran, outcome, saved>>
  BY DEF PlanArrives, endVars
<1>4. plan = <<>> /\ plan' \in Seq(PlanStep)
  BY <1>1
<1> QED
  BY <1>2, <1>3, <1>4 DEF Promise!Adopt, Promise!PlanStep, PlanStep

LEMMA PromiseStart ==
  ASSUME ControlInv, StartLevel
  PROVE  Promise!Start(levels[cur + 1])
<1> DEFINE level == levels[cur + 1]
<1>1. /\ cur \in Nat /\ cur + 1 \in 1..Len(levels) /\ DOMAIN levels = 1..Len(levels)
      /\ level \subseteq Steps
      /\ collected = UpTo(cur) /\ Launched = UpTo(cur)
  BY DEF ControlInv, TypeOK, LevelByLevel, InLevel, LevelsInv, LevelsTypeOK, StartLevel
<1>2. level \cap collected = {}
  BY <1>1 DEF ControlInv, LevelsInv, EachStepOnce, UpTo
<1>3. level \subseteq Promise!InStatus("pending")
  BY <1>1, <1>2 DEF Promise!InStatus, Promise!Steps, Launched, Status, StatusOf, Steps
<1>4. ASSUME WellFormed(plan), NEW i \in level
      PROVE  Waits(plan, i) \subseteq Promise!InStatus("settled")
  <2>1. ASSUME NEW j \in Waits(plan, i) PROVE j \in collected
    <3>1. PICK l \in DOMAIN levels : l < cur + 1 /\ j \in levels[l]
      BY <1>1, <1>4 DEF ControlInv, LevelsInv, DependenciesEarlier
    <3>2. l \in 1..cur
      BY <1>1, <3>1
    <3> QED
      BY <1>1, <3>1, <3>2 DEF UpTo
  <2> QED
    BY <2>1 DEF Promise!InStatus, Promise!Steps, Status, StatusOf, Steps, Waits
<1>5. Status' = [i \in Steps |-> IF i \in level THEN "running" ELSE Status[i]]
  <2>1. Steps' = Steps /\ collected' = collected
    BY DEF StartLevel, levelVars, Steps
  <2>2. ASSUME NEW i \in Steps
        PROVE  StatusOf(i)' = IF i \in level THEN "running" ELSE StatusOf(i)
    <3>1. CASE i \in level
      BY <1>2, <2>1, <3>1 DEF StatusOf, StartLevel
    <3>2. CASE i \notin level
      BY <2>1, <3>2 DEF StatusOf, StartLevel
    <3> QED
      BY <3>1, <3>2
  <2> QED
    BY <2>1, <2>2 DEF Status
<1>6. UNCHANGED <<plan, approved, ran, outcome, saved>>
  BY DEF StartLevel, levelVars, userVars, endVars
<1>7. level \subseteq Promise!InStatus("pending")
      /\ (WellFormed(plan) => \A i \in level : Waits(plan, i) \subseteq Promise!InStatus("settled"))
  BY <1>3, <1>4
<1>8. WellFormed(plan) = Promise!WellFormed(plan) /\ \A i : Waits(plan, i) = Promise!Waits(plan, i)
  BY DEF WellFormed, UniqueIds, NoMissingDep, Acyclic, Waits, Promise!WellFormed,
         Promise!UniqueIds, Promise!NoMissingDep, Promise!Acyclic, Promise!Waits
<1> HIDE DEF level
<1>9. Promise!Start(level)
  BY <1>5, <1>6, <1>7, <1>8 DEF Promise!Start, Promise!Steps, Steps
<1> QED
  BY <1>9 DEF level

(* A step the workflow settles without running code.                        *)
LEMMA PromiseSettle ==
  ASSUME ControlInv, InLevel, NEW i \in levels[cur] \ collected, NEW kind, Settle(i, kind),
         UNCHANGED <<plan, fut, approved, ran, outcome, saved>>
  PROVE  i \in Steps /\ Promise!Settle(i)
BY RunningStatus, SettledStatus DEF Settle, Promise!Settle

(* The step being executed runs its approved code, and may be settled.      *)
LEMMA PromiseRun ==
  ASSUME ControlInv, ApprovalInv, pc = "execute", ran' = ran \cup {ApprovedRun},
         UNCHANGED <<plan, fut, approved, outcome, saved>>,
         collected' \in {collected, collected \cup {asking}}
  PROVE  \E next \in {"running", "settled"} : asking \in Steps /\ Promise!RunCode(asking, next)
<1>1. /\ asking \in Steps /\ Status[asking] = "running"
      /\ asking \in approved
  BY RunningStatus DEF ControlInv, LevelByLevel, InLevel, ApprovalInv, SignalsMatchRequests
<1>2. Ran' = Ran \cup {asking}
  <2>1. ApprovedRun.step = asking
    BY DEF ApprovedRun
  <2>2. {r.step : r \in ran \cup {ApprovedRun}} = {r.step : r \in ran} \cup {ApprovedRun.step}
    OBVIOUS
  <2> QED
    BY <2>1, <2>2 DEF Ran
<1>3. CASE collected' = collected
  <2>1. Status' = Status
    BY <1>3, StatusKept DEF Launched, Steps
  <2>2. Status' = [Status EXCEPT ![asking] = "running"]
    BY <1>1, <2>1 DEF Status
  <2> QED
    BY <1>1, <1>2, <2>2 DEF Promise!RunCode, Ran
<1>4. CASE collected' = collected \cup {asking}
  BY <1>1, <1>2, <1>4, SettledStatus DEF Promise!RunCode, Ran
<1> QED
  BY <1>3, <1>4

(* What each action of the workflow is to the promise.                      *)
PromiseStep == [Promise!Next]_Promise!vars

LEMMA LevelStep ==
  ASSUME ControlInv, StartLevel
  PROVE  PromiseStep
<1>1. cur + 1 \in DOMAIN levels /\ levels[cur + 1] \subseteq Steps
  BY DEF ControlInv, TypeOK, LevelByLevel, LevelsInv, LevelsTypeOK, StartLevel
<1> QED
  BY <1>1, PromiseStart DEF PromiseStep, Promise!Next, Promise!Steps, Steps

LEMMA SettleStep ==
  ASSUME ControlInv, InLevel, NEW i \in levels[cur] \ collected, NEW kind, Settle(i, kind),
         UNCHANGED <<plan, fut, approved, ran, outcome, saved>>
  PROVE  PromiseStep
<1>1. i \in Steps /\ Promise!Settle(i)
  BY PromiseSettle
<1> QED
  BY <1>1 DEF PromiseStep, Promise!Next, Promise!Steps, Steps

LEMMA RunStep ==
  ASSUME ControlInv, ApprovalInv, pc = "execute", ran' = ran \cup {ApprovedRun},
         UNCHANGED <<plan, fut, approved, outcome, saved>>,
         collected' \in {collected, collected \cup {asking}}
  PROVE  PromiseStep
<1>1. PICK next \in {"running", "settled"} : asking \in Steps /\ Promise!RunCode(asking, next)
  BY PromiseRun
<1> QED
  BY <1>1 DEF PromiseStep, Promise!Next, Promise!Steps, Steps

(* Nothing the promise sees changes.                                        *)
LEMMA InvisibleStep ==
  ASSUME UNCHANGED <<plan, collected, approved, saved, ran>>, Launched' = Launched, Answered' = Answered
  PROVE  PromiseStep
<1>1. Status' = Status
  BY StatusKept
<1> QED
  BY <1>1, Invisible DEF PromiseStep, Ran

LEMMA CollectStep ==
  ASSUME ControlInv, ApprovalInv, NEW i \in Steps,
         \/ CollectExecuted(i)
         \/ CollectWithoutPreview(i)
         \/ \E seen \in BOOLEAN : AskApproval(i, seen)
  PROVE  PromiseStep
<1>1. InLevel /\ i \in levels[cur] \ collected
  BY DEF InLevel, CollectExecuted, CollectWithoutPreview, AskApproval, IsNext, Pending
<1>2. CASE CollectExecuted(i)
  BY <1>1, <1>2, SettleStep DEF CollectExecuted, levelVars, userVars, endVars
<1>3. CASE CollectWithoutPreview(i)
  BY <1>1, <1>3, SettleStep DEF CollectWithoutPreview, levelVars, userVars, endVars
<1>4. CASE \E seen \in BOOLEAN : AskApproval(i, seen)
  <2>1. UNCHANGED <<plan, fut, collected, approved, saved, ran, outcome>>
    BY <1>4 DEF AskApproval, levelVars, workVars, endVars
  <2> QED
    BY <2>1, InvisibleStep DEF Launched, Steps, Answered
<1> QED
  BY <1>2, <1>3, <1>4

LEMMA RejectionStep ==
  ASSUME ControlInv, ReceiveRejection \/ ReceiveTooLate
  PROVE  PromiseStep
<1>1. InLevel /\ asking \in levels[cur] \ collected
  BY DEF ControlInv, LevelByLevel, InLevel, ReceiveRejection, ReceiveTooLate
<1> QED
  BY <1>1, SettleStep DEF ReceiveRejection, ReceiveTooLate, levelVars, userVars, endVars

LEMMA ExecuteSucceedsStep ==
  ASSUME ControlInv, ApprovalInv, ExecuteSucceeds
  PROVE  PromiseStep
BY RunStep DEF ExecuteSucceeds, Settle, levelVars, userVars, endVars

LEMMA ExecuteFailsStep ==
  ASSUME ControlInv, ApprovalInv, NEW effect \in BOOLEAN, ExecuteFails(effect)
  PROVE  PromiseStep
<1>1. /\ pc = "execute"
      /\ UNCHANGED <<plan, fut, approved, outcome, saved>>
      /\ \/ collected' = collected
         \/ \E kind \in {"error"} : Settle(asking, kind)
  BY DEF ExecuteFails, levelVars, userVars, endVars
<1>2. InLevel /\ asking \in levels[cur] \ collected
  BY <1>1 DEF ControlInv, LevelByLevel, InLevel
<1>3. CASE effect
  BY <1>1, <1>3, RunStep DEF ExecuteFails, Settle
<1>4. CASE ~effect /\ collected' = collected
  <2>1. ran' = ran
    BY <1>4 DEF ExecuteFails
  <2> QED
    BY <1>1, <1>4, <2>1, InvisibleStep DEF Launched, Steps, Answered
<1>5. CASE ~effect /\ \E kind \in {"error"} : Settle(asking, kind)
  <2>1. ran' = ran
    BY <1>5 DEF ExecuteFails
  <2> QED
    BY <1>1, <1>2, <1>5, <2>1, SettleStep
<1> QED
  BY <1>1, <1>3, <1>4, <1>5

(* The answer comes when every step is settled; an empty one counts.        *)
LEMMA ReplyStep ==
  ASSUME ControlInv, ReplySucceeds
  PROVE  PromiseStep
<1>1. collected = Steps
  BY UpToLast DEF ControlInv, LevelByLevel, InLevel, ReplySucceeds
<1>2. Promise!InStatus("settled") = Promise!Steps
  BY <1>1 DEF Promise!InStatus, Promise!Steps, Steps, Status, StatusOf
<1>3. UNCHANGED <<plan, fut, collected, approved, saved, ran>>
  BY DEF ReplySucceeds, levelVars, workVars, userVars
<1>4. Status' = Status
  BY <1>3, StatusKept DEF Launched, Steps
<1>5. outcome' \in {"answered", "empty"}
  BY DEF ReplySucceeds
<1>6. Promise!Reply
  BY <1>2, <1>3, <1>4, <1>5 DEF Promise!Reply
<1> QED
  BY <1>6 DEF PromiseStep, Promise!Next

LEMMA SaveStep ==
  ASSUME ControlInv, NEW works \in BOOLEAN, SaveTurn(works)
  PROVE  PromiseStep
<1>1. UNCHANGED <<plan, fut, collected, approved, ran, outcome>>
  BY DEF SaveTurn, levelVars, workVars, userVars
<1>2. Status' = Status
  BY <1>1, StatusKept DEF Launched, Steps
<1>3. CASE works
  <2>1. outcome = "answered" /\ saved'
    BY <1>3 DEF SaveTurn, WorthSaving
  <2>2. Promise!Save
    BY <1>1, <1>2, <1>3, <2>1 DEF Promise!Save, SaveTurn
  <2> QED
    BY <2>2 DEF PromiseStep, Promise!Next
<1>4. CASE ~works
  <2>1. saved' = saved
    BY <1>4 DEF SaveTurn, ControlInv, TypeOK, LevelByLevel
  <2> QED
    BY <1>1, <2>1, InvisibleStep DEF Launched, Steps, Answered
<1> QED
  BY <1>3, <1>4

(* With one answer per request, the answered request is the awaited one.    *)
LEMMA ClickStep ==
  ASSUME Clicks = 1, ControlInv, ApprovalInv,
         NEW i \in Steps, NEW ok \in BOOLEAN, NEW modified \in BOOLEAN, Click(i, ok, modified)
  PROVE  PromiseStep
<1>1. clicks[i] = 0 /\ i \in shown
  BY DEF Click, ControlInv, TypeOK
<1>2. pc = "await" /\ asking = i
  BY <1>1 DEF ApprovalInv, SignalsMatchRequests
<1>3. Status[i] = "running"
  BY <1>2, RunningStatus DEF ControlInv, LevelByLevel, InLevel
<1>4. UNCHANGED <<plan, fut, collected, saved, ran, outcome>>
  BY DEF Click, levelVars, workVars, endVars
<1>5. Status' = Status
  BY <1>4, StatusKept DEF Launched, Steps
<1>6. CASE ok
  <2>1. Promise!Approve(i)
    BY <1>3, <1>4, <1>5, <1>6 DEF Promise!Approve, Click
  <2> QED
    BY <2>1 DEF PromiseStep, Promise!Next, Promise!Steps, Steps
<1>7. CASE ~ok
  <2>1. approved' = approved
    BY <1>7 DEF Click
  <2> QED
    BY <1>4, <2>1, InvisibleStep DEF Launched, Steps, Answered
<1> QED
  BY <1>6, <1>7

LEMMA ActivityStep ==
  ASSUME ControlInv, ApprovalInv, NEW i \in Steps, NEW o \in FutureState, ActivityEnds(i, o)
  PROVE  PromiseStep
<1>1. UnreviewedRuns(i) = {}
  BY DEF UnreviewedRuns, ApprovalInv, SignalsMatchRequests
<1>2. /\ UNCHANGED <<plan, collected, approved, saved, ran, outcome>>
      /\ o # "none" /\ fut[i] # "none" /\ fut' = [fut EXCEPT ![i] = o]
  BY <1>1 DEF ActivityEnds, ActivityOutcomes, levelVars, endVars, userVars
<1>3. Launched' = Launched
  BY <1>2 DEF Launched, ControlInv, TypeOK, Steps
<1> QED
  BY <1>2, <1>3, InvisibleStep DEF Answered

LEMMA CancelStep ==
  ASSUME Cancel
  PROVE  PromiseStep
<1>1. UNCHANGED <<plan, collected, approved, saved, ran, outcome>> /\ Launched' = Launched
  BY DEF Cancel, Launched, Steps, levelVars, endVars, userVars
<1> QED
  BY <1>1, InvisibleStep DEF Answered

(* The rest of the workflow function moves only where it is.                *)
LEMMA QuietStep ==
  ASSUME ControlInv,
         \/ LoadHistory \/ PlanFails \/ Build \/ ReceiveApproval \/ LevelDone \/ ReplyFails
         \/ UNCHANGED vars
  PROVE  PromiseStep
<1>1. UNCHANGED <<plan, fut, collected, approved, saved, ran>>
  BY DEF LoadHistory, PlanFails, Build, BuildLevel, ReceiveApproval, LevelDone, ReplyFails,
     vars, levelVars, workVars, endVars, userVars
<1>2. Answered' = Answered
  BY DEF LoadHistory, PlanFails, Build, ReceiveApproval, LevelDone, ReplyFails,
     vars, endVars, Answered, ControlInv, LevelByLevel
<1> QED
  BY <1>1, <1>2, InvisibleStep DEF Launched, Steps

LEMMA EveryStep ==
  ASSUME Clicks = 1, ControlInv, ApprovalInv, [Next]_vars
  PROVE  PromiseStep
<1>1. CASE Workflow
  <2>1. ASSUME NEW p \in Plans, PlanArrives(Enrich(p)) PROVE PromiseStep
    BY <2>1, PromiseAdopt DEF PromiseStep, Promise!Next
  <2> QED
    BY <1>1, <2>1, QuietStep, LevelStep, CollectStep, RejectionStep, ExecuteSucceedsStep,
       ExecuteFailsStep, ReplyStep, SaveStep DEF Workflow, Collect
<1>2. CASE Activity
  BY <1>2, ActivityStep DEF Activity
<1>3. CASE Answer
  BY <1>3, ClickStep DEF Answer
<1>4. CASE Cancel
  BY <1>4, CancelStep
<1>5. CASE UNCHANGED vars
  BY <1>5, QuietStep
<1> QED
  BY <1>1, <1>2, <1>3, <1>4, <1>5 DEF Next

(* The workflow implements its promise: dependencies are settled before a   *)
(* step starts, code runs only for a running step after its approval, the   *)
(* answer comes after everything and a turn is saved after the answer.      *)
THEOREM PromiseKept ==
  ASSUME Clicks = 1
  PROVE  Spec => KeepsPromise
<1>1. Init => Promise!Init
  BY DEF Init, LevelsInit, Promise!Init, Status, Steps
<1>2. ControlInv /\ ApprovalInv /\ [Next]_vars => [Promise!Next]_Promise!vars
  BY EveryStep DEF PromiseStep
<1> QED
  BY <1>1, <1>2, ControlInvariant, ApprovalInvariant, PTL DEF Spec, KeepsPromise, Promise!Spec

---------------------------------------------------------------------------
(* How much the workflow has left to do: its stages, the steps to place,    *)
(* the levels to start, the steps to collect, what is left of a step's own  *)
(* approval, and the attempts to execute it.                                *)
Stage ==
  CASE pc = "history" -> 5 [] pc = "plan" -> 4
    [] pc = "build" \/ pc = "level" \/ InLevel -> 3
    [] pc = "summary" -> 2 [] pc = "save" -> 1 [] OTHER -> 0

Asks == CASE pc = "collect" -> 3 [] pc = "await" -> 2 [] pc = "execute" -> 1 [] OTHER -> 0

Left ==
  <<Stage, Cardinality(Steps \ placed), Len(levels) - cur,
    Cardinality(Steps \ collected), Asks, MaxAttempts - attempts>>

(* The order of the measure: by the first place where two differ.           *)
Below(x, y) == \E n \in DOMAIN y : x[n] < y[n] /\ \A m \in 1..(n - 1) : x[m] = y[m]

(* Whatever the plan is, however activities end and whenever the user acts, *)
(* each step of the workflow function brings it nearer to its end, and      *)
(* nothing else takes it away from it: no loop of the code can go on for    *)
(* ever.                                                                    *)
WorkflowAdvances ==
  [][(Workflow => Below(Left', Left)) /\ (~Workflow => Left' = Left)]_vars

(* A sequence of six naturals only goes down so often.                      *)
Measures == [1..6 -> Nat]
Descent == {mm \in Measures \X Measures : Below(mm[1], mm[2])}

LEMMA DescentEnds == IsWellFoundedOn(Descent, Measures)
<1> DEFINE R == OpToRel(<, Nat)
<1>1. IsWellFoundedOn(LexProductOrdering(R, Nat, 6), [1..6 -> Nat])
  BY NatLessThanWellFounded, WFLexProductOrdering
<1>2. ASSUME NEW x \in Measures, NEW y \in Measures, Below(x, y)
      PROVE  <<x, y>> \in LexProductOrdering(R, Nat, 6)
  <2>1. PICK n \in 1..6 : x[n] < y[n] /\ \A m \in 1..(n - 1) : x[m] = y[m]
    BY <1>2 DEF Below, Measures
  <2>2. <<x[n], y[n]>> \in R
    BY <2>1 DEF OpToRel, Measures
  <2> HIDE DEF R
  <2>3. <<x, y>> \in [1..6 -> Nat] \X [1..6 -> Nat]
    BY DEF Measures
  <2> QED
    BY <2>1, <2>2, <2>3 DEF LexProductOrdering
<1>3. Descent \subseteq LexProductOrdering(R, Nat, 6)
  <2> HIDE DEF R
  <2> QED
    BY <1>2 DEF Descent
<1> HIDE DEF R
<1> QED
  BY <1>1, <1>3, IsWellFoundedOnSubrelation DEF Measures

LEMMA BelowOf ==
  ASSUME NEW a1, NEW a2, NEW a3, NEW a4, NEW a5, NEW a6,
         NEW b1, NEW b2, NEW b3, NEW b4, NEW b5, NEW b6,
         \/ a1 < b1
         \/ a1 = b1 /\ a2 < b2
         \/ a1 = b1 /\ a2 = b2 /\ a3 < b3
         \/ a1 = b1 /\ a2 = b2 /\ a3 = b3 /\ a4 < b4
         \/ a1 = b1 /\ a2 = b2 /\ a3 = b3 /\ a4 = b4 /\ a5 < b5
         \/ a1 = b1 /\ a2 = b2 /\ a3 = b3 /\ a4 = b4 /\ a5 = b5 /\ a6 < b6
  PROVE  Below(<<a1, a2, a3, a4, a5, a6>>, <<b1, b2, b3, b4, b5, b6>>)
<1> DEFINE x == <<a1, a2, a3, a4, a5, a6>>
           y == <<b1, b2, b3, b4, b5, b6>>
<1>0. /\ x[1] = a1 /\ x[2] = a2 /\ x[3] = a3 /\ x[4] = a4 /\ x[5] = a5 /\ x[6] = a6
      /\ y[1] = b1 /\ y[2] = b2 /\ y[3] = b3 /\ y[4] = b4 /\ y[5] = b5 /\ y[6] = b6
      /\ DOMAIN y = 1..6
  OBVIOUS
<1> HIDE DEF x, y
<1>1. \E n \in 1..6 : x[n] < y[n] /\ \A m \in 1..(n - 1) : x[m] = y[m]
  <2>1. CASE a1 < b1
    <3>1. 1 \in 1..6 /\ 1..(1 - 1) = {}
      OBVIOUS
    <3> QED
      BY <1>0, <2>1, <3>1, Zenon
  <2>2. CASE a1 = b1 /\ a2 < b2
    <3>1. 2 \in 1..6 /\ \A m \in 1..(2 - 1) : m = 1
      OBVIOUS
    <3>2. \A m \in 1..(2 - 1) : x[m] = y[m]
      BY <1>0, <2>2, <3>1, Zenon
    <3> QED
      BY <1>0, <2>2, <3>1, <3>2, Zenon
  <2>3. CASE a1 = b1 /\ a2 = b2 /\ a3 < b3
    <3>1. 3 \in 1..6 /\ \A m \in 1..(3 - 1) : m = 1 \/ m = 2
      OBVIOUS
    <3>2. \A m \in 1..(3 - 1) : x[m] = y[m]
      BY <1>0, <2>3, <3>1, Zenon
    <3> QED
      BY <1>0, <2>3, <3>1, <3>2, Zenon
  <2>4. CASE a1 = b1 /\ a2 = b2 /\ a3 = b3 /\ a4 < b4
    <3>1. 4 \in 1..6 /\ \A m \in 1..(4 - 1) : m = 1 \/ m = 2 \/ m = 3
      OBVIOUS
    <3>2. \A m \in 1..(4 - 1) : x[m] = y[m]
      BY <1>0, <2>4, <3>1, Zenon
    <3> QED
      BY <1>0, <2>4, <3>1, <3>2, Zenon
  <2>5. CASE a1 = b1 /\ a2 = b2 /\ a3 = b3 /\ a4 = b4 /\ a5 < b5
    <3>1. 5 \in 1..6 /\ \A m \in 1..(5 - 1) : m = 1 \/ m = 2 \/ m = 3 \/ m = 4
      OBVIOUS
    <3>2. \A m \in 1..(5 - 1) : x[m] = y[m]
      BY <1>0, <2>5, <3>1, Zenon
    <3> QED
      BY <1>0, <2>5, <3>1, <3>2, Zenon
  <2>6. CASE a1 = b1 /\ a2 = b2 /\ a3 = b3 /\ a4 = b4 /\ a5 = b5 /\ a6 < b6
    <3>1. 6 \in 1..6 /\ \A m \in 1..(6 - 1) : m = 1 \/ m = 2 \/ m = 3 \/ m = 4 \/ m = 5
      OBVIOUS
    <3>2. \A m \in 1..(6 - 1) : x[m] = y[m]
      BY <1>0, <2>6, <3>1, Zenon
    <3> QED
      BY <1>0, <2>6, <3>1, <3>2, Zenon
  <2> QED
    BY <2>1, <2>2, <2>3, <2>4, <2>5, <2>6
<1>2. Below(x, y)
  BY <1>0, <1>1 DEF Below
<1> QED
  BY <1>2 DEF x, y

LEMMA SizesDrop ==
  ASSUME NEW S, IsFiniteSet(S), NEW T \in SUBSET S, T # S
  PROVE  Cardinality(T) < Cardinality(S)
BY FS_Subset, FS_CardinalityType

LEMMA LeftTypes ==
  ASSUME ControlInv
  PROVE  /\ Left \in Measures
         /\ IsFiniteSet(Steps \ placed) /\ IsFiniteSet(Steps \ collected)
         /\ Len(levels) \in Nat /\ cur \in 0..Len(levels)
         /\ attempts \in 0..MaxAttempts /\ MaxAttempts \in Nat
         /\ collected \subseteq Steps /\ placed \subseteq Steps
<1>1. Steps = 1..Len(plan) /\ Len(plan) \in Nat
  BY DEF ControlInv, LevelsInv, LevelsTypeOK, Steps
<1>2. IsFiniteSet(Steps) /\ IsFiniteSet(Steps \ placed) /\ IsFiniteSet(Steps \ collected)
  <2>1. IsFiniteSet(Steps)
    BY <1>1, FS_Interval
  <2> QED
    BY <2>1, FS_Subset
<1>3. Cardinality(Steps \ placed) \in Nat /\ Cardinality(Steps \ collected) \in Nat
  BY <1>2, FS_CardinalityType
<1>4. /\ Len(levels) \in Nat /\ cur \in 0..Len(levels)
      /\ attempts \in 0..MaxAttempts /\ MaxAttempts \in Nat
      /\ collected \subseteq Steps /\ placed \subseteq Steps
  BY BoundsAssumption DEF ControlInv, TypeOK, LevelsInv, LevelsTypeOK
<1>5. Stage \in Nat /\ Asks \in Nat
  BY DEF Stage, Asks
<1>6. Len(levels) - cur \in Nat /\ MaxAttempts - attempts \in Nat
  BY <1>4
<1>7. Left \in Measures
  BY <1>3, <1>5, <1>6 DEF Left, Measures
<1> QED
  BY <1>2, <1>4, <1>7

(* A step that leaves the levels alone, as far as the measure sees it.      *)
LEMMA LeftKept ==
  ASSUME ControlInv, UNCHANGED <<levelVars, collected, cur>>
  PROVE  /\ Cardinality(Steps \ placed)' = Cardinality(Steps \ placed)
         /\ Cardinality(Steps \ collected)' = Cardinality(Steps \ collected)
         /\ (Len(levels) - cur)' = Len(levels) - cur
BY DEF levelVars, Steps

(* Stages of the workflow function.                                         *)
LEMMA StageDrops ==
  ASSUME ControlInv, Stage' < Stage
  PROVE  Below(Left', Left)
<1>1. Below(<<Stage', (Cardinality(Steps \ placed))', (Len(levels) - cur)',
              (Cardinality(Steps \ collected))', Asks', (MaxAttempts - attempts)'>>,
            <<Stage, Cardinality(Steps \ placed), Len(levels) - cur,
              Cardinality(Steps \ collected), Asks, MaxAttempts - attempts>>)
  BY BelowOf
<1> QED
  BY <1>1 DEF Left

LEMMA StageAdvances ==
  ASSUME ControlInv,
         \/ LoadHistory \/ PlanFails \/ ReplySucceeds \/ ReplyFails
         \/ \E p \in Plans : PlanArrives(Enrich(p))
         \/ \E works \in BOOLEAN : SaveTurn(works)
         \/ LevelDone /\ cur = Len(levels)
  PROVE  Below(Left', Left)
<1>1. CASE LoadHistory
  BY <1>1, StageDrops DEF LoadHistory, Stage, InLevel
<1>2. CASE PlanFails
  BY <1>2, StageDrops DEF PlanFails, Stage, InLevel
<1>3. CASE ReplySucceeds \/ ReplyFails
  BY <1>3, StageDrops DEF ReplySucceeds, ReplyFails, Stage, InLevel
<1>4. ASSUME NEW p \in Plans, PlanArrives(Enrich(p)) PROVE Below(Left', Left)
  <2>1. pc = "plan" /\ pc' \in {"summary", "build"}
    BY <1>4 DEF PlanArrives
  <2> QED
    BY <2>1, StageDrops DEF Stage, InLevel
<1>5. ASSUME NEW works \in BOOLEAN, SaveTurn(works) PROVE Below(Left', Left)
  BY <1>5, StageDrops DEF SaveTurn, Stage, InLevel
<1>6. CASE LevelDone /\ cur = Len(levels)
  BY <1>6, StageDrops DEF LevelDone, Stage, InLevel
<1> QED
  BY <1>1, <1>2, <1>3, <1>4, <1>5, <1>6

(* An iteration of buildLevels places a step.                               *)
LEMMA BuildAdvances ==
  ASSUME ControlInv, Build
  PROVE  Below(Left', Left)
<1>1. NextLevel \subseteq Steps \ placed /\ NextLevel # {}
  <2>1. LevelsTypeOK /\ placed # Steps
    BY DEF ControlInv, LevelsInv, Build, BuildLevel
  <2> QED
    BY <2>1, NextLevelFresh
<1>2. /\ Steps' = Steps /\ placed' = placed \cup NextLevel
      /\ Stage' = Stage
  BY DEF Build, BuildLevel, Steps, Stage, InLevel
<1>3. (Steps \ placed)' \in SUBSET (Steps \ placed) /\ (Steps \ placed)' # Steps \ placed
  BY <1>1, <1>2
<1>4. Cardinality((Steps \ placed)') < Cardinality(Steps \ placed)
  BY <1>3, LeftTypes, SizesDrop
<1>5. Below(<<Stage', Cardinality((Steps \ placed)'), (Len(levels) - cur)',
              (Cardinality(Steps \ collected))', Asks', (MaxAttempts - attempts)'>>,
            <<Stage, Cardinality(Steps \ placed), Len(levels) - cur,
              Cardinality(Steps \ collected), Asks, MaxAttempts - attempts>>)
  BY <1>2, <1>4, BelowOf
<1> QED
  BY <1>5 DEF Left

LEMMA StartLevelAdvances ==
  ASSUME ControlInv, StartLevel
  PROVE  Below(Left', Left)
<1>1. Stage' = Stage /\ cur' = cur + 1 /\ UNCHANGED <<levelVars, collected>>
  BY DEF StartLevel, Stage, InLevel
<1>2. (Len(levels) - cur)' < Len(levels) - cur
  BY <1>1, LeftTypes DEF levelVars
<1>3. (Cardinality(Steps \ placed))' = Cardinality(Steps \ placed)
  BY <1>1 DEF levelVars, Steps
<1>4. Below(<<Stage', (Cardinality(Steps \ placed))', (Len(levels) - cur)',
              (Cardinality(Steps \ collected))', Asks', (MaxAttempts - attempts)'>>,
            <<Stage, Cardinality(Steps \ placed), Len(levels) - cur,
              Cardinality(Steps \ collected), Asks, MaxAttempts - attempts>>)
  BY <1>1, <1>2, <1>3, BelowOf
<1> QED
  BY <1>4 DEF Left

(* Whatever settles a step of the level, in whatever way.                   *)
LEMMA SettleAdvances ==
  ASSUME ControlInv, UNCHANGED <<levelVars, cur>>, Stage' = Stage,
         NEW i \in Steps \ collected, collected' = collected \cup {i}
  PROVE  Below(Left', Left)
<1>1. (Steps \ collected)' \in SUBSET (Steps \ collected) /\ (Steps \ collected)' # Steps \ collected
  BY DEF levelVars, Steps
<1>2. Cardinality((Steps \ collected)') < Cardinality(Steps \ collected)
  BY <1>1, LeftTypes, SizesDrop
<1>3. /\ (Cardinality(Steps \ placed))' = Cardinality(Steps \ placed)
      /\ (Len(levels) - cur)' = Len(levels) - cur
  BY DEF levelVars, Steps
<1>4. Below(<<Stage', (Cardinality(Steps \ placed))', (Len(levels) - cur)',
              Cardinality((Steps \ collected)'), Asks', (MaxAttempts - attempts)'>>,
            <<Stage, Cardinality(Steps \ placed), Len(levels) - cur,
              Cardinality(Steps \ collected), Asks, MaxAttempts - attempts>>)
  BY <1>2, <1>3, BelowOf
<1> QED
  BY <1>4 DEF Left

LEMMA CollectAdvances ==
  ASSUME ControlInv, NEW i \in Steps, CollectExecuted(i) \/ CollectWithoutPreview(i)
  PROVE  Below(Left', Left)
<1>1. /\ UNCHANGED <<levelVars, cur, pc>>
      /\ collected' = collected \cup {i} /\ i \in Steps \ collected
  BY DEF CollectExecuted, CollectWithoutPreview, Settle, IsNext, Pending
<1>2. Stage' = Stage
  BY <1>1 DEF Stage, InLevel
<1> QED
  BY <1>1, <1>2, SettleAdvances

LEMMA AnswerAdvances ==
  ASSUME ControlInv, ReceiveRejection \/ ReceiveTooLate \/ ExecuteSucceeds
  PROVE  Below(Left', Left)
<1>1. /\ UNCHANGED <<levelVars, cur>> /\ pc \in {"await", "execute"} /\ pc' = "collect"
      /\ collected' = collected \cup {asking}
  BY DEF ReceiveRejection, ReceiveTooLate, ExecuteSucceeds, Settle
<1>2. asking \in Steps \ collected
  BY <1>1, CurrentLevel DEF ControlInv, LevelByLevel, InLevel
<1>3. Stage' = Stage
  BY <1>1 DEF Stage, InLevel
<1> QED
  BY <1>1, <1>2, <1>3, SettleAdvances

(* Within a step's own approval.                                            *)
LEMMA AsksDrop ==
  ASSUME ControlInv, UNCHANGED <<levelVars, cur, collected>>, Stage' = Stage,
         Asks' < Asks
  PROVE  Below(Left', Left)
<1>1. Below(<<Stage', (Cardinality(Steps \ placed))', (Len(levels) - cur)',
              (Cardinality(Steps \ collected))', Asks', (MaxAttempts - attempts)'>>,
            <<Stage, Cardinality(Steps \ placed), Len(levels) - cur,
              Cardinality(Steps \ collected), Asks, MaxAttempts - attempts>>)
  BY LeftKept, BelowOf
<1> QED
  BY <1>1 DEF Left

LEMMA AskingAdvances ==
  ASSUME ControlInv,
         \/ \E i \in Steps, seen \in BOOLEAN : AskApproval(i, seen)
         \/ ReceiveApproval
         \/ LevelDone /\ cur # Len(levels)
  PROVE  Below(Left', Left)
<1>1. /\ UNCHANGED <<levelVars, cur, collected>>
      /\ \/ pc = "collect" /\ pc' \in {"await", "level"}
         \/ pc = "await" /\ pc' = "execute"
  BY DEF AskApproval, ReceiveApproval, LevelDone, workVars
<1>2. Stage' = Stage /\ Asks' < Asks
  BY <1>1 DEF Stage, InLevel, Asks
<1> QED
  BY <1>1, <1>2, AsksDrop

LEMMA ExecuteFailsAdvances ==
  ASSUME ControlInv, NEW effect \in BOOLEAN, ExecuteFails(effect)
  PROVE  Below(Left', Left)
<1>1. CASE Retried
  <2>1. /\ UNCHANGED <<levelVars, cur, pc, collected>> /\ attempts' = attempts + 1
    BY <1>1 DEF ExecuteFails
  <2>2. Stage' = Stage /\ Asks' = Asks
    BY <2>1 DEF Stage, InLevel, Asks
  <2>3. (MaxAttempts - attempts)' < MaxAttempts - attempts
    BY <2>1, LeftTypes
  <2>4. Below(<<Stage', (Cardinality(Steps \ placed))', (Len(levels) - cur)',
                (Cardinality(Steps \ collected))', Asks', (MaxAttempts - attempts)'>>,
              <<Stage, Cardinality(Steps \ placed), Len(levels) - cur,
                Cardinality(Steps \ collected), Asks, MaxAttempts - attempts>>)
    BY <2>1, <2>2, <2>3, LeftKept, BelowOf
  <2> QED
    BY <2>4 DEF Left
<1>2. CASE ~Retried
  <2>1. /\ UNCHANGED <<levelVars, cur>> /\ pc = "execute" /\ pc' = "collect"
        /\ collected' = collected \cup {asking}
    BY <1>2 DEF ExecuteFails, Settle
  <2>2. asking \in Steps \ collected
    BY <2>1, CurrentLevel DEF ControlInv, LevelByLevel, InLevel
  <2>3. Stage' = Stage
    BY <2>1 DEF Stage, InLevel
  <2> QED
    BY <2>1, <2>2, <2>3, SettleAdvances
<1> QED
  BY <1>1, <1>2

LEMMA WorkflowLowers ==
  ASSUME ControlInv, Workflow
  PROVE  Below(Left', Left)
BY StageAdvances, BuildAdvances, StartLevelAdvances, CollectAdvances, AnswerAdvances,
   AskingAdvances, ExecuteFailsAdvances DEF Workflow, Collect

(* Activities and users leave the measure alone.                            *)
LEMMA OthersKeepLeft ==
  ASSUME Activity \/ Answer \/ Cancel \/ UNCHANGED vars
  PROVE  Left' = Left
<1>1. UNCHANGED <<levelVars, pc, cur, collected, attempts>>
  BY DEF Activity, ActivityEnds, Answer, Click, Cancel, vars, workVars, approvalVars
<1> QED
  BY <1>1 DEF Left, Stage, InLevel, Asks, levelVars, Steps

(* Whatever the plan, the activities and the user do, the workflow function *)
(* takes finitely many steps: each goes down in an order without infinite   *)
(* descent (DescentEnds), and nothing brings it up again.                   *)
THEOREM WorkflowStepsEnd ==
  /\ IsWellFoundedOn(Descent, Measures)
  /\ Spec => WorkflowAdvances /\ [](Left \in Measures)
<1>1. ControlInv /\ [Next]_vars =>
        [(Workflow => Below(Left', Left)) /\ (~Workflow => Left' = Left)]_vars
  BY WorkflowLowers, OthersKeepLeft DEF Next
<1>2. ControlInv => Left \in Measures
  BY LeftTypes
<1> QED
  BY <1>1, <1>2, DescentEnds, ControlInvariant, PTL DEF Spec, WorkflowAdvances

---------------------------------------------------------------------------
(* Where it stands still it waits for an activity that runs or for a signal *)
(* of the user: whatever future it finds under a step's id, some branch     *)
(* takes it.                                                                *)
NothingUnhandled ==
  /\ pc = "build" => NextLevel # {}
  /\ pc = "level" => cur < Len(levels)
  /\ pc = "collect" /\ Pending # {} =>
       \E i \in Steps :
         /\ IsNext(i)
         /\ \/ Fetched(i) \in (IF plan[i].approval THEN {"ok", "empty", "failed"}
                                                   ELSE {"ok", "failed"})
            \/ Fetched(i) = "running" /\ \E w \in levels[cur] : fut[w] = "running"

(* Only a preview can be empty, and buildLevels has a step left to place.   *)
EmptyIsPreview == \A i \in Steps : fut[i] = "empty" => plan[i].approval
StepsToPlace == pc = "build" => placed # Steps

LEMMA FuturesStep ==
  ASSUME ControlInv, EmptyIsPreview, [Next]_vars
  PROVE  EmptyIsPreview'
<1>0. fut \in [Steps -> FutureState]
  BY DEF ControlInv, TypeOK
<1>1. CASE \E p \in Plans : PlanArrives(Enrich(p))
  BY <1>1 DEF PlanArrives, EmptyIsPreview, Steps
<1>2. CASE StartLevel
  <2> SUFFICES ASSUME NEW i \in Steps, fut'[i] = "empty" PROVE plan[i].approval
    BY <1>2 DEF StartLevel, levelVars, EmptyIsPreview, Steps
  <2> QED
    BY <1>2 DEF StartLevel, EmptyIsPreview
<1>3. CASE Activity
  <2> PICK i \in Steps, o \in FutureState : ActivityEnds(i, o)
    BY <1>3 DEF Activity
  <2>1. /\ UNCHANGED levelVars /\ fut' = [fut EXCEPT ![i] = o]
        /\ o \in ActivityOutcomes(i)
    BY DEF ActivityEnds
  <2>2. o = "empty" => plan[i].approval
    BY <2>1 DEF ActivityOutcomes
  <2> QED
    BY <1>0, <2>1, <2>2 DEF levelVars, EmptyIsPreview, Steps
<1>4. CASE Cancel
  BY <1>0, <1>4 DEF Cancel, EmptyIsPreview, Steps, levelVars
<1>5. CASE UNCHANGED <<plan, fut>>
  BY <1>5 DEF EmptyIsPreview, Steps
<1>6. \/ \E p \in Plans : PlanArrives(Enrich(p))
      \/ StartLevel \/ Activity \/ Cancel \/ UNCHANGED <<plan, fut>>
  BY DEF Next, Workflow, Collect, LoadHistory, PlanFails, Build, BuildLevel,
     CollectExecuted, CollectWithoutPreview, AskApproval, ReceiveApproval, ReceiveRejection,
     ReceiveTooLate, ExecuteSucceeds, ExecuteFails, LevelDone, ReplySucceeds, ReplyFails,
     SaveTurn, Answer, Click, vars, levelVars, workVars
<1> QED
  BY <1>1, <1>2, <1>3, <1>4, <1>5, <1>6

LEMMA PlacingStep ==
  ASSUME ControlInv, StepsToPlace, [Next]_vars
  PROVE  StepsToPlace'
<1>1. ASSUME NEW p \in Plans, PlanArrives(Enrich(p)) PROVE StepsToPlace'
  <2> DEFINE q == Enrich(p)
  <2>1. plan' = q /\ placed' = {} /\ (pc' = "build" => q # <<>>)
    <3>1. placed = {}
      BY <1>1 DEF PlanArrives, ControlInv, LevelByLevel, Planning
    <3> QED
      BY <1>1, <3>1 DEF PlanArrives
  <2>2. q \in Seq(PlanStep)
    BY EnrichType
  <2> HIDE DEF q
  <2>3. q # <<>> => DOMAIN q # {}
    BY <2>2
  <2> QED
    BY <2>1, <2>3 DEF StepsToPlace, Steps
<1>2. CASE Build
  BY <1>2 DEF Build, BuildLevel, StepsToPlace, Steps
<1>3. CASE pc' # "build"
  BY <1>3 DEF StepsToPlace
<1>4. CASE UNCHANGED <<plan, placed, pc>>
  BY <1>4 DEF StepsToPlace, Steps
<1>5. \/ \E p \in Plans : PlanArrives(Enrich(p))
      \/ Build \/ pc' # "build" \/ UNCHANGED <<plan, placed, pc>>
  <2>1. CASE Workflow
    BY <2>1 DEF Workflow, Collect, LoadHistory, PlanFails, StartLevel,
       CollectExecuted, CollectWithoutPreview, AskApproval, ReceiveApproval, ReceiveRejection,
       ReceiveTooLate, ExecuteSucceeds, ExecuteFails, LevelDone, ReplySucceeds, ReplyFails,
       SaveTurn, levelVars
  <2>2. CASE ~Workflow
    BY <2>2 DEF Next, Activity, ActivityEnds, Answer, Click, Cancel, vars, levelVars
  <2> QED
    BY <2>1, <2>2
<1> QED
  BY <1>1, <1>2, <1>3, <1>4, <1>5

(* Of the steps still pending one is next.                                  *)
LEMMA SomeoneNext ==
  ASSUME NEW P, P \subseteq Nat, P # {}, \A i \in P : plan[i].approval \in BOOLEAN
  PROVE  \E i \in P : \A j \in P : Before(i, j)
<1> DEFINE Least(T) == \E i \in T : \A j \in T : i <= j
           Plain == {i \in P : ~plan[i].approval}
<1>1. ASSUME NEW T, T \subseteq Nat, T # {} PROVE Least(T)
  <2> DEFINE R == OpToRel(<, Nat)
  <2>1. IsWellFoundedOn(R, Nat)
    BY NatLessThanWellFounded
  <2>2. PICK i \in T : \A j \in T : ~ (<<j, i>> \in R)
    <3> HIDE DEF R
    <3> QED
      BY <1>1, <2>1, WFMin
  <2>3. \A j \in T : ~(j < i)
    BY <1>1, <2>2 DEF OpToRel
  <2> QED
    BY <1>1, <2>3
<1>2. CASE Plain # {}
  <2>1. PICK i \in Plain : \A j \in Plain : i <= j
    BY <1>1, <1>2
  <2>2. \A j \in P : Before(i, j)
    BY <2>1 DEF Before
  <2> QED
    BY <2>1, <2>2
<1>3. CASE Plain = {}
  <2>1. PICK i \in P : \A j \in P : i <= j
    BY <1>1
  <2>2. \A j \in P : Before(i, j)
    BY <1>3, <2>1 DEF Before
  <2> QED
    BY <2>1, <2>2
<1> QED
  BY <1>2, <1>3

LEMMA CollectHandled ==
  ASSUME ControlInv, EmptyIsPreview, pc = "collect", Pending # {}
  PROVE  \E i \in Steps :
           /\ IsNext(i)
           /\ \/ Fetched(i) \in (IF plan[i].approval THEN {"ok", "empty", "failed"}
                                                     ELSE {"ok", "failed"})
              \/ Fetched(i) = "running" /\ \E w \in levels[cur] : fut[w] = "running"
<1>1. LevelsInv /\ Steps \subseteq Nat /\ fut \in [Steps -> FutureState]
  BY StepTypes DEF ControlInv, TypeOK
<1>2. levels[cur] \in SUBSET Steps /\ UpTo(cur) = UpTo(cur - 1) \cup levels[cur] /\ Launched = UpTo(cur)
  BY CurrentLevel DEF ControlInv, LevelByLevel, InLevel
<1>3. Pending \subseteq levels[cur]
  BY DEF Pending
<1>4. PICK i \in Pending : \A j \in Pending : Before(i, j)
  <2>1. \A i \in Steps : plan[i] \in PlanStep
    BY <1>1 DEF LevelsInv, LevelsTypeOK, Steps
  <2>2. \A i \in Steps : plan[i].approval \in BOOLEAN
    BY <2>1 DEF PlanStep
  <2> QED
    BY <1>1, <1>2, <1>3, <2>2, SomeoneNext
<1> DEFINE w == Writer(levels[cur], i)
<1>5. w \in levels[cur]
  BY <1>1, <1>2, <1>3, WriterInLevel
<1>6. fut[w] \in {"running", "ok", "empty", "failed"} /\ (fut[w] = "empty" => plan[w].approval)
  <2> HIDE DEF w
  <2>1. w \in Steps /\ w \in Launched
    BY <1>2, <1>5
  <2> QED
    BY <1>1, <2>1 DEF Launched, FutureState, EmptyIsPreview
<1>7. Fetched(i) = IF fut[w] # "running" /\ plan[w].approval # plan[i].approval
                   THEN "failed" ELSE fut[w]
  BY DEF Fetched
<1> HIDE DEF w
<1>8. i \in Steps /\ IsNext(i)
  BY <1>2, <1>3, <1>4 DEF IsNext
<1>9. \/ Fetched(i) \in (IF plan[i].approval THEN {"ok", "empty", "failed"} ELSE {"ok", "failed"})
      \/ Fetched(i) = "running" /\ fut[w] = "running"
  BY <1>6, <1>7
<1> QED
  BY <1>5, <1>8, <1>9

(* The workflow is never at a point its code has no branch for: while it is *)
(* placing steps there are some to place, and of the steps it has launched  *)
(* the next one to collect runs, or has ended in a way that one of the      *)
(* branches of the collection takes.                                        *)
THEOREM EveryFutureIsHandled == Spec => []NothingUnhandled
<1>1. Init => EmptyIsPreview /\ StepsToPlace
  BY DEF Init, LevelsInit, EmptyIsPreview, StepsToPlace, Steps
<1>2. ControlInv /\ EmptyIsPreview /\ StepsToPlace => NothingUnhandled
  <2> SUFFICES ASSUME ControlInv, EmptyIsPreview, StepsToPlace PROVE NothingUnhandled
    OBVIOUS
  <2>1. pc = "build" => NextLevel # {}
    BY NextLevelFresh DEF StepsToPlace, ControlInv, LevelsInv
  <2>2. pc = "level" => cur < Len(levels)
    BY DEF ControlInv, LevelByLevel
  <2> QED
    BY <2>1, <2>2, CollectHandled DEF NothingUnhandled
<1> QED
  BY <1>1, <1>2, FuturesStep, PlacingStep, ControlInvariant, PTL DEF Spec
===========================================================================
