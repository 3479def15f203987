---------------------------- MODULE PlanPromise ---------------------------
(***************************************************************************)
(* What PlanExecuteWorkflow promises its user, without levels, futures,     *)
(* signals or retries: a step of a well-formed plan starts when the steps   *)
(* it waits for are settled; code runs for a step only while it is running  *)
(* and after the user approved that step; a settled step stays settled; the *)
(* answer comes when every step is settled, and is saved at most after it.  *)
(***************************************************************************)
EXTENDS PlanSteps

VARIABLES
  plan,      \* the adopted plan
  status,    \* per step: pending, running, settled
  approved,  \* steps the user approved
  ran,       \* steps whose code has run
  answered,  \* the user has his answer
  saved      \* the turn is in the chat history

vars == <<plan, status, approved, ran, answered, saved>>

Steps == DOMAIN plan

InStatus(s) == {i \in Steps : status[i] = s}

Init ==
  /\ plan = <<>>
  /\ status = <<>>
  /\ approved = {}
  /\ ran = {}
  /\ answered = FALSE
  /\ saved = FALSE

Adopt ==
  /\ plan = <<>>
  /\ plan' \in Seq(PlanStep)
  /\ status' = [i \in DOMAIN plan' |-> "pending"]
  /\ UNCHANGED <<approved, ran, answered, saved>>

(* Steps start together, none of them waiting for an unsettled one.         *)
Start(S) ==
  /\ S \subseteq InStatus("pending")
  /\ WellFormed(plan) => \A i \in S : Waits(plan, i) \subseteq InStatus("settled")
  /\ status' = [i \in Steps |-> IF i \in S THEN "running" ELSE status[i]]
  /\ UNCHANGED <<plan, approved, ran, answered, saved>>

Approve(i) ==
  /\ status[i] = "running"
  /\ approved' = approved \cup {i}
  /\ UNCHANGED <<plan, status, ran, answered, saved>>

(* Code runs, and the step may be settled by it.                            *)
RunCode(i, next) ==
  /\ status[i] = "running"
  /\ i \in approved
  /\ ran' = ran \cup {i}
  /\ status' = [status EXCEPT ![i] = next]
  /\ UNCHANGED <<plan, approved, answered, saved>>

Settle(i) ==
  /\ status[i] = "running"
  /\ status' = [status EXCEPT ![i] = "settled"]
  /\ UNCHANGED <<plan, approved, ran, answered, saved>>

Reply ==
  /\ InStatus("settled") = Steps
  /\ answered' = TRUE
  /\ UNCHANGED <<plan, status, approved, ran, saved>>

Save ==
  /\ answered
  /\ saved' = TRUE
  /\ UNCHANGED <<plan, status, approved, ran, answered>>

Next ==
  \/ Adopt
  \/ \E S \in SUBSET Steps : Start(S)
  \/ \E i \in Steps :
       \/ Approve(i)
       \/ \E next \in {"running", "settled"} : RunCode(i, next)
       \/ Settle(i)
  \/ Reply
  \/ Save

Spec == Init /\ [][Next]_vars
===========================================================================
