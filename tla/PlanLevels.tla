---------------------------- MODULE PlanLevels ----------------------------
(***************************************************************************)
(* buildLevels of internal/workflow/plan_execute_workflow.go: the planner's *)
(* steps are grouped into execution levels.  One iteration of the outer     *)
(* loop is the action BuildLevel; PlanExecute embeds it.                    *)
(***************************************************************************)
EXTENDS PlanSteps

VARIABLES
  plan,     \* the plan being levelled
  levels,   \* levels: sequence of sets of indexes into plan
  placed    \* placedIdx: indexes already put in a level

levelVars == <<plan, levels, placed>>

Steps == DOMAIN plan

(* completedIDs: an id is completed as soon as one step that bears it is    *)
(* placed, whichever step that is.                                          *)
CompletedIDs == {plan[i].id : i \in placed}

(* Mutation: one completed dependency is enough.                            *)
ReadyOnAny ==
  {i \in Steps \ placed :
     plan[i].deps = {} \/ plan[i].deps \cap CompletedIDs # {}}

(* The unplaced steps whose dependencies are all completed.                 *)
Ready == {i \in Steps \ placed : plan[i].deps \subseteq CompletedIDs}

(* Mutations: the fallback takes placed steps again; a level holds a single *)
(* step.                                                                    *)
NextLevelAgain == IF Ready # {} THEN Ready ELSE Steps
NextLevelOfOne ==
  IF Ready # {} THEN {CHOOSE i \in Ready : \A j \in Ready : i <= j}
  ELSE Steps \ placed

(* The level one iteration builds: the ready steps or, when there is none,  *)
(* every step that is left.                                                 *)
NextLevel == IF Ready # {} THEN Ready ELSE Steps \ placed

LevelsInit(p) ==
  /\ plan = p
  /\ levels = <<>>
  /\ placed = {}

BuildLevel ==
  /\ placed # Steps
  /\ levels' = Append(levels, NextLevel)
  /\ placed' = placed \cup NextLevel
  /\ UNCHANGED plan

LevelsSpec ==
  /\ \E p \in Plans : LevelsInit(p)
  /\ [][BuildLevel]_levelVars
  /\ WF_levelVars(BuildLevel)

---------------------------------------------------------------------------
LevelsTypeOK ==
  /\ plan \in Seq(PlanStep)
  /\ levels \in Seq(SUBSET Steps)
  /\ placed \subseteq Steps

(* Every step is in exactly one level, no level is empty, and placed is     *)
(* what the levels hold: the loop neither loses a step nor runs one twice,  *)
(* even when ids repeat (the comment at buildLevels, lines 241-242).        *)
EachStepOnce ==
  /\ placed = UNION {levels[k] : k \in DOMAIN levels}
  /\ \A k \in DOMAIN levels : levels[k] # {}
  /\ \A k, l \in DOMAIN levels : k # l => levels[k] \cap levels[l] = {}

(* In a well-formed plan every step a step waits for is in a strictly       *)
(* earlier level: its result exists when the later level is launched.       *)
DependenciesEarlier ==
  WellFormed(plan) =>
    \A k \in DOMAIN levels : \A i \in levels[k] : \A j \in Waits(plan, i) :
      \E l \in DOMAIN levels : l < k /\ j \in levels[l]

(* Levels hold a step as early as its dependencies allow: a well-formed     *)
(* plan's step beyond the first level waits for one of the level before.    *)
AsEarlyAsPossible ==
  WellFormed(plan) =>
    \A k \in DOMAIN levels \ {1} : \A i \in levels[k] :
      Waits(plan, i) \cap levels[k - 1] # {}

===========================================================================
