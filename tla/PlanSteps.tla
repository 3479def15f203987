----------------------------- MODULE PlanSteps ----------------------------
(***************************************************************************)
(* ExecutionPlan and PlanStep of internal/usecase/agent_usecase.go.         *)
(*                                                                         *)
(* A plan is whatever the language model answered, so nothing is assumed of *)
(* it: ids may repeat, a dependency may name no step, and the dependencies  *)
(* may form a cycle.  WellFormed is the case the planner's prompt asks for. *)
(***************************************************************************)
EXTENDS Naturals, Sequences

CONSTANTS
  Ids,      \* the integers a planner may use as step ids
  Agents,   \* agent names a planner may write, known to the registry or not
  Plans     \* the plans the planner may answer

(* PlanStep; the instruction is identified with the step's index, and of    *)
(* DependsOn only the set matters.                                          *)
PlanStep == [id : Ids, agent : Agents, deps : SUBSET Ids, approval : BOOLEAN]

ASSUME PlansAssumption == Plans \subseteq Seq(PlanStep)

(* The steps that step i of plan p waits for.                               *)
Waits(p, i) == {j \in DOMAIN p : p[j].id \in p[i].deps}

UniqueIds(p) == \A i, j \in DOMAIN p : p[i].id = p[j].id => i = j

NoMissingDep(p) == \A i \in DOMAIN p : p[i].deps \subseteq {p[j].id : j \in DOMAIN p}

(* Every non-empty set of steps has a member that waits for none of them.   *)
Acyclic(p) ==
  \A S \in SUBSET DOMAIN p : S # {} => \E i \in S : Waits(p, i) \cap S = {}

WellFormed(p) == UniqueIds(p) /\ NoMissingDep(p) /\ Acyclic(p)
===========================================================================
