-------------------------- MODULE MCPlanExecute ---------------------------
(* Plans the model may answer: the empty plan, every plan of one or two      *)
(* steps over two ids (ids repeated, dangling, cyclic included), and chosen  *)
(* plans of three and four steps.                                            *)
EXTENDS PlanExecute

CONSTANTS
  ShortIds,   \* ids of the enumerated short plans
  MaxShort    \* bound on the length of the enumerated plans

(* The model's own approval flag matters only for an agent it invented.      *)
ShortStep ==
  {s \in [id : ShortIds, agent : Agents, deps : SUBSET ShortIds, approval : BOOLEAN] :
     s.agent \in Registered => ~s.approval}

(* Ids are only compared, so one name for the first step's is enough.        *)
FirstId == CHOOSE i \in ShortIds : TRUE

Short == UNION {{s \in [1..n -> ShortStep] : n > 0 => s[1].id = FirstId} : n \in 0..MaxShort}

Coder(id, deps) == [id |-> id, agent |-> "Coder", deps |-> deps, approval |-> FALSE]
Researcher(id, deps) == [id |-> id, agent |-> "Researcher", deps |-> deps, approval |-> FALSE]

(* Two coders at once and a researcher that needs both; a diamond listed     *)
(* from its end; coders that share an id; a chain behind a dangling step.    *)
Long == {
  <<Coder(1, {}), Coder(2, {}), Researcher(3, {1, 2})>>,
  <<Coder(4, {2, 3}), Researcher(2, {1}), Coder(3, {1}), Researcher(1, {})>>,
  <<Coder(1, {}), Coder(1, {}), Researcher(1, {}), Coder(2, {1})>>,
  <<Researcher(1, {9}), Coder(2, {1}), Coder(3, {2})>> }

MCPlans == Short \cup Long

(* Plans with two approvals in a row, for the runs about signals.            *)
TwoApprovals == {
  <<Coder(1, {}), Coder(2, {})>>,
  <<Coder(1, {}), Coder(2, {1})>> }

===========================================================================
