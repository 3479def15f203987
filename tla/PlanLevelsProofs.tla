------------------------- MODULE PlanLevelsProofs -------------------------
(* Proofs about buildLevels, for every plan.                                *)
EXTENDS PlanLevels, TLAPS

LevelsInv ==
  /\ LevelsTypeOK
  /\ EachStepOnce
  /\ DependenciesEarlier

(* The fallback of buildLevels (place everything that is left) never        *)
(* applies to a well-formed plan.                                           *)
LEMMA SomeStepReady ==
  ASSUME LevelsTypeOK, WellFormed(plan), placed # Steps
  PROVE  Ready # {}
<1> DEFINE Left == Steps \ placed
<1>1. Left \in SUBSET Steps /\ Left # {}
  BY DEF LevelsTypeOK
<1>2. PICK i \in Left : Waits(plan, i) \cap Left = {}
  BY <1>1 DEF WellFormed, Acyclic, Steps
<1>3. plan[i].deps \subseteq CompletedIDs
  BY <1>1, <1>2 DEF WellFormed, NoMissingDep, Waits, CompletedIDs, Steps
<1> QED
  BY <1>2, <1>3 DEF Ready

(* A level is a non-empty set of unplaced steps.                            *)
LEMMA NextLevelFresh ==
  ASSUME LevelsTypeOK, placed # Steps
  PROVE  /\ NextLevel \subseteq Steps \ placed
         /\ NextLevel # {}
BY DEF LevelsTypeOK, NextLevel, Ready

(* In a well-formed plan the steps a ready step waits for are all placed:   *)
(* their ids are completed, and no other step bears these ids.              *)
LEMMA ReadyWaitsPlaced ==
  ASSUME LevelsTypeOK, WellFormed(plan), NEW i \in Ready
  PROVE  Waits(plan, i) \subseteq placed
BY DEF LevelsTypeOK, WellFormed, UniqueIds, Waits, Ready, CompletedIDs, Steps

LEMMA LevelsInvInit ==
  ASSUME NEW p \in Seq(PlanStep), LevelsInit(p)
  PROVE  LevelsInv
BY DEF LevelsInit, LevelsInv, LevelsTypeOK, EachStepOnce, DependenciesEarlier

(* One iteration of the loop keeps the invariant.                           *)
LEMMA LevelsInvStep ==
  ASSUME LevelsInv, BuildLevel
  PROVE  LevelsInv'
<1> DEFINE n == Len(levels)
<1> USE DEF LevelsInv
<1>1. /\ NextLevel \subseteq Steps \ placed
      /\ NextLevel # {}
  BY NextLevelFresh DEF BuildLevel
<1>2. /\ n \in Nat
      /\ DOMAIN levels = 1..n
      /\ DOMAIN levels' = 1..(n + 1)
      /\ levels'[n + 1] = NextLevel
      /\ \A k \in 1..n : levels'[k] = levels[k]
  BY <1>1 DEF BuildLevel, LevelsTypeOK
<1>3. plan' = plan /\ Steps' = Steps /\ placed' = placed \cup NextLevel
  BY DEF BuildLevel, Steps
<1>4. LevelsTypeOK'
  BY <1>1, <1>3 DEF LevelsTypeOK, BuildLevel
<1>5. EachStepOnce'
  <2>1. \A k \in DOMAIN levels : levels[k] \subseteq placed
    BY DEF EachStepOnce
  <2>2. placed' = UNION {levels'[k] : k \in DOMAIN levels'}
    <3>1. ASSUME NEW i \in placed' PROVE \E k \in DOMAIN levels' : i \in levels'[k]
      <4>1. CASE i \in placed
        BY <4>1, <1>2 DEF EachStepOnce
      <4>2. CASE i \in NextLevel
        BY <4>2, <1>2
      <4> QED
        BY <4>1, <4>2, <1>3
    <3>2. ASSUME NEW k \in DOMAIN levels' PROVE levels'[k] \subseteq placed'
      BY <1>2, <1>3, <2>1
    <3> QED
      BY <3>1, <3>2
  <2>3. \A k \in DOMAIN levels' : levels'[k] # {}
    BY <1>1, <1>2 DEF EachStepOnce
  <2>4. \A k, l \in DOMAIN levels' : k # l => levels'[k] \cap levels'[l] = {}
    BY <1>1, <1>2, <2>1 DEF EachStepOnce
  <2> QED
    BY <2>2, <2>3, <2>4 DEF EachStepOnce
<1>6. DependenciesEarlier'
  <2> SUFFICES ASSUME WellFormed(plan), NEW k \in DOMAIN levels', NEW i \in levels'[k],
                      NEW j \in Waits(plan, i)
               PROVE  \E l \in DOMAIN levels' : l < k /\ j \in levels'[l]
    BY <1>3 DEF DependenciesEarlier
  <2>1. CASE k \in 1..n
    BY <2>1, <1>2 DEF DependenciesEarlier
  <2>2. CASE k = n + 1
    <3>1. i \in Ready
      BY <2>2, <1>2, SomeStepReady DEF BuildLevel, NextLevel
    <3>2. j \in placed
      BY <3>1, ReadyWaitsPlaced
    <3>3. PICK l \in DOMAIN levels : j \in levels[l]
      BY <3>2 DEF EachStepOnce
    <3> QED
      BY <3>3, <2>2, <1>2
  <2> QED
    BY <2>1, <2>2, <1>2
<1> QED
  BY <1>4, <1>5, <1>6

THEOREM LevelsInvariant == LevelsSpec => []LevelsInv
<1>1. (\E p \in Plans : LevelsInit(p)) => LevelsInv
  BY PlansAssumption, LevelsInvInit
<1>2. LevelsInv /\ [BuildLevel]_levelVars => LevelsInv'
  <2>1. CASE UNCHANGED levelVars
    BY <2>1 DEF levelVars, LevelsInv, LevelsTypeOK, EachStepOnce, DependenciesEarlier, Steps
  <2> QED
    BY <2>1, LevelsInvStep
<1> QED
  BY <1>1, <1>2, PTL DEF LevelsSpec

(* Types of buildLevels' variables, whatever the plan.                      *)
THEOREM LevelsTypeCorrect == LevelsSpec => []LevelsTypeOK
BY LevelsInvariant, PTL DEF LevelsInv

(* buildLevels never loses a step or places one twice, whatever the plan.   *)
THEOREM StepsPlacedOnce == LevelsSpec => []EachStepOnce
BY LevelsInvariant, PTL DEF LevelsInv

(* In a well-formed plan of any length, what a step waits for is in an      *)
(* earlier level.                                                           *)
THEOREM DependenciesComeEarlier == LevelsSpec => []DependenciesEarlier
BY LevelsInvariant, PTL DEF LevelsInv

---------------------------------------------------------------------------
(* Why no step comes late: an unplaced step of a well-formed plan waits for *)
(* one of the last level or for one that is unplaced too.                   *)
HeldBack ==
  WellFormed(plan) /\ levels # <<>> =>
    \A i \in Steps \ placed :
      Waits(plan, i) \cap (levels[Len(levels)] \cup (Steps \ placed)) # {}

EarlyInv == HeldBack /\ AsEarlyAsPossible

LEMMA NotReadyWaits ==
  ASSUME LevelsTypeOK, WellFormed(plan), NEW i \in (Steps \ placed) \ Ready
  PROVE  Waits(plan, i) \ placed # {}
<1>1. PICK d \in plan[i].deps : d \notin CompletedIDs
  BY DEF Ready
<1>2. PICK j \in Steps : plan[j].id = d
  BY <1>1 DEF WellFormed, NoMissingDep, Steps
<1>3. j \notin placed
  BY <1>1, <1>2 DEF CompletedIDs
<1> QED
  BY <1>1, <1>2, <1>3 DEF Waits, Steps

LEMMA EarlyInvStep ==
  ASSUME LevelsInv, EarlyInv, BuildLevel
  PROVE  EarlyInv'
<1> DEFINE n == Len(levels)
<1>1. /\ plan' = plan /\ Steps' = Steps /\ placed' = placed \cup NextLevel
      /\ NextLevel \subseteq Steps \ placed /\ LevelsTypeOK /\ placed # Steps
  BY NextLevelFresh DEF BuildLevel, LevelsInv, Steps
<1>2. /\ n \in Nat
      /\ DOMAIN levels = 1..n
      /\ DOMAIN levels' = 1..(n + 1)
      /\ Len(levels') = n + 1
      /\ levels'[n + 1] = NextLevel
      /\ \A k \in 1..n : levels'[k] = levels[k]
  BY <1>1 DEF BuildLevel, LevelsTypeOK
<1>3. SUFFICES ASSUME WellFormed(plan) PROVE EarlyInv'
  BY <1>1 DEF EarlyInv, HeldBack, AsEarlyAsPossible
<1>4. NextLevel = Ready
  BY <1>1, <1>3, SomeStepReady DEF NextLevel
<1>5. HeldBack'
  <2>1. ASSUME NEW i \in Steps \ (placed \cup NextLevel)
        PROVE  Waits(plan, i) \cap (NextLevel \cup (Steps \ (placed \cup NextLevel))) # {}
    <3>1. PICK j \in Waits(plan, i) : j \notin placed
      BY <1>1, <1>3, <1>4, <2>1, NotReadyWaits
    <3> QED
      BY <3>1 DEF Waits, Steps
  <2> QED
    BY <1>1, <1>2, <2>1 DEF HeldBack
<1>6. AsEarlyAsPossible'
  <2> SUFFICES ASSUME NEW k \in DOMAIN levels' \ {1}, NEW i \in levels'[k]
               PROVE  Waits(plan, i) \cap levels'[k - 1] # {}
    BY <1>1 DEF AsEarlyAsPossible
  <2>1. CASE k \in 1..n
    <3>1. k - 1 \in 1..n /\ i \in levels[k] /\ k \in DOMAIN levels \ {1}
      BY <1>2, <2>1
    <3> QED
      BY <1>2, <1>3, <3>1 DEF EarlyInv, AsEarlyAsPossible
  <2>2. CASE k = n + 1
    <3>1. n \in 1..n /\ levels # <<>>
      BY <1>2, <2>2
    <3>2. i \in Ready /\ i \in Steps \ placed
      BY <1>1, <1>2, <1>4, <2>2
    <3>3. PICK j \in Waits(plan, i) : j \in levels[n] \/ j \in Steps \ placed
      BY <1>3, <3>1, <3>2 DEF EarlyInv, HeldBack
    <3>4. j \in levels[n]
      BY <1>1, <1>3, <3>2, <3>3, ReadyWaitsPlaced
    <3> QED
      BY <1>2, <2>2, <3>1, <3>3, <3>4
  <2> QED
    BY <1>2, <2>1, <2>2
<1> QED
  BY <1>5, <1>6 DEF EarlyInv

(* In a well-formed plan of any length, no step is placed later than its    *)
(* dependencies demand: buildLevels finds all the parallelism there is.     *)
THEOREM StepsComeEarly == LevelsSpec => []AsEarlyAsPossible
<1>1. (\E p \in Plans : LevelsInit(p)) => EarlyInv
  BY DEF LevelsInit, EarlyInv, HeldBack, AsEarlyAsPossible
<1>2. LevelsInv /\ EarlyInv /\ [BuildLevel]_levelVars => EarlyInv'
  <2>1. CASE UNCHANGED levelVars
    BY <2>1 DEF levelVars, EarlyInv, HeldBack, AsEarlyAsPossible, Steps
  <2> QED
    BY <2>1, EarlyInvStep
<1>3. EarlyInv => AsEarlyAsPossible
  BY DEF EarlyInv
<1> QED
  BY <1>1, <1>2, <1>3, LevelsInvariant, PTL DEF LevelsSpec
===========================================================================
