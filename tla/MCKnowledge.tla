---------------------------- MODULE MCKnowledge ----------------------------
EXTENDS Ingestion, Research
CONSTANTS u1, u2, j1, j2, j3, m1, a, b
MCJobOwner == [j \in {j1, j2, j3} |-> IF j = j2 THEN u2 ELSE u1]
\* A line too long on its own, a blank one, two that fit together; no line.
MCText == [j \in Jobs |-> CASE j = j1 -> <<9, 0, 2, 2>> [] j = j2 -> <<3, 3>>
                            [] j = j3 -> <<0>> [] j = m1 -> <<2, 5>>]
MCExtracted == [j \in Jobs |-> [ents |-> {a, b},
                                rels |-> IF j = j2 THEN {<<b, a>>} ELSE {<<a, b>>}]]
MCContainedIn == {<<a, a>>, <<b, b>>, <<a, b>>}
\* Half of the behaviours ask next to an ingestion without faults.
VARIABLE asked
MCInit == KnInit /\ IgInit /\ RsInit /\ asked \in BOOLEAN
MCNext ==
  /\ UNCHANGED asked
  /\ \/ IgNext /\ UNCHANGED rsVars /\ (asked => igFaults' = 0 /\ igJob'[j1] = "new" /\ igJob'[j3] = "new")
     \/ asked /\ RsNext /\ UNCHANGED igVars
vars == <<knVars, igVars, rsVars, asked>>
Ingests(A) == A /\ UNCHANGED rsVars /\ UNCHANGED asked
MCSpec ==
  /\ MCInit /\ [][MCNext]_vars
  /\ \A j \in Uploads : WF_vars(Ingests(SubmitJob(j)))
  /\ \A r \in Runners : WF_vars(Ingests(Runs(r)))
=============================================================================
