---------------------------- MODULE MCBlueprints ----------------------------
EXTENDS BlueprintStore, TLC
CONSTANTS n1, n2, b1, b2
MCConfigs ==
  LET Config(k, i, t, n) == [key |-> k, id |-> i, type |-> t, node |-> n]
  IN {Config("given", n2, "LLM", "given"), Config("none", n1, "LLM", "none"),
      Config("none", n1, "Router", "given"), Config("keep", n1, "LLM", "keep")}
MCMaxVersion == [b \in BpIds |-> 2]
MCMaxBusy == [b \in BpIds |-> IF b = b1 THEN 2 ELSE 1]
Symmetry == Permutations(Users) \cup Permutations(Requests)
=============================================================================
