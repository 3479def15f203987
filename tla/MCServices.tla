----------------------------- MODULE MCServices -----------------------------
(* The levelling of plans and the small services in one run: a behaviour      *)
(* exercises one of them.                                                     *)
EXTENDS PlanLevels, ModelConfig, Registration, MorningBrief, CliClient, Sandbox, Skills
CONSTANTS c1, c2, MaxHits
VARIABLE part
MCTickers == <<c1, c2>>
\* Every plan of up to three steps: repeated ids, dangling dependencies and
\* cycles included.
MCPlans ==
  UNION {[1 .. n -> [id : Ids, agent : Agents, deps : SUBSET Ids, approval : {FALSE}]] : n \in 0 .. 3}
Parts == {"levels", "config", "accounts", "brief", "cli", "sandbox", "skills"}
MCInit ==
  /\ CfInit /\ RgInit /\ BrInit /\ ClInit /\ SbInit
  /\ part \in Parts
  /\ \E p \in Plans : LevelsInit(p)
  /\ part # "levels" => plan = <<>>
  /\ part # "config" => cfMaster
  /\ skHits \in UNION {[1 .. n -> 0 .. MaxHits] : n \in 0 .. 5}
  /\ part # "skills" => skHits = <<>>
Only(p) ==
  /\ part = p /\ UNCHANGED <<part, skHits>>
  /\ p # "levels" => UNCHANGED levelVars
  /\ p # "config" => UNCHANGED cfVars
  /\ p # "accounts" => UNCHANGED rgVars
  /\ p # "brief" => UNCHANGED brVars
  /\ p # "cli" => UNCHANGED clVars
  /\ p # "sandbox" => UNCHANGED sbVars
MCNext ==
  \/ Only("levels") /\ BuildLevel
  \/ Only("config") /\ CfNext
  \/ Only("accounts") /\ RgNext
  \/ Only("brief") /\ BrNext
  \/ Only("cli") /\ ClNext
  \/ Only("sandbox") /\ SbNext
vars == <<part, skHits, levelVars, cfVars, rgVars, brVars, clVars, sbVars>>
MCSpec == /\ MCInit /\ [][MCNext]_vars
          /\ WF_vars(Only("brief") /\ Ingest) /\ WF_vars(Only("cli") /\ Receive)
\* A day's ingestion ends, and the terminal client reads every frame.
ServicesEnd == RunEnds /\ FramesAreRead
=============================================================================
