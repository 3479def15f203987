---------------------------- MODULE ModelConfig ----------------------------
(***************************************************************************)
(* The model each user chose for each agent (http/config_handler.go,       *)
(* persistence/config_repo.go), and the client an agent's call is made     *)
(* with (usecase.GetLLMClient, llm.LLMFactory, domain.LookupModelInfo).    *)
(***************************************************************************)
EXTENDS KeyVault

CONSTANTS AgentTypes, \* Supervisor, Researcher, Coder
          CfAbsent    \* no row

VARIABLES
  cfMaster,    \* the running process has the master key
  cfEverClear, \* history: some process ran without it
  cfRows       \* the user_model_configs table, keyed by user and agent

cfVars == <<cfMaster, cfEverClear, cfRows>>

\* A model_name is in AvailableModels, is another name, or is empty; a
\* base_url is given or empty.
CfRow == [key: Keys, model: {"listed", "other", ""},
          url: {"given", ""}]
NoRow == [key |-> NoKey, model |-> "", url |-> ""]

CfInit ==
  /\ cfMaster \in BOOLEAN /\ cfEverClear = ~cfMaster
  /\ cfRows = [u \in Users |-> [a \in AgentTypes |-> CfAbsent]]

\* POST /config: db.Save writes the whole row, so a request with an empty
\* api_key removes the stored one.
SaveConfig(u, a, k, model, url) ==
  /\ cfRows' = [cfRows EXCEPT ![u][a] =
       [key |-> Encrypt(k, cfMaster), model |-> model, url |-> url]]
  /\ UNCHANGED <<cfMaster, cfEverClear>>

\* DELETE /config
DeleteConfig(u, a) ==
  /\ cfRows[u][a] # CfAbsent
  /\ cfRows' = [cfRows EXCEPT ![u][a] = CfAbsent]
  /\ UNCHANGED <<cfMaster, cfEverClear>>

CfRestart(m) ==
  /\ cfMaster' = m
  /\ cfEverClear' = (cfEverClear \/ ~m)
  /\ UNCHANGED cfRows

CfNext ==
  \/ \E u \in Users, a \in AgentTypes :
       \/ \E k \in {NoKey, Given(u)}, model \in {"listed", "other", ""},
             url \in {"given", ""} : SaveConfig(u, a, k, model, url)
       \/ DeleteConfig(u, a)
  \/ \E m \in BOOLEAN : CfRestart(m)

CfSpec == CfInit /\ [][CfNext]_cfVars

-----------------------------------------------------------------------------
\* Reads

Saved(u, a) == cfRows[u][a] # CfAbsent

\* GetConfig uses Find: no row is not an error but an empty configuration.
CanGetConfig(u, a) == Saved(u, a) => CanDecrypt(cfRows[u][a].key, cfMaster)
GetConfig(u, a) ==
  IF Saved(u, a) THEN [cfRows[u][a] EXCEPT !.key = Decrypt(@, cfMaster)] ELSE NoRow

\* GET /config answers with every row decrypted, or with an error.
CanGetAll(u) == \A a \in AgentTypes : CanGetConfig(u, a)

\* LookupModelInfo: the base URL of a listed model.
BaseURL(cfg) ==
  IF cfg.url # "" THEN cfg.url ELSE IF cfg.model = "listed" THEN "registry" ELSE ""

\* Mutation: a missing key is left to CreateClient.
AlwaysConfigured(u, a) ==
  LET cfg == IF CanGetConfig(u, a) THEN GetConfig(u, a) ELSE NoRow
  IN [key |-> CreateClient(cfg.key), model |-> cfg.model, url |-> BaseURL(cfg)]

\* GetLLMClient: an unreadable configuration is passed over in silence, and a
\* configuration without a key gives the default client whatever its model.
LLMClient(u, a) ==
  LET cfg == IF CanGetConfig(u, a) THEN GetConfig(u, a) ELSE NoRow
      default == [key |-> Given(System), model |-> "default", url |-> "default"]
  IN IF IsBlank(cfg.key) THEN default
     ELSE [key |-> CreateClient(cfg.key), model |-> cfg.model, url |-> BaseURL(cfg)]

-----------------------------------------------------------------------------
\* Properties

CfTypeOK ==
  /\ cfMaster \in BOOLEAN /\ cfEverClear \in BOOLEAN
  /\ cfRows \in [Users -> [AgentTypes -> CfRow \cup {CfAbsent}]]

\* A saved key works: as long as every process had the master key, each key a
\* user saved last is the one, in clear, that the agent's calls are made with,
\* through overwrites, deletes and restarts, and the user's list can be read.
SavedKeysWork ==
  ~cfEverClear => \A u \in Users :
    /\ CanGetAll(u)
    /\ \A a \in AgentTypes : Saved(u, a) /\ ~IsBlank(cfRows[u][a].key) =>
         LLMClient(u, a).key = Given(u)

\* A client never mixes two sources: the server's key goes with the server's
\* model and URL only, and a user's key (sealed or not) to no other user.
ClientFromOneSource ==
  \A u \in Users, a \in AgentTypes :
    LET c == LLMClient(u, a)
    IN IF c.key.of = System THEN c.model = "default" /\ c.url = "default"
       ELSE c.key.of = u /\ c.model # "default" /\ c.url # "default"

\* Each call is made on the key its user saved, and with that key's model.
ModelCalls == SavedKeysWork /\ ClientFromOneSource
=============================================================================
