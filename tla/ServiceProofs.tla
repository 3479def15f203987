---------------------------- MODULE ServiceProofs ---------------------------
(***************************************************************************)
(* Accounts, the sandbox, the users' models, the daily brief, the graph,   *)
(* the reports and the documents: the safety properties of the services,   *)
(* for any users, requests, tickers, jobs, texts, names and bounds.        *)
(***************************************************************************)
EXTENDS Registration, Sandbox, ModelConfig, MorningBrief, Ingestion, Research,
        AlgorithmProofs

-----------------------------------------------------------------------------
\* Accounts.  A token keeps naming the row it was earned with, since rows are
\* only added: the strengthening forgets that tokens expire.
TokensNameRows ==
  \A t \in rgTokens : [id |-> t.user, email |-> t.email, password |-> t.password] \in rgUsers

AccountsInv == OneAccountPerEmail /\ TokensNameRows

LEMMA AccountsInit == RgInit => AccountsInv
BY DEF RgInit, AccountsInv, OneAccountPerEmail, TokensNameRows

LEMMA CreateKeepsAccounts ==
  ASSUME AccountsInv, NEW r \in RgRequests, RegisterCreate(r)
  PROVE  AccountsInv'
<1> DEFINE f == rgFlight[r]
<1>1. CASE ~IndexAllows(f.email)
  <2>1. UNCHANGED <<rgUsers, rgTokens>>
    BY <1>1 DEF RegisterCreate
  <2> QED
    BY <2>1 DEF AccountsInv, OneAccountPerEmail, TokensNameRows
<1>2. CASE IndexAllows(f.email)
  <2>1. PICK id \in Accounts : rgUsers' = rgUsers \cup {[id |-> id, email |-> f.email, password |-> f.password]}
    BY <1>2 DEF RegisterCreate
  <2>2. \A row \in rgUsers : row.email # f.email
    BY <1>2 DEF IndexAllows, ByEmail
  <2>3. OneAccountPerEmail'
    BY <2>1, <2>2 DEF AccountsInv, OneAccountPerEmail
  <2>4. TokensNameRows'
    BY <2>1 DEF RegisterCreate, AccountsInv, TokensNameRows
  <2> QED
    BY <2>3, <2>4 DEF AccountsInv
<1> QED
  BY <1>1, <1>2

LEMMA LoginKeepsAccounts ==
  ASSUME RgTypeOK, AccountsInv, NEW e \in Emails, NEW p \in Passwords, Login(e, p)
  PROVE  AccountsInv'
<1>1. PICK row \in ByEmail(e) :
        /\ row.password = p
        /\ rgTokens' = rgTokens \cup {[user |-> row.id, email |-> e, password |-> p,
                                       expires |-> rgNow + TokenLife]}
  BY DEF Login
<1>2. row \in rgUsers /\ row.email = e
  BY DEF ByEmail
<1>3. row = [id |-> row.id, email |-> e, password |-> p]
  BY <1>1, <1>2 DEF RgTypeOK, UserRow
<1>4. UNCHANGED rgUsers
  BY DEF Login
<1> DEFINE new == [user |-> row.id, email |-> e, password |-> p, expires |-> rgNow + TokenLife]
<1>5. ASSUME NEW t \in rgTokens'
      PROVE  [id |-> t.user, email |-> t.email, password |-> t.password] \in rgUsers
  <2>1. CASE t = new
    <3>1. t.user = row.id /\ t.email = e /\ t.password = p
      BY <2>1
    <3> QED
      BY <1>2, <1>3, <3>1
  <2>2. CASE t \in rgTokens
    BY <2>2 DEF AccountsInv, TokensNameRows
  <2> QED
    BY <1>1, <2>1, <2>2
<1>6. TokensNameRows'
  BY <1>4, <1>5 DEF TokensNameRows
<1> QED
  BY <1>4, <1>6 DEF AccountsInv, OneAccountPerEmail

LEMMA AccountsTypeStep ==
  ASSUME RgTypeOK, [RgNext]_rgVars
  PROVE  RgTypeOK'
<1> USE RgAssumption DEF RgTypeOK
<1>1. CASE UNCHANGED rgVars
  BY <1>1 DEF rgVars
<1>2. ASSUME NEW r \in RgRequests, NEW e \in Emails, NEW p \in Passwords, RegisterCheck(r, e, p)
      PROVE  RgTypeOK'
  <2>1. rgFlight' = [rgFlight EXCEPT ![r] = [phase |-> "hashed", email |-> e, password |-> p]]
    BY <1>2 DEF RegisterCheck
  <2>2. rgFlight' \in [RgRequests -> Flight]
    BY <2>1 DEF Flight
  <2> QED
    BY <1>2, <2>2 DEF RegisterCheck
<1>3. ASSUME NEW r \in RgRequests, RegisterCreate(r) PROVE RgTypeOK'
  <2>1. rgFlight' \in [RgRequests -> Flight]
    BY <1>3 DEF RegisterCreate, Flight
  <2>2. rgFlight[r] # RgIdle
    BY <1>3 DEF RegisterCreate, RgIdle
  <2>3. rgUsers' \subseteq UserRow
    BY <1>3, <2>2 DEF RegisterCreate, Flight, UserRow, RgIdle
  <2> QED
    BY <1>3, <2>1, <2>3 DEF RegisterCreate
<1>4. ASSUME NEW e \in Emails, NEW p \in Passwords, Login(e, p) PROVE RgTypeOK'
  <2>1. PICK row \in ByEmail(e) :
          rgTokens' = rgTokens \cup {[user |-> row.id, email |-> e, password |-> p,
                                      expires |-> rgNow + TokenLife]}
    BY <1>4 DEF Login
  <2>2. row.id \in Accounts
    BY DEF ByEmail, UserRow
  <2>3. rgTokens' \subseteq Token
    BY <1>4, <2>1, <2>2 DEF Token
  <2> QED
    BY <1>4, <2>3 DEF Login
<1>5. CASE Tick
  BY <1>5 DEF Tick
<1> QED
  BY <1>1, <1>2, <1>3, <1>4, <1>5 DEF RgNext

\* Types of the table, the tokens and the registrations in flight.
THEOREM AccountsTypeCorrect == RgSpec => []RgTypeOK
<1>1. RgInit => RgTypeOK
  BY RgAssumption DEF RgInit, RgTypeOK, Flight
<1> QED
  BY <1>1, AccountsTypeStep, PTL DEF RgSpec

\* However many registrations overlap between their look-up and their insert,
\* an address has one account, and an accepted token speaks for the account of
\* the address and password it was earned with.
THEOREM AccountsStayOne == RgSpec => []AccountsAreOne
<1>1. ASSUME RgTypeOK, AccountsInv, [RgNext]_rgVars PROVE AccountsInv'
  <2>1. CASE UNCHANGED rgVars
    BY <1>1, <2>1 DEF rgVars, AccountsInv, OneAccountPerEmail, TokensNameRows
  <2>2. ASSUME NEW r \in RgRequests, NEW e \in Emails, NEW p \in Passwords, RegisterCheck(r, e, p)
        PROVE  AccountsInv'
    BY <1>1, <2>2 DEF RegisterCheck, AccountsInv, OneAccountPerEmail, TokensNameRows
  <2>3. CASE Tick
    BY <1>1, <2>3 DEF Tick, AccountsInv, OneAccountPerEmail, TokensNameRows
  <2> QED
    BY <1>1, <2>1, <2>2, <2>3, CreateKeepsAccounts, LoginKeepsAccounts DEF RgNext
<1>2. RgTypeOK /\ AccountsInv => AccountsAreOne
  <2> SUFFICES ASSUME RgTypeOK, AccountsInv PROVE TokensSpeakForTheirLogin
    BY DEF AccountsInv, AccountsAreOne
  <2>1. ASSUME NEW t \in rgTokens
        PROVE  ByEmail(t.email) = {[id |-> t.user, email |-> t.email, password |-> t.password]}
    <3> DEFINE named == [id |-> t.user, email |-> t.email, password |-> t.password]
    <3>1. named \in rgUsers /\ named.email = t.email
      BY DEF AccountsInv, TokensNameRows
    <3>2. \A row \in rgUsers : row.email = t.email => row = named
      BY <3>1 DEF AccountsInv, OneAccountPerEmail
    <3> HIDE DEF named
    <3>3. ByEmail(t.email) = {named}
      BY <3>1, <3>2 DEF ByEmail
    <3> QED
      BY <3>3 DEF named
  <2> QED
    BY <2>1 DEF TokensSpeakForTheirLogin
<1> QED
  BY <1>1, <1>2, AccountsInit, AccountsTypeCorrect, PTL DEF RgSpec

-----------------------------------------------------------------------------
\* The sandbox.

BeforeCopy == {"create", "start", "wait", "logs"}
SandboxPhases == BeforeCopy \cup {"copy", "remove", "returned"}

\* What each phase of RunPython may rely on.
SandboxInv ==
  /\ sbPhase \in SandboxPhases
  /\ sbLines \in Seq(SbNames) /\ sbFiles \in Seq(SbNames) /\ sbLeaks \in Nat
  /\ sbPhase = "create" => sbContainer = "none"
  /\ sbPhase \in BeforeCopy => sbFiles = <<>>
  /\ sbPhase \in BeforeCopy \cup {"copy"} => sbResult = "none"
  /\ ToSet(sbFiles) \subseteq sbFound
  /\ SandboxClean

LEMMA SandboxStart == SbInit => SandboxInv
BY DEF SbInit, SandboxInv, SandboxPhases, BeforeCopy, SandboxClean, IsInjective, ToSet

\* A return before any file was copied.
LEMMA ReturnIsClean ==
  ASSUME SandboxInv, sbPhase \in BeforeCopy, Return("error"),
         UNCHANGED <<sbLines, sbFound, sbDisk, sbFiles, sbLeaks>>
  PROVE  SandboxInv'
BY DEF Return, SandboxInv, SandboxPhases, BeforeCopy, SandboxClean, IsInjective, ToSet

\* A container that nobody removes is counted.
LEMMA CreateKeepsSandbox ==
  ASSUME SandboxInv, NEW o \in {"ok", "failed", "lost"}, ContainerCreate(o)
  PROVE  SandboxInv'
<1>1. CASE o = "lost"
  <2>1. sbLeaks' \in Nat /\ sbLeaks' > 0
    BY <1>1 DEF ContainerCreate, Leak, SandboxInv
  <2> QED
    BY <1>1, <2>1
       DEF ContainerCreate, sbCopy, SandboxInv, SandboxPhases, BeforeCopy, SandboxClean
<1>2. CASE o # "lost"
  BY <1>2 DEF ContainerCreate, sbCopy, SandboxInv, SandboxPhases, BeforeCopy, SandboxClean
<1> QED
  BY <1>1, <1>2

LEMMA CallsKeepSandbox ==
  ASSUME SandboxInv, NEW ok \in BOOLEAN, ContainerStart(ok) \/ ContainerRemove(ok)
  PROVE  SandboxInv'
<1>2. CASE ContainerStart(ok)
  BY <1>2, ReturnIsClean
     DEF ContainerStart, sbCopy, SandboxInv, SandboxPhases, BeforeCopy, SandboxClean
<1>3. CASE ContainerRemove(ok)
  BY <1>3 DEF ContainerRemove, Leak, sbCopy, SandboxInv, SandboxPhases, BeforeCopy, SandboxClean
<1> QED
  BY <1>2, <1>3

LEMMA WaitKeepsSandbox ==
  ASSUME SandboxInv, NEW ended \in {"status", "error", "timeout"}, ContainerWait(ended)
  PROVE  SandboxInv'
BY ReturnIsClean DEF ContainerWait, sbCopy, SandboxInv, SandboxPhases, BeforeCopy, SandboxClean

LEMMA LogsKeepSandbox ==
  ASSUME SandboxInv, NEW ok \in BOOLEAN, ReadLogs(ok)
  PROVE  SandboxInv'
<1>1. CASE ok
  <2>1. sbLines' \in Seq(SbNames)
    BY <1>1 DEF ReadLogs
  <2> QED
    BY <1>1, <2>1 DEF ReadLogs, SandboxInv, SandboxPhases, BeforeCopy, SandboxClean
<1>2. CASE ~ok
  BY <1>2, ReturnIsClean DEF ReadLogs, BeforeCopy
<1> QED
  BY <1>1, <1>2

\* A file that was found before is not appended again, and one that was not
\* found before is none of the files so far.
LEMMA CopyKeepsSandbox ==
  ASSUME SandboxInv, NEW copied \in {"yes", "no", "part"}, CopyFile(copied)
  PROVE  SandboxInv'
<1> DEFINE name == Head(sbLines)
<1>1. name \in SbNames /\ Tail(sbLines) \in Seq(SbNames) /\ sbPhase = "copy"
  BY DEF CopyFile, SandboxInv
<1>2. sbLines' = Tail(sbLines) /\ UNCHANGED <<sbPhase, sbContainer, sbResult, sbLeaks>>
  BY DEF CopyFile
<1>3. CASE name \in sbFound \/ copied # "yes"
  <2>1. sbFiles' = sbFiles /\ sbFound \subseteq sbFound' /\ sbDisk \subseteq sbDisk'
    BY <1>3 DEF CopyFile
  <2> QED
    BY <1>1, <1>2, <2>1 DEF SandboxInv, SandboxPhases, BeforeCopy, SandboxClean
<1>4. CASE name \notin sbFound /\ copied = "yes"
  <2>1. /\ sbFiles' = Append(sbFiles, name)
        /\ sbFound' = sbFound \cup {name}
        /\ sbDisk' = sbDisk \cup {[name |-> name, whole |-> TRUE]}
    BY <1>4 DEF CopyFile
  <2> HIDE DEF name
  <2>2. /\ sbFiles' \in Seq(SbNames) /\ Len(sbFiles') = Len(sbFiles) + 1
        /\ \A i \in 1 .. Len(sbFiles) : sbFiles'[i] = sbFiles[i]
        /\ sbFiles'[Len(sbFiles) + 1] = name
        /\ Len(sbFiles) \in Nat /\ DOMAIN sbFiles = 1 .. Len(sbFiles)
        /\ DOMAIN sbFiles' = 1 .. Len(sbFiles) + 1
    BY <1>1, <2>1 DEF SandboxInv
  <2>3. \A i \in 1 .. Len(sbFiles) : sbFiles[i] \in sbFound
    BY <2>2 DEF SandboxInv, ToSet
  <2>4. IsInjective(sbFiles')
    BY <1>4, <2>2, <2>3 DEF SandboxInv, SandboxClean, IsInjective
  <2>5. ToSet(sbFiles') = ToSet(sbFiles) \cup {name}
    BY <2>2 DEF ToSet
  <2> QED
    BY <1>1, <1>2, <2>1, <2>2, <2>4, <2>5
       DEF SandboxInv, SandboxPhases, BeforeCopy, SandboxClean
<1> QED
  BY <1>3, <1>4

LEMMA EndKeepsSandbox ==
  ASSUME SandboxInv, CopyEnds
  PROVE  SandboxInv'
BY DEF CopyEnds, Return, sbCopy, SandboxInv, SandboxPhases, BeforeCopy, SandboxClean

\* Whatever fails and whenever the time is over: a run of code leaves no
\* container unless its removal failed or the answer to its creation was lost,
\* and returns whole files, each once, or an error without files.
THEOREM SandboxStaysClean == SbSpec => []SandboxClean
<1>1. ASSUME SandboxInv, [SbNext]_sbVars PROVE SandboxInv'
  <2>1. CASE UNCHANGED sbVars
    BY <1>1, <2>1 DEF sbVars, sbCopy, SandboxInv, SandboxClean
  <2> QED
    BY <1>1, <2>1, CreateKeepsSandbox, CallsKeepSandbox, WaitKeepsSandbox, LogsKeepSandbox,
       CopyKeepsSandbox, EndKeepsSandbox DEF SbNext
<1>2. SandboxInv => SandboxClean
  BY DEF SandboxInv
<1> QED
  BY <1>1, <1>2, SandboxStart, PTL DEF SbSpec

-----------------------------------------------------------------------------
\* The users' models.

\* A row holds no key, or its user's; sealed once where every process had the
\* master key.
ConfigInv ==
  /\ CfTypeOK
  /\ cfEverClear = FALSE => cfMaster = TRUE
  /\ \A u \in Users, a \in AgentTypes : Saved(u, a) =>
       \/ cfRows[u][a].key = NoKey
       \/ /\ cfRows[u][a].key.of = u /\ cfRows[u][a].key.kind = "private"
          /\ cfEverClear = FALSE => cfRows[u][a].key.seals = 1

LEMMA Names == \A u \in Users : Given(u) \notin {NoKey, NoConf, MaskKey} /\ u # System
BY KeyNames DEF Given, NoKey, NoConf, MaskKey

LEMMA SealedKey ==
  ASSUME NEW u \in Users, NEW k \in {NoKey, Given(u)}, NEW on \in BOOLEAN
  PROVE  /\ Encrypt(k, on) \in Keys
         /\ \/ Encrypt(k, on) = NoKey
            \/ /\ Encrypt(k, on).of = u /\ Encrypt(k, on).kind = "private"
               /\ on = TRUE => Encrypt(k, on).seals = 1
<1>1. CASE k = NoKey
  BY <1>1 DEF Encrypt, IsBlank, Keys
<1>2. CASE k = Given(u)
  <2>1. ~IsBlank(k)
    BY <1>2, Names DEF IsBlank
  <2>2. Encrypt(k, on) = [of |-> u, kind |-> "private", seals |-> IF on THEN 1 ELSE 0]
    BY <1>2, <2>1 DEF Encrypt, Given
  <2> QED
    BY <2>2 DEF Keys
<1> QED
  BY <1>1, <1>2

LEMMA SaveKeepsConfig ==
  ASSUME ConfigInv, NEW u \in Users, NEW a \in AgentTypes, NEW k \in {NoKey, Given(u)},
         NEW model \in {"listed", "other", ""}, NEW url \in {"given", ""},
         SaveConfig(u, a, k, model, url)
  PROVE  ConfigInv'
<1> DEFINE row == [key |-> Encrypt(k, cfMaster), model |-> model, url |-> url]
<1>1. /\ cfRows' = [cfRows EXCEPT ![u][a] = row] /\ UNCHANGED <<cfMaster, cfEverClear>>
  BY DEF SaveConfig
<1>2. row \in CfRow
  BY SealedKey DEF CfRow, ConfigInv, CfTypeOK
<1>3. \/ row.key = NoKey
      \/ /\ row.key.of = u /\ row.key.kind = "private"
         /\ cfEverClear = FALSE => row.key.seals = 1
  <2>1. \/ Encrypt(k, cfMaster) = NoKey
        \/ /\ Encrypt(k, cfMaster).of = u /\ Encrypt(k, cfMaster).kind = "private"
           /\ cfMaster = TRUE => Encrypt(k, cfMaster).seals = 1
    <3>1. cfMaster \in BOOLEAN
      BY DEF ConfigInv, CfTypeOK
    <3> QED
      BY <3>1, SealedKey, Zenon
  <2>2. row.key = Encrypt(k, cfMaster)
    OBVIOUS
  <2>3. cfEverClear = FALSE => cfMaster = TRUE
    BY DEF ConfigInv
  <2> QED
    BY <2>1, <2>2, <2>3, Zenon
<1> HIDE DEF row
<1>4. CfTypeOK'
  BY <1>1, <1>2 DEF ConfigInv, CfTypeOK
<1>5. \A v \in Users, b \in AgentTypes :
        cfRows'[v][b] = IF v = u /\ b = a THEN row ELSE cfRows[v][b]
  BY <1>1 DEF ConfigInv, CfTypeOK
<1>6. ASSUME NEW v \in Users, NEW b \in AgentTypes, cfRows'[v][b] # CfAbsent
      PROVE  \/ cfRows'[v][b].key = NoKey
             \/ /\ cfRows'[v][b].key.of = v /\ cfRows'[v][b].key.kind = "private"
                /\ cfEverClear = FALSE => cfRows'[v][b].key.seals = 1
  <2>1. CASE v = u /\ b = a
    BY <1>3, <1>5, <2>1
  <2>2. CASE ~(v = u /\ b = a)
    <3>1. cfRows'[v][b] = cfRows[v][b]
      BY <1>5, <2>2
    <3>2. cfRows[v][b] # CfAbsent
      BY <1>6, <3>1
    <3>3. \/ cfRows[v][b].key = NoKey
          \/ /\ cfRows[v][b].key.of = v /\ cfRows[v][b].key.kind = "private"
             /\ cfEverClear = FALSE => cfRows[v][b].key.seals = 1
      BY <3>2, Zenon DEF ConfigInv, Saved
    <3> QED
      BY <3>1, <3>3, Zenon
  <2> QED
    BY <2>1, <2>2
<1>7. cfEverClear' = FALSE => cfMaster' = TRUE
  BY <1>1 DEF ConfigInv
<1>8. cfEverClear' = cfEverClear
  BY <1>1
<1>9. ASSUME NEW v \in Users, NEW b \in AgentTypes, Saved(v, b)'
      PROVE  \/ cfRows'[v][b].key = NoKey
             \/ /\ cfRows'[v][b].key.of = v /\ cfRows'[v][b].key.kind = "private"
                /\ cfEverClear' = FALSE => cfRows'[v][b].key.seals = 1
  BY <1>6, <1>8, <1>9, Zenon DEF Saved
<1> QED
  BY <1>4, <1>7, <1>9, Zenon DEF ConfigInv

LEMMA ConfigStep ==
  ASSUME ConfigInv, [CfNext]_cfVars
  PROVE  ConfigInv'
<1>1. CASE UNCHANGED cfVars
  BY <1>1 DEF cfVars, ConfigInv, CfTypeOK, Saved
<1>2. ASSUME NEW u \in Users, NEW a \in AgentTypes, DeleteConfig(u, a) PROVE ConfigInv'
  <2>1. \A v \in Users, b \in AgentTypes :
          cfRows'[v][b] = IF v = u /\ b = a THEN CfAbsent ELSE cfRows[v][b]
    BY <1>2 DEF DeleteConfig, ConfigInv, CfTypeOK
  <2>2. CfTypeOK'
    BY <1>2 DEF DeleteConfig, ConfigInv, CfTypeOK
  <2> QED
    BY <1>2, <2>1, <2>2 DEF DeleteConfig, ConfigInv, Saved
<1>3. ASSUME NEW m \in BOOLEAN, CfRestart(m) PROVE ConfigInv'
  BY <1>3 DEF CfRestart, ConfigInv, CfTypeOK, Saved
<1> QED
  BY <1>1, <1>2, <1>3, SaveKeepsConfig DEF CfNext

\* What a row that can be read gives.
LEMMA OpenedKey ==
  ASSUME ConfigInv, NEW u \in Users, NEW a \in AgentTypes, CanGetConfig(u, a),
         Saved(u, a), cfRows[u][a].key # NoKey
  PROVE  /\ GetConfig(u, a).key.of = u /\ ~IsBlank(GetConfig(u, a).key)
         /\ ~IsBlank(cfRows[u][a].key)
         /\ cfEverClear = FALSE => GetConfig(u, a).key = Given(u)
<1> DEFINE key == cfRows[u][a].key
<1>1. cfRows[u][a] \in CfRow
  BY DEF ConfigInv, CfTypeOK, Saved
<1>2. key \in Keys /\ key.of = u /\ key.kind = "private"
  BY <1>1 DEF ConfigInv, CfRow
<1>3. ~IsBlank(key) /\ key \in [of: Users \cup {"mask"}, kind: {"private", "bare"}, seals: Nat]
  BY <1>2, KeyNames DEF IsBlank, Keys, NoKey, NoConf, MaskKey
<1>4. GetConfig(u, a).key = Decrypt(key, cfMaster)
  BY <1>1 DEF GetConfig, CfRow
<1>5. Decrypt(key, cfMaster) = IF cfMaster THEN [of |-> u, kind |-> "private", seals |-> key.seals - 1]
                            ELSE key
  BY <1>2, <1>3 DEF Decrypt, ConfigInv, CfTypeOK
<1>6. cfEverClear = FALSE => cfMaster = TRUE /\ key.seals = 1
  BY DEF ConfigInv
<1> HIDE DEF key
<1>7. Decrypt(key, cfMaster).of = u /\ ~IsBlank(Decrypt(key, cfMaster))
  BY <1>2, <1>3, <1>5, KeyNames DEF IsBlank, NoKey, NoConf
<1> QED
  BY <1>3, <1>4, <1>5, <1>6, <1>7 DEF Given, key
\* Through overwrites, deletes and restarts, a saved key is the one its user's
\* calls are made with, as long as every process had the master key; and no
\* call mixes the server's key or address with a user's.
THEOREM ModelCallsAreSound == CfSpec => []ModelCalls
<1>1. CfInit => ConfigInv
  <2> SUFFICES ASSUME CfInit PROVE ConfigInv
    OBVIOUS
  <2>1. CfTypeOK
    BY DEF CfInit, CfTypeOK
  <2>2. \A u \in Users, a \in AgentTypes : ~Saved(u, a)
    BY DEF CfInit, Saved
  <2> QED
    BY <2>1, <2>2 DEF CfInit, ConfigInv
<1>2. ASSUME ConfigInv PROVE SavedKeysWork
  <2> SUFFICES ASSUME ~cfEverClear, NEW u \in Users
               PROVE  /\ CanGetAll(u)
                      /\ \A a \in AgentTypes : Saved(u, a) /\ ~IsBlank(cfRows[u][a].key) =>
                           LLMClient(u, a).key = Given(u)
    BY DEF SavedKeysWork
  <2>1. ASSUME NEW a \in AgentTypes PROVE CanGetConfig(u, a)
    BY <1>2 DEF ConfigInv, CanGetConfig, CanDecrypt, IsBlank
  <2>2. ASSUME NEW a \in AgentTypes, Saved(u, a), ~IsBlank(cfRows[u][a].key)
        PROVE  LLMClient(u, a).key = Given(u)
    <3>1. GetConfig(u, a).key = Given(u) /\ ~IsBlank(GetConfig(u, a).key)
      BY <1>2, <2>1, <2>2, OpenedKey DEF ConfigInv, CfTypeOK, IsBlank
    <3> QED
      BY <2>1, <3>1 DEF LLMClient, CreateClient
  <2> QED
    BY <2>1, <2>2 DEF CanGetAll
<1>3. ASSUME ConfigInv PROVE ClientFromOneSource
  <2> SUFFICES ASSUME NEW u \in Users, NEW a \in AgentTypes
               PROVE  IF LLMClient(u, a).key.of = System
                      THEN LLMClient(u, a).model = "default" /\ LLMClient(u, a).url = "default"
                      ELSE /\ LLMClient(u, a).key.of = u
                           /\ LLMClient(u, a).model # "default" /\ LLMClient(u, a).url # "default"
    BY DEF ClientFromOneSource
  <2> DEFINE cfg == IF CanGetConfig(u, a) THEN GetConfig(u, a) ELSE NoRow
  <2>1. CASE IsBlank(cfg.key)
    <3>1. LLMClient(u, a) = [key |-> Given(System), model |-> "default", url |-> "default"]
      BY <2>1 DEF LLMClient
    <3> QED
      BY <3>1 DEF Given
  <2>2. CASE ~IsBlank(cfg.key)
    <3>1. CanGetConfig(u, a) /\ Saved(u, a) /\ cfRows[u][a].key # NoKey
      <4>1. NoRow.key = NoKey /\ IsBlank(NoKey) /\ Decrypt(NoKey, cfMaster) = NoKey
        BY DEF NoRow, IsBlank, Decrypt
      <4>2. cfRows[u][a] # CfAbsent => cfRows[u][a] \in CfRow
        BY <1>3 DEF ConfigInv, CfTypeOK
      <4> QED
        BY <2>2, <4>1, <4>2 DEF GetConfig, Saved, CfRow
    <3>2. cfg = GetConfig(u, a) /\ cfg.key.of = u
      BY <1>3, <3>1, OpenedKey
    <3>3. cfg.model \in {"listed", "other", ""} /\ cfg.url \in {"given", ""}
      <4>1. cfRows[u][a] \in CfRow
        BY <1>3, <3>1 DEF ConfigInv, CfTypeOK, Saved
      <4>2. GetConfig(u, a) = [cfRows[u][a] EXCEPT !.key = Decrypt(cfRows[u][a].key, cfMaster)]
        BY <3>1 DEF GetConfig
      <4>3. /\ GetConfig(u, a).model = cfRows[u][a].model
            /\ GetConfig(u, a).url = cfRows[u][a].url
        BY <4>1, <4>2 DEF CfRow
      <4> HIDE DEF cfg
      <4> QED
        BY <3>2, <4>1, <4>3 DEF CfRow
    <3>4. LLMClient(u, a) = [key |-> CreateClient(cfg.key), model |-> cfg.model, url |-> BaseURL(cfg)]
      BY <2>2 DEF LLMClient
    <3> HIDE DEF cfg
    <3>5. CreateClient(cfg.key) = cfg.key /\ BaseURL(cfg) # "default"
      BY <2>2, <3>3 DEF CreateClient, BaseURL
    <3>6. /\ LLMClient(u, a).key = cfg.key /\ LLMClient(u, a).model = cfg.model
          /\ LLMClient(u, a).url = BaseURL(cfg)
      BY <3>4, <3>5
    <3>7. LLMClient(u, a).key.of = u /\ u # System
      BY <3>2, <3>6, Names
    <3>8. LLMClient(u, a).model # "default" /\ LLMClient(u, a).url # "default"
      BY <3>3, <3>5, <3>6
    <3> QED
      BY <3>7, <3>8
  <2> QED
    BY <2>1, <2>2
<1> QED
  BY <1>1, <1>2, <1>3, ConfigStep, PTL DEF CfSpec, ModelCalls

-----------------------------------------------------------------------------
\* The daily brief.  Without faults each write rests on the one before it, and
\* a reader carries what its first call found to its last.

Attempts == [write: {"row", "object", "index", "latest"}, date: Days]
Reads ==
  {NoRead}
  \cup [phase: {"dated"}, date: 0 .. MaxDay, owed: SUBSET Tickers]
  \cup [phase: {"indexed"}, date: Days, owed: SUBSET Tickers, tickers: SUBSET Tickers]
  \cup [phase: {"answered"}, date: 0 .. MaxDay, owed: SUBSET Tickers, list: SUBSET Pairs]

BriefTypes ==
  /\ brNext \in Nat \ {0} /\ brLosses \in Nat
  /\ brAct = Waiting \/ (brAct \in Attempts /\ ~Finished)
  /\ brRows \subseteq Pairs /\ brObject \subseteq Pairs /\ brDone \subseteq Pairs
  /\ brIndex \in [Days -> SUBSET Tickers] /\ brLatest \in 0 .. MaxDay
  /\ brRead \in Reads

\* The writers' part.
WritesInOrder ==
  brLosses = 0 =>
    /\ \A d \in Days : \A t \in brIndex[d] : <<d, t>> \in brObject
    /\ brAct # Waiting =>
         /\ brAct.write \in {"index", "latest"} => Pair \in brObject
         /\ brAct.write = "latest" => Pair[2] \in brIndex[brAct.date]
    /\ \A p \in brDone : p[2] \in brIndex[p[1]]
    /\ brLatest # 0 => brIndex[brLatest] # {}

\* The reader's part.
ReadsInOrder ==
  brLosses = 0 =>
    /\ brRead.phase = "dated" /\ brRead.date # 0 => brRead.owed \subseteq brIndex[brRead.date]
    /\ brRead.phase = "indexed" => /\ brRead.owed \subseteq brRead.tickers
                                   /\ brRead.tickers \subseteq brIndex[brRead.date]

BriefInv == BriefTypes /\ WritesInOrder /\ ReadsInOrder /\ AnswerOfOneDate /\ AnswerIsComplete

LEMMA BriefStart == BrInit => BriefInv
BY BrAssumption
   DEF BrInit, BriefInv, BriefTypes, WritesInOrder, ReadsInOrder, AnswerOfOneDate,
       AnswerIsComplete, Answered, Reads, NoRead, Pairs

\* A fault: nothing is owed after it.
LEMMA FaultsKeepBrief ==
  ASSUME BriefInv, Lose, BriefTypes', UNCHANGED brRead
  PROVE  BriefInv'
<1>1. brLosses' # 0
  BY DEF Lose, BriefInv, BriefTypes
<1> QED
  BY <1>1 DEF BriefInv, WritesInOrder, ReadsInOrder, AnswerOfOneDate, AnswerIsComplete, Answered

\* What a step of the writers may do without a fault.
LEMMA WritersKeepReaders ==
  ASSUME BriefInv, BriefTypes', WritesInOrder', UNCHANGED brRead,
         brLosses' = brLosses, \A d \in Days : brIndex[d] \subseteq brIndex'[d]
  PROVE  BriefInv'
<1>1. AnswerOfOneDate' /\ AnswerIsComplete'
  BY DEF BriefInv, AnswerOfOneDate, AnswerIsComplete, Answered
<1>2. brRead.phase = "dated" /\ brRead.date # 0 => brRead.date \in Days
  BY BrAssumption DEF BriefInv, BriefTypes, Reads, Days, NoRead
<1>3. brRead.phase = "indexed" => brRead.date \in Days
  BY DEF BriefInv, BriefTypes, Reads, NoRead
<1>4. ReadsInOrder'
  BY <1>2, <1>3 DEF BriefInv, ReadsInOrder
<1> QED
  BY <1>1, <1>4 DEF BriefInv

LEMMA PairIsPair ==
  ASSUME BriefTypes, brAct # Waiting
  PROVE  /\ Pair \in Pairs /\ Pair[1] = brAct.date /\ Pair[2] = TargetTickers[brNext]
         /\ brAct.date \in Days /\ TargetTickers[brNext] \in Tickers /\ brAct \in Attempts
<1>1. brNext \in 1 .. Len(TargetTickers) /\ brAct \in Attempts
  BY BrAssumption DEF BriefTypes, Finished
<1> QED
  BY <1>1 DEF Attempts, Pair, Pairs, Tickers

LEMMA WriteObjectKeepsBrief ==
  ASSUME BriefInv, WriteObject
  PROVE  BriefInv'
<1>0. brAct # Waiting
  BY DEF WriteObject, Waiting
<1>1. brAct' = [write |-> "index", date |-> brAct.date] /\ brAct' \in Attempts
  BY <1>0, PairIsPair DEF WriteObject, ThenWrite, BriefInv, Attempts
<1>2. BriefTypes'
  BY <1>0, <1>1, PairIsPair DEF WriteObject, BriefInv, BriefTypes, Finished, Lose
<1>3. CASE Lose
  BY <1>2, <1>3, FaultsKeepBrief DEF WriteObject
<1>4. CASE brObject' = brObject \cup {Pair} /\ UNCHANGED brLosses
  <2>1. Pair' = Pair
    BY <1>1 DEF Pair, WriteObject
  <2>2. WritesInOrder'
    BY <1>1, <1>4, <2>1 DEF WriteObject, BriefInv, WritesInOrder
  <2> QED
    BY <1>2, <1>4, <2>2, WritersKeepReaders DEF WriteObject
<1> QED
  BY <1>3, <1>4 DEF WriteObject

LEMMA WriteIndexKeepsBrief ==
  ASSUME BriefInv, WriteIndex
  PROVE  BriefInv'
<1> DEFINE t == TargetTickers[brNext]
<1>0. brAct # Waiting
  BY DEF WriteIndex, Waiting
<1>1. brAct' = [write |-> "latest", date |-> brAct.date] /\ brAct' \in Attempts
  BY <1>0, PairIsPair DEF WriteIndex, ThenWrite, BriefInv, Attempts
<1>2. t \in Tickers /\ brAct.date \in Days /\ Pair[2] = t /\ Pair = <<brAct.date, t>>
  BY <1>0, PairIsPair DEF BriefInv, Pair
<1>3. brIndex' \in [Days -> SUBSET Tickers]
  BY <1>2 DEF WriteIndex, BriefInv, BriefTypes
<1>4. BriefTypes'
  BY <1>0, <1>1, <1>3, PairIsPair DEF WriteIndex, BriefInv, BriefTypes, Finished, Lose
<1>5. CASE Lose
  BY <1>4, <1>5, FaultsKeepBrief DEF WriteIndex
<1>6. CASE brIndex' = [brIndex EXCEPT ![brAct.date] = @ \cup {t}] /\ UNCHANGED brLosses
  <2>1. Pair' = Pair
    BY <1>1 DEF Pair, WriteIndex
  <2> HIDE DEF t
  <2>2. \A d \in Days : brIndex'[d] = IF d = brAct.date THEN brIndex[d] \cup {t} ELSE brIndex[d]
    BY <1>6 DEF BriefInv, BriefTypes
  <2>3. SUFFICES ASSUME brLosses = 0 PROVE BriefInv'
    BY <1>4, <1>6, <2>2, WritersKeepReaders DEF WriteIndex, BriefInv, WritesInOrder
  <2>8. Pair \in brObject /\ brObject' = brObject
    BY <1>0, <2>3 DEF WriteIndex, BriefInv, WritesInOrder
  <2>9. ASSUME NEW d \in Days, NEW u \in brIndex'[d] PROVE <<d, u>> \in brObject'
    <3>1. CASE u \in brIndex[d]
      BY <2>3, <2>8, <3>1 DEF BriefInv, WritesInOrder
    <3>2. CASE d = brAct.date /\ u = t
      BY <1>2, <2>8, <3>2
    <3> QED
      BY <2>2, <3>1, <3>2
  <2>4. /\ \A d \in Days : \A u \in brIndex'[d] : <<d, u>> \in brObject'
        /\ Pair \in brObject' /\ t \in brIndex'[brAct.date]
    BY <1>2, <2>2, <2>8, <2>9
  <2>5. \A p \in brDone' : p[2] \in brIndex'[p[1]]
    BY <2>2, <2>3 DEF WriteIndex, BriefInv, BriefTypes, WritesInOrder, Pairs
  <2>6. brLatest' # 0 => brIndex'[brLatest'] # {}
    BY BrAssumption, <2>2, <2>3 DEF WriteIndex, BriefInv, BriefTypes, WritesInOrder, Days
  <2>7. WritesInOrder'
    BY <1>1, <1>2, <2>1, <2>4, <2>5, <2>6 DEF WritesInOrder
  <2> QED
    BY <1>4, <1>6, <2>2, <2>7, WritersKeepReaders DEF WriteIndex
<1> QED
  BY <1>5, <1>6 DEF WriteIndex

LEMMA WriteLatestKeepsBrief ==
  ASSUME BriefInv, WriteLatest
  PROVE  BriefInv'
<1>0. brAct # Waiting
  BY DEF WriteLatest, Waiting
<1>1. Pair \in Pairs /\ Pair[1] = brAct.date /\ brAct.date \in Days
  BY <1>0, PairIsPair DEF BriefInv
<1>2. BriefTypes'
  BY <1>1, BrAssumption DEF WriteLatest, BriefInv, BriefTypes, Lose, Days
<1>3. CASE Lose
  BY <1>2, <1>3, FaultsKeepBrief DEF WriteLatest
<1>4. CASE brLatest' = brAct.date /\ UNCHANGED brLosses
  <2>1. brLosses = 0 => Pair[2] \in brIndex[brAct.date]
    BY <1>0 DEF WriteLatest, BriefInv, WritesInOrder
  <2>2. WritesInOrder'
    BY <1>1, <1>4, <2>1 DEF WriteLatest, BriefInv, WritesInOrder
  <2> QED
    BY <1>2, <1>4, <2>2, WritersKeepReaders DEF WriteLatest
<1> QED
  BY <1>3, <1>4 DEF WriteLatest

LEMMA FirstWritesKeepBrief ==
  ASSUME BriefInv, StartDay \/ Fetch \/ WriteRow
  PROVE  BriefInv'
<1>1. CASE StartDay
  <2>1. brAct = Waiting
    BY <1>1 DEF StartDay, BriefInv, BriefTypes
  <2>2. BriefTypes' /\ WritesInOrder'
    BY <1>1, <2>1, BrAssumption DEF StartDay, brCache, BriefInv, BriefTypes, WritesInOrder
  <2> QED
    BY <1>1, <2>2, WritersKeepReaders DEF StartDay, brCache
<1>2. CASE Fetch
  <2>1. PICK d \in Days : brAct' = [write |-> "row", date |-> d]
    BY <1>2 DEF Fetch
  <2>2. brAct' \in Attempts /\ brAct'.write = "row"
    BY <2>1 DEF Attempts
  <2>3. BriefTypes' /\ WritesInOrder'
    BY <1>2, <2>2 DEF Fetch, brCache, BriefInv, BriefTypes, WritesInOrder, Finished
  <2> QED
    BY <1>2, <2>3, WritersKeepReaders DEF Fetch, brCache
<1>3. CASE WriteRow
  <2>0. brAct # Waiting
    BY <1>3 DEF WriteRow, Waiting
  <2>1. brAct' = [write |-> "object", date |-> brAct.date] /\ brAct' \in Attempts
    BY <1>3, <2>0, PairIsPair DEF WriteRow, ThenWrite, BriefInv, Attempts
  <2>2. BriefTypes'
    BY <1>3, <2>0, <2>1, PairIsPair DEF WriteRow, brCache, BriefInv, BriefTypes, Finished, Lose
  <2>3. CASE Lose
    BY <1>3, <2>2, <2>3, FaultsKeepBrief DEF WriteRow
  <2>4. CASE UNCHANGED brLosses
    <3>1. WritesInOrder'
      BY <1>3, <2>1, <2>4 DEF WriteRow, brCache, BriefInv, WritesInOrder
    <3> QED
      BY <1>3, <2>2, <2>4, <3>1, WritersKeepReaders DEF WriteRow, brCache
  <2> QED
    BY <1>3, <2>3, <2>4 DEF WriteRow
<1> QED
  BY <1>1, <1>2, <1>3

LEMMA FailuresKeepBrief ==
  ASSUME BriefInv, FetchFails \/ WorkerStops \/ KeyGoes
  PROVE  BriefInv'
<1>1. Lose /\ UNCHANGED brRead
  BY DEF FetchFails, WorkerStops, KeyGoes
<1>2. CASE FetchFails
  BY <1>1, <1>2, FaultsKeepBrief
     DEF FetchFails, brFlow, brCache, BriefInv, BriefTypes, Lose, Finished
<1>3. CASE WorkerStops
  BY <1>1, <1>3, FaultsKeepBrief DEF WorkerStops, brCache, BriefInv, BriefTypes, Lose
<1>4. CASE KeyGoes
  <2>1. brIndex' \in [Days -> SUBSET Tickers] /\ brObject' \subseteq Pairs /\ brLatest' \in 0 .. MaxDay
    BY <1>4, BrAssumption DEF KeyGoes, BriefInv, BriefTypes
  <2>2. BriefTypes'
    BY <1>4, <2>1 DEF KeyGoes, brFlow, BriefInv, BriefTypes, Lose, Finished
  <2> QED
    BY <1>1, <2>2, FaultsKeepBrief
<1> QED
  BY <1>2, <1>3, <1>4

-----------------------------------------------------------------------------
\* The reader's steps.

LEMMA LatestIsOneDate ==
  ASSUME brRows \subseteq Pairs, NEW d
  PROVE  /\ GetLatest(d) \subseteq Pairs
         /\ \A p, q \in GetLatest(d) : p[1] = q[1]
         /\ d # 0 => \A p \in GetLatest(d) : p[1] = d
BY DEF GetLatest

\* An answer of one date that has all that is owed.
LEMMA AnswerKeepsBrief ==
  ASSUME BriefInv, NEW list \in SUBSET Pairs, Answer(list),
         brRead.date \in 0 .. MaxDay, brRead.owed \subseteq Tickers,
         UNCHANGED <<brFlow, brRows, brCache, brDone, brLosses>>,
         \A p, q \in list : p[1] = q[1],
         brRead.date # 0 => \A p \in list : p[1] = brRead.date,
         brLosses = 0 /\ brRead.date # 0 => brRead.owed \subseteq {p[2] : p \in list}
  PROVE  BriefInv'
<1>1. brRead' = [phase |-> "answered", date |-> brRead.date, owed |-> brRead.owed, list |-> list]
  BY DEF Answer
<1>2. /\ brRead' \in Reads /\ brRead'.phase = "answered"
      /\ brRead'.date = brRead.date /\ brRead'.owed = brRead.owed /\ brRead'.list = list
  BY <1>1 DEF Reads
<1>3. BriefTypes' /\ WritesInOrder'
  BY <1>2 DEF BriefInv, BriefTypes, WritesInOrder, brFlow, brCache, Finished, Pair
<1>4. ReadsInOrder'
  BY <1>2 DEF ReadsInOrder
<1>5. AnswerOfOneDate'
  BY <1>2 DEF AnswerOfOneDate
<1>6. AnswerIsComplete'
  BY <1>2 DEF AnswerIsComplete
<1> QED
  BY <1>3, <1>4, <1>5, <1>6 DEF BriefInv

LEMMA ReadStartKeepsBrief ==
  ASSUME BriefInv, NEW d \in 0 .. MaxDay, ReadStart(d)
  PROVE  BriefInv'
<1> DEFINE date == IF d = 0 THEN brLatest ELSE d
<1> DEFINE owed == {p[2] : p \in {q \in brDone : q[1] = date}}
<1>1. brRead' = [phase |-> "dated", date |-> date, owed |-> owed]
  BY DEF ReadStart
<1>2. date \in 0 .. MaxDay
  BY DEF BriefInv, BriefTypes
<1>3. owed \subseteq Tickers /\ (brLosses = 0 /\ date # 0 => owed \subseteq brIndex[date])
  BY DEF BriefInv, BriefTypes, WritesInOrder, Pairs
<1> HIDE DEF date, owed
<1>4. brRead' \in Reads /\ brRead'.phase = "dated" /\ brRead'.date = date /\ brRead'.owed = owed
  BY <1>1, <1>2, <1>3 DEF Reads
<1>5. BriefTypes' /\ WritesInOrder'
  BY <1>4 DEF ReadStart, BriefInv, BriefTypes, WritesInOrder, brFlow, brCache, Finished, Pair
<1>6. ReadsInOrder'
  BY <1>3, <1>4 DEF ReadStart, ReadsInOrder, brCache
<1>7. AnswerOfOneDate' /\ AnswerIsComplete'
  BY <1>4 DEF AnswerOfOneDate, AnswerIsComplete, Answered
<1> QED
  BY <1>5, <1>6, <1>7 DEF BriefInv

LEMMA ReadIndexKeepsBrief ==
  ASSUME BriefInv, ReadIndex
  PROVE  BriefInv'
<1> DEFINE date == brRead.date
           tickers == IF date = 0 THEN {} ELSE brIndex[date]
<1>1. brRead.phase = "dated" /\ date \in 0 .. MaxDay /\ brRead.owed \subseteq Tickers
  BY DEF ReadIndex, BriefInv, BriefTypes, Reads, NoRead
<1>2. tickers \subseteq Tickers /\ (tickers # {} => date \in Days)
  BY <1>1, BrAssumption DEF BriefInv, BriefTypes, Days
<1>3. brLosses = 0 /\ date # 0 => brRead.owed \subseteq tickers
  BY <1>1 DEF BriefInv, ReadsInOrder
<1>4. UNCHANGED <<brFlow, brRows, brCache, brDone, brLosses>>
  BY DEF ReadIndex
<1>5. CASE tickers = {}
  BY <1>1, <1>3, <1>4, <1>5, LatestIsOneDate, AnswerKeepsBrief DEF ReadIndex, BriefInv, BriefTypes
<1>6. CASE tickers # {}
  <2>1. brRead' = [phase |-> "indexed", date |-> date, owed |-> brRead.owed, tickers |-> tickers]
    BY <1>6 DEF ReadIndex
  <2>2. date \in Days /\ date # 0 /\ tickers = brIndex[date]
    BY <1>2, <1>6, BrAssumption DEF Days
  <2> DEFINE ts == tickers
  <2>3. /\ brRead' \in Reads /\ brRead'.phase = "indexed" /\ brRead'.date = date
        /\ brRead'.owed = brRead.owed /\ brRead'.tickers = brIndex[date]
    BY <1>1, <1>2, <2>1, <2>2 DEF Reads
  <2>4. BriefTypes' /\ WritesInOrder'
    BY <1>4, <2>3 DEF BriefInv, BriefTypes, WritesInOrder, brFlow, brCache, Finished, Pair
  <2>5. ReadsInOrder'
    BY <1>3, <1>4, <2>2, <2>3 DEF ReadsInOrder, brCache
  <2>6. AnswerOfOneDate' /\ AnswerIsComplete'
    BY <2>3 DEF AnswerOfOneDate, AnswerIsComplete, Answered
  <2> QED
    BY <2>4, <2>5, <2>6 DEF BriefInv
<1> QED
  BY <1>5, <1>6

LEMMA ReadObjectsKeepsBrief ==
  ASSUME BriefInv, ReadObjects
  PROVE  BriefInv'
<1> DEFINE date == brRead.date
           found == {p \in brObject : p[1] = date /\ p[2] \in brRead.tickers}
           list == IF found # {} THEN found ELSE GetLatest(date)
<1>1. brRead.phase = "indexed" /\ date \in Days /\ brRead.owed \subseteq Tickers
  BY DEF ReadObjects, BriefInv, BriefTypes, Reads, NoRead
<1>2. date \in 0 .. MaxDay /\ date # 0
  BY <1>1, BrAssumption DEF Days
<1>3. Answer(list) /\ UNCHANGED <<brFlow, brRows, brCache, brDone, brLosses>>
  BY DEF ReadObjects
<1>4. ASSUME brLosses = 0, NEW t \in brRead.owed
      PROVE  \E p \in found : p[2] = t
  <2>1. <<date, t>> \in brObject /\ t \in brRead.tickers
    BY <1>1, <1>4 DEF BriefInv, ReadsInOrder, WritesInOrder
  <2> QED
    BY <2>1
<1>5. brLosses = 0 => brRead.owed \subseteq {p[2] : p \in list}
  BY <1>4
<1>6. list \subseteq Pairs /\ \A p \in list : p[1] = date
  BY <1>2, LatestIsOneDate DEF BriefInv, BriefTypes
<1> HIDE DEF list, found
<1> QED
  BY <1>1, <1>2, <1>3, <1>5, <1>6, AnswerKeepsBrief

\* For any tickers, days and losses: an answer is of one date, and without a
\* fault it has all that was ingested when the reader began, and the announced
\* date can be read.
THEOREM BriefAnswersStaySound == BrSpec => []BriefAnswersSound
<1>1. BriefInv /\ [BrNext]_brVars => BriefInv'
  <2> SUFFICES ASSUME BriefInv, [BrNext]_brVars PROVE BriefInv'
    OBVIOUS
  <2>1. CASE UNCHANGED brVars
    BY <2>1 DEF brVars, brFlow, brCache, BriefInv, BriefTypes, WritesInOrder, ReadsInOrder,
                AnswerOfOneDate, AnswerIsComplete, Answered, Finished, Pair
  <2> QED
    BY <2>1, FirstWritesKeepBrief, WriteObjectKeepsBrief, WriteIndexKeepsBrief,
       WriteLatestKeepsBrief, FailuresKeepBrief, ReadStartKeepsBrief, ReadIndexKeepsBrief,
       ReadObjectsKeepsBrief DEF BrNext, Ingest
<1>2. BriefInv => BriefAnswersSound
  <2> SUFFICES ASSUME BriefInv PROVE AnnouncedIsReadable
    BY DEF BriefInv, BriefAnswersSound
  <2> QED
    BY BrAssumption DEF BriefInv, BriefTypes, WritesInOrder, AnnouncedIsReadable, Days
<1> QED
  BY <1>1, <1>2, BriefStart, PTL DEF BrSpec

-----------------------------------------------------------------------------
\* The knowledge base.

\* What a save adds: relations of the owner between his nodes or the system's.
LEMMA GraphGrows ==
  ASSUME NEW x, NEW owner, SaveKnowledgeGraph(x, owner)
  PROVE  /\ kgNodes \subseteq kgNodes' /\ kgRels \subseteq kgRels'
         /\ \A r \in kgRels' \ kgRels : \A e \in {r.from, r.to} :
              r.owner = owner /\ e \in kgNodes' /\ e.owner \in {owner, KnSystem}
         /\ \A p \in KeptRelations(x) :
              [from |-> [name |-> p[1], owner |-> owner],
               to |-> [name |-> p[2], owner |-> owner], owner |-> owner] \in kgRels'
<1> DEFINE nodes == kgNodes \cup {[name |-> e, owner |-> owner] : e \in x.ents}
<1> DEFINE added(p) == [from: Ends(p[1], nodes, owner), to: Ends(p[2], nodes, owner),
                        owner: {owner}]
<1>1. kgNodes' = nodes /\ kgRels' = kgRels \cup UNION {added(p) : p \in KeptRelations(x)}
  BY DEF SaveKnowledgeGraph
<1>2. ASSUME NEW r \in kgRels' \ kgRels
      PROVE  \A e \in {r.from, r.to} :
               r.owner = owner /\ e \in kgNodes' /\ e.owner \in {owner, KnSystem}
  <2>1. PICK p \in KeptRelations(x) : r \in added(p)
    <3> HIDE DEF added
    <3> QED
      BY <1>1, <1>2
  <2>2. r.from \in Ends(p[1], nodes, owner) /\ r.to \in Ends(p[2], nodes, owner) /\ r.owner = owner
    BY <2>1
  <2> QED
    BY <1>1, <2>2 DEF Ends
<1>3. ASSUME NEW p \in KeptRelations(x)
      PROVE  [from |-> [name |-> p[1], owner |-> owner],
              to |-> [name |-> p[2], owner |-> owner], owner |-> owner] \in kgRels'
  <2>1. p[1] \in x.ents /\ p[2] \in x.ents
    BY DEF KeptRelations
  <2>2. /\ [name |-> p[1], owner |-> owner] \in Ends(p[1], nodes, owner)
        /\ [name |-> p[2], owner |-> owner] \in Ends(p[2], nodes, owner)
    BY <2>1 DEF Ends
  <2>3. [from |-> [name |-> p[1], owner |-> owner],
         to |-> [name |-> p[2], owner |-> owner], owner |-> owner] \in added(p)
    BY <2>2
  <2> HIDE DEF added
  <2> QED
    BY <1>1, <2>3
<1>4. kgNodes \subseteq kgNodes' /\ kgRels \subseteq kgRels'
  <2> HIDE DEF added
  <2> QED
    BY <1>1
<1> QED
  BY <1>2, <1>3, <1>4

GraphsAreSaved ==
  \A j \in igGraphed : \A p \in KeptRelations(Extracted[j]) :
    [from |-> [name |-> p[1], owner |-> Owner(j)],
     to |-> [name |-> p[2], owner |-> Owner(j)], owner |-> Owner(j)] \in kgRels

GraphInv == GraphSeenWhole /\ GraphsAreSaved

LEMMA SaveKeepsGraph ==
  ASSUME GraphInv, NEW j, SaveKnowledgeGraph(Extracted[j], Owner(j)),
         igGraphed' = igGraphed \cup {j}
  PROVE  GraphInv'
<1>1. /\ kgNodes \subseteq kgNodes' /\ kgRels \subseteq kgRels'
      /\ \A r \in kgRels' \ kgRels : \A e \in {r.from, r.to} :
           r.owner = Owner(j) /\ e \in kgNodes' /\ e.owner \in {Owner(j), KnSystem}
      /\ \A p \in KeptRelations(Extracted[j]) :
           [from |-> [name |-> p[1], owner |-> Owner(j)],
            to |-> [name |-> p[2], owner |-> Owner(j)], owner |-> Owner(j)] \in kgRels'
  BY GraphGrows
<1>2. GraphSeenWhole'
  BY <1>1 DEF GraphInv, GraphSeenWhole
<1>3. GraphsAreSaved'
  BY <1>1 DEF GraphInv, GraphsAreSaved, Owner
<1> QED
  BY <1>2, <1>3 DEF GraphInv

LEMMA GraphStep ==
  ASSUME GraphInv, [IgNext]_<<knVars, igVars>>
  PROVE  GraphInv'
<1>1. ASSUME UNCHANGED <<kgNodes, kgRels, igGraphed>> PROVE GraphInv'
  BY <1>1 DEF GraphInv, GraphSeenWhole, GraphsAreSaved, Owner
<1>2. ASSUME NEW r \in Runners, NEW o \in Outcomes, BuildGraph(r, o) PROVE GraphInv'
  BY <1>1, <1>2, SaveKeepsGraph DEF BuildGraph
<1>3. ASSUME NEW r \in Runners, NEW o \in Outcomes,
             Parse(r, o) \/ CreateRow(r, o) \/ Embed(r, o) \/ StoreText(r, o) \/ MarkIndexed(r, o)
      PROVE  GraphInv'
  BY <1>1, <1>3 DEF Parse, CreateRow, Embed, StoreText, MarkIndexed, Call, knVars
<1>4. ASSUME NEW r \in Runners, TakeJob(r) \/ StoreNothing(r) PROVE GraphInv'
  BY <1>1, <1>4 DEF TakeJob, StoreNothing, knVars
<1>5. ASSUME NEW j, Upload(j) \/ SubmitJob(j) \/ StartBrief(j) PROVE GraphInv'
  BY <1>1, <1>5 DEF Upload, SubmitJob, StartBrief, knVars
<1>6. CASE StopProcess \/ \E w \in Workers : Hang(w)
  BY <1>1, <1>6 DEF StopProcess, Hang, knVars
<1>7. CASE UNCHANGED <<knVars, igVars>>
  BY <1>1, <1>7 DEF knVars, igVars
<1> QED
  BY <1>2, <1>3, <1>4, <1>5, <1>6, <1>7 DEF IgNext, Runs

\* A relation that is in the graph is a row of the query, from both its ends,
\* and only an answer that is full leaves one out.
LEMMA OnlyFullAnswersLack ==
  ASSUME NEW x, NEW y, NEW u, NEW k,
         [from |-> [name |-> x, owner |-> u], to |-> [name |-> y, owner |-> u], owner |-> u]
           \in kgRels,
         NEW answer \in GetRelatedKnowledge(k, u)
  PROVE  LET row(a, b) == [at |-> [name |-> a, owner |-> u], to |-> [name |-> b, owner |-> u],
                           owner |-> u]
         IN /\ <<k, x>> \in ContainedIn => row(x, y) \in answer \/ Cardinality(answer) = GraphLimit
            /\ <<k, y>> \in ContainedIn => row(y, x) \in answer \/ Cardinality(answer) = GraphLimit
<1> DEFINE row(a, b) == [at |-> [name |-> a, owner |-> u], to |-> [name |-> b, owner |-> u],
                         owner |-> u]
           r == [from |-> [name |-> x, owner |-> u], to |-> [name |-> y, owner |-> u], owner |-> u]
<1>1. row(x, y) \in RowsOf(r) /\ row(y, x) \in RowsOf(r)
  BY DEF RowsOf
<1>2. /\ <<k, x>> \in ContainedIn => row(x, y) \in Matched(k, u)
      /\ <<k, y>> \in ContainedIn => row(y, x) \in Matched(k, u)
  BY <1>1 DEF Matched
<1>3. answer = Matched(k, u) \/ Cardinality(answer) = GraphLimit
  BY DEF GetRelatedKnowledge, Limited
<1> HIDE DEF row
<1> QED
  BY <1>2, <1>3 DEF row

\* Whatever calls fail, are late or are repeated: no relation names a node its
\* reader cannot see, and a saved graph shows its owner every relation of the
\* text, from both its ends, but for what a full answer leaves out.
THEOREM GraphsAreWhole == IgSpec => []GraphSavedWhole
<1>1. KnInit /\ IgInit => GraphInv
  BY DEF KnInit, IgInit, GraphInv, GraphSeenWhole, GraphsAreSaved
<1>2. GraphInv => GraphSavedWhole
  <2> SUFFICES ASSUME GraphInv, NEW j \in igGraphed, NEW p \in KeptRelations(Extracted[j]), NEW k,
                      NEW answer \in GetRelatedKnowledge(k, Owner(j))
               PROVE  LET node(name) == [name |-> name, owner |-> Owner(j)]
                          row(x, y) == [at |-> node(x), to |-> node(y), owner |-> Owner(j)]
                      IN \A e \in {<<p[1], p[2]>>, <<p[2], p[1]>>} : <<k, e[1]>> \in ContainedIn =>
                           row(e[1], e[2]) \in answer \/ Cardinality(answer) = GraphLimit
    BY DEF GraphInv, GraphSavedWhole
  <2>1. [from |-> [name |-> p[1], owner |-> Owner(j)],
         to |-> [name |-> p[2], owner |-> Owner(j)], owner |-> Owner(j)] \in kgRels
    BY DEF GraphInv, GraphsAreSaved
  <2> DEFINE node(name) == [name |-> name, owner |-> Owner(j)]
             row(x, y) == [at |-> node(x), to |-> node(y), owner |-> Owner(j)]
  <2>2. /\ <<k, p[1]>> \in ContainedIn => row(p[1], p[2]) \in answer \/ Cardinality(answer) = GraphLimit
        /\ <<k, p[2]>> \in ContainedIn => row(p[2], p[1]) \in answer \/ Cardinality(answer) = GraphLimit
    BY <2>1, OnlyFullAnswersLack
  <2> QED
    BY <2>2
<1> QED
  BY <1>1, <1>2, GraphStep, PTL DEF IgSpec

-----------------------------------------------------------------------------
\* Reports.

\* Whatever others write between the calls of a search: a report rests on
\* sources its asker may read, and on all branches or none.
THEOREM ReportsAreSound == RsSpec => []ReportFromOwnSources
<1> DEFINE Inv == /\ ReportFromOwnSources
                  /\ rsIn # "runs" => rsVec \in {"ok", "err"} /\ rsEnt \in {"ok", "err"}
<1>1. RsInit => Inv
  BY DEF RsInit, ReportFromOwnSources
<1>2. Inv /\ [RsNext]_rsVars => Inv'
  <2> SUFFICES ASSUME Inv, [RsNext]_rsVars PROVE Inv'
    OBVIOUS
  <2>1. CASE UNCHANGED rsVars
    BY <2>1 DEF rsVars, ReportFromOwnSources, OwnerOf
  <2>2. ASSUME NEW ok \in BOOLEAN, VecEmbed(ok) \/ VecRerank(ok) \/ ExtractEntities(ok)
                                   \/ WebSearch(ok) \/ FinalReport(ok)
        PROVE  Inv'
    BY <2>2 DEF VecEmbed, VecRerank, ExtractEntities, WebSearch, FinalReport,
                ReportFromOwnSources, OwnerOf
  <2>3. ASSUME NEW ok \in BOOLEAN, VecSearch(ok) PROVE Inv'
    BY <2>3 DEF VecSearch, SearchSimilar, ReportFromOwnSources, OwnerOf
  <2>4. CASE InternalReport
    <3>1. \A e : \A answer \in GetRelatedKnowledge(e, Asker) : \A w \in answer :
            OwnerOf(w) \in {Asker, KnSystem}
      BY DEF GetRelatedKnowledge, Limited, Matched, OwnerOf
    <3>2. CASE rsIn' = "placeholder" /\ rsUsed' = {}
      BY <2>4, <3>2 DEF InternalReport, BranchesEnded, ReportFromOwnSources, OwnerOf
    <3>3. CASE rsIn' = "report" /\ rsVec = "ok" /\ rsEnt = "ok" /\ ~(rsIn' = "placeholder")
      <4>1. \E read \in SUBSET rsNames :
              \E answer \in [read -> UNION {GetRelatedKnowledge(e, Asker) : e \in read}] :
                /\ \A e \in read : answer[e] \in GetRelatedKnowledge(e, Asker)
                /\ rsUsed' \subseteq rsUsed \cup UNION {answer[e] : e \in read}
        BY <2>4, <3>3 DEF InternalReport
      <4>2. \A s \in rsUsed' \ rsUsed : OwnerOf(s) \in {Asker, KnSystem}
        BY <3>1, <4>1
      <4> QED
        BY <2>4, <3>3, <4>2 DEF InternalReport, BranchesEnded, ReportFromOwnSources, OwnerOf
    <3> QED
      BY <2>4, <3>2, <3>3 DEF InternalReport
  <2> QED
    BY <2>1, <2>2, <2>3, <2>4 DEF RsNext
<1>3. Inv => ReportFromOwnSources
  OBVIOUS
<1> QED
  BY <1>1, <1>2, <1>3, PTL DEF RsSpec

-----------------------------------------------------------------------------
\* Documents.  Where each job is: at most one runner has it, and only a job
\* that is being worked on is with one.
Calls == {"parse", "create", "embed", "store", "mark", "graph"}
Phases == Calls \cup {"hung"}
Pending == {"new", "waiting", "queued"}
IgPlaces == Pending \cup {"working"} \cup Ended
Has(r) == igAt[r].phase \in Phases
Turns == [phase: Phases, job: Jobs, attempt: 1 .. IgMaxAttempts]

Where ==
  /\ igJob \in [Jobs -> IgPlaces]
  /\ igAt \in [Runners -> {Free} \cup Turns]
  /\ igQueue \in Seq(Uploads)
  /\ \A k \in 1 .. Len(igQueue) : igJob[igQueue[k]] = "queued"
  /\ \A k, l \in 1 .. Len(igQueue) : igQueue[k] = igQueue[l] => k = l
  /\ \A r \in Runners : Has(r) => igJob[igAt[r].job] = "working"
  /\ \A w \in Workers : Has(w) => igAt[w].job \in Uploads /\ igAt[w].attempt = 1
  /\ Has(Activity) => igAt[Activity].job \in Briefs
  /\ \A v, w \in Workers : Has(v) /\ Has(w) /\ igAt[v].job = igAt[w].job => v = w

\* A turn of r: it goes on, the activity's is run again, or the job is over.
Proceeds(r, next) == igAt' = [igAt EXCEPT ![r].phase = next] /\ igJob' = igJob
Again(r) ==
  /\ r = Activity /\ igAt[r].attempt < IgMaxAttempts
  /\ igAt' = [igAt EXCEPT ![r] = NextAttempt(igAt[r])]
  /\ igJob' = igJob
Leaves(r, place) ==
  igAt' = [igAt EXCEPT ![r] = Free] /\ igJob' = [igJob EXCEPT ![igAt[r].job] = place]

LEMMA NextAttemptFacts ==
  ASSUME NEW at \in Turns
  PROVE  /\ NextAttempt(at).phase = "create" /\ NextAttempt(at).job = at.job
         /\ NextAttempt(at).attempt = at.attempt + 1
         /\ at.attempt + 1 \in 1 .. IgMaxAttempts => NextAttempt(at) \in Turns
BY DEF NextAttempt, Turns, Calls, Phases

LEMMA WhereMoves ==
  ASSUME Where, NEW r \in Runners, Has(r), igQueue' = igQueue,
         \/ \E next \in Phases : Proceeds(r, next)
         \/ Again(r)
         \/ \E place \in Ended : Leaves(r, place)
  PROVE  Where'
<1> DEFINE a == igAt[r]
<1>1. /\ igAt \in [Runners -> {Free} \cup Turns] /\ igJob \in [Jobs -> IgPlaces]
      /\ a \in Turns /\ a.job \in Jobs /\ a.attempt \in Nat /\ igJob[a.job] = "working"
      /\ IgMaxAttempts \in Nat
  <2>1. a \in {Free} \cup Turns /\ a # Free
    BY DEF Where, Has, Free, Calls, Phases
  <2> QED
    BY <2>1, IgBounds DEF Where, Turns
<1>2. CASE \/ \E next \in Phases : Proceeds(r, next)
           \/ Again(r)
  <2>1. /\ igJob' = igJob /\ igAt'[r] \in Turns /\ igAt'[r].job = a.job
        /\ r # Activity => igAt'[r].attempt = a.attempt
        /\ igAt' = [igAt EXCEPT ![r] = igAt'[r]]
    <3>1. CASE \E next \in Phases : Proceeds(r, next)
      <4>1. PICK next \in Phases : Proceeds(r, next)
        BY <3>1
      <4>2. /\ igAt'[r] = [a EXCEPT !.phase = next] /\ igJob' = igJob
            /\ igAt' = [igAt EXCEPT ![r] = igAt'[r]]
        BY <1>1, <4>1 DEF Proceeds
      <4>3. [a EXCEPT !.phase = next] \in Turns
        BY <1>1 DEF Turns
      <4> HIDE DEF a
      <4> QED
        BY <1>1, <4>2, <4>3 DEF Turns
    <3>2. CASE Again(r)
      <4> DEFINE b == NextAttempt(a)
      <4>1. /\ igAt' = [igAt EXCEPT ![r] = b] /\ igJob' = igJob
            /\ r = Activity /\ a.attempt < IgMaxAttempts
        BY <3>2 DEF Again
      <4>2. a.attempt + 1 \in 1 .. IgMaxAttempts
        BY <1>1, <4>1
      <4>3. b \in Turns /\ b.job = a.job
        BY <1>1, <4>2, NextAttemptFacts
      <4> HIDE DEF a, b
      <4> QED
        BY <1>1, <4>1, <4>3
    <3> QED
      BY <1>2, <3>1, <3>2
  <2>2. igAt' \in [Runners -> {Free} \cup Turns]
    BY <1>1, <2>1
  <2>3. \A q \in Runners : /\ q # r => igAt'[q] = igAt[q]
                           /\ Has(q)' <=> Has(q)
                           /\ igAt'[q].phase \in Phases => igAt'[q].job = igAt[q].job
    BY <1>1, <2>1 DEF Has, Turns
  <2>4. \A w \in Workers : w \in Runners /\ w # Activity
    BY IgNames DEF Runners
  <2>5. \A w \in Workers : Has(w) => igAt'[w].attempt = igAt[w].attempt
    BY <2>1, <2>3, <2>4
  <2>6. Activity \in Runners
    BY DEF Runners
  <2> HIDE DEF a
  <2> QED
    BY <2>1, <2>2, <2>3, <2>4, <2>5, <2>6 DEF Where, Has
<1>3. CASE \E place \in Ended : Leaves(r, place)
  <2>1. PICK place \in Ended : Leaves(r, place)
    BY <1>3
  <2>2. /\ igAt' \in [Runners -> {Free} \cup Turns] /\ igJob' \in [Jobs -> IgPlaces]
        /\ \A q \in Runners : q # r => igAt'[q] = igAt[q]
        /\ igAt'[r] = Free /\ \A j \in Jobs : j # a.job => igJob'[j] = igJob[j]
    BY <1>1, <2>1 DEF Leaves, IgPlaces
  <2>3. ~Has(r)' /\ \A q \in Runners : Has(q)' => q # r /\ Has(q) /\ igAt'[q] = igAt[q]
    BY <2>2 DEF Has, Free, Calls, Phases
  <2>4. Workers \subseteq Runners /\ Activity \in Runners /\ Activity \notin Workers
    BY IgNames DEF Runners
  <2>5. \A q \in Runners : Has(q)' => igAt[q].job # a.job /\ igAt[q].job \in Jobs
    <3> SUFFICES ASSUME NEW q \in Runners, Has(q)'
                 PROVE  igAt[q].job # a.job /\ igAt[q].job \in Jobs
      OBVIOUS
    <3>1. q # r /\ Has(q)
      BY <2>3
    <3>2. igAt[q].job \in Jobs
      <4>1. igAt[q] \in {Free} \cup Turns /\ igAt[q] # Free
        BY <1>1, <3>1 DEF Has, Free, Calls, Phases
      <4> QED
        BY <4>1 DEF Turns
    <3>3. CASE q \in Workers /\ r \in Workers
      <4>1. \A v, w \in Workers : Has(v) /\ Has(w) /\ igAt[v].job = igAt[w].job => v = w
        BY DEF Where
      <4> QED
        BY <3>1, <3>2, <3>3, <4>1
    <3>4. CASE q \in Workers /\ r = Activity
      <4>1. igAt[q].job \in Uploads /\ a.job \in Briefs
        BY <3>1, <3>4 DEF Where
      <4> QED
        BY <3>2, <4>1, IgNames
    <3>5. CASE r \in Workers /\ q = Activity
      <4>1. igAt[q].job \in Briefs /\ a.job \in Uploads
        BY <3>1, <3>5 DEF Where
      <4> QED
        BY <3>2, <4>1, IgNames
    <3> QED
      BY <3>1, <3>2, <3>3, <3>4, <3>5 DEF Runners
  <2>6. \A k \in 1 .. Len(igQueue) : igJob'[igQueue[k]] = "queued"
    <3> TAKE k \in 1 .. Len(igQueue)
    <3>1. igJob[igQueue[k]] = "queued" /\ igQueue[k] \in Jobs
      BY DEF Where, Jobs
    <3> QED
      BY <1>1, <2>2, <3>1
  <2> HIDE DEF a
  <2>7. \A q \in Runners : Has(q)' => igJob'[igAt'[q].job] = "working"
    BY <2>2, <2>3, <2>5 DEF Where
  <2>8. /\ \A w \in Workers : Has(w)' => igAt'[w].job \in Uploads /\ igAt'[w].attempt = 1
        /\ Has(Activity)' => igAt'[Activity].job \in Briefs
        /\ \A v, w \in Workers : Has(v)' /\ Has(w)' /\ igAt'[v].job = igAt'[w].job => v = w
    BY <2>3, <2>4 DEF Where
  <2> QED
    BY <2>2, <2>6, <2>7, <2>8 DEF Where, Has
<1> QED
  BY <1>2, <1>3

\* What ends a call of r in phase `phase'.
LEMMA CallMoves ==
  ASSUME Where, NEW r \in Runners, NEW phase \in Phases, NEW next, NEW o, Call(r, phase, next, o)
  PROVE  /\ Has(r) /\ igQueue' = igQueue
         /\ o = "ok" => Proceeds(r, next)
         /\ o # "ok" => Again(r) \/ Leaves(r, "dropped")
<1>1. igAt[r].phase = phase /\ igQueue' = igQueue
  BY DEF Call
<1>2. CASE o = "ok"
  BY <1>1, <1>2 DEF Call, GoTo, Proceeds, Has
<1>3. CASE o # "ok"
  BY <1>1, <1>3 DEF Call, GiveUp, Again, Leaves, Move, Has
<1> QED
  BY <1>2, <1>3

-----------------------------------------------------------------------------
\* What there is of each document: a chunk is one of its document's, an indexed
\* document has all of them, and so has one about to be marked.
Pieces(id) == ChunksOf(id, Chunks[id[1]], Owner(id[1]))
Complete(id) == Pieces(id) # {} /\ Pieces(id) \subseteq dcChunks
DocIds == Jobs \X (1 .. IgMaxAttempts)

Rows ==
  /\ \A d \in dcRows : /\ d \in [id: DocIds, owner: {Owner(j) : j \in Jobs}, status: {"processing", "indexed"}]
                       /\ d.owner = Owner(d.id[1])
                       /\ d.status = "indexed" => Complete(d.id)
  /\ \A c \in dcChunks : c.doc \in DocIds /\ c \in Pieces(c.doc)
  /\ \A r \in Runners : igAt[r].phase = "mark" => Complete(Doc(r))

\* An upload has one document: nothing was written of it before its worker got
\* there, and it is marked before the job is done.
Once1(d) ==
  /\ d.id[2] = 1 /\ igJob[d.id[1]] \notin Pending
  /\ \A e \in dcRows : e.id[1] = d.id[1] => e = d
  /\ \A w \in Workers : Has(w) /\ igAt[w].job = d.id[1] =>
       igAt[w].phase \notin {"parse", "create"} /\ (igAt[w].phase = "graph" => d.status = "indexed")
  /\ igJob[d.id[1]] = "done" => d.status = "indexed"
UploadsOnce == \A d \in dcRows : d.id[1] \in Uploads => Once1(d)

IgInv == Where /\ Rows /\ UploadsOnce

LEMMA RunnerHas ==
  ASSUME Where, NEW r \in Runners, Has(r)
  PROVE  /\ igAt[r] \in Turns /\ igAt[r].job \in Jobs /\ Doc(r) \in DocIds
         /\ Doc(r)[1] = igAt[r].job /\ Doc(r)[2] = igAt[r].attempt
<1>1. igAt[r] \in {Free} \cup Turns /\ igAt[r] # Free
  BY DEF Where, Has, Free, Calls, Phases
<1>2. igAt[r].job \in Jobs /\ igAt[r].attempt \in 1 .. IgMaxAttempts
  BY <1>1 DEF Turns
<1> QED
  BY <1>1, <1>2 DEF Doc, DocIds

\* Chunks are only added, and only a runner that has stored its own is to mark.
LEMMA RowsKept ==
  ASSUME Rows, dcRows' = dcRows, dcChunks' = dcChunks,
         \A q \in Runners : igAt'[q].phase = "mark" => igAt'[q] = igAt[q]
  PROVE  Rows'
<1>1. \A id : Complete(id)' <=> Complete(id)
  BY DEF Complete, Pieces
<1>2. \A q \in Runners : igAt'[q].phase = "mark" => Complete(Doc(q))'
  <2> TAKE q \in Runners
  <2> HAVE igAt'[q].phase = "mark"
  <2>1. igAt'[q] = igAt[q] /\ Doc(q)' = Doc(q)
    BY DEF Doc
  <2> QED
    BY <1>1, <2>1 DEF Rows
<1> QED
  BY <1>1, <1>2 DEF Rows

\* Only a runner that goes on to it is newly to mark.
LEMMA MarksAreOld ==
  ASSUME Where, NEW r \in Runners, Has(r),
         \/ \E next \in Phases \ {"mark"} : Proceeds(r, next)
         \/ Again(r)
         \/ \E place \in Ended : Leaves(r, place)
  PROVE  \A q \in Runners : igAt'[q].phase = "mark" => igAt'[q] = igAt[q]
<1>1. igAt \in [Runners -> {Free} \cup Turns] /\ igAt[r] \in Turns
  BY RunnerHas DEF Where
<1>2. igAt'[r].phase # "mark" /\ \A q \in Runners : q # r => igAt'[q] = igAt[q]
  <2>1. CASE \E next \in Phases \ {"mark"} : Proceeds(r, next)
    BY <1>1, <2>1 DEF Proceeds, Turns
  <2>2. CASE Again(r)
    <3>1. igAt' = [igAt EXCEPT ![r] = NextAttempt(igAt[r])]
      BY <2>2 DEF Again
    <3>2. NextAttempt(igAt[r]).phase = "create"
      BY <1>1, NextAttemptFacts
    <3> QED
      BY <1>1, <3>1, <3>2
  <2>3. CASE \E place \in Ended : Leaves(r, place)
    BY <1>1, <2>3 DEF Leaves, Free
  <2> QED
    BY <2>1, <2>2, <2>3
<1> QED
  BY <1>2

\* A turn of r that writes no row leaves at most one for each upload.
LEMMA OnceMoves ==
  ASSUME Where, UploadsOnce, Rows, NEW r \in Runners, Has(r), dcRows' = dcRows,
         \/ \E next \in {"create", "store", "mark", "hung"} :
              Proceeds(r, next) /\ (next = "create" => igAt[r].phase = "parse")
         \/ Again(r)
         \/ \E place \in {"dropped", "done"} :
              Leaves(r, place) /\ (place = "done" => igAt[r].phase = "graph")
  PROVE  UploadsOnce'
<1> DEFINE a == igAt[r]
<1> SUFFICES ASSUME NEW d \in dcRows, d.id[1] \in Uploads PROVE Once1(d)'
  BY DEF UploadsOnce
<1> DEFINE j == d.id[1]
<1>1. /\ igAt \in [Runners -> {Free} \cup Turns] /\ igJob \in [Jobs -> IgPlaces]
      /\ a \in Turns /\ a.job \in Jobs /\ igJob[a.job] = "working" /\ j \in Jobs
  BY RunnerHas DEF Where, Jobs
<1>2. /\ Workers \subseteq Runners /\ Activity \notin Workers
      /\ r = Activity => a.job \in Briefs /\ a.job # j
  BY IgNames DEF Runners, Where
<1>3. Once1(d)
  BY DEF UploadsOnce
<1>4. CASE \E next \in {"create", "store", "mark", "hung"} :
              Proceeds(r, next) /\ (next = "create" => igAt[r].phase = "parse")
  <2>1. PICK next \in {"create", "store", "mark", "hung"} :
              Proceeds(r, next) /\ (next = "create" => igAt[r].phase = "parse")
    BY <1>4
  <2>2. /\ igJob' = igJob /\ igAt'[r] = [a EXCEPT !.phase = next]
        /\ \A q \in Runners : q # r => igAt'[q] = igAt[q]
    BY <1>1, <2>1 DEF Proceeds
  <2>3. igAt'[r].phase = next /\ igAt'[r].job = a.job
    BY <1>1, <2>2 DEF Turns
  <2> HIDE DEF a
  <2>4. ASSUME NEW w \in Workers, Has(w)', igAt'[w].job = j
        PROVE  igAt'[w].phase \notin {"parse", "create"} /\ (igAt'[w].phase = "graph" => d.status = "indexed")
    <3>1. CASE w = r
      <4>1. Has(r) /\ a.job = j /\ igAt[r].phase \notin {"parse", "create"}
        BY <1>3, <2>3, <2>4, <3>1 DEF Once1, a
      <4> QED
        BY <2>1, <2>3, <3>1, <4>1
    <3>2. CASE w # r
      <4>1. igAt'[w] = igAt[w]
        BY <1>2, <2>2, <3>2
      <4> QED
        BY <1>3, <2>4, <4>1 DEF Once1, Has
    <3> QED
      BY <3>1, <3>2
  <2> QED
    BY <1>3, <2>2, <2>4 DEF Once1
<1>5. CASE Again(r)
  <2>1. /\ igJob' = igJob /\ r = Activity
        /\ \A q \in Runners : q # r => igAt'[q] = igAt[q]
    BY <1>1, <1>5 DEF Again
  <2>2. \A w \in Workers : igAt'[w] = igAt[w]
    BY <1>2, <2>1
  <2> QED
    BY <1>3, <2>1, <2>2 DEF Once1, Has
<1>6. CASE \E place \in {"dropped", "done"} :
              Leaves(r, place) /\ (place = "done" => igAt[r].phase = "graph")
  <2>1. PICK place \in {"dropped", "done"} :
              Leaves(r, place) /\ (place = "done" => igAt[r].phase = "graph")
    BY <1>6
  <2>2. /\ \A q \in Runners : q # r => igAt'[q] = igAt[q]
        /\ igAt'[r] = Free /\ igJob'[a.job] = place
        /\ \A k \in Jobs : k # a.job => igJob'[k] = igJob[k]
    BY <1>1, <2>1 DEF Leaves
  <2>3. \A w \in Workers : Has(w)' => Has(w) /\ igAt'[w] = igAt[w]
    BY <1>2, <2>2 DEF Has, Free, Calls, Phases
  <2>4. igJob'[j] \notin Pending /\ (igJob'[j] = "done" => d.status = "indexed")
    <3>1. CASE j = a.job
      <4>1. r \in Workers
        BY <1>2, <3>1 DEF Runners
      <4>2. igAt[r].phase = "graph" => d.status = "indexed"
        BY <1>3, <3>1, <4>1 DEF Once1
      <4> QED
        BY <2>1, <2>2, <3>1, <4>2 DEF Pending
    <3>2. CASE j # a.job
      BY <1>1, <1>3, <2>2, <3>2 DEF Once1
    <3> QED
      BY <3>1, <3>2
  <2> QED
    BY <1>3, <2>3, <2>4 DEF Once1
<1> QED
  BY <1>4, <1>5, <1>6

\* The calls that write nothing.
LEMMA QuietCalls ==
  ASSUME IgInv, NEW r \in Runners, NEW o \in Outcomes,
         \/ Call(r, "parse", "create", o)
         \/ Call(r, "embed", "store", o),
         UNCHANGED knVars
  PROVE  IgInv'
<1> DEFINE a == igAt[r]
<1>1. /\ Has(r) /\ igQueue' = igQueue /\ dcRows' = dcRows /\ dcChunks' = dcChunks
      /\ \/ \E next \in {"create", "store"} :
              Proceeds(r, next) /\ (next = "create" => igAt[r].phase = "parse")
         \/ Again(r) \/ Leaves(r, "dropped")
  <2>1. "parse" \in Phases /\ "embed" \in Phases /\ Where
    BY DEF Calls, Phases, IgInv
  <2>2. CASE Call(r, "parse", "create", o)
    <3>1. igAt[r].phase = "parse"
      BY <2>2 DEF Call
    <3> QED
      BY <2>1, <2>2, <3>1, CallMoves DEF knVars
  <2>3. CASE Call(r, "embed", "store", o)
    BY <2>1, <2>3, CallMoves DEF knVars
  <2> QED
    BY <2>2, <2>3
<1>2. {"create", "store"} \subseteq Phases \ {"mark"} /\ "dropped" \in Ended
  BY DEF Calls, Phases, Ended
<1>3. Where'
  BY <1>1, <1>2, WhereMoves DEF IgInv
<1>4. \A q \in Runners : igAt'[q].phase = "mark" => igAt'[q] = igAt[q]
  BY <1>1, <1>2, MarksAreOld DEF IgInv
<1>5. Rows'
  BY <1>1, <1>4, RowsKept DEF IgInv
<1>6. UploadsOnce'
  BY <1>1, OnceMoves DEF IgInv
<1> QED
  BY <1>3, <1>5, <1>6 DEF IgInv

\* Nothing to store, or the graph: the job is over, or tried again.
LEMMA EndCalls ==
  ASSUME IgInv, NEW r \in Runners, StoreNothing(r) \/ \E o \in Outcomes : BuildGraph(r, o)
  PROVE  IgInv'
<1>1. /\ Has(r) /\ igQueue' = igQueue /\ dcRows' = dcRows /\ dcChunks' = dcChunks
      /\ \/ Again(r) \/ Leaves(r, "dropped")
         \/ Leaves(r, "done") /\ igAt[r].phase = "graph"
  <2>1. CASE StoreNothing(r)
    BY <2>1 DEF StoreNothing, GiveUp, Again, Leaves, Move, Has, Calls, Phases, knVars
  <2>2. CASE \E o \in Outcomes : BuildGraph(r, o)
    BY <2>2 DEF BuildGraph, Leaves, Move, Has, Calls, Phases
  <2> QED
    BY <2>1, <2>2
<1>2. {"dropped", "done"} \subseteq Ended
  BY DEF Ended
<1>3. Where'
  BY <1>1, <1>2, WhereMoves DEF IgInv
<1>4. \A q \in Runners : igAt'[q].phase = "mark" => igAt'[q] = igAt[q]
  BY <1>1, <1>2, MarksAreOld DEF IgInv
<1>5. Rows'
  BY <1>1, <1>4, RowsKept DEF IgInv
<1>6. UploadsOnce'
  BY <1>1, OnceMoves DEF IgInv
<1> QED
  BY <1>3, <1>5, <1>6 DEF IgInv

\* The chunks are stored whole.
LEMMA StoreKeeps ==
  ASSUME IgInv, NEW r \in Runners, NEW o \in Outcomes, StoreText(r, o)
  PROVE  IgInv'
<1>0. PICK id : id = Doc(r)
  OBVIOUS
<1>1. /\ Has(r) /\ igQueue' = igQueue /\ dcRows' = dcRows
      /\ \/ o = "ok" /\ Proceeds(r, "mark")
         \/ Again(r) \/ Leaves(r, "dropped")
  <2>1. "store" \in Phases /\ Where
    BY DEF Calls, Phases, IgInv
  <2> QED
    BY <2>1, CallMoves DEF StoreText
<1>2. /\ igAt \in [Runners -> {Free} \cup Turns] /\ igAt[r] \in Turns
      /\ id \in DocIds /\ id[1] = igAt[r].job /\ Rows /\ Where
  BY <1>0, <1>1, RunnerHas DEF IgInv, Where
<1>3. Where'
  <2>1. "mark" \in Phases /\ "dropped" \in Ended
    BY DEF Calls, Phases, Ended
  <2> QED
    BY <1>1, <1>2, <2>1, WhereMoves
<1>4. UploadsOnce'
  BY <1>1, <1>2, OnceMoves DEF IgInv
<1>5. /\ Pieces(id) # {} /\ dcChunks' \in {dcChunks, dcChunks \cup Pieces(id)}
      /\ o = "ok" => dcChunks' = dcChunks \cup Pieces(id)
  BY <1>0, <1>2 DEF StoreText, StoreChunks, Pieces
<1>6. \A c \in Pieces(id) : c.doc = id
  BY DEF Pieces, ChunksOf
<1>7. \A i : (Complete(i) => Complete(i)') /\ Pieces(i)' = Pieces(i)
  BY <1>5 DEF Complete, Pieces
<1>8. \A c \in dcChunks' : c.doc \in DocIds /\ c \in Pieces(c.doc)
  BY <1>2, <1>5, <1>6 DEF Rows
<1>9. \A q \in Runners : igAt'[q].phase = "mark" => Complete(Doc(q))'
  <2> SUFFICES ASSUME NEW q \in Runners, igAt'[q].phase = "mark" PROVE Complete(Doc(q))'
    OBVIOUS
  <2>1. CASE o = "ok" /\ Proceeds(r, "mark") /\ q = r
    <3>1. igAt'[r].job = igAt[r].job /\ igAt'[r].attempt = igAt[r].attempt
      BY <1>2, <2>1 DEF Proceeds, Turns
    <3>2. Doc(r)' = id
      BY <1>0, <3>1 DEF Doc
    <3>3. Complete(id)'
      BY <1>5, <1>7, <2>1 DEF Complete
    <3> QED
      BY <2>1, <3>2, <3>3
  <2>2. CASE o = "ok" /\ Proceeds(r, "mark") /\ q # r
    <3>1. igAt'[q] = igAt[q]
      BY <1>2, <2>2 DEF Proceeds
    <3>2. Doc(q)' = Doc(q) /\ Complete(Doc(q))
      BY <1>2, <3>1 DEF Doc, Rows
    <3> QED
      BY <1>7, <3>2
  <2>3. CASE Again(r) \/ Leaves(r, "dropped")
    <3>1. igAt'[q] = igAt[q]
      <4>1. "dropped" \in Ended
        BY DEF Ended
      <4> QED
        BY <1>1, <1>2, <2>3, <4>1, MarksAreOld
    <3>2. Doc(q)' = Doc(q) /\ Complete(Doc(q))
      BY <1>2, <3>1 DEF Doc, Rows
    <3> QED
      BY <1>7, <3>2
  <2> QED
    BY <1>1, <2>1, <2>2, <2>3
<1>10. Rows'
  BY <1>1, <1>2, <1>7, <1>8, <1>9 DEF Rows
<1> QED
  BY <1>3, <1>4, <1>10 DEF IgInv

\* A row is written for a job that has none, or for another attempt.
LEMMA CreateKeeps ==
  ASSUME IgInv, NEW r \in Runners, NEW o \in Outcomes, CreateRow(r, o)
  PROVE  IgInv'
<1> DEFINE a == igAt[r]
           new == [id |-> Doc(r), owner |-> Owner(a.job), status |-> "processing"]
<1>1. /\ Has(r) /\ igQueue' = igQueue /\ dcChunks' = dcChunks /\ a.phase = "create"
      /\ \/ Proceeds(r, "embed")
         \/ Again(r) \/ Leaves(r, "dropped")
      /\ \/ dcRows' = dcRows /\ (Again(r) \/ Leaves(r, "dropped"))
         \/ dcRows' = dcRows \cup {new}
  <2>1. "create" \in Phases /\ Where
    BY DEF Calls, Phases, IgInv
  <2>2. /\ Has(r) /\ igQueue' = igQueue
        /\ o = "ok" => Proceeds(r, "embed")
        /\ o # "ok" => Again(r) \/ Leaves(r, "dropped")
    BY <2>1, CallMoves DEF CreateRow
  <2>3. a.phase = "create" /\ dcChunks' = dcChunks
    BY DEF CreateRow, Call
  <2>4. dcRows' = IF o = "lost" THEN dcRows ELSE dcRows \cup {new}
    BY DEF CreateRow, CreateDocument
  <2> HIDE DEF new
  <2> QED
    BY <2>2, <2>3, <2>4
<1>2. /\ igAt \in [Runners -> {Free} \cup Turns] /\ igJob \in [Jobs -> IgPlaces]
      /\ a \in Turns /\ a.job \in Jobs /\ igJob[a.job] = "working"
      /\ Doc(r) \in DocIds /\ Doc(r)[1] = a.job /\ Doc(r)[2] = a.attempt
      /\ Rows /\ Where /\ UploadsOnce
  BY <1>1, RunnerHas DEF IgInv, Where
<1>3. /\ "embed" \in Phases \ {"mark"} /\ "dropped" \in Ended
      /\ Workers \subseteq Runners /\ Activity \notin Workers /\ \A u \in Uploads : u \in Jobs /\ u \notin Briefs
  BY IgNames DEF Calls, Phases, Ended, Runners, Jobs
<1>4. Where'
  BY <1>1, <1>2, <1>3, WhereMoves
<1>5. \A q \in Runners : igAt'[q].phase = "mark" => igAt'[q] = igAt[q]
  BY <1>1, <1>2, <1>3, MarksAreOld
<1>6. CASE dcRows' = dcRows /\ (Again(r) \/ Leaves(r, "dropped"))
  <2>1. Rows'
    BY <1>1, <1>2, <1>5, <1>6, RowsKept
  <2>2. UploadsOnce'
    BY <1>1, <1>2, <1>6, OnceMoves
  <2> QED
    BY <1>4, <2>1, <2>2 DEF IgInv
<1>7. CASE dcRows' = dcRows \cup {new}
  <2>1. /\ new \in [id: DocIds, owner: {Owner(j) : j \in Jobs}, status: {"processing", "indexed"}]
        /\ new.id = Doc(r) /\ new.id[1] = a.job /\ new.owner = Owner(a.job) /\ new.status # "indexed"
    BY <1>2
  <2> HIDE DEF new, a
  <2>2. \A i : Complete(i)' <=> Complete(i)
    BY <1>1 DEF Complete, Pieces
  <2>3. Rows'
    <3>1. \A q \in Runners : igAt'[q].phase = "mark" => Complete(Doc(q))'
      <4> SUFFICES ASSUME NEW q \in Runners, igAt'[q].phase = "mark" PROVE Complete(Doc(q))'
        OBVIOUS
      <4>1. Doc(q)' = Doc(q) /\ igAt[q].phase = "mark"
        BY <1>5 DEF Doc
      <4> QED
        BY <1>2, <2>2, <4>1 DEF Rows
    <3>2. \A d \in dcRows' : /\ d \in [id: DocIds, owner: {Owner(j) : j \in Jobs}, status: {"processing", "indexed"}]
                             /\ d.owner = Owner(d.id[1])
                             /\ d.status = "indexed" => Complete(d.id)'
      BY <1>2, <1>7, <2>1, <2>2 DEF Rows
    <3>3. \A c \in dcChunks' : c.doc \in DocIds /\ (c \in Pieces(c.doc))'
      BY <1>1, <1>2 DEF Rows, Pieces
    <3> QED
      BY <3>1, <3>2, <3>3 DEF Rows
  <2>4. \A d \in dcRows : d.id[1] \in Uploads => d.id[1] # a.job
    <3> SUFFICES ASSUME NEW d \in dcRows, d.id[1] \in Uploads, d.id[1] = a.job PROVE FALSE
      OBVIOUS
    <3>1. r \in Workers
      BY <1>1, <1>3 DEF Where, Runners, IgInv, a
    <3> QED
      BY <1>1, <1>2, <3>1 DEF UploadsOnce, Once1, a
  <2>5. /\ \A j \in Jobs : j # a.job => igJob'[j] = igJob[j]
        /\ igJob'[a.job] \in {"working", "dropped"}
        /\ \A w \in Workers : Has(w)' => Has(w) /\ igAt'[w].job = igAt[w].job
        /\ \A w \in Workers : w # r => igAt'[w] = igAt[w]
        /\ r \in Workers => igAt'[r].phase \in {"embed", "free"}
    <3>1. CASE Proceeds(r, "embed")
      <4>1. igJob' = igJob /\ igAt' = [igAt EXCEPT ![r].phase = "embed"]
        BY <3>1 DEF Proceeds
      <4>2. igAt'[r].phase = "embed" /\ igAt'[r].job = igAt[r].job
        BY <1>2, <4>1 DEF Turns, a
      <4>3. \A w \in Workers : w # r => igAt'[w] = igAt[w]
        BY <1>2, <1>3, <4>1
      <4> QED
        BY <1>1, <1>2, <4>1, <4>2, <4>3 DEF Has
    <3>2. CASE Again(r)
      <4>1. igJob' = igJob /\ r = Activity /\ \A w \in Workers : igAt'[w] = igAt[w]
        BY <1>2, <1>3, <3>2 DEF Again
      <4> QED
        BY <1>2, <1>3, <4>1 DEF Has
    <3>3. CASE Leaves(r, "dropped")
      <4>1. /\ igJob' = [igJob EXCEPT ![a.job] = "dropped"]
            /\ igAt'[r] = Free /\ \A w \in Workers : w # r => igAt'[w] = igAt[w]
        BY <1>2, <1>3, <3>3 DEF Leaves, a
      <4>2. Free.phase = "free" /\ "free" \notin Phases
        BY DEF Free, Calls, Phases
      <4> QED
        BY <1>2, <4>1, <4>2 DEF Has
    <3> QED
      BY <1>1, <3>1, <3>2, <3>3
  <2>6. ASSUME NEW d \in dcRows', d.id[1] \in Uploads PROVE Once1(d)'
    <3>1. CASE d = new
      <4>1. a.job \in Uploads /\ r \in Workers
        BY <1>1, <1>2, <1>3, <2>1, <2>6, <3>1 DEF Where, Runners, a
      <4>2. d.id[2] = 1
        BY <1>1, <1>2, <2>1, <3>1, <4>1 DEF Where, a
      <4>3. igJob'[d.id[1]] \notin Pending /\ igJob'[d.id[1]] # "done"
        BY <2>1, <2>5, <3>1 DEF Pending
      <4>4. \A e \in dcRows' : e.id[1] = d.id[1] => e = d
        BY <1>7, <2>1, <2>4, <3>1, <4>1
      <4>5. ASSUME NEW w \in Workers, Has(w)', igAt'[w].job = d.id[1]
            PROVE  igAt'[w].phase = "embed"
        <5>1. Has(w) /\ igAt[w].job = a.job
          BY <2>1, <2>5, <3>1, <4>5
        <5>2. w = r
          <6>1. \A u, v \in Workers : Has(u) /\ Has(v) /\ igAt[u].job = igAt[v].job => u = v
            BY <1>2 DEF Where
          <6> QED
            BY <1>1, <4>1, <5>1, <6>1 DEF a
        <5> QED
          BY <2>5, <4>1, <4>5, <5>2 DEF Has, Calls, Phases
      <4> QED
        BY <4>2, <4>3, <4>4, <4>5 DEF Once1
    <3>2. CASE d \in dcRows
      <4>1. Once1(d) /\ d.id[1] # a.job /\ d.id[1] \in Jobs
        BY <1>2, <1>3, <2>4, <2>6, <3>2 DEF UploadsOnce
      <4>2. \A e \in dcRows' : e.id[1] = d.id[1] => e = d
        BY <1>7, <2>1, <4>1 DEF Once1
      <4>3. ASSUME NEW w \in Workers, Has(w)', igAt'[w].job = d.id[1]
            PROVE  igAt'[w] = igAt[w] /\ Has(w) /\ igAt[w].job = d.id[1]
        BY <2>5, <4>1, <4>3 DEF a
      <4>4. igJob'[d.id[1]] = igJob[d.id[1]]
        BY <2>5, <4>1
      <4> QED
        BY <4>1, <4>2, <4>3, <4>4 DEF Once1
    <3> QED
      BY <1>7, <2>6, <3>1, <3>2
  <2>7. UploadsOnce'
    BY <2>6 DEF UploadsOnce
  <2> QED
    BY <1>4, <2>3, <2>7 DEF IgInv
<1> QED
  BY <1>1, <1>6, <1>7

\* The rows of an id are marked.
LEMMA MarkKeeps ==
  ASSUME IgInv, NEW r \in Runners, NEW o \in Outcomes, MarkIndexed(r, o)
  PROVE  IgInv'
<1> DEFINE a == igAt[r]
           marked(d) == [d EXCEPT !.status = "indexed"]
           after(d) == IF d.id = Doc(r) THEN marked(d) ELSE d
<1>1. /\ Has(r) /\ igQueue' = igQueue /\ dcChunks' = dcChunks /\ a.phase = "mark"
      /\ \/ o = "ok" /\ Proceeds(r, "graph")
         \/ o # "ok" /\ (Again(r) \/ Leaves(r, "dropped"))
      /\ dcRows' = IF o = "lost" THEN dcRows ELSE {after(d) : d \in dcRows}
  <2>1. "mark" \in Phases /\ Where
    BY DEF Calls, Phases, IgInv
  <2>2. /\ Has(r) /\ igQueue' = igQueue
        /\ o = "ok" => Proceeds(r, "graph")
        /\ o # "ok" => Again(r) \/ Leaves(r, "dropped")
    BY <2>1, CallMoves DEF MarkIndexed
  <2>3. /\ a.phase = "mark" /\ dcChunks' = dcChunks
        /\ dcRows' = IF o = "lost" THEN dcRows ELSE {after(d) : d \in dcRows}
    BY DEF MarkIndexed, Call, UpdateStatus
  <2> HIDE DEF after
  <2> QED
    BY <2>2, <2>3
<1>2. /\ igAt \in [Runners -> {Free} \cup Turns] /\ igJob \in [Jobs -> IgPlaces]
      /\ a \in Turns /\ a.job \in Jobs /\ igJob[a.job] = "working"
      /\ Doc(r) \in DocIds /\ Doc(r)[1] = a.job /\ Doc(r)[2] = a.attempt
      /\ Rows /\ Where /\ UploadsOnce
  BY <1>1, RunnerHas DEF IgInv, Where
<1>3. /\ "graph" \in Phases \ {"mark"} /\ "dropped" \in Ended
      /\ Workers \subseteq Runners /\ Activity \notin Workers /\ \A u \in Uploads : u \in Jobs /\ u \notin Briefs
  BY IgNames DEF Calls, Phases, Ended, Runners, Jobs
<1>4. Where'
  BY <1>1, <1>2, <1>3, WhereMoves
<1>5. \A q \in Runners : igAt'[q].phase = "mark" => igAt'[q] = igAt[q]
  BY <1>1, <1>2, <1>3, MarksAreOld
<1>6. CASE o = "lost"
  <2>1. Rows'
    BY <1>1, <1>2, <1>5, <1>6, RowsKept
  <2>2. UploadsOnce'
    BY <1>1, <1>2, <1>6, OnceMoves
  <2> QED
    BY <1>4, <2>1, <2>2 DEF IgInv
<1>7. CASE o # "lost"
  <2> DEFINE Row == [id: DocIds, owner: {Owner(j) : j \in Jobs}, status: {"processing", "indexed"}]
  <2>1. /\ Complete(Doc(r)) /\ \A i : Complete(i)' <=> Complete(i)
        /\ \A c \in dcChunks' : c.doc \in DocIds /\ (c \in Pieces(c.doc))'
    BY <1>1, <1>2 DEF Rows, Complete, Pieces
  <2>2. \A d \in dcRows : /\ after(d) \in Row /\ after(d).id = d.id /\ after(d).owner = d.owner
                          /\ d.status = "indexed" => after(d).status = "indexed"
                          /\ d.id = Doc(r) => after(d).status = "indexed"
                          /\ d.id # Doc(r) => after(d) = d
    <3> SUFFICES ASSUME NEW d \in dcRows
                 PROVE  /\ after(d) \in Row /\ after(d).id = d.id /\ after(d).owner = d.owner
                        /\ d.status = "indexed" => after(d).status = "indexed"
                        /\ d.id = Doc(r) => after(d).status = "indexed"
                        /\ d.id # Doc(r) => after(d) = d
      OBVIOUS
    <3>1. d \in Row
      BY <1>2 DEF Rows
    <3>2. /\ marked(d) \in Row /\ marked(d).id = d.id /\ marked(d).owner = d.owner
          /\ marked(d).status = "indexed"
      BY <3>1
    <3> HIDE DEF marked, Row
    <3> QED
      BY <3>1, <3>2
  <2> HIDE DEF after
  <2>3. \A e \in dcRows' : \E d \in dcRows : e = after(d)
    BY <1>1, <1>7
  <2>4. Rows'
    <3>1. \A q \in Runners : igAt'[q].phase = "mark" => Complete(Doc(q))'
      <4> SUFFICES ASSUME NEW q \in Runners, igAt'[q].phase = "mark" PROVE Complete(Doc(q))'
        OBVIOUS
      <4>1. Doc(q)' = Doc(q) /\ igAt[q].phase = "mark"
        BY <1>5 DEF Doc
      <4> QED
        BY <1>2, <2>1, <4>1 DEF Rows
    <3>2. ASSUME NEW e \in dcRows'
          PROVE  e \in Row /\ e.owner = Owner(e.id[1]) /\ (e.status = "indexed" => Complete(e.id)')
      <4>1. PICK d \in dcRows : e = after(d)
        BY <2>3
      <4>2. d.owner = Owner(d.id[1]) /\ (d.status = "indexed" => Complete(d.id))
        BY <1>2 DEF Rows
      <4>3. e.status = "indexed" => Complete(d.id)
        BY <2>1, <2>2, <4>1, <4>2
      <4> QED
        BY <2>1, <2>2, <4>1, <4>2, <4>3
    <3> QED
      BY <2>1, <3>1, <3>2 DEF Rows
  <2>5. ASSUME NEW e \in dcRows', e.id[1] \in Uploads PROVE Once1(e)'
    <3>1. PICK d \in dcRows : e = after(d)
      BY <2>3
    <3>2. e.id = d.id /\ (d.status = "indexed" => e.status = "indexed") /\ Once1(d) /\ d.id[1] \in Jobs
      BY <1>2, <1>3, <2>2, <2>5, <3>1 DEF UploadsOnce
    <3>3. \A x \in dcRows' : x.id[1] = e.id[1] => x = e
      <4> SUFFICES ASSUME NEW x \in dcRows', x.id[1] = e.id[1] PROVE x = e
        OBVIOUS
      <4>1. PICK y \in dcRows : x = after(y)
        BY <2>3
      <4>2. y = d
        BY <2>2, <3>2, <4>1 DEF Once1
      <4> QED
        BY <3>1, <4>1, <4>2
    <3>4. e.id[2] = 1
      BY <3>2 DEF Once1
    <3>5. CASE Proceeds(r, "graph")
      <4>1. /\ igJob' = igJob /\ igAt'[r].phase = "graph" /\ igAt'[r].job = a.job
            /\ \A w \in Runners : w # r => igAt'[w] = igAt[w]
        BY <1>2, <3>5 DEF Proceeds, Turns
      <4>2. ASSUME NEW w \in Workers, Has(w)', igAt'[w].job = e.id[1]
            PROVE  igAt'[w].phase \notin {"parse", "create"} /\ (igAt'[w].phase = "graph" => e.status = "indexed")
        <5>1. CASE w = r
          <6>1. d.id = Doc(r)
            <7>1. a.attempt = 1
              BY <1>1, <1>2, <5>1 DEF Where
            <7>2. d.id[1] = a.job /\ d.id[2] = 1
              BY <3>2, <4>1, <4>2, <5>1 DEF Once1
            <7>3. d.id \in DocIds
              BY <1>2 DEF Rows
            <7> QED
              BY <1>2, <7>1, <7>2, <7>3 DEF DocIds
          <6> QED
            BY <2>2, <3>1, <4>1, <5>1, <6>1
        <5>2. CASE w # r
          <6>1. igAt'[w] = igAt[w]
            BY <1>3, <4>1, <5>2
          <6> QED
            BY <3>2, <4>2, <6>1 DEF Once1, Has
        <5> QED
          BY <5>1, <5>2
      <4> QED
        BY <3>2, <3>3, <3>4, <4>1, <4>2 DEF Once1
    <3>6. CASE Again(r)
      <4>1. igJob' = igJob /\ \A w \in Workers : igAt'[w] = igAt[w]
        BY <1>2, <1>3, <3>6 DEF Again
      <4> QED
        BY <3>2, <3>3, <3>4, <4>1 DEF Once1, Has
    <3>7. CASE Leaves(r, "dropped")
      <4>1. /\ igAt'[r] = Free /\ \A w \in Workers : w # r => igAt'[w] = igAt[w]
            /\ igJob'[a.job] = "dropped" /\ \A j \in Jobs : j # a.job => igJob'[j] = igJob[j]
        BY <1>2, <1>3, <3>7 DEF Leaves
      <4>2. Free.phase = "free" /\ "free" \notin Phases /\ "dropped" \notin Pending
        BY DEF Free, Calls, Phases, Pending
      <4>3. \A w \in Workers : Has(w)' => Has(w) /\ igAt'[w] = igAt[w]
        BY <4>1, <4>2 DEF Has
      <4>4. igJob'[e.id[1]] \notin Pending /\ (igJob'[e.id[1]] = "done" => d.status = "indexed")
        BY <3>2, <4>1, <4>2 DEF Once1
      <4> QED
        BY <3>2, <3>3, <3>4, <4>3, <4>4 DEF Once1
    <3> QED
      BY <1>1, <3>5, <3>6, <3>7
  <2>6. UploadsOnce'
    BY <2>5 DEF UploadsOnce
  <2> QED
    BY <1>4, <2>4, <2>6 DEF IgInv
<1> QED
  BY <1>6, <1>7

\* A pending job that stays pending, or a brief, has no row of an upload.
LEMMA PendingHasNone ==
  ASSUME IgInv, NEW j, igJob[j] \in Pending \/ j \notin Uploads
  PROVE  \A d \in dcRows : d.id[1] \in Uploads => d.id[1] # j
BY DEF IgInv, UploadsOnce, Once1

\* The upload arrives, and gets into the channel.
LEMMA UploadKeeps ==
  ASSUME IgInv, NEW j \in Uploads, Upload(j) \/ SubmitJob(j)
  PROVE  IgInv'
<1>1. /\ igAt' = igAt /\ dcRows' = dcRows /\ dcChunks' = dcChunks /\ igJob[j] \in Pending
      /\ igJob[j] # "queued"
      /\ \/ igQueue' = igQueue /\ igJob' = [igJob EXCEPT ![j] = "waiting"]
         \/ igQueue' = Append(igQueue, j) /\ igJob' = [igJob EXCEPT ![j] = "queued"]
  BY DEF Upload, SubmitJob, Move, Pending, knVars
<1>2. /\ igJob \in [Jobs -> IgPlaces] /\ igQueue \in Seq(Uploads) /\ j \in Jobs
      /\ igAt \in [Runners -> {Free} \cup Turns]
      /\ \A k \in 1 .. Len(igQueue) : igQueue[k] # j
  BY <1>1 DEF IgInv, Where, Jobs
<1>3. /\ igJob' \in [Jobs -> IgPlaces] /\ igJob'[j] \in Pending
      /\ \A i \in Jobs : i # j => igJob'[i] = igJob[i]
      /\ igQueue' = Append(igQueue, j) => igJob'[j] = "queued"
  <2>1. "waiting" \in Pending /\ "queued" \in Pending /\ Pending \subseteq IgPlaces
    BY DEF Pending, IgPlaces
  <2>2. CASE igQueue' = igQueue /\ igJob' = [igJob EXCEPT ![j] = "waiting"]
    <3>1. igQueue' # Append(igQueue, j)
      BY <1>2, <2>2
    <3> QED
      BY <1>2, <2>1, <2>2, <3>1
  <2>3. CASE igJob' = [igJob EXCEPT ![j] = "queued"]
    BY <1>2, <2>1, <2>3
  <2> QED
    BY <1>1, <2>2, <2>3
<1>4. /\ igQueue' \in Seq(Uploads)
      /\ \A k \in 1 .. Len(igQueue') : igJob'[igQueue'[k]] = "queued"
      /\ \A k, l \in 1 .. Len(igQueue') : igQueue'[k] = igQueue'[l] => k = l
  <2>1. /\ \A k \in 1 .. Len(igQueue) : igJob'[igQueue[k]] = "queued"
        /\ \A k, l \in 1 .. Len(igQueue) : igQueue[k] = igQueue[l] => k = l
    <3>1. \A k \in 1 .. Len(igQueue) : igQueue[k] \in Jobs /\ igJob[igQueue[k]] = "queued"
      BY <1>2 DEF IgInv, Where, Jobs
    <3> QED
      BY <1>2, <1>3, <3>1 DEF IgInv, Where
  <2>2. CASE igQueue' = igQueue
    BY <1>2, <2>1, <2>2
  <2>3. CASE igQueue' = Append(igQueue, j)
    <3> DEFINE L == Len(igQueue)
    <3>1. /\ igQueue' \in Seq(Uploads) /\ Len(igQueue') = L + 1 /\ igQueue'[L + 1] = j
          /\ L \in Nat /\ \A k \in 1 .. L : igQueue'[k] = igQueue[k]
      BY <1>2, <2>3
    <3>2. \A k \in 1 .. Len(igQueue') : k \in 1 .. L \/ k = L + 1
      BY <3>1
    <3> HIDE DEF L
    <3>3. \A k \in 1 .. Len(igQueue') : igJob'[igQueue'[k]] = "queued"
      BY <1>3, <2>1, <2>3, <3>1, <3>2 DEF L
    <3>4. \A k, l \in 1 .. Len(igQueue') : igQueue'[k] = igQueue'[l] => k = l
      BY <1>2, <2>1, <3>1, <3>2 DEF L
    <3> QED
      BY <3>1, <3>3, <3>4
  <2> QED
    BY <1>1, <2>2, <2>3
<1>5. Where'
  <2>1. \A r \in Runners : Has(r) => igAt[r].job \in Jobs /\ igAt[r].job # j
    <3> SUFFICES ASSUME NEW r \in Runners, Has(r) PROVE igAt[r].job \in Jobs /\ igAt[r].job # j
      OBVIOUS
    <3>1. igAt[r].job \in Jobs
      BY RunnerHas DEF IgInv
    <3>2. igJob[igAt[r].job] = "working"
      BY DEF IgInv, Where
    <3> QED
      BY <1>1, <3>1, <3>2 DEF Pending
  <2>2. \A r \in Runners : Has(r)' => igJob'[igAt'[r].job] = "working"
    BY <1>1, <1>3, <2>1 DEF IgInv, Where, Has
  <2> QED
    BY <1>1, <1>3, <1>4, <2>2 DEF IgInv, Where, Has
<1>6. Rows'
  BY <1>1, RowsKept DEF IgInv
<1>7. UploadsOnce'
  <2> SUFFICES ASSUME NEW d \in dcRows, d.id[1] \in Uploads PROVE Once1(d)'
    BY <1>1 DEF UploadsOnce
  <2>1. Once1(d) /\ d.id[1] # j /\ d.id[1] \in Jobs
    BY <1>1, PendingHasNone DEF IgInv, UploadsOnce, Jobs
  <2>2. igJob'[d.id[1]] = igJob[d.id[1]]
    BY <1>3, <2>1
  <2> QED
    BY <1>1, <2>1, <2>2 DEF Once1, Has
<1> QED
  BY <1>5, <1>6, <1>7 DEF IgInv

\* A free worker gets the first job of the channel, the activity a brief's text.
LEMMA BeginKeeps ==
  ASSUME IgInv, (\E w \in Workers : TakeJob(w)) \/ (\E j \in Briefs : StartBrief(j))
  PROVE  IgInv'
<1>1. PICK r \in Runners, j \in Jobs, phase \in {"parse", "create"} :
        /\ igAt[r] = Free /\ dcRows' = dcRows /\ dcChunks' = dcChunks
        /\ igJob' = [igJob EXCEPT ![j] = "working"]
        /\ igAt' = [igAt EXCEPT ![r] = [phase |-> phase, job |-> j, attempt |-> 1]]
        /\ \/ r \in Workers /\ j \in Uploads /\ igQueue # <<>> /\ j = Head(igQueue) /\ igQueue' = Tail(igQueue)
           \/ r = Activity /\ j \in Briefs /\ igJob[j] = "new" /\ igQueue' = igQueue
  <2>1. CASE \E w \in Workers : TakeJob(w)
    <3>1. PICK w \in Workers : TakeJob(w)
      BY <2>1
    <3>2. Head(igQueue) \in Uploads /\ w \in Runners /\ Head(igQueue) \in Jobs
      BY <3>1 DEF TakeJob, IgInv, Where, Runners, Jobs
    <3> QED
      BY <3>1, <3>2 DEF TakeJob, Move, Busy, knVars
  <2>2. CASE \E j \in Briefs : StartBrief(j)
    BY <2>2 DEF StartBrief, Move, Busy, knVars, Runners, Jobs
  <2> QED
    BY <2>1, <2>2
<1> DEFINE x == [phase |-> phase, job |-> j, attempt |-> 1]
<1>2. /\ igJob \in [Jobs -> IgPlaces] /\ igQueue \in Seq(Uploads)
      /\ igAt \in [Runners -> {Free} \cup Turns] /\ x \in Turns
      /\ x.phase = phase /\ x.job = j /\ x.attempt = 1 /\ phase \in Phases /\ phase # "mark"
      /\ Workers \subseteq Runners /\ Activity \notin Workers /\ Activity \in Runners
      /\ \A u \in Uploads : u \in Jobs /\ u \notin Briefs
  BY IgNames, IgBounds DEF IgInv, Where, Turns, Calls, Phases, Runners, Jobs
<1>3. /\ igAt'[r] = x /\ igAt' \in [Runners -> {Free} \cup Turns]
      /\ \A q \in Runners : q # r => igAt'[q] = igAt[q]
      /\ igJob' \in [Jobs -> IgPlaces] /\ igJob'[j] = "working"
      /\ \A i \in Jobs : i # j => igJob'[i] = igJob[i]
  BY <1>1, <1>2 DEF IgPlaces
<1>4. igJob[j] \in Pending
  <2>1. CASE r \in Workers /\ igQueue # <<>> /\ j = Head(igQueue)
    <3>1. 1 \in 1 .. Len(igQueue) /\ j = igQueue[1]
      BY <1>2, <2>1
    <3> QED
      BY <3>1 DEF IgInv, Where, Pending
  <2>2. CASE igJob[j] = "new"
    BY <2>2 DEF Pending
  <2> QED
    BY <1>1, <2>1, <2>2
<1> HIDE DEF x
<1>5. \A q \in Runners : Has(q) => q # r /\ igAt[q].job \in Jobs /\ igAt[q].job # j
  <2> SUFFICES ASSUME NEW q \in Runners, Has(q)
               PROVE  q # r /\ igAt[q].job \in Jobs /\ igAt[q].job # j
    OBVIOUS
  <2>1. q # r
    BY <1>1 DEF Has, Free, Calls, Phases
  <2>2. igAt[q].job \in Jobs /\ igJob[igAt[q].job] = "working"
    BY RunnerHas DEF IgInv, Where
  <2> QED
    BY <1>4, <2>1, <2>2 DEF Pending
<1>6. \A q \in Runners : Has(q)' => \/ q = r /\ igAt'[q] = x
                                    \/ q # r /\ Has(q) /\ igAt'[q] = igAt[q]
  BY <1>3 DEF Has
<1>7. /\ igQueue' \in Seq(Uploads)
      /\ \A k \in 1 .. Len(igQueue') : igJob'[igQueue'[k]] = "queued"
      /\ \A k, l \in 1 .. Len(igQueue') : igQueue'[k] = igQueue'[l] => k = l
  <2>0. /\ \A k \in 1 .. Len(igQueue) : igQueue[k] \in Jobs /\ igJob[igQueue[k]] = "queued"
        /\ \A k, l \in 1 .. Len(igQueue) : igQueue[k] = igQueue[l] => k = l
    BY <1>2 DEF IgInv, Where
  <2>1. CASE igQueue # <<>> /\ j = Head(igQueue) /\ igQueue' = Tail(igQueue)
    <3> DEFINE L == Len(igQueue)
    <3>1. /\ L \in Nat /\ L > 0 /\ j = igQueue[1] /\ Len(igQueue') = L - 1
          /\ igQueue' \in Seq(Uploads)
          /\ \A k \in 1 .. L - 1 : igQueue'[k] = igQueue[k + 1]
      BY <1>2, <2>1
    <3>2. \A k \in 1 .. L - 1 : k + 1 \in 1 .. L /\ k + 1 # 1
      BY <3>1
    <3>3. 1 \in 1 .. L
      BY <3>1
    <3> HIDE DEF L
    <3>4. \A k \in 1 .. L - 1 : igQueue'[k] \in Jobs /\ igQueue'[k] # j /\ igJob[igQueue'[k]] = "queued"
      <4> SUFFICES ASSUME NEW k \in 1 .. L - 1
                   PROVE  igQueue'[k] \in Jobs /\ igQueue'[k] # j /\ igJob[igQueue'[k]] = "queued"
        OBVIOUS
      <4>1. k + 1 \in 1 .. L /\ k + 1 # 1 /\ igQueue'[k] = igQueue[k + 1]
        BY <3>1, <3>2
      <4>2. igQueue[k + 1] # j
        BY <2>0, <3>1, <3>3, <4>1 DEF L
      <4> QED
        BY <2>0, <4>1, <4>2 DEF L
    <3>5. \A k, l \in 1 .. L - 1 : igQueue'[k] = igQueue'[l] => k = l
      <4> SUFFICES ASSUME NEW k \in 1 .. L - 1, NEW l \in 1 .. L - 1, igQueue'[k] = igQueue'[l]
                   PROVE  k = l
        OBVIOUS
      <4>1. igQueue[k + 1] = igQueue[l + 1]
        BY <3>1
      <4>2. k + 1 = l + 1
        BY <2>0, <3>2, <4>1 DEF L
      <4> QED
        BY <3>1, <4>2
    <3> QED
      BY <1>3, <3>1, <3>4, <3>5
  <2>2. CASE igQueue' = igQueue /\ igJob[j] = "new"
    BY <1>2, <1>3, <2>0, <2>2
  <2> QED
    BY <1>1, <2>1, <2>2
<1>8. Where'
  <2>1. \A q \in Runners : Has(q)' => igJob'[igAt'[q].job] = "working"
    BY <1>2, <1>3, <1>5, <1>6 DEF IgInv, Where
  <2>2. \A w \in Workers : Has(w)' => igAt'[w].job \in Uploads /\ igAt'[w].attempt = 1
    <3> SUFFICES ASSUME NEW w \in Workers, Has(w)' PROVE igAt'[w].job \in Uploads /\ igAt'[w].attempt = 1
      OBVIOUS
    <3>1. CASE w = r
      BY <1>1, <1>2, <1>3, <3>1
    <3>2. CASE w # r
      BY <1>2, <1>6, <3>2 DEF IgInv, Where
    <3> QED
      BY <3>1, <3>2
  <2>3. Has(Activity)' => igAt'[Activity].job \in Briefs
    <3>1. CASE Activity = r
      BY <1>1, <1>2, <1>3, <3>1
    <3>2. CASE Activity # r
      BY <1>2, <1>6, <3>2 DEF IgInv, Where
    <3> QED
      BY <3>1, <3>2
  <2>4. \A v, w \in Workers : Has(v)' /\ Has(w)' /\ igAt'[v].job = igAt'[w].job => v = w
    <3>1. \A v, w \in Workers : Has(v) /\ Has(w) /\ igAt[v].job = igAt[w].job => v = w
      BY DEF IgInv, Where
    <3> QED
      BY <1>2, <1>5, <1>6, <3>1
  <2> QED
    BY <1>3, <1>7, <2>1, <2>2, <2>3, <2>4 DEF Where
<1>9. \A q \in Runners : igAt'[q].phase = "mark" => igAt'[q] = igAt[q]
  BY <1>2, <1>3
<1>10. Rows'
  BY <1>1, <1>9, RowsKept DEF IgInv
<1>11. UploadsOnce'
  <2> SUFFICES ASSUME NEW d \in dcRows, d.id[1] \in Uploads PROVE Once1(d)'
    BY <1>1 DEF UploadsOnce
  <2>1. Once1(d) /\ d.id[1] # j /\ d.id[1] \in Jobs
    BY <1>2, <1>4, PendingHasNone DEF IgInv, UploadsOnce
  <2>2. igJob'[d.id[1]] = igJob[d.id[1]]
    BY <1>3, <2>1
  <2>3. ASSUME NEW w \in Workers, Has(w)', igAt'[w].job = d.id[1]
        PROVE  Has(w) /\ igAt'[w] = igAt[w]
    BY <1>2, <1>6, <2>1, <2>3
  <2> QED
    BY <1>1, <2>1, <2>2, <2>3 DEF Once1
<1> QED
  BY <1>8, <1>10, <1>11 DEF IgInv

\* A stop frees the workers; the activity's run starts over, or is given up.
Stopped ==
  /\ igQueue' = <<>> /\ dcRows' = dcRows /\ dcChunks' = dcChunks
  /\ igAt' \in [Runners -> {Free} \cup Turns] /\ igJob' \in [Jobs -> IgPlaces]
  /\ \A j \in Jobs : igJob'[j] \in {igJob[j], "lost"}
  /\ \A q \in Runners : Has(q)' => q = Activity
  /\ Has(Activity)' => /\ igAt'[Activity].phase = "create" /\ igAt'[Activity].job \in Briefs
                       /\ igJob'[igAt'[Activity].job] = "working"

LEMMA StopFacts ==
  ASSUME IgInv, StopProcess
  PROVE  Stopped
<1> DEFINE act == igAt[Activity]
           again == act # Free /\ act.attempt < IgMaxAttempts
<1>1. /\ igQueue' = <<>> /\ dcRows' = dcRows /\ dcChunks' = dcChunks
      /\ igAt' = [r \in Runners |-> IF r = Activity /\ again THEN NextAttempt(act) ELSE Free]
      /\ DOMAIN igJob' = Jobs /\ igJob' = [j \in Jobs |-> igJob'[j]]
      /\ \A j \in Jobs : igJob'[j] \in {igJob[j], "lost"}
  BY DEF StopProcess, knVars
<1>2. /\ igJob \in [Jobs -> IgPlaces] /\ igAt \in [Runners -> {Free} \cup Turns]
      /\ Workers \subseteq Runners /\ Activity \notin Workers /\ Activity \in Runners
      /\ Free.phase = "free" /\ "free" \notin Phases /\ "lost" \in Ended
  BY IgNames DEF IgInv, Where, Runners, Free, Calls, Phases, Ended
<1>3. igJob' \in [Jobs -> IgPlaces]
  BY <1>1, <1>2 DEF IgPlaces
<1>4. CASE again
  <2>1. /\ act \in Turns /\ act.attempt < IgMaxAttempts /\ act.attempt \in Nat
        /\ act.job \in Briefs /\ act.job \in Jobs /\ igJob[act.job] = "working"
    <3>1. act \in Turns
      BY <1>2, <1>4
    <3>2. Has(Activity)
      BY <3>1 DEF Has, Turns
    <3> QED
      BY <1>2, <1>4, <3>1, <3>2 DEF IgInv, Where, Turns, Jobs
  <2> DEFINE b == NextAttempt(act)
  <2>2. b \in Turns /\ b.phase = "create" /\ b.job = act.job
    <3>1. act.attempt + 1 \in 1 .. IgMaxAttempts
      BY <2>1, IgBounds
    <3> HIDE DEF act
    <3> QED
      BY <2>1, <3>1, NextAttemptFacts
  <2>3. igAt'[Activity] = b /\ \A q \in Runners : q # Activity => igAt'[q] = Free
    BY <1>1, <1>2, <1>4
  <2>4. igJob'[act.job] = "working"
    <3>1. act.job \notin {igAt[w].job : w \in {v \in Workers : igAt[v] # Free}}
      <4> SUFFICES ASSUME NEW w \in Workers, igAt[w] # Free PROVE igAt[w].job # act.job
        OBVIOUS
      <4>1. igAt[w] \in Turns
        BY <1>2
      <4>2. igAt[w].job \in Uploads
        BY <4>1 DEF Turns, Has, IgInv, Where
      <4> QED
        BY <2>1, <4>2, IgNames
    <3>2. act.job \notin Uploads
      BY <2>1, IgNames
    <3>3. igJob'[act.job] = igJob[act.job]
      BY <1>4, <2>1, <3>1, <3>2 DEF StopProcess
    <3> QED
      BY <2>1, <3>3
  <2>5. \A q \in Runners : Has(q)' => q = Activity
    BY <1>2, <2>3 DEF Has
  <2>6. igAt' \in [Runners -> {Free} \cup Turns]
    BY <1>1, <2>2
  <2> HIDE DEF act, b
  <2> QED
    BY <1>1, <1>2, <1>3, <2>1, <2>2, <2>3, <2>4, <2>5, <2>6 DEF Stopped
<1>5. CASE ~again
  <2>1. /\ igAt' = [r \in Runners |-> Free]
        /\ \A q \in Runners : igAt'[q] = Free
    BY <1>1, <1>5
  <2> HIDE DEF again, act
  <2> QED
    BY <1>1, <1>2, <1>3, <2>1 DEF Stopped, Has
<1> QED
  BY <1>4, <1>5

LEMMA StopKeeps ==
  ASSUME IgInv, StopProcess
  PROVE  IgInv'
<1>1. Stopped
  BY StopFacts
<1>2. Activity \notin Workers /\ Workers \subseteq Runners /\ "lost" \notin Pending
  BY IgNames DEF Runners, Pending
<1>3. Where'
  <2>1. igQueue' \in Seq(Uploads) /\ 1 .. Len(igQueue') = {}
    BY <1>1 DEF Stopped
  <2>2. \A w \in Workers : ~Has(w)'
    BY <1>1, <1>2 DEF Stopped
  <2> QED
    BY <1>1, <2>1, <2>2 DEF Stopped, Where
<1>4. \A q \in Runners : igAt'[q].phase = "mark" => igAt'[q] = igAt[q]
  BY <1>1 DEF Stopped, Has, Calls, Phases
<1>5. Rows'
  BY <1>1, <1>4, RowsKept DEF IgInv, Stopped
<1>6. UploadsOnce'
  <2> SUFFICES ASSUME NEW d \in dcRows, d.id[1] \in Uploads PROVE Once1(d)'
    BY <1>1 DEF UploadsOnce, Stopped
  <2>1. Once1(d) /\ d.id[1] \in Jobs
    BY DEF IgInv, UploadsOnce, Jobs
  <2>2. igJob'[d.id[1]] \in {igJob[d.id[1]], "lost"}
    BY <1>1, <2>1 DEF Stopped
  <2>3. \A w \in Workers : ~Has(w)'
    BY <1>1, <1>2 DEF Stopped
  <2> QED
    BY <1>1, <1>2, <2>1, <2>2, <2>3 DEF Once1, Stopped
<1> QED
  BY <1>3, <1>5, <1>6 DEF IgInv

LEMMA HangKeeps ==
  ASSUME IgInv, NEW w \in Workers, Hang(w)
  PROVE  IgInv'
<1>1. /\ w \in Runners /\ Has(w) /\ Proceeds(w, "hung")
      /\ igQueue' = igQueue /\ dcRows' = dcRows /\ dcChunks' = dcChunks
  BY DEF Hang, GoTo, Proceeds, Has, Calls, Phases, Runners, knVars
<1>2. "hung" \in Phases \ {"mark"}
  BY DEF Calls, Phases
<1>3. Where'
  BY <1>1, <1>2, WhereMoves DEF IgInv
<1>4. Rows'
  BY <1>1, <1>2, MarksAreOld, RowsKept DEF IgInv
<1>5. UploadsOnce'
  BY <1>1, OnceMoves DEF IgInv
<1> QED
  BY <1>3, <1>4, <1>5 DEF IgInv

LEMMA IgStep ==
  ASSUME IgInv, [IgNext]_<<knVars, igVars>>
  PROVE  IgInv'
<1>1. CASE \E j \in Uploads : Upload(j) \/ SubmitJob(j)
  BY <1>1, UploadKeeps
<1>2. CASE (\E w \in Workers : TakeJob(w)) \/ (\E j \in Briefs : StartBrief(j))
  BY <1>2, BeginKeeps
<1>3. ASSUME NEW r \in Runners, NEW o \in Outcomes,
             \/ Parse(r, o) \/ CreateRow(r, o) \/ Embed(r, o) \/ StoreText(r, o)
             \/ MarkIndexed(r, o) \/ BuildGraph(r, o) \/ StoreNothing(r)
      PROVE  IgInv'
  <2>1. CASE Parse(r, o) \/ Embed(r, o)
    BY <2>1, QuietCalls DEF Parse, Embed
  <2>2. CASE CreateRow(r, o)
    BY <2>2, CreateKeeps
  <2>3. CASE StoreText(r, o)
    BY <2>3, StoreKeeps
  <2>4. CASE MarkIndexed(r, o)
    BY <2>4, MarkKeeps
  <2>5. CASE BuildGraph(r, o) \/ StoreNothing(r)
    BY <2>5, EndCalls
  <2> QED
    BY <1>3, <2>1, <2>2, <2>3, <2>4, <2>5
<1>4. CASE StopProcess \/ \E w \in Workers : Hang(w)
  BY <1>4, StopKeeps, HangKeeps
<1>5. CASE UNCHANGED <<knVars, igVars>>
  <2>1. /\ dcRows' = dcRows /\ dcChunks' = dcChunks /\ igAt' = igAt
        /\ igJob' = igJob /\ igQueue' = igQueue
    BY <1>5 DEF knVars, igVars
  <2>2. Where' /\ UploadsOnce'
    BY <2>1 DEF IgInv, Where, Has, UploadsOnce, Once1
  <2>3. Rows'
    BY <2>1, RowsKept DEF IgInv
  <2> QED
    BY <2>2, <2>3 DEF IgInv
<1>6. "ok" \in Outcomes
  BY DEF Outcomes
<1> QED
  BY <1>1, <1>2, <1>3, <1>4, <1>5, <1>6 DEF IgNext, Runs

\* What is stored of a document is its text, cut.
LEMMA PiecesAreText ==
  ASSUME NEW id \in DocIds, Complete(id), Rows
  PROVE  TextWhole(id, Text[id[1]], Chunks[id[1]])
<1> DEFINE text == Text[id[1]]
           P == Split(text)
           own == {c \in dcChunks : c.doc = id}
<1>1. id[1] \in Jobs /\ text \in Seq(Nat) /\ Chunks[id[1]] = P
  BY IgText DEF DocIds, Jobs, Chunks
<1>2. Cut(text, P, Len(text)) /\ P \in Seq(Seq(1 .. Len(text))) /\ Len(P) \in Nat
  BY <1>1, SplitCuts DEF Cut
<1> HIDE DEF P
<1>3. own = ChunksOf(id, P, Owner(id[1])) /\ own # {}
  BY <1>1 DEF Complete, Pieces, ChunksOf, Rows
<1> HIDE DEF own, text
<1>4. /\ \A c \in own : /\ c.n \in 1 .. Len(P) /\ c.lines = P[c.n] /\ c.owner = Owner(id[1])
                        /\ c = [doc |-> id, n |-> c.n, owner |-> Owner(id[1]), lines |-> P[c.n]]
      /\ \A n \in 1 .. Len(P) : \E c \in own : c.n = n
  <2> DEFINE piece(n) == [doc |-> id, n |-> n, owner |-> Owner(id[1]), lines |-> P[n]]
  <2>1. own = {piece(n) : n \in 1 .. Len(P)}
    BY <1>3 DEF ChunksOf
  <2>2. \A n : /\ piece(n).n = n /\ piece(n).lines = P[n] /\ piece(n).owner = Owner(id[1])
               /\ piece(n) = [doc |-> id, n |-> n, owner |-> Owner(id[1]), lines |-> P[n]]
    OBVIOUS
  <2> HIDE DEF piece
  <2>3. \A c \in own : \E n \in 1 .. Len(P) : c = piece(n)
    BY <2>1
  <2> QED
    BY <2>1, <2>2, <2>3
<1>5. {c.n : c \in own} = 1 .. Len(P)
  BY <1>4
<1>6. \A c, e \in own : c.n = e.n => c = e
  BY <1>4
<1>7. \A c \in own : Len(c.lines) <= 1 \/ Length(text, c.lines) <= ChunkSize + 1
  BY <1>2, <1>4 DEF Cut, Fits
<1>8. UNION {Range(c.lines) : c \in own} = {i \in 1 .. Len(text) : text[i] # 0}
  <2>1. \A c \in own : DOMAIN c.lines = 1 .. Len(c.lines)
    <3> SUFFICES ASSUME NEW c \in own PROVE DOMAIN c.lines = 1 .. Len(c.lines)
      OBVIOUS
    <3>1. P[c.n] \in Seq(1 .. Len(text))
      BY <1>2, <1>4
    <3> QED
      BY <1>4, <3>1
  <2>2. ASSUME NEW c \in own, NEW k \in 1 .. Len(c.lines)
        PROVE  c.lines[k] \in 1 .. Len(text) /\ text[c.lines[k]] # 0
    <3>1. c.n \in 1 .. Len(P) /\ c.lines = P[c.n]
      BY <1>4
    <3> QED
      BY <1>2, <3>1 DEF Cut, OfText
  <2>3. ASSUME NEW i \in 1 .. Len(text), text[i] # 0
        PROVE  \E c \in own : \E k \in 1 .. Len(c.lines) : c.lines[k] = i
    <3>1. PICK n \in 1 .. Len(P) : \E k \in 1 .. Len(P[n]) : P[n][k] = i
      BY <1>2, <2>3 DEF Cut, AllOf
    <3>2. PICK c \in own : c.n = n
      BY <1>4
    <3> QED
      BY <1>4, <3>1, <3>2
  <2> QED
    BY <2>1, <2>2, <2>3 DEF Range
<1>9. \A c, e \in own : \A k \in 1 .. Len(c.lines), l \in 1 .. Len(e.lines) :
        c.n < e.n \/ (c.n = e.n /\ k < l) => c.lines[k] < e.lines[l]
  <2> SUFFICES ASSUME NEW c \in own, NEW e \in own,
                      NEW k \in 1 .. Len(c.lines), NEW l \in 1 .. Len(e.lines),
                      c.n < e.n \/ (c.n = e.n /\ k < l)
               PROVE  c.lines[k] < e.lines[l]
    OBVIOUS
  <2>1. /\ c.n \in 1 .. Len(P) /\ c.lines = P[c.n]
        /\ e.n \in 1 .. Len(P) /\ e.lines = P[e.n]
    BY <1>4
  <2>2. InOrder(P)
    BY <1>2 DEF Cut
  <2> HIDE DEF own, P
  <2> QED
    BY <2>1, <2>2 DEF InOrder
<1>10. \A d \in dcRows : d.id = id => d.owner = Owner(id[1])
  BY DEF Rows
<1>11. \A d \in dcRows : d.id = id => \A c \in own : c.owner = d.owner
  BY <1>4, <1>10
<1> QED
  BY <1>1, <1>3, <1>5, <1>6, <1>7, <1>8, <1>9, <1>11 DEF TextWhole, own, text

\* The first state: nothing is anywhere.
LEMMA IngestionInit == KnInit /\ IgInit => IgInv
<1> SUFFICES ASSUME KnInit, IgInit PROVE IgInv
  OBVIOUS
<1>1. \A r \in Runners : igAt[r] = Free /\ igAt[r].phase = "free" /\ ~Has(r)
  BY DEF IgInit, Free, Has, Calls, Phases
<1>2. Workers \subseteq Runners /\ Activity \in Runners
  BY DEF Runners
<1>3. igQueue \in Seq(Uploads) /\ 1 .. Len(igQueue) = {}
  BY DEF IgInit
<1>4. igJob \in [Jobs -> IgPlaces] /\ igAt \in [Runners -> {Free} \cup Turns]
  BY DEF IgInit, IgPlaces, Pending
<1>5. Where
  BY <1>1, <1>2, <1>3, <1>4 DEF Where
<1> QED
  BY <1>1, <1>5 DEF KnInit, IgInv, Rows, UploadsOnce

\* IndexedIsWhole, for any texts, owners, workers and faults.
THEOREM IndexedStaysWhole == IgSpec => []IndexedIsWhole
<1>1. IgInv => IndexedIsWhole
  <2> SUFFICES ASSUME IgInv PROVE IndexedIsWhole
    OBVIOUS
  <2>1. ASSUME NEW j \in Jobs, NEW n \in 1 .. IgMaxAttempts
        PROVE  TextWhole(<<j, n>>, Text[j], Chunks[j])
    <3>1. <<j, n>> \in DocIds /\ <<j, n>>[1] = j
      BY DEF DocIds
    <3>2. CASE Complete(<<j, n>>)
      BY <3>1, <3>2, PiecesAreText DEF IgInv
    <3>3. CASE ~Complete(<<j, n>>)
      BY <3>3 DEF TextWhole, IgInv, Rows
    <3> QED
      BY <3>2, <3>3
  <2>2. ASSUME NEW j \in Uploads, NEW d \in {e \in dcRows : e.id[1] = j}
        PROVE  {e \in dcRows : e.id[1] = j} = {d} /\ (igJob[j] = "done" => d.status = "indexed")
    BY <2>2 DEF IgInv, UploadsOnce, Once1
  <2> QED
    BY <2>1, <2>2 DEF IndexedIsWhole
<1> QED
  BY IngestionInit, <1>1, IgStep, PTL DEF IgSpec

-----------------------------------------------------------------------------
\* What liveness needs beside fairness: a job only gets nearer to its end, and
\* each step of a runner brings it or its own turn nearer.
PlaceLeft(p) == CASE p = "new" -> 4 [] p = "waiting" -> 3 [] p = "queued" -> 2
                  [] p = "working" -> 1 [] OTHER -> 0
PhaseLeft(p) == CASE p = "parse" -> 6 [] p = "create" -> 5 [] p = "embed" -> 4
                  [] p = "store" -> 3 [] p = "mark" -> 2 [] OTHER -> 1
TurnLeft(at) == IF at = Free THEN 0
                ELSE 6 * (IgMaxAttempts - at.attempt) + PhaseLeft(at.phase)

NearerEnd(j) == PlaceLeft(igJob'[j]) < PlaceLeft(igJob[j])
Nearer(r) == (\E j \in Jobs : NearerEnd(j)) \/ TurnLeft(igAt'[r]) < TurnLeft(igAt[r])

\* However calls fail and the process stops: no job goes back, and no runner
\* takes a step for nothing.
JobsAdvance ==
  [][/\ \A j \in Jobs : igJob'[j] # igJob[j] => NearerEnd(j)
     /\ \A r \in Runners : Runs(r) => Nearer(r)]_<<knVars, igVars>>

\* A runner with a job stands at a call that it can make, or is a worker whose
\* call is not answered.
RunnersAct ==
  \A r \in Runners : igAt[r] # Free =>
    /\ igAt[r].phase \in Calls \/ (r \in Workers /\ Hung(r))
    /\ TurnLeft(igAt[r]) > 0

JobsMoveOn == \A j \in Jobs : igJob'[j] # igJob[j] => NearerEnd(j)

\* A turn that moves on, is run again or ends.
LEMMA TurnMoves ==
  ASSUME Where, NEW r \in Runners, Has(r),
         \/ \E next \in Phases : Proceeds(r, next) /\ PhaseLeft(next) < PhaseLeft(igAt[r].phase)
         \/ Again(r)
         \/ \E place \in Ended : Leaves(r, place)
  PROVE  JobsMoveOn /\ Nearer(r)
<1> DEFINE a == igAt[r]
<1>1. /\ igAt \in [Runners -> {Free} \cup Turns] /\ igJob \in [Jobs -> IgPlaces]
      /\ a \in Turns /\ a # Free /\ igJob[a.job] = "working"
      /\ a.job \in Jobs /\ a.attempt \in Nat /\ a.phase \in Phases /\ IgMaxAttempts \in Nat
  <2>1. a \in Turns /\ a.job \in Jobs
    BY RunnerHas
  <2> QED
    BY <2>1, IgBounds DEF Where, Has, Free, Calls, Phases, Turns
<1>2. CASE \E next \in Phases : Proceeds(r, next) /\ PhaseLeft(next) < PhaseLeft(a.phase)
  <2>1. PICK next \in Phases : Proceeds(r, next) /\ PhaseLeft(next) < PhaseLeft(a.phase)
    BY <1>2
  <2>2. igAt'[r] = [a EXCEPT !.phase = next] /\ igJob' = igJob
    BY <1>1, <2>1 DEF Proceeds
  <2>3. igAt'[r].phase = next /\ igAt'[r].attempt = a.attempt /\ igAt'[r] # Free
    BY <1>1, <2>1, <2>2 DEF Turns, Free, Calls, Phases
  <2>4. PhaseLeft(next) \in Nat /\ PhaseLeft(a.phase) \in Nat
    BY DEF PhaseLeft
  <2>5. TurnLeft(igAt'[r]) < TurnLeft(a)
    <3> HIDE DEF a
    <3> QED
      BY <1>1, <2>1, <2>3, <2>4 DEF TurnLeft
  <2> QED
    BY <2>2, <2>5 DEF JobsMoveOn, Nearer
<1>3. CASE Again(r)
  <2>1. a.attempt < IgMaxAttempts /\ igAt'[r] = NextAttempt(a) /\ igJob' = igJob
    BY <1>1, <1>3 DEF Again
  <2>2. /\ igAt'[r].phase = "create" /\ igAt'[r].attempt = a.attempt + 1 /\ igAt'[r] # Free
    BY <1>1, <2>1, NextAttemptFacts DEF Free
  <2>3. PhaseLeft("create") = 5 /\ PhaseLeft(a.phase) \in Nat \ {0}
    BY DEF PhaseLeft
  <2>4. TurnLeft(igAt'[r]) < TurnLeft(a)
    <3> HIDE DEF a
    <3> QED
      BY <1>1, <2>1, <2>2, <2>3 DEF TurnLeft
  <2> QED
    BY <2>1, <2>4 DEF JobsMoveOn, Nearer
<1>4. CASE \E place \in Ended : Leaves(r, place)
  <2>1. PICK place \in Ended : igJob' = [igJob EXCEPT ![a.job] = place]
    BY <1>4 DEF Leaves
  <2>2. igJob'[a.job] = place /\ \A j \in Jobs : j # a.job => igJob'[j] = igJob[j]
    BY <1>1, <2>1
  <2>3. NearerEnd(a.job)
    BY <1>1, <2>2 DEF NearerEnd, PlaceLeft, Ended
  <2> QED
    BY <1>1, <2>2, <2>3 DEF JobsMoveOn, Nearer
<1> QED
  BY <1>2, <1>3, <1>4

LEMMA RunnerAdvances ==
  ASSUME Where, NEW r \in Runners, Runs(r)
  PROVE  JobsMoveOn /\ Nearer(r)
<1>1. CASE r \in Workers /\ TakeJob(r)
  <2> DEFINE j == Head(igQueue)
  <2>1. j \in Jobs /\ igJob[j] = "queued"
    BY <1>1 DEF TakeJob, Where, Jobs
  <2>2. igJob' = [igJob EXCEPT ![j] = "working"] /\ igJob \in [Jobs -> IgPlaces]
    BY <1>1 DEF TakeJob, Move, Where
  <2> HIDE DEF j
  <2>3. igJob'[j] = "working" /\ \A i \in Jobs : i # j => igJob'[i] = igJob[i]
    BY <2>1, <2>2
  <2>4. NearerEnd(j)
    BY <2>1, <2>3 DEF NearerEnd, PlaceLeft
  <2> QED
    BY <2>1, <2>3, <2>4 DEF JobsMoveOn, Nearer
<1>2. ASSUME NEW o \in Outcomes, NEW phase, NEW next,
             <<phase, next>> \in {<<"parse", "create">>, <<"create", "embed">>, <<"embed", "store">>,
                                  <<"store", "mark">>, <<"mark", "graph">>},
             Call(r, phase, next, o)
      PROVE  JobsMoveOn /\ Nearer(r)
  <2>1. /\ phase \in Phases /\ next \in Phases /\ PhaseLeft(next) < PhaseLeft(phase)
        /\ "dropped" \in Ended /\ igAt[r].phase = phase
    BY <1>2 DEF Calls, Phases, PhaseLeft, Ended, Call
  <2>2. Has(r) /\ (Proceeds(r, next) \/ Again(r) \/ Leaves(r, "dropped"))
    BY <1>2, <2>1, CallMoves
  <2> QED
    BY <2>1, <2>2, TurnMoves
<1>3. ASSUME NEW o \in Outcomes,
             \/ Parse(r, o) \/ CreateRow(r, o) \/ Embed(r, o) \/ StoreText(r, o) \/ MarkIndexed(r, o)
      PROVE  JobsMoveOn /\ Nearer(r)
  BY <1>2, <1>3 DEF Parse, CreateRow, Embed, StoreText, MarkIndexed
<1>4. CASE StoreNothing(r) \/ \E o \in Outcomes : BuildGraph(r, o)
  <2>1. Has(r) /\ (Again(r) \/ Leaves(r, "dropped") \/ Leaves(r, "done"))
    <3>1. CASE StoreNothing(r)
      BY <3>1 DEF StoreNothing, GiveUp, Again, Leaves, Move, Has, Calls, Phases
    <3>2. CASE \E o \in Outcomes : BuildGraph(r, o)
      BY <3>2 DEF BuildGraph, Leaves, Move, Has, Calls, Phases
    <3> QED
      BY <1>4, <3>1, <3>2
  <2>2. "dropped" \in Ended /\ "done" \in Ended
    BY DEF Ended
  <2> QED
    BY <2>1, <2>2, TurnMoves
<1> QED
  BY <1>1, <1>3, <1>4 DEF Runs

\* A stop loses only jobs that were on their way.
LEMMA StopLosesOpenJobs ==
  ASSUME Where, StopProcess
  PROVE  JobsMoveOn
<1> DEFINE act == igAt[Activity]
           held == {igAt[w].job : w \in {v \in Workers : igAt[v] # Free}}
           gone == held \cup {j \in Uploads : igJob[j] \in {"waiting", "queued"}}
           again == act # Free /\ act.attempt < IgMaxAttempts
<1>1. igJob' = [j \in Jobs |->
              IF j \in gone \/ (act # Free /\ ~again /\ j = act.job) THEN "lost" ELSE igJob[j]]
  BY DEF StopProcess
<1>2. \A r \in Runners : igAt[r] # Free => igJob[igAt[r].job] = "working"
  BY DEF Where, Has, Turns
<1>3. Activity \in Runners /\ Workers \subseteq Runners
  BY DEF Runners
<1>4. \A j \in held : igJob[j] = "working"
  BY <1>2, <1>3
<1> HIDE DEF held
<1> SUFFICES ASSUME NEW j \in Jobs, igJob'[j] # igJob[j] PROVE NearerEnd(j)
  BY DEF JobsMoveOn
<1>5. igJob'[j] = "lost" /\ igJob[j] \in {"waiting", "queued", "working"}
  BY <1>1, <1>2, <1>3, <1>4
<1> QED
  BY <1>5 DEF NearerEnd, PlaceLeft

\* The activity's calls have a deadline.
InTime == igAt[Activity].phase # "hung"

LEMMA ActivityIsInTime ==
  ASSUME Where, InTime, [IgNext]_<<knVars, igVars>>
  PROVE  InTime'
<1> USE DEF InTime
<1>1. /\ igAt \in [Runners -> {Free} \cup Turns] /\ Activity \in Runners
      /\ Free.phase = "free"
  BY DEF Where, Runners, Free
<1>2. ASSUME NEW r \in Runners, NEW turn, igAt' = [igAt EXCEPT ![r] = turn], turn.phase # "hung"
      PROVE  InTime'
  BY <1>1, <1>2
<1>3. ASSUME NEW r \in Runners, Has(r), NEW next \in Calls,
             \/ Proceeds(r, next) \/ Again(r) \/ \E place : Leaves(r, place)
      PROVE  InTime'
  <2>1. igAt[r] \in Turns
    BY <1>3, RunnerHas
  <2>2. /\ [igAt[r] EXCEPT !.phase = next].phase = next /\ next # "hung"
        /\ NextAttempt(igAt[r]).phase # "hung"
    BY <2>1, NextAttemptFacts DEF Turns, Calls
  <2>3. CASE Proceeds(r, next)
    <3>1. igAt' = [igAt EXCEPT ![r] = [igAt[r] EXCEPT !.phase = next]]
      BY <1>1, <2>3 DEF Proceeds
    <3> QED
      BY <1>2, <2>2, <3>1
  <2>4. CASE Again(r) \/ \E place : Leaves(r, place)
    BY <1>1, <1>2, <2>2, <2>4 DEF Again, Leaves
  <2> QED
    BY <1>3, <2>3, <2>4
<1>4. ASSUME NEW r \in Runners, NEW o, NEW phase \in Calls, NEW next \in Calls,
             Call(r, phase, next, o)
      PROVE  InTime'
  <2>1. Has(r) /\ (Proceeds(r, next) \/ Again(r) \/ Leaves(r, "dropped"))
    BY <1>4, CallMoves DEF Phases
  <2> QED
    BY <1>3, <2>1
<1>5. ASSUME NEW r \in Runners, NEW o \in Outcomes,
             \/ Parse(r, o) \/ CreateRow(r, o) \/ Embed(r, o) \/ StoreText(r, o)
             \/ MarkIndexed(r, o)
      PROVE  InTime'
  <2>1. {"parse", "create", "embed", "store", "mark", "graph"} \subseteq Calls
    BY DEF Calls
  <2> QED
    BY <1>4, <1>5, <2>1 DEF Parse, CreateRow, Embed, StoreText, MarkIndexed
<1>6. ASSUME NEW r \in Runners, StoreNothing(r) \/ \E o \in Outcomes : BuildGraph(r, o)
      PROVE  InTime'
  <2>1. "graph" \in Calls
    BY DEF Calls
  <2>2. Has(r) /\ (Again(r) \/ \E place : Leaves(r, place))
    <3>1. CASE StoreNothing(r)
      BY <3>1 DEF StoreNothing, GiveUp, Again, Leaves, Move, Has, Calls, Phases
    <3>2. CASE \E o \in Outcomes : BuildGraph(r, o)
      BY <3>2 DEF BuildGraph, Leaves, Move, Has, Calls, Phases
    <3> QED
      BY <1>6, <3>1, <3>2
  <2> QED
    BY <1>3, <2>1, <2>2
<1>7. ASSUME NEW w \in Workers, TakeJob(w) PROVE InTime'
  BY <1>1, <1>7, IgNames DEF TakeJob, Busy, Runners
<1>8. ASSUME NEW w \in Workers, Hang(w) PROVE InTime'
  BY <1>1, <1>8, IgNames DEF Hang, GoTo, Runners
<1>9. CASE (\E j \in Uploads : Upload(j) \/ SubmitJob(j)) \/ UNCHANGED <<knVars, igVars>>
  BY <1>9 DEF Upload, SubmitJob, igVars
<1>10. ASSUME NEW j \in Briefs, StartBrief(j) PROVE InTime'
  BY <1>1, <1>10 DEF StartBrief, Busy
<1>11. CASE StopProcess
  <2>1. igAt'[Activity] = Free \/ (igAt[Activity] \in Turns /\ igAt'[Activity] = NextAttempt(igAt[Activity]))
    BY <1>1, <1>11 DEF StopProcess
  <2> QED
    BY <1>1, <2>1, NextAttemptFacts
<1> QED
  BY <1>5, <1>6, <1>7, <1>8, <1>9, <1>10, <1>11 DEF IgNext, Runs

\* For any texts, workers, faults and stops: the jobs of a run of the server
\* advance, so that only a channel that stays full, or a call that is never
\* answered, could keep one waiting.
THEOREM JobsNeverGoBack == IgSpec => [](RunnersAct) /\ JobsAdvance
<1>1. ASSUME Where, InTime PROVE RunnersAct
  <2> SUFFICES ASSUME NEW r \in Runners, igAt[r] # Free
               PROVE  /\ igAt[r].phase \in Calls \/ (r \in Workers /\ Hung(r))
                      /\ TurnLeft(igAt[r]) > 0
    BY DEF RunnersAct
  <2> DEFINE a == igAt[r]
  <2>1. a \in Turns
    BY <1>1 DEF Where
  <2>2. /\ a.phase \in Phases /\ a.attempt \in Nat /\ IgMaxAttempts \in Nat
        /\ a.attempt <= IgMaxAttempts
    BY <2>1, IgBounds DEF Turns
  <2>3. PhaseLeft(a.phase) \in Nat \ {0}
    BY DEF PhaseLeft
  <2>4. a.phase \in Calls \/ (r \in Workers /\ Hung(r))
    BY <1>1, <2>2 DEF InTime, Phases, Hung, Runners
  <2> HIDE DEF a
  <2> QED
    BY <2>2, <2>3, <2>4 DEF TurnLeft, a
<1>2. ASSUME Where, [IgNext]_<<knVars, igVars>>
      PROVE  JobsMoveOn /\ \A r \in Runners : Runs(r) => Nearer(r)
  <2>1. \A r \in Runners : Runs(r) => JobsMoveOn /\ Nearer(r)
    BY <1>2, RunnerAdvances
  <2>2. ASSUME NEW j \in Jobs, NEW place, igJob' = [igJob EXCEPT ![j] = place],
               <<igJob[j], place>> \in {<<"new", "waiting">>, <<"waiting", "queued">>, <<"new", "working">>}
        PROVE  JobsMoveOn
    <3>1. igJob'[j] = place /\ \A i \in Jobs : i # j => igJob'[i] = igJob[i]
      BY <1>2, <2>2 DEF Where
    <3>2. NearerEnd(j)
      BY <2>2, <3>1 DEF NearerEnd, PlaceLeft
    <3> QED
      BY <3>1, <3>2 DEF JobsMoveOn
  <2>3. JobsMoveOn
    <3>1. CASE \E j \in Uploads : Upload(j) \/ SubmitJob(j)
      BY <2>2, <3>1 DEF Upload, SubmitJob, Move, Jobs
    <3>2. CASE \E j \in Briefs : StartBrief(j)
      BY <2>2, <3>2 DEF StartBrief, Move, Jobs
    <3>3. CASE StopProcess
      BY <1>2, <3>3, StopLosesOpenJobs
    <3>4. CASE UNCHANGED <<knVars, igVars>> \/ \E w \in Workers : Hang(w)
      BY <3>4 DEF Hang, GoTo, igVars, JobsMoveOn
    <3> QED
      BY <1>2, <2>1, <3>1, <3>2, <3>3, <3>4 DEF IgNext
  <2> QED
    BY <2>1, <2>3
<1>3. IgInv => Where
  BY DEF IgInv
<1>4. ASSUME IgInv, [IgNext]_<<knVars, igVars>>
      PROVE  [/\ \A j \in Jobs : igJob'[j] # igJob[j] => NearerEnd(j)
              /\ \A r \in Runners : Runs(r) => Nearer(r)]_<<knVars, igVars>>
  BY <1>2, <1>3, <1>4 DEF JobsMoveOn
<1>5. IgInit => InTime
  BY DEF IgInit, Runners, Free, InTime
<1>6. IgInv /\ InTime /\ [IgNext]_<<knVars, igVars>> => InTime'
  BY <1>3, ActivityIsInTime
<1> QED
  BY <1>1, <1>3, <1>4, <1>5, <1>6, IngestionInit, IgStep, PTL DEF IgSpec, JobsAdvance
=============================================================================
