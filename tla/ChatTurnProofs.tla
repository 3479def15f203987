--------------------------- MODULE ChatTurnProofs -------------------------
(* The saving of turns, for any number of turns, attempts and messages in   *)
(* the window.                                                              *)
EXTENDS ChatTurn, FiniteSetTheorems, TLAPS

(* What an attempt has done before it makes a call.                         *)
DoneBefore(t, k) ==
  /\ at[t][k] \in {"trimUser", "pushAnswer", "trimAnswer", "find", "create", "saveUser", "saveAnswer"}
       => Msg(t, k, "user") \in pushed
  /\ at[t][k] \in {"trimAnswer", "find", "create", "saveUser", "saveAnswer"}
       => Msg(t, k, "assistant") \in pushed
  /\ at[t][k] \in {"saveUser", "saveAnswer"} => session # None
  /\ t \notin GraphTurns /\ at[t][k] = "saveAnswer" => Msg(t, k, "user") \in messages

SavedSoFar == \A t \in Turns, k \in Attempts : DoneBefore(t, k)

StoreInv ==
  TypeOK /\ SavedSoFar /\ MessagesHaveSession /\ SavedInBoth /\ AnswersHaveQuestions

RunsType ==
  /\ at \in [Turns -> [Attempts -> Stages]]
  /\ attempt \in [Turns -> 0..MaxAttempts]
  /\ outcome \in [Turns -> {"none", "saving", "saved", "gaveup"}]

LEMMA StoreInit == Init => StoreInv
<1> SUFFICES ASSUME Init PROVE StoreInv
  OBVIOUS
<1>1. TypeOK
  BY ChatAssumption DEF Init, TypeOK, Stages
<1>2. SavedSoFar
  BY DEF Init, SavedSoFar, DoneBefore
<1> QED
  BY <1>1, <1>2 DEF StoreInv, Init, MessagesHaveSession, SavedInBoth, AnswersHaveQuestions

LEMMA MessagesOf ==
  ASSUME NEW t \in Turns, NEW k \in Attempts, NEW role \in {"user", "assistant"}
  PROVE  Msg(t, k, role) \in Messages
BY DEF Msg, Messages

---------------------------------------------------------------------------
(* How an attempt goes on.                                                  *)

LEMMA GoesOnRuns ==
  ASSUME RunsType, NEW t \in Turns, NEW k \in Attempts, NEW next \in Stages, GoesOn(t, k, next)
  PROVE  /\ RunsType'
         /\ at'[t][k] = next
         /\ \A u \in Turns, i \in Attempts : u # t \/ i # k => at'[u][i] = at[u][i]
         /\ UNCHANGED <<attempt, outcome>>
BY DEF RunsType, GoesOn

LEMMA SucceedsRuns ==
  ASSUME RunsType, NEW t \in Turns, NEW k \in Attempts, Succeeds(t, k)
  PROVE  /\ RunsType'
         /\ at'[t][k] = "over"
         /\ \A u \in Turns, i \in Attempts : u # t \/ i # k => at'[u][i] = at[u][i]
         /\ \A u \in Turns : outcome'[u] = outcome[u] \/ (u = t /\ Awaited(t, k) /\ outcome'[u] = "saved")
         /\ UNCHANGED attempt
BY DEF RunsType, Succeeds, Stages

LEMMA FailsRuns ==
  ASSUME RunsType, NEW t \in Turns, NEW k \in Attempts, Fails(t, k)
  PROVE  /\ RunsType'
         /\ at'[t][k] = "over"
         /\ \A u \in Turns, i \in Attempts : u # t \/ i # k =>
              \/ at'[u][i] = at[u][i]
              \/ Awaited(t, k) /\ u = t /\ i = k + 1 /\ at'[u][i] = "pushUser"
         /\ \A u \in Turns : outcome'[u] = outcome[u] \/ outcome'[u] = "gaveup"
<1>0. "over" \in Stages /\ "pushUser" \in Stages /\ k \in 1..MaxAttempts /\ MaxAttempts \in Nat
  BY ChatAssumption DEF Stages, Attempts
<1>1. CASE ~Awaited(t, k)
  <2>1. GoesOn(t, k, "over")
    BY <1>1 DEF Fails
  <2>2. RunsType' /\ at'[t][k] = "over" /\ UNCHANGED outcome
    BY <1>0, <2>1, GoesOnRuns
  <2> QED
    BY <1>0, <2>1, <2>2, GoesOnRuns
<1>2. CASE Awaited(t, k) /\ k < MaxAttempts
  <2>1. /\ at' = [at EXCEPT ![t][k] = "over", ![t][k + 1] = "pushUser"]
        /\ attempt' = [attempt EXCEPT ![t] = k + 1] /\ outcome' = outcome
    BY <1>2 DEF Fails, Retries
  <2>2. k + 1 \in Attempts /\ k + 1 # k /\ k + 1 \in 0..MaxAttempts
    BY <1>0, <1>2 DEF Attempts
  <2>3. RunsType'
    BY <1>0, <2>1, <2>2 DEF RunsType
  <2> QED
    BY <1>2, <2>1, <2>2, <2>3 DEF RunsType
<1>3. CASE Awaited(t, k) /\ ~(k < MaxAttempts)
  BY <1>0, <1>3 DEF Fails, Retries, RunsType
<1> QED
  BY <1>1, <1>2, <1>3

---------------------------------------------------------------------------
(* A step that takes nothing out of the stores preserves what was done, if  *)
(* the attempt that moved has done it.                                      *)
LEMMA StoresGrow ==
  ASSUME StoreInv, NEW t \in Turns, NEW k \in Attempts,
         \A u \in Turns, i \in Attempts : u # t \/ i # k =>
           at'[u][i] \in {at[u][i], "pushUser"},
         pushed \subseteq pushed', messages \subseteq messages',
         session # None => session' # None,
         DoneBefore(t, k)'
  PROVE  SavedSoFar'
<1> SUFFICES ASSUME NEW u \in Turns, NEW i \in Attempts PROVE DoneBefore(u, i)'
  BY DEF SavedSoFar
<1>1. CASE u = t /\ i = k
  BY <1>1
<1>2. CASE u # t \/ i # k
  <2>1. at'[u][i] \in {at[u][i], "pushUser"}
    BY <1>2
  <2>2. DoneBefore(u, i)
    BY DEF StoreInv, SavedSoFar
  <2> QED
    BY <2>1, <2>2 DEF DoneBefore
<1> QED
  BY <1>1, <1>2

(* A turn is newly reported as saved when it is in both stores.             *)
LEMMA ReportsStand ==
  ASSUME StoreInv, pushed \subseteq pushed', messages \subseteq messages',
         \A u \in Turns \ GraphTurns :
           outcome'[u] = "saved" => outcome[u] = "saved" \/ InBothStores(u)'
  PROVE  SavedInBoth'
<1>1. \A u \in Turns : InBothStores(u) => InBothStores(u)'
  BY DEF InBothStores
<1> QED
  BY <1>1 DEF StoreInv, SavedInBoth

(* Steps that touch no store.                                               *)
LEMMA StoresStay ==
  ASSUME StoreInv, UNCHANGED <<stores, pushed>>, RunsType', SavedSoFar', told' \in Seq(Turns),
         \A u \in Turns \ GraphTurns : outcome'[u] = "saved" => outcome[u] = "saved"
  PROVE  StoreInv'
<1>1. SavedInBoth'
  BY ReportsStand DEF stores
<1>2. TypeOK' /\ MessagesHaveSession' /\ AnswersHaveQuestions'
  BY DEF StoreInv, TypeOK, RunsType, stores, MessagesHaveSession, AnswersHaveQuestions
<1> QED
  BY <1>1, <1>2 DEF StoreInv

LEMMA BeginStore ==
  ASSUME StoreInv, NEW t \in Turns, Begin(t)
  PROVE  StoreInv'
<1>0. 1 \in Attempts /\ "pushUser" \in Stages /\ 1 \in 0..MaxAttempts
  BY ChatAssumption DEF Attempts, Stages
<1>1. RunsType' /\ told' \in Seq(Turns)
  BY <1>0 DEF StoreInv, TypeOK, RunsType, Begin
<1>2. at'[t][1] = "pushUser" /\ \A u \in Turns, i \in Attempts : u # t \/ i # 1 => at'[u][i] = at[u][i]
  BY <1>0 DEF StoreInv, TypeOK, Begin
<1>3. SavedSoFar'
  BY <1>0, <1>2, StoresGrow DEF Begin, stores, DoneBefore
<1> QED
  BY <1>1, <1>3, StoresStay DEF Begin, StoreInv, TypeOK

(* An attempt fails, and the stores are as they were or have more in them.  *)
LEMMA FailsStore ==
  ASSUME StoreInv, NEW t \in Turns, NEW k \in Attempts, Fails(t, k),
         pushed \subseteq pushed', messages \subseteq messages',
         session # None => session' # None
  PROVE  /\ RunsType' /\ SavedSoFar' /\ SavedInBoth'
<1>1. RunsType
  BY DEF StoreInv, TypeOK, RunsType
<1>2. SavedSoFar'
  <2>1. /\ at'[t][k] = "over"
        /\ \A u \in Turns, i \in Attempts : u # t \/ i # k => at'[u][i] \in {at[u][i], "pushUser"}
    BY <1>1, FailsRuns
  <2>2. DoneBefore(t, k)'
    BY <2>1 DEF DoneBefore
  <2> QED
    BY <2>1, <2>2, StoresGrow
<1>3. \A u \in Turns : outcome'[u] = "saved" => outcome[u] = "saved"
  BY <1>1, FailsRuns
<1> QED
  BY <1>1, <1>2, <1>3, FailsRuns, ReportsStand

(* An attempt goes on, and the stores have more in them.                    *)
LEMMA GoesOnStore ==
  ASSUME StoreInv, NEW t \in Turns, NEW k \in Attempts, NEW next \in Stages, GoesOn(t, k, next),
         pushed \subseteq pushed', messages \subseteq messages',
         session # None => session' # None,
         at'[t][k] = next => DoneBefore(t, k)'
  PROVE  /\ RunsType' /\ SavedSoFar' /\ SavedInBoth'
<1>1. RunsType
  BY DEF StoreInv, TypeOK, RunsType
<1>2. SavedSoFar'
  BY <1>1, GoesOnRuns, StoresGrow
<1> QED
  BY <1>1, <1>2, GoesOnRuns, ReportsStand

LEMMA TimesOutStore ==
  ASSUME StoreInv, NEW t \in Turns, NEW k \in Attempts, TimesOut(t, k)
  PROVE  StoreInv'
<1>0. k + 1 \in Attempts /\ "pushUser" \in Stages /\ k + 1 \in 0..MaxAttempts
  BY ChatAssumption DEF Attempts, Stages, TimesOut
<1>1. RunsType'
  BY <1>0 DEF StoreInv, TypeOK, RunsType, TimesOut
<1>2. at'[t][k + 1] = "pushUser"
      /\ \A u \in Turns, i \in Attempts : u # t \/ i # k + 1 => at'[u][i] = at[u][i]
  BY <1>0 DEF StoreInv, TypeOK, TimesOut
<1>3. SavedSoFar'
  BY <1>0, <1>2, StoresGrow DEF TimesOut, stores, DoneBefore
<1> QED
  BY <1>1, <1>3, StoresStay DEF TimesOut, StoreInv, TypeOK

LEMMA CrashStore ==
  ASSUME StoreInv, NEW t \in Turns, NEW k \in Attempts, Crash(t, k)
  PROVE  StoreInv'
<1>1. RunsType' /\ SavedSoFar' /\ RunsType
  BY FailsStore DEF Crash, stores, StoreInv, TypeOK, RunsType
<1>2. \A u \in Turns : outcome'[u] = "saved" => outcome[u] = "saved"
  BY <1>1, FailsRuns DEF Crash
<1> QED
  BY <1>1, <1>2, StoresStay DEF Crash, StoreInv, TypeOK

LEMMA ExpireStore ==
  ASSUME StoreInv, Expire
  PROVE  StoreInv'
<1>1. /\ UNCHANGED <<session, messages, at, attempt, outcome, pushed>>
      /\ list' = <<>> /\ told' = <<>>
  BY DEF Expire, runs
<1>2. TypeOK'
  BY <1>1 DEF StoreInv, TypeOK
<1>3. SavedSoFar'
  BY <1>1 DEF StoreInv, SavedSoFar, DoneBefore
<1>4. SavedInBoth'
  BY <1>1, ReportsStand
<1> QED
  BY <1>1, <1>2, <1>3, <1>4 DEF StoreInv, MessagesHaveSession, AnswersHaveQuestions

---------------------------------------------------------------------------
(* The calls.                                                               *)

LEMMA StagesOfCalls ==
  ASSUME NEW role \in {"user", "assistant"}
  PROVE  /\ Trimming[role] \in Stages /\ Trimmed[role] \in Stages
         /\ role = "user" => /\ Pushing[role] = "pushUser" /\ Trimming[role] = "trimUser"
                             /\ Trimmed[role] = "pushAnswer" /\ Storing[role] = "saveUser"
         /\ role = "assistant" => /\ Pushing[role] = "pushAnswer" /\ Trimming[role] = "trimAnswer"
                                  /\ Trimmed[role] = "find" /\ Storing[role] = "saveAnswer"
BY DEF Stages, Pushing, Trimming, Trimmed, Storing

LEMMA AddsToListStore ==
  ASSUME StoreInv, NEW t \in Turns, NEW k \in Attempts, NEW role \in {"user", "assistant"},
         AddsToList(t, k, role), RunsType', SavedSoFar', SavedInBoth'
  PROVE  StoreInv'
<1>1. TypeOK'
  BY MessagesOf DEF StoreInv, TypeOK, RunsType, AddsToList
<1> QED
  BY <1>1 DEF StoreInv, AddsToList, MessagesHaveSession, AnswersHaveQuestions

LEMMA RPushStore ==
  ASSUME StoreInv, NEW t \in Turns, NEW k \in Attempts, NEW role \in {"user", "assistant"},
         RPush(t, k, role)
  PROVE  StoreInv'
<1>1. at'[t][k] = Trimming[role] => DoneBefore(t, k)'
  <2>1. DoneBefore(t, k)
    BY DEF StoreInv, SavedSoFar
  <2> QED
    BY <2>1, StagesOfCalls DEF RPush, AddsToList, DoneBefore
<1>2. RunsType' /\ SavedSoFar' /\ SavedInBoth'
  BY <1>1, StagesOfCalls, GoesOnStore DEF RPush, AddsToList
<1> QED
  BY <1>2, AddsToListStore DEF RPush

LEMMA RPushFailsStore ==
  ASSUME StoreInv, NEW t \in Turns, NEW k \in Attempts, NEW role \in {"user", "assistant"},
         NEW effect \in BOOLEAN, RPushFails(t, k, role, effect)
  PROVE  StoreInv'
<1>1. CASE effect
  <2>1. AddsToList(t, k, role) /\ Fails(t, k)
    BY <1>1 DEF RPushFails
  <2>2. RunsType' /\ SavedSoFar' /\ SavedInBoth'
    BY <2>1, FailsStore DEF AddsToList
  <2> QED
    BY <2>1, <2>2, AddsToListStore
<1>2. CASE ~effect
  <2>1. UNCHANGED <<stores, pushed, told>> /\ Fails(t, k)
    BY <1>2 DEF RPushFails
  <2>2. RunsType' /\ SavedSoFar' /\ RunsType
    BY <2>1, FailsStore DEF stores, StoreInv, TypeOK, RunsType
  <2>3. \A u \in Turns : outcome'[u] = "saved" => outcome[u] = "saved"
    BY <2>1, <2>2, FailsRuns
  <2> QED
    BY <2>1, <2>2, <2>3, StoresStay DEF StoreInv, TypeOK
<1> QED
  BY <1>1, <1>2

(* A list that is trimmed holds messages it held before.                    *)
LEMMA NewestHolds ==
  ASSUME NEW S, NEW s \in Seq(S), NEW n \in Nat
  PROVE  /\ Newest(s, n) \in Seq(S)
         /\ Len(Newest(s, n)) <= n
<1>1. CASE Len(s) <= n
  BY <1>1 DEF Newest
<1>2. CASE ~(Len(s) <= n)
  <2>1. /\ Len(s) \in Nat /\ Len(s) - n + 1 \in 1..(Len(s) + 1) /\ Newest(s, n) = SubSeq(s, Len(s) - n + 1, Len(s))
    BY <1>2 DEF Newest
  <2> QED
    BY <2>1
<1> QED
  BY <1>1, <1>2

LEMMA TrimStore ==
  ASSUME StoreInv, NEW t \in Turns, NEW k \in Attempts, NEW role \in {"user", "assistant"},
         NEW fails \in BOOLEAN, Trim(t, k, role, fails)
  PROVE  StoreInv'
<1>1. at'[t][k] = Trimmed[role] => DoneBefore(t, k)'
  <2>1. DoneBefore(t, k)
    BY DEF StoreInv, SavedSoFar
  <2> QED
    BY <2>1, StagesOfCalls DEF Trim, DoneBefore
<1>2. RunsType' /\ SavedSoFar' /\ SavedInBoth'
  BY <1>1, StagesOfCalls, GoesOnStore DEF Trim
<1>3. list' \in Seq(Messages)
  BY NewestHolds, ChatAssumption DEF Trim, LTrim, StoreInv, TypeOK
<1> QED
  BY <1>2, <1>3 DEF StoreInv, TypeOK, RunsType, Trim, MessagesHaveSession, AnswersHaveQuestions

LEMMA GetSessionStore ==
  ASSUME StoreInv, NEW t \in Turns, NEW k \in Attempts, NEW fails \in BOOLEAN,
         GetSessionByID(t, k, fails)
  PROVE  StoreInv'
<1>1. PICK next \in {"create", "saveUser"} :
        GoesOn(t, k, next) /\ (next = "saveUser" => session # None)
  BY DEF GetSessionByID
<1>2. UNCHANGED <<stores, pushed, told>> /\ at[t][k] = "find" /\ next \in Stages
  BY DEF GetSessionByID, Stages
<1>3. at'[t][k] = next => DoneBefore(t, k)'
  <2>1. DoneBefore(t, k)
    BY DEF StoreInv, SavedSoFar
  <2> QED
    BY <1>1, <1>2, <2>1 DEF DoneBefore, stores
<1>4. RunsType' /\ SavedSoFar' /\ UNCHANGED outcome
  BY <1>1, <1>2, <1>3, GoesOnStore DEF stores, GoesOn
<1> QED
  BY <1>2, <1>4, StoresStay DEF StoreInv, TypeOK

LEMMA CreateSessionStore ==
  ASSUME StoreInv, NEW t \in Turns, NEW k \in Attempts, CreateSession(t, k)
  PROVE  StoreInv'
<1>1. /\ UNCHANGED <<list, messages, pushed, told>> /\ at[t][k] = "create"
      /\ session' = t /\ session' # None /\ GoesOn(t, k, "saveUser") /\ "saveUser" \in Stages
  BY ChatAssumption DEF CreateSession, Stages
<1>2. at'[t][k] = "saveUser" => DoneBefore(t, k)'
  <2>1. DoneBefore(t, k)
    BY DEF StoreInv, SavedSoFar
  <2> QED
    BY <1>1, <2>1 DEF DoneBefore
<1>3. RunsType' /\ SavedSoFar' /\ SavedInBoth'
  BY <1>1, <1>2, GoesOnStore
<1> QED
  BY <1>1, <1>3 DEF StoreInv, TypeOK, RunsType, MessagesHaveSession, AnswersHaveQuestions

LEMMA CreateSessionFailsStore ==
  ASSUME StoreInv, NEW t \in Turns, NEW k \in Attempts, NEW effect \in BOOLEAN,
         CreateSessionFails(t, k, effect)
  PROVE  StoreInv'
<1>1. /\ UNCHANGED <<list, messages, pushed, told>> /\ Fails(t, k)
      /\ session' \in {session, t} /\ (session # None => session' # None)
  BY ChatAssumption DEF CreateSessionFails
<1>2. RunsType' /\ SavedSoFar' /\ SavedInBoth'
  BY <1>1, FailsStore
<1> QED
  BY <1>1, <1>2 DEF StoreInv, TypeOK, RunsType, MessagesHaveSession, AnswersHaveQuestions

(* A message is stored when its session is there, an answer after its       *)
(* question.                                                                *)
LEMMA MessageStore ==
  ASSUME StoreInv, NEW t \in Turns, NEW k \in Attempts, NEW role \in {"user", "assistant"},
         at[t][k] = Storing[role],
         messages' \in {messages, messages \cup {Msg(t, k, role)}},
         UNCHANGED <<list, session, pushed, told>>,
         RunsType', SavedSoFar', SavedInBoth'
  PROVE  StoreInv'
<1>0. DoneBefore(t, k)
  BY DEF StoreInv, SavedSoFar
<1>1. TypeOK'
  BY MessagesOf DEF StoreInv, TypeOK, RunsType
<1>2. session # None
  BY <1>0, StagesOfCalls DEF DoneBefore
<1>3. AnswersHaveQuestions'
  <2> SUFFICES ASSUME NEW u \in Turns \ GraphTurns, NEW i \in Attempts,
                      Msg(u, i, "assistant") \in messages'
               PROVE  Msg(u, i, "user") \in messages'
    BY DEF AnswersHaveQuestions
  <2>1. CASE Msg(u, i, "assistant") \in messages
    BY <2>1 DEF StoreInv, AnswersHaveQuestions
  <2>2. CASE Msg(u, i, "assistant") = Msg(t, k, role)
    <3>1. u = t /\ i = k /\ role = "assistant"
      BY <2>2 DEF Msg
    <3> QED
      BY <1>0, <3>1, StagesOfCalls DEF DoneBefore
  <2> QED
    BY <2>1, <2>2
<1> QED
  BY <1>1, <1>2, <1>3 DEF StoreInv, MessagesHaveSession

(* After the question comes the answer, after the answer the report.        *)
LEMMA StoredStore ==
  ASSUME StoreInv, NEW t \in Turns, NEW k \in Attempts, NEW role \in {"user", "assistant"},
         at[t][k] = Storing[role], Stored(t, k, role),
         messages \subseteq messages', UNCHANGED <<list, session, pushed, told>>,
         t \notin GraphTurns => Msg(t, k, role) \in messages'
  PROVE  RunsType' /\ SavedSoFar' /\ SavedInBoth'
<1>0. DoneBefore(t, k)
  BY DEF StoreInv, SavedSoFar
<1>1. CASE role = "user"
  <2>1. GoesOn(t, k, "saveAnswer") /\ at[t][k] = "saveUser" /\ "saveAnswer" \in Stages
    BY <1>1, StagesOfCalls DEF Stored, Stages
  <2>2. at'[t][k] = "saveAnswer" => DoneBefore(t, k)'
    BY <1>0, <1>1, <2>1 DEF DoneBefore
  <2> QED
    BY <2>1, <2>2, GoesOnStore
<1>2. CASE role = "assistant"
  <2>1. Succeeds(t, k) /\ at[t][k] = "saveAnswer" /\ RunsType
    BY <1>2, StagesOfCalls DEF Stored, StoreInv, TypeOK, RunsType
  <2>2. SavedSoFar'
    <3>1. at'[t][k] = "over" /\ \A u \in Turns, i \in Attempts : u # t \/ i # k => at'[u][i] = at[u][i]
      BY <2>1, SucceedsRuns
    <3>2. DoneBefore(t, k)'
      BY <3>1 DEF DoneBefore
    <3> QED
      BY <3>1, <3>2, StoresGrow
  <2>3. t \notin GraphTurns => InBothStores(t)'
    BY <1>0, <1>2, <2>1 DEF DoneBefore, InBothStores
  <2>4. SavedInBoth'
    BY <2>1, <2>3, SucceedsRuns, ReportsStand
  <2> QED
    BY <2>1, <2>2, <2>4, SucceedsRuns
<1> QED
  BY <1>1, <1>2

LEMMA SaveMessageStore ==
  ASSUME StoreInv, NEW t \in Turns, NEW k \in Attempts, NEW role \in {"user", "assistant"},
         SaveMessage(t, k, role)
  PROVE  StoreInv'
BY StoredStore, MessageStore DEF SaveMessage

LEMMA SaveMessageFailsStore ==
  ASSUME StoreInv, NEW t \in Turns, NEW k \in Attempts, NEW role \in {"user", "assistant"},
         NEW effect \in BOOLEAN, SaveMessageFails(t, k, role, effect)
  PROVE  StoreInv'
<1>1. /\ at[t][k] = Storing[role] /\ UNCHANGED <<list, session, pushed, told>>
      /\ messages' \in {messages, messages \cup {Msg(t, k, role)}}
      /\ messages \subseteq messages'
  BY DEF SaveMessageFails
<1>2. CASE t \in GraphTurns
  <2>1. Stored(t, k, role)
    BY <1>2 DEF SaveMessageFails, OnError
  <2> QED
    BY <1>1, <1>2, <2>1, StoredStore, MessageStore
<1>3. CASE t \notin GraphTurns
  <2>1. Fails(t, k)
    BY <1>3 DEF SaveMessageFails, OnError
  <2> QED
    BY <1>1, <2>1, FailsStore, MessageStore
<1> QED
  BY <1>2, <1>3

LEMMA StoreStep == StoreInv /\ [Next]_vars => StoreInv'
<1> SUFFICES ASSUME StoreInv, [Next]_vars PROVE StoreInv'
  OBVIOUS
<1>1. ASSUME NEW t \in Turns, NEW k \in Attempts, Step(t, k) PROVE StoreInv'
  BY <1>1, RPushStore, RPushFailsStore, TrimStore, GetSessionStore, CreateSessionStore,
     CreateSessionFailsStore, SaveMessageStore, SaveMessageFailsStore DEF Step
<1>2. CASE UNCHANGED vars
  BY <1>2 DEF vars, stores, runs, StoreInv, TypeOK, SavedSoFar, DoneBefore, MessagesHaveSession,
     SavedInBoth, InBothStores, AnswersHaveQuestions
<1> QED
  BY <1>1, <1>2, BeginStore, TimesOutStore, CrashStore, ExpireStore DEF Next

LEMMA StoreInvariant == Spec => []StoreInv
BY StoreInit, StoreStep, PTL DEF Spec

(* Types of the stores and of the attempts.                                 *)
THEOREM ChatTypeCorrect == Spec => []TypeOK
BY StoreInvariant, PTL DEF StoreInv

(* Whatever fails, races or is retried: no message without its session.     *)
THEOREM MessagesNeedSession == Spec => []MessagesHaveSession
BY StoreInvariant, PTL DEF StoreInv

(* A chat turn reported as saved is in both stores.                         *)
THEOREM ReportedIsSaved == Spec => []SavedInBoth
BY StoreInvariant, PTL DEF StoreInv

(* No answer of a chat is stored without its question.                      *)
THEOREM QuestionsComeFirst == Spec => []AnswersHaveQuestions
BY StoreInvariant, PTL DEF StoreInv
---------------------------------------------------------------------------
(* Races without failures.                                                  *)

Calm == ~Failing /\ ~Overrun

(* Of the attempts for t only the awaited one runs; a second one finds the  *)
(* session.                                                                 *)
RaceOf(t) ==
  /\ attempt[t] \in 0..2
  /\ attempt[t] = 2 => session # None
  /\ \A k \in Attempts : /\ ~Ended(t, k) => Awaited(t, k)
                         /\ k = 2 => at[t][k] # "create"
  /\ MaxAttempts >= 2 => outcome[t] # "gaveup"

RaceInv == \A t \in Turns : RaceOf(t)

(* A step for t leaves the races of the other turns alone.                  *)
LEMMA RaceElsewhere ==
  ASSUME RaceInv, NEW t \in Turns, RaceOf(t)', session # None => session' # None,
         \A u \in Turns \ {t} : /\ attempt'[u] = attempt[u] /\ outcome'[u] = outcome[u]
                                /\ \A k \in Attempts : at'[u][k] = at[u][k]
  PROVE  RaceInv'
<1> SUFFICES ASSUME NEW u \in Turns \ {t} PROVE RaceOf(u)'
  BY DEF RaceInv
<1>1. RaceOf(u)
  BY DEF RaceInv
<1> QED
  BY <1>1 DEF RaceOf, Ended, Awaited

LEMMA BeginRace ==
  ASSUME TypeOK, RaceInv, NEW t \in Turns, Begin(t)
  PROVE  RaceInv'
<1>0. 1 \in Attempts
  BY ChatAssumption DEF Attempts
<1>1. /\ outcome[t] = "none" /\ outcome' = [outcome EXCEPT ![t] = "saving"]
      /\ attempt' = [attempt EXCEPT ![t] = 1] /\ at' = [at EXCEPT ![t][1] = "pushUser"]
      /\ session' = session
  BY DEF Begin, stores
<1>2. RaceOf(t)
  BY DEF RaceInv
<1>3. \A k \in Attempts : Ended(t, k)
  BY <1>1, <1>2 DEF RaceOf, Awaited
<1>4. /\ attempt'[t] = 1 /\ outcome'[t] = "saving" /\ at'[t][1] = "pushUser"
      /\ \A k \in Attempts \ {1} : at'[t][k] = at[t][k]
      /\ \A u \in Turns \ {t} : /\ attempt'[u] = attempt[u] /\ outcome'[u] = outcome[u]
                                /\ \A k \in Attempts : at'[u][k] = at[u][k]
  BY <1>0, <1>1 DEF TypeOK
<1>5. RaceOf(t)'
  BY <1>2, <1>3, <1>4 DEF RaceOf, Ended, Awaited
<1> QED
  BY <1>1, <1>4, <1>5, RaceElsewhere

(* The awaited attempt goes on.                                             *)
LEMMA GoesOnRace ==
  ASSUME TypeOK, RaceInv, NEW t \in Turns, NEW k \in Attempts, NEW next \in Stages,
         GoesOn(t, k, next), ~Ended(t, k), next = "create" => k # 2,
         session # None => session' # None
  PROVE  RaceInv'
<1>1. /\ at'[t][k] = next /\ UNCHANGED <<attempt, outcome>>
      /\ \A u \in Turns, i \in Attempts : u # t \/ i # k => at'[u][i] = at[u][i]
  BY GoesOnRuns DEF TypeOK, RunsType
<1>2. RaceOf(t)
  BY DEF RaceInv
<1>3. RaceOf(t)'
  BY <1>1, <1>2 DEF RaceOf, Ended, Awaited
<1> QED
  BY <1>1, <1>3, RaceElsewhere

LEMMA SucceedsRace ==
  ASSUME TypeOK, RaceInv, NEW t \in Turns, NEW k \in Attempts, Succeeds(t, k),
         ~Ended(t, k), session' = session
  PROVE  RaceInv'
<1>1. /\ at'[t][k] = "over" /\ attempt' = attempt
      /\ \A u \in Turns, i \in Attempts : u # t \/ i # k => at'[u][i] = at[u][i]
      /\ \A u \in Turns : outcome'[u] = outcome[u] \/ (u = t /\ outcome'[u] = "saved")
  BY SucceedsRuns DEF TypeOK, RunsType
<1>2. RaceOf(t)
  BY DEF RaceInv
<1>3. \A i \in Attempts \ {k} : Ended(t, i)
  BY <1>2 DEF RaceOf, Awaited
<1>4. RaceOf(t)'
  BY <1>1, <1>2, <1>3 DEF RaceOf, Ended, Awaited
<1> QED
  BY <1>1, <1>4, RaceElsewhere

(* The loser of the race for the session is a first attempt, and the        *)
(* second one starts when the session is there.                             *)
LEMMA CreateSessionFailsRace ==
  ASSUME Calm, TypeOK, RaceInv, NEW t \in Turns, NEW k \in Attempts, NEW effect \in BOOLEAN,
         CreateSessionFails(t, k, effect)
  PROVE  RaceInv'
<1>1. at[t][k] = "create" /\ session # None /\ session' = session /\ Fails(t, k)
  BY DEF CreateSessionFails, Calm
<1>2. RaceOf(t)
  BY DEF RaceInv
<1>3. Awaited(t, k) /\ k = 1 /\ attempt[t] = 1 /\ k \in 1..MaxAttempts /\ MaxAttempts \in Nat
  BY <1>1, <1>2, ChatAssumption DEF RaceOf, Ended, Awaited, Attempts
<1>4. \A i \in Attempts \ {1} : Ended(t, i)
  BY <1>2, <1>3 DEF RaceOf, Awaited
<1>5. CASE MaxAttempts >= 2
  <2>1. /\ at' = [at EXCEPT ![t][1] = "over", ![t][2] = "pushUser"]
        /\ attempt' = [attempt EXCEPT ![t] = 2] /\ outcome' = outcome /\ 2 \in Attempts
    BY <1>1, <1>3, <1>5 DEF Fails, Retries, Attempts
  <2>2. /\ at'[t][1] = "over" /\ at'[t][2] = "pushUser" /\ attempt'[t] = 2
        /\ \A i \in Attempts \ {1, 2} : at'[t][i] = at[t][i]
        /\ \A u \in Turns \ {t} : /\ attempt'[u] = attempt[u] /\ outcome'[u] = outcome[u]
                                  /\ \A i \in Attempts : at'[u][i] = at[u][i]
    BY <1>3, <2>1 DEF TypeOK
  <2>3. outcome'[t] = "saving"
    BY <1>3, <2>1 DEF Awaited
  <2>4. \A i \in Attempts : /\ at'[t][i] \notin {"none", "over"} => attempt'[t] = i
                            /\ i = 2 => at'[t][i] # "create"
    BY <1>4, <2>2 DEF Ended
  <2>5. attempt'[t] = 2 /\ session' # None /\ outcome'[t] # "gaveup"
    BY <1>1, <2>2, <2>3
  <2>6. RaceOf(t)'
    BY <2>3, <2>4, <2>5 DEF RaceOf, Ended, Awaited
  <2> QED
    BY <1>1, <2>2, <2>6, RaceElsewhere
<1>6. CASE ~(MaxAttempts >= 2)
  <2>1. /\ at' = [at EXCEPT ![t][1] = "over"] /\ attempt' = attempt
        /\ outcome' = [outcome EXCEPT ![t] = "gaveup"] /\ Attempts = {1}
    BY <1>1, <1>3, <1>6 DEF Fails, Retries, Attempts
  <2>2. /\ at'[t][1] = "over"
        /\ \A u \in Turns \ {t} : /\ attempt'[u] = attempt[u] /\ outcome'[u] = outcome[u]
                                  /\ \A i \in Attempts : at'[u][i] = at[u][i]
    BY <1>3, <2>1 DEF TypeOK
  <2>3. RaceOf(t)'
    BY <1>1, <1>2, <1>3, <1>6, <2>1, <2>2 DEF RaceOf, Ended, Awaited
  <2> QED
    BY <1>1, <2>1, <2>2, <2>3, RaceElsewhere
<1> QED
  BY <1>5, <1>6

LEMMA StepRace ==
  ASSUME Calm, TypeOK, RaceInv, NEW t \in Turns, NEW k \in Attempts, Step(t, k)
  PROVE  RaceInv'
<1>1. ASSUME NEW role \in {"user", "assistant"}, RPush(t, k, role) PROVE RaceInv'
  BY <1>1, StagesOfCalls, GoesOnRace DEF RPush, AddsToList, Ended
<1>2. ASSUME NEW role \in {"user", "assistant"}, SaveMessage(t, k, role) PROVE RaceInv'
  <2>1. CASE role = "user"
    <3>1. GoesOn(t, k, "saveAnswer") /\ at[t][k] = "saveUser" /\ "saveAnswer" \in Stages
      BY <1>2, <2>1, StagesOfCalls DEF SaveMessage, Stored, Stages
    <3> QED
      BY <1>2, <3>1, GoesOnRace DEF SaveMessage, Ended
  <2>2. CASE role = "assistant"
    BY <1>2, <2>2, StagesOfCalls, SucceedsRace DEF SaveMessage, Stored, Ended
  <2> QED
    BY <1>2, <2>1, <2>2
<1>3. ASSUME NEW role \in {"user", "assistant"}, NEW b \in BOOLEAN, Trim(t, k, role, b)
      PROVE  RaceInv'
  BY <1>3, StagesOfCalls, GoesOnRace DEF Trim, Ended
<1>4. ASSUME NEW b \in BOOLEAN, GetSessionByID(t, k, b) PROVE RaceInv'
  <2>1. PICK next \in Stages : GoesOn(t, k, next) /\ (next = "create" => session = None)
    BY <1>4 DEF GetSessionByID, Calm, Stages
  <2>2. RaceOf(t) /\ at[t][k] = "find" /\ session' = session
    BY <1>4 DEF RaceInv, GetSessionByID, stores
  <2>3. next = "create" => k # 2
    BY <2>1, <2>2 DEF RaceOf, Ended, Awaited
  <2> QED
    BY <2>1, <2>2, <2>3, GoesOnRace DEF Ended
<1>5. CASE CreateSession(t, k)
  <2>1. "saveUser" \in Stages
    BY DEF Stages
  <2> QED
    BY <1>5, <2>1, GoesOnRace DEF CreateSession, Ended
<1> QED
  BY <1>1, <1>2, <1>3, <1>4, <1>5, CreateSessionFailsRace
  DEF Step, RPushFails, SaveMessageFails, Calm

(* Races alone cost no turn.                                                *)
THEOREM NoTurnLostInRaces == Spec => []RacesLoseNoTurn
<1>1. CASE Calm
  <2>1. Init => RaceInv
    BY ChatAssumption DEF Init, RaceInv, RaceOf, Ended, Awaited
  <2>2. ASSUME TypeOK, RaceInv, [Next]_vars PROVE RaceInv'
    <3>1. CASE UNCHANGED vars
      BY <2>2, <3>1 DEF vars, stores, runs, RaceInv, RaceOf, Ended, Awaited
    <3>2. CASE Expire
      BY <2>2, <3>2 DEF Expire, runs, RaceInv, RaceOf, Ended, Awaited
    <3> QED
      BY <1>1, <2>2, <3>1, <3>2, BeginRace, StepRace DEF Next, TimesOut, Crash, Calm
  <2>3. RaceInv => RacesLoseNoTurn
    BY DEF RaceInv, RaceOf, RacesLoseNoTurn
  <2> QED
    BY <2>1, <2>2, <2>3, ChatTypeCorrect, PTL DEF Spec
<1>2. CASE ~Calm
  <2>1. RacesLoseNoTurn
    BY <1>2 DEF Calm, RacesLoseNoTurn
  <2> QED
    BY <2>1, PTL
<1> QED
  BY <1>1, <1>2
---------------------------------------------------------------------------
(* The window.                                                              *)

(* Attempts start in turn.                                                  *)
Unstarted ==
  \A t \in Turns : /\ outcome[t] = "none" => attempt[t] = 0
                   /\ \A k \in Attempts : k > attempt[t] => at[t][k] = "none"

(* An attempt that fails starts no attempt that ran before.                 *)
LEMMA FailsUnstarted ==
  ASSUME TypeOK, Unstarted, NEW t \in Turns, NEW k \in Attempts, Fails(t, k), ~Ended(t, k)
  PROVE  /\ Unstarted'
         /\ at'[t][k] = "over"
         /\ \A u \in Turns, i \in Attempts : u # t \/ i # k =>
              \/ at'[u][i] = at[u][i]
              \/ at[u][i] = "none" /\ at'[u][i] = "pushUser"
<1>0. k \in Nat /\ MaxAttempts \in Nat /\ k <= attempt[t] /\ attempt[t] \in Nat /\ outcome[t] # "none"
  BY ChatAssumption DEF Attempts, TypeOK, Unstarted, Ended
<1>1. CASE at' = [at EXCEPT ![t][k] = "over"] /\ attempt' = attempt
            /\ \A u \in Turns : outcome'[u] = outcome[u] \/ outcome'[u] = "gaveup"
  <2>1. /\ at'[t][k] = "over"
        /\ \A u \in Turns, i \in Attempts : u # t \/ i # k => at'[u][i] = at[u][i]
    BY <1>1 DEF TypeOK
  <2>2. ASSUME NEW u \in Turns PROVE outcome'[u] = "none" => attempt'[u] = 0
    BY <1>1, <2>2 DEF Unstarted
  <2>3. ASSUME NEW u \in Turns, NEW i \in Attempts, i > attempt'[u] PROVE at'[u][i] = "none"
    BY <1>0, <1>1, <2>1, <2>3 DEF Unstarted
  <2> QED
    BY <2>1, <2>2, <2>3 DEF Unstarted
<1>2. CASE Awaited(t, k) /\ k < MaxAttempts
  <2>1. /\ at' = [at EXCEPT ![t][k] = "over", ![t][k + 1] = "pushUser"]
        /\ attempt' = [attempt EXCEPT ![t] = k + 1] /\ outcome' = outcome
        /\ attempt[t] = k /\ k + 1 \in Attempts
    BY <1>0, <1>2 DEF Fails, Retries, Awaited, Attempts
  <2>2. at[t][k + 1] = "none"
    BY <1>0, <2>1 DEF Unstarted
  <2>3. /\ at'[t][k] = "over" /\ at'[t][k + 1] = "pushUser"
        /\ \A u \in Turns, i \in Attempts : u # t \/ i \notin {k, k + 1} => at'[u][i] = at[u][i]
    BY <1>0, <2>1 DEF TypeOK
  <2>4. /\ attempt'[t] = k + 1
        /\ \A u \in Turns \ {t} : attempt'[u] = attempt[u]
    BY <2>1 DEF TypeOK
  <2>5. ASSUME NEW u \in Turns PROVE outcome'[u] = "none" => attempt'[u] = 0
    BY <1>0, <2>1, <2>4, <2>5 DEF Unstarted
  <2>6. ASSUME NEW u \in Turns, NEW i \in Attempts, i > attempt'[u] PROVE at'[u][i] = "none"
    <3>1. CASE u = t
      <4>1. i \in Nat /\ i > k + 1
        BY <2>4, <2>6, <3>1 DEF Attempts
      <4>2. i > attempt[t] /\ i \notin {k, k + 1}
        BY <1>0, <2>1, <4>1
      <4> QED
        BY <2>3, <3>1, <4>2 DEF Unstarted
    <3>2. CASE u # t
      BY <2>3, <2>4, <2>6, <3>2 DEF Unstarted
    <3> QED
      BY <3>1, <3>2
  <2>7. Unstarted'
    BY <2>5, <2>6 DEF Unstarted
  <2>8. ASSUME NEW u \in Turns, NEW i \in Attempts, u # t \/ i # k
        PROVE  at'[u][i] = at[u][i] \/ (at[u][i] = "none" /\ at'[u][i] = "pushUser")
    BY <2>2, <2>3, <2>8
  <2> QED
    BY <2>3, <2>7, <2>8
<1>3. CASE ~Awaited(t, k)
  BY <1>1, <1>3 DEF Fails, GoesOn
<1>4. CASE Awaited(t, k) /\ ~(k < MaxAttempts)
  <2>1. outcome' = [outcome EXCEPT ![t] = "gaveup"] /\ at' = [at EXCEPT ![t][k] = "over"]
        /\ attempt' = attempt
    BY <1>4 DEF Fails, Retries
  <2>2. \A u \in Turns : outcome'[u] = outcome[u] \/ outcome'[u] = "gaveup"
    BY <2>1 DEF TypeOK
  <2> QED
    BY <1>1, <2>1, <2>2
<1> QED
  BY <1>2, <1>3, <1>4

(* The attempts about to trim are those of before, if none came or went.    *)
LEMMA TrimmersStay ==
  ASSUME \A u \in Turns, i \in Attempts :
           at'[u][i] \in {"trimUser", "trimAnswer"} <=> at[u][i] \in {"trimUser", "trimAnswer"},
         list' = list, WindowBound
  PROVE  WindowBound'
<1>1. ToTrim' = ToTrim
  BY DEF ToTrim
<1> QED
  BY <1>1 DEF WindowBound

LEMMA TrimmersCount ==
  ASSUME NEW S \in SUBSET (Turns \X Attempts)
  PROVE  IsFiniteSet(S) /\ Cardinality(S) \in Nat
<1>0. IsFiniteSet(Turns) /\ IsFiniteSet(Attempts)
  BY ChatAssumption, FS_Interval DEF Attempts
<1>1. IsFiniteSet(Turns \X Attempts)
  BY <1>0, FS_Product
<1> QED
  BY <1>1, FS_Subset, FS_CardinalityType

LEMMA Trimmers ==
  /\ IsFiniteSet(ToTrim) /\ Cardinality(ToTrim) \in Nat
  /\ IsFiniteSet(ToTrim') /\ Cardinality(ToTrim') \in Nat
<1>1. ToTrim \in SUBSET (Turns \X Attempts) /\ ToTrim' \in SUBSET (Turns \X Attempts)
  BY DEF ToTrim
<1> QED
  BY <1>1, TrimmersCount

LEMMA GoesOnUnstarted ==
  ASSUME TypeOK, Unstarted, NEW t \in Turns, NEW k \in Attempts, ~Ended(t, k),
         NEW next \in Stages, GoesOn(t, k, next)
  PROVE  Unstarted'
<1>1. k <= attempt[t] /\ attempt[t] \in Nat /\ k \in Nat
  BY ChatAssumption DEF Attempts, TypeOK, Unstarted, Ended
<1>2. /\ attempt' = attempt /\ outcome' = outcome
      /\ \A u \in Turns, i \in Attempts : u # t \/ i # k => at'[u][i] = at[u][i]
  BY GoesOnRuns DEF TypeOK, RunsType
<1> QED
  BY <1>1, <1>2 DEF Unstarted

LEMMA SucceedsUnstarted ==
  ASSUME TypeOK, Unstarted, NEW t \in Turns, NEW k \in Attempts, ~Ended(t, k), Succeeds(t, k)
  PROVE  Unstarted'
<1>1. k <= attempt[t] /\ attempt[t] \in Nat /\ k \in Nat
  BY ChatAssumption DEF Attempts, TypeOK, Unstarted, Ended
<1>2. /\ attempt' = attempt
      /\ \A u \in Turns, i \in Attempts : u # t \/ i # k => at'[u][i] = at[u][i]
      /\ \A u \in Turns : outcome'[u] = outcome[u] \/ outcome'[u] = "saved"
  BY SucceedsRuns DEF TypeOK, RunsType
<1>3. ASSUME NEW u \in Turns PROVE outcome'[u] = "none" => attempt'[u] = 0
  BY <1>2, <1>3 DEF Unstarted
<1>4. ASSUME NEW u \in Turns, NEW i \in Attempts, i > attempt'[u] PROVE at'[u][i] = "none"
  BY <1>1, <1>2, <1>4 DEF Unstarted
<1> QED
  BY <1>3, <1>4 DEF Unstarted

WindowInv == Unstarted /\ WindowBound

LEMMA BeginWindow ==
  ASSUME TypeOK, WindowInv, NEW t \in Turns, Begin(t)
  PROVE  WindowInv'
<1>1. 1 \in Attempts /\ outcome[t] = "none" /\ attempt[t] = 0 /\ at[t][1] = "none" /\ list' = list
  BY ChatAssumption DEF Attempts, Begin, stores, WindowInv, Unstarted
<1>2. /\ at'[t][1] = "pushUser" /\ attempt'[t] = 1 /\ outcome'[t] = "saving"
      /\ \A u \in Turns, i \in Attempts : u # t \/ i # 1 => at'[u][i] = at[u][i]
      /\ \A u \in Turns \ {t} : attempt'[u] = attempt[u] /\ outcome'[u] = outcome[u]
  BY <1>1 DEF Begin, TypeOK
<1>3. ASSUME NEW u \in Turns PROVE outcome'[u] = "none" => attempt'[u] = 0
  BY <1>2, <1>3 DEF WindowInv, Unstarted
<1>4. ASSUME NEW u \in Turns, NEW i \in Attempts, i > attempt'[u] PROVE at'[u][i] = "none"
  <2>1. CASE u = t
    <3>1. i \in Nat /\ i > 1
      BY <1>2, <1>4, <2>1 DEF Attempts
    <3> QED
      BY <1>1, <1>2, <2>1, <3>1 DEF WindowInv, Unstarted
  <2>2. CASE u # t
    BY <1>2, <1>4, <2>2 DEF WindowInv, Unstarted
  <2> QED
    BY <2>1, <2>2
<1>5. Unstarted'
  BY <1>3, <1>4 DEF Unstarted
<1>6. WindowBound'
  BY <1>1, <1>2, TrimmersStay DEF WindowInv
<1> QED
  BY <1>5, <1>6 DEF WindowInv

LEMMA TimesOutWindow ==
  ASSUME TypeOK, WindowInv, NEW t \in Turns, NEW k \in Attempts, TimesOut(t, k)
  PROVE  WindowInv'
<1>1. /\ k \in Nat /\ k + 1 \in Attempts /\ attempt[t] = k /\ outcome[t] = "saving"
      /\ list' = list /\ outcome' = outcome
      /\ at' = [at EXCEPT ![t][k + 1] = "pushUser"] /\ attempt' = [attempt EXCEPT ![t] = k + 1]
  BY ChatAssumption DEF Attempts, TimesOut, Awaited, stores
<1>2. at[t][k + 1] = "none"
  BY <1>1 DEF WindowInv, Unstarted
<1>3. /\ at'[t][k + 1] = "pushUser" /\ attempt'[t] = k + 1
      /\ \A u \in Turns, i \in Attempts : u # t \/ i # k + 1 => at'[u][i] = at[u][i]
      /\ \A u \in Turns \ {t} : attempt'[u] = attempt[u]
  BY <1>1 DEF TypeOK
<1>4. ASSUME NEW u \in Turns PROVE outcome'[u] = "none" => attempt'[u] = 0
  BY <1>1, <1>3, <1>4 DEF WindowInv, Unstarted
<1>5. ASSUME NEW u \in Turns, NEW i \in Attempts, i > attempt'[u] PROVE at'[u][i] = "none"
  <2>1. CASE u = t
    <3>1. i \in Nat /\ i > k + 1
      BY <1>3, <1>5, <2>1 DEF Attempts
    <3>2. i > attempt[t] /\ i # k + 1
      BY <1>1, <3>1
    <3> QED
      BY <1>3, <2>1, <3>2 DEF WindowInv, Unstarted
  <2>2. CASE u # t
    BY <1>3, <1>5, <2>2 DEF WindowInv, Unstarted
  <2> QED
    BY <2>1, <2>2
<1>6. Unstarted'
  BY <1>4, <1>5 DEF Unstarted
<1>7. ASSUME NEW u \in Turns, NEW i \in Attempts
      PROVE  at'[u][i] \in {"trimUser", "trimAnswer"} <=> at[u][i] \in {"trimUser", "trimAnswer"}
  BY <1>2, <1>3
<1>8. WindowBound'
  BY <1>1, <1>7, TrimmersStay DEF WindowInv
<1> QED
  BY <1>6, <1>8 DEF WindowInv

(* A call that neither pushes nor trims.                                    *)
LEMMA OtherCallWindow ==
  ASSUME TypeOK, WindowInv, NEW t \in Turns, NEW k \in Attempts, list' = list,
         at[t][k] \in {"find", "create", "saveUser", "saveAnswer"},
         \/ \E next \in {"create", "saveUser", "saveAnswer"} : GoesOn(t, k, next)
         \/ Succeeds(t, k)
         \/ Fails(t, k)
  PROVE  WindowInv'
<1>0. ~Ended(t, k)
  BY DEF Ended
<1>1. ASSUME NEW next \in {"create", "saveUser", "saveAnswer"}, GoesOn(t, k, next) PROVE WindowInv'
  <2>1. next \in Stages
    BY DEF Stages
  <2>2. /\ at'[t][k] = next
        /\ \A u \in Turns, i \in Attempts : u # t \/ i # k => at'[u][i] = at[u][i]
    BY <1>1, <2>1, GoesOnRuns DEF TypeOK, RunsType
  <2>3. WindowBound'
    BY <2>2, TrimmersStay DEF WindowInv
  <2> QED
    BY <1>0, <1>1, <2>1, <2>3, GoesOnUnstarted DEF WindowInv
<1>2. CASE Succeeds(t, k)
  <2>1. /\ at'[t][k] = "over"
        /\ \A u \in Turns, i \in Attempts : u # t \/ i # k => at'[u][i] = at[u][i]
    BY <1>2, SucceedsRuns DEF TypeOK, RunsType
  <2>2. WindowBound'
    BY <2>1, TrimmersStay DEF WindowInv
  <2> QED
    BY <1>0, <1>2, <2>2, SucceedsUnstarted DEF WindowInv
<1>3. CASE Fails(t, k)
  <2>1. /\ Unstarted' /\ at'[t][k] = "over"
        /\ \A u \in Turns, i \in Attempts : u # t \/ i # k =>
             at'[u][i] = at[u][i] \/ (at[u][i] = "none" /\ at'[u][i] = "pushUser")
    BY <1>0, <1>3, FailsUnstarted DEF WindowInv
  <2>2. WindowBound'
    BY <2>1, TrimmersStay DEF WindowInv
  <2> QED
    BY <2>1, <2>2 DEF WindowInv
<1> QED
  BY <1>1, <1>2, <1>3

LEMMA RPushWindow ==
  ASSUME TypeOK, WindowInv, NEW t \in Turns, NEW k \in Attempts,
         NEW role \in {"user", "assistant"}, RPush(t, k, role)
  PROVE  WindowInv'
<1>1. /\ GoesOn(t, k, Trimming[role]) /\ at[t][k] \in {"pushUser", "pushAnswer"} /\ ~Ended(t, k)
      /\ Trimming[role] \in Stages /\ Trimming[role] \in {"trimUser", "trimAnswer"}
      /\ list' = Append(list, Msg(t, k, role))
  BY StagesOfCalls DEF RPush, AddsToList, Ended
<1>2. Unstarted'
  BY <1>1, GoesOnUnstarted DEF WindowInv
<1>3. /\ at'[t][k] \in {"trimUser", "trimAnswer"}
      /\ \A u \in Turns, i \in Attempts : u # t \/ i # k => at'[u][i] = at[u][i]
  BY <1>1, GoesOnRuns DEF TypeOK, RunsType
<1>4. ToTrim' = ToTrim \cup {<<t, k>>} /\ <<t, k>> \notin ToTrim
  BY <1>1, <1>3 DEF ToTrim
<1>5. Cardinality(ToTrim') = Cardinality(ToTrim) + 1
  BY <1>4, Trimmers, FS_AddElement
<1>6. Len(list') = Len(list) + 1 /\ Len(list) \in Nat
  BY <1>1, MessagesOf DEF TypeOK
<1>7. WindowBound'
  BY <1>5, <1>6, Trimmers, ChatAssumption DEF WindowInv, WindowBound
<1> QED
  BY <1>2, <1>7 DEF WindowInv

LEMMA TrimWindow ==
  ASSUME TypeOK, WindowInv, NEW t \in Turns, NEW k \in Attempts,
         NEW role \in {"user", "assistant"}, NEW fails \in BOOLEAN, Trim(t, k, role, fails)
  PROVE  WindowInv'
<1>1. GoesOn(t, k, Trimmed[role]) /\ ~Ended(t, k) /\ Trimmed[role] \in Stages
  BY StagesOfCalls DEF Trim, Ended
<1>2. Unstarted' /\ RunsType'
  BY <1>1, GoesOnUnstarted, GoesOnRuns DEF WindowInv, TypeOK, RunsType
<1>3. ~Failing => Len(list') <= Window /\ Len(list') \in Nat
  BY NewestHolds, ChatAssumption DEF Trim, LTrim, TypeOK
<1>4. Cardinality(ToTrim') \in Nat
  BY Trimmers
<1>5. WindowBound'
  BY <1>3, <1>4, ChatAssumption DEF WindowBound
<1> QED
  BY <1>2, <1>5 DEF WindowInv

LEMMA StepWindow ==
  ASSUME TypeOK, WindowInv, NEW t \in Turns, NEW k \in Attempts, Step(t, k)
  PROVE  WindowInv'
<1>1. ASSUME Failing, Fails(t, k), ~Ended(t, k) PROVE WindowInv'
  BY <1>1, FailsUnstarted DEF WindowInv, WindowBound
<1>2. ASSUME NEW role \in {"user", "assistant"}, NEW b \in BOOLEAN, RPushFails(t, k, role, b)
      PROVE  WindowInv'
  BY <1>1, <1>2, StagesOfCalls DEF RPushFails, Ended
<1>3. ASSUME NEW role \in {"user", "assistant"}, SaveMessage(t, k, role) PROVE WindowInv'
  BY <1>3, StagesOfCalls, OtherCallWindow DEF SaveMessage, Stored
<1>4. ASSUME NEW role \in {"user", "assistant"}, NEW b \in BOOLEAN, SaveMessageFails(t, k, role, b)
      PROVE  WindowInv'
  BY <1>4, StagesOfCalls, OtherCallWindow DEF SaveMessageFails, OnError, Stored
<1>5. ASSUME NEW b \in BOOLEAN, GetSessionByID(t, k, b) PROVE WindowInv'
  BY <1>5, OtherCallWindow DEF GetSessionByID, stores
<1>6. CASE CreateSession(t, k)
  BY <1>6, OtherCallWindow DEF CreateSession
<1>7. ASSUME NEW b \in BOOLEAN, CreateSessionFails(t, k, b) PROVE WindowInv'
  BY <1>7, OtherCallWindow DEF CreateSessionFails
<1> QED
  BY <1>2, <1>3, <1>4, <1>5, <1>6, <1>7, RPushWindow, TrimWindow DEF Step

LEMMA WindowInvariant == Spec => []WindowInv
<1>1. Init => WindowInv
  <2>1. Init => WindowBound
    BY Trimmers, ChatAssumption DEF Init, WindowBound
  <2> QED
    BY <2>1 DEF Init, WindowInv, Unstarted
<1>2. ASSUME TypeOK, WindowInv, [Next]_vars PROVE WindowInv'
  <2>1. CASE UNCHANGED vars
    <3>1. WindowBound'
      BY <1>2, <2>1, TrimmersStay DEF vars, stores, runs, WindowInv
    <3> QED
      BY <1>2, <2>1, <3>1 DEF vars, stores, runs, WindowInv, Unstarted
  <2>2. CASE Expire
    <3>1. Len(list') = 0
      BY <2>2 DEF Expire
    <3>2. WindowBound'
      BY <3>1, Trimmers, ChatAssumption DEF WindowBound
    <3> QED
      BY <1>2, <2>2, <3>2 DEF Expire, runs, WindowInv, Unstarted
  <2>3. ASSUME NEW t \in Turns, NEW k \in Attempts, Crash(t, k) PROVE WindowInv'
    BY <1>2, <2>3, FailsUnstarted DEF Crash, WindowInv, WindowBound
  <2> QED
    BY <1>2, <2>1, <2>2, <2>3, BeginWindow, TimesOutWindow, StepWindow DEF Next
<1> QED
  BY <1>1, <1>2, ChatTypeCorrect, PTL DEF Spec

(* Whatever races: without failures every message too many in the list has  *)
(* an attempt about to trim it.                                             *)
THEOREM WindowHolds == Spec => []WindowBound
BY WindowInvariant, PTL DEF WindowInv

---------------------------------------------------------------------------
(* The latest rounds.  Without failures and overruns, while turns come one  *)
(* by one, only the last one told has an attempt, its first, and what it    *)
(* has pushed so far ends the list.                                         *)

Place(x, role) == IF role = "user" THEN 2 * x - 1 ELSE 2 * x

(* The last c messages of l, or as many as the window keeps, are those of   *)
(* the turns of ts.                                                         *)
EndsWith(l, ts, c) ==
  /\ Len(l) >= c \/ Len(l) >= Window
  /\ \A x \in 1..Len(ts), role \in {"user", "assistant"} :
       c - Place(x, role) >= 0 /\ c - Place(x, role) < Window =>
         l[Len(l) - (c - Place(x, role))] = Msg(ts[x], 1, role)

PushedBy(t) ==
  IF at[t][1] = "pushUser" THEN 0
  ELSE IF at[t][1] \in {"trimUser", "pushAnswer"} THEN 1 ELSE 2

ToldInv ==
  ~Failing /\ ~Overrun /\ told # <<>> =>
    LET t == told[Len(told)]
    IN  /\ \A u \in Turns, k \in Attempts : ~Ended(u, k) => u = t /\ k = 1
        /\ at[t][1] = "create" => session = None
        /\ EndsWith(list, told, 2 * (Len(told) - 1) + PushedBy(t))

(* Newest, as a function of the positions.                                  *)
LEMMA NewestIs ==
  ASSUME NEW S, NEW s \in Seq(S), NEW n \in Nat
  PROVE  /\ Len(s) <= n => Newest(s, n) = s
         /\ Len(s) > n => /\ Newest(s, n) \in Seq(S) /\ Len(Newest(s, n)) = n
                         /\ \A i \in 1..n : Newest(s, n)[i] = s[Len(s) - n + i]
<1>1. CASE Len(s) > n
  <2>1. Len(s) \in Nat /\ ~(Len(s) <= n) /\ Newest(s, n) = SubSeq(s, Len(s) - n + 1, Len(s))
    BY <1>1 DEF Newest
  <2> QED
    BY <1>1, <2>1
<1> QED
  BY <1>1 DEF Newest

LEMMA LastTold ==
  ASSUME TypeOK, told # <<>>
  PROVE  told[Len(told)] \in Turns /\ Len(told) \in Nat \ {0} /\ 1 \in Attempts
BY ChatAssumption DEF TypeOK, Attempts

(* A push is the next message that is expected.                             *)
LEMMA PushEndsWith ==
  ASSUME NEW l \in Seq(Messages), NEW ts \in Seq(Turns), NEW c \in Nat, EndsWith(l, ts, c),
         NEW L \in 1..Len(ts), NEW role \in {"user", "assistant"}, c + 1 = Place(L, role)
  PROVE  EndsWith(Append(l, Msg(ts[L], 1, role)), ts, c + 1)
<1> DEFINE msg == Msg(ts[L], 1, role)
           a == Append(l, msg)
<1>1. msg \in Messages /\ Len(ts) \in Nat
  BY ChatAssumption DEF Msg, Messages, Attempts
<1>2. /\ Len(l) \in Nat /\ Len(a) = Len(l) + 1
      /\ \A i \in 1..Len(l) : a[i] = l[i]
      /\ a[Len(l) + 1] = msg
  BY <1>1
<1>3. msg = Msg(ts[L], 1, role)
  OBVIOUS
<1> HIDE DEF msg, a
<1>4. ASSUME NEW x \in 1..Len(ts), NEW r \in {"user", "assistant"},
             c + 1 - Place(x, r) >= 0, c + 1 - Place(x, r) < Window
      PROVE  a[Len(a) - (c + 1 - Place(x, r))] = Msg(ts[x], 1, r)
  <2>1. x \in Nat \ {0} /\ L \in Nat \ {0} /\ Place(x, r) \in Nat \ {0}
    BY <1>1 DEF Place
  <2>2. CASE Place(x, r) = c + 1
    <3>1. x = L /\ r = role
      BY <2>1, <2>2 DEF Place
    <3> QED
      BY <1>2, <1>3, <2>2, <3>1
  <2>3. CASE Place(x, r) # c + 1
    <3>1. c - Place(x, r) >= 0 /\ c - Place(x, r) < Window /\ c - Place(x, r) < c
      BY <1>4, <2>1, <2>3, ChatAssumption
    <3>2. l[Len(l) - (c - Place(x, r))] = Msg(ts[x], 1, r)
      BY <3>1 DEF EndsWith
    <3>3. Len(l) - (c - Place(x, r)) \in 1..Len(l)
      BY <1>2, <2>1, <3>1, ChatAssumption DEF EndsWith
    <3>4. Len(a) - (c + 1 - Place(x, r)) = Len(l) - (c - Place(x, r))
      <4>1. \A p, q \in Nat : Len(a) - (q + 1 - p) = Len(l) - (q - p)
        BY <1>2
      <4> QED
        BY <2>1, <4>1
    <3> QED
      BY <1>2, <3>2, <3>3, <3>4
  <2> QED
    BY <2>2, <2>3
<1>5. Len(a) >= c + 1 \/ Len(a) >= Window
  BY <1>2, ChatAssumption DEF EndsWith
<1>6. EndsWith(a, ts, c + 1)
  <2> DEFINE d == c + 1
  <2>1. d = c + 1
    OBVIOUS
  <2> HIDE DEF d
  <2>2. Len(a) >= d \/ Len(a) >= Window
    BY <1>5, <2>1
  <2>3. ASSUME NEW x \in 1..Len(ts), NEW r \in {"user", "assistant"}
        PROVE  d - Place(x, r) >= 0 /\ d - Place(x, r) < Window =>
                 a[Len(a) - (d - Place(x, r))] = Msg(ts[x], 1, r)
    <3>1. d \in Nat /\ Place(x, r) \in Nat /\ d - Place(x, r) = c + 1 - Place(x, r)
      BY <1>1, <2>1 DEF Place
    <3>2. c + 1 - Place(x, r) >= 0 /\ c + 1 - Place(x, r) < Window =>
            a[Len(a) - (c + 1 - Place(x, r))] = Msg(ts[x], 1, r)
      BY <1>4
    <3> QED
      BY <3>1, <3>2
  <2>4. EndsWith(a, ts, d)
    BY <2>2, <2>3 DEF EndsWith
  <2> QED
    BY <2>1, <2>4
<1> QED
  BY <1>6 DEF a, msg

LEMMA TrimEndsWith ==
  ASSUME NEW l \in Seq(Messages), NEW ts \in Seq(Turns), NEW c \in Nat, EndsWith(l, ts, c)
  PROVE  EndsWith(LTrim(l), ts, c)
<1>1. Len(l) \in Nat /\ Window \in Nat \ {0}
  BY ChatAssumption
<1>2. CASE Len(l) <= Window
  BY <1>1, <1>2, NewestIs DEF LTrim
<1>3. CASE Len(l) > Window
  <2> DEFINE kept == LTrim(l)
  <2>1. Len(kept) = Window /\ \A i \in 1..Window : kept[i] = l[Len(l) - Window + i]
    BY <1>1, <1>3, NewestIs DEF LTrim
  <2> HIDE DEF kept
  <2>2. ASSUME NEW x \in 1..Len(ts), NEW r \in {"user", "assistant"},
               c - Place(x, r) >= 0, c - Place(x, r) < Window
        PROVE  kept[Window - (c - Place(x, r))] = Msg(ts[x], 1, r)
    <3>1. Place(x, r) \in Nat \ {0}
      BY DEF Place
    <3>2. Window - (c - Place(x, r)) \in 1..Window
      BY <1>1, <2>2, <3>1
    <3>3. Len(l) - Window + (Window - (c - Place(x, r))) = Len(l) - (c - Place(x, r))
      BY <1>1, <3>1
    <3>4. kept[Window - (c - Place(x, r))] = l[Len(l) - (c - Place(x, r))]
      BY <2>1, <3>2, <3>3
    <3> QED
      BY <2>2, <3>4 DEF EndsWith
  <2>3. EndsWith(kept, ts, c)
    BY <1>1, <2>1, <2>2 DEF EndsWith
  <2> QED
    BY <2>3 DEF kept
<1> QED
  BY <1>1, <1>2, <1>3

(* A call of the only attempt there is.                                     *)
LEMMA GoesOnTold ==
  ASSUME TypeOK, ToldInv, ~Failing, ~Overrun, told # <<>>, told' = told,
         NEW next \in Stages, at' = [at EXCEPT ![told[Len(told)]][1] = next],
         next = "create" => session' = None,
         EndsWith(list', told, 2 * (Len(told) - 1) +
                    (IF next = "pushUser" THEN 0
                     ELSE IF next \in {"trimUser", "pushAnswer"} THEN 1 ELSE 2))
  PROVE  ToldInv'
<1> DEFINE t == told[Len(told)]
<1>1. t \in Turns /\ 1 \in Attempts
  BY LastTold
<1>2. /\ at'[t][1] = next
      /\ \A u \in Turns, i \in Attempts : u # t \/ i # 1 => at'[u][i] = at[u][i]
  BY <1>1 DEF TypeOK
<1> QED
  BY <1>2 DEF ToldInv, PushedBy, Ended

LEMMA StepTold ==
  ASSUME TypeOK, ToldInv, NEW t \in Turns, NEW k \in Attempts, Step(t, k)
  PROVE  ToldInv'
<1>0. told' = told /\ ~Ended(t, k)
  BY StagesOfCalls
     DEF Step, RPush, RPushFails, AddsToList, SaveMessage, SaveMessageFails, Trim, CreateSession,
         GetSessionByID, CreateSessionFails, stores, Ended
<1>1. SUFFICES ASSUME ~Failing, ~Overrun, told # <<>> PROVE ToldInv'
  BY <1>0 DEF ToldInv
<1> DEFINE n == 2 * (Len(told) - 1)
<1>2. t = told[Len(told)] /\ k = 1
  BY <1>0, <1>1 DEF ToldInv
<1>3. /\ Len(told) \in 1..Len(told) /\ n \in Nat
      /\ at[t][1] = "create" => session = None
      /\ EndsWith(list, told, n + PushedBy(t))
      /\ list \in Seq(Messages) /\ told \in Seq(Turns)
  BY <1>1, <1>2, LastTold DEF ToldInv, TypeOK
<1>4. ASSUME NEW role \in {"user", "assistant"}, RPush(t, k, role) PROVE ToldInv'
  <2>1. /\ list' = Append(list, Msg(told[Len(told)], 1, role)) /\ GoesOn(t, 1, Trimming[role])
        /\ at[t][1] = Pushing[role] /\ Trimming[role] \in Stages
    BY <1>2, <1>4, StagesOfCalls DEF RPush, AddsToList
  <2>2. PushedBy(t) \in Nat /\ n + PushedBy(t) + 1 = Place(Len(told), role)
    <3>1. PushedBy(t) = IF role = "user" THEN 0 ELSE 1
      BY <2>1, StagesOfCalls DEF PushedBy
    <3>2. Len(told) \in Nat
      BY <1>3
    <3> QED
      BY <3>1, <3>2 DEF Place
  <2>3. EndsWith(list', told, n + PushedBy(t) + 1)
    BY <1>3, <2>1, <2>2, PushEndsWith
  <2>4. /\ Trimming[role] \notin {"create", "pushUser"}
        /\ n + PushedBy(t) + 1 = n + (IF Trimming[role] \in {"trimUser", "pushAnswer"} THEN 1 ELSE 2)
    <3>1. CASE role = "user"
      <4>1. Trimming[role] = "trimUser" /\ at[t][1] = "pushUser"
        BY <2>1, <3>1, StagesOfCalls
      <4>2. PushedBy(t) = 0
        BY <4>1 DEF PushedBy
      <4> QED
        BY <1>3, <4>1, <4>2
    <3>2. CASE role = "assistant"
      <4>1. Trimming[role] = "trimAnswer" /\ at[t][1] = "pushAnswer"
        BY <2>1, <3>2, StagesOfCalls
      <4>2. PushedBy(t) = 1
        BY <4>1 DEF PushedBy
      <4> QED
        BY <1>3, <4>1, <4>2
    <3> QED
      BY <3>1, <3>2
  <2> QED
    BY <1>0, <1>1, <1>2, <2>1, <2>3, <2>4, GoesOnTold DEF GoesOn
<1>5. ASSUME NEW role \in {"user", "assistant"}, NEW b \in BOOLEAN, Trim(t, k, role, b)
      PROVE  ToldInv'
  <2>1. /\ list' = LTrim(list) /\ GoesOn(t, 1, Trimmed[role]) /\ Trimmed[role] \in Stages
        /\ at[t][1] = Trimming[role]
    BY <1>1, <1>2, <1>5, StagesOfCalls DEF Trim
  <2>2. PushedBy(t) = (IF Trimmed[role] \in {"trimUser", "pushAnswer"} THEN 1 ELSE 2)
        /\ Trimmed[role] \notin {"pushUser", "create"}
    BY <2>1, StagesOfCalls DEF PushedBy
  <2>3. EndsWith(list', told, n + PushedBy(t))
    BY <1>3, <2>1, <2>2, TrimEndsWith
  <2> QED
    BY <1>0, <1>1, <1>2, <2>1, <2>2, <2>3, GoesOnTold DEF GoesOn
<1>6. ASSUME NEW next \in {"create", "saveUser", "saveAnswer", "over"}, at' = [at EXCEPT ![t][1] = next],
             list' = list, next = "create" => session' = None,
             at[t][1] \in {"find", "create", "saveUser", "saveAnswer"}
      PROVE  ToldInv'
  <2>1. EndsWith(list', told, n + 2)
    BY <1>0, <1>3, <1>6 DEF EndsWith, PushedBy
  <2>2. next \in Stages
    BY DEF Stages
  <2> QED
    BY <1>0, <1>1, <1>2, <1>6, <2>1, <2>2, GoesOnTold
<1>7. ASSUME NEW role \in {"user", "assistant"}, SaveMessage(t, k, role) PROVE ToldInv'
  <2>1. GoesOn(t, 1, "saveAnswer") \/ Succeeds(t, 1)
    BY <1>2, <1>7 DEF SaveMessage, Stored
  <2>2. /\ list' = list /\ at[t][1] \in {"saveUser", "saveAnswer"}
    BY <1>2, <1>7, StagesOfCalls DEF SaveMessage
  <2>3. CASE GoesOn(t, 1, "saveAnswer")
    BY <1>6, <2>2, <2>3 DEF GoesOn
  <2>4. CASE Succeeds(t, 1)
    BY <1>6, <2>2, <2>4 DEF Succeeds
  <2> QED
    BY <2>1, <2>3, <2>4
<1>8. ASSUME NEW b \in BOOLEAN, GetSessionByID(t, k, b) PROVE ToldInv'
  BY <1>1, <1>2, <1>6, <1>8 DEF GetSessionByID, GoesOn, stores
<1>9. CASE CreateSession(t, k)
  BY <1>2, <1>6, <1>9 DEF CreateSession, GoesOn
<1>10. ASSUME NEW b \in BOOLEAN PROVE ~CreateSessionFails(t, k, b)
  BY <1>1, <1>2, <1>3 DEF CreateSessionFails
<1> QED
  BY <1>1, <1>4, <1>5, <1>7, <1>8, <1>9, <1>10 DEF Step, RPushFails, SaveMessageFails

LEMMA BeginTold ==
  ASSUME TypeOK, ToldInv, NEW t \in Turns, Begin(t)
  PROVE  ToldInv'
<1>1. SUFFICES ASSUME ~Failing, ~Overrun, ~Saving, told' = Append(told, t) PROVE ToldInv'
  BY DEF Begin, ToldInv
<1>2. /\ told \in Seq(Turns) /\ Len(told) \in Nat /\ Len(told') = Len(told) + 1
      /\ told'[Len(told')] = t /\ \A x \in 1..Len(told) : told'[x] = told[x]
      /\ list' = list /\ 1 \in Attempts
  BY <1>1, ChatAssumption DEF Begin, stores, TypeOK, Attempts
<1>3. /\ at'[t][1] = "pushUser"
      /\ \A u \in Turns, i \in Attempts : u # t \/ i # 1 => at'[u][i] = at[u][i]
  BY <1>2 DEF Begin, TypeOK
<1>4. \A u \in Turns, k \in Attempts : ~Ended(u, k)' => u = t /\ k = 1
  BY <1>1, <1>3 DEF Saving, Ended
<1>5. EndsWith(list, told, 2 * Len(told))
  <2>1. CASE told = <<>>
    BY <1>2, <2>1, ChatAssumption DEF EndsWith, TypeOK
  <2>2. CASE told # <<>>
    <3>1. PushedBy(told[Len(told)]) = 2
      BY <1>1, <1>2, <2>2, LastTold DEF PushedBy, Saving, Ended
    <3>2. 2 * (Len(told) - 1) + 2 = 2 * Len(told)
      BY <1>2
    <3> QED
      BY <1>1, <2>2, <3>1, <3>2 DEF ToldInv
  <2> QED
    BY <2>1, <2>2
<1>6. ASSUME NEW c \in Nat, c = 2 * Len(told) PROVE EndsWith(list, told', c)
  <2>1. ASSUME NEW x \in 1..Len(told'), NEW r \in {"user", "assistant"},
               c - Place(x, r) >= 0, c - Place(x, r) < Window
        PROVE  list[Len(list) - (c - Place(x, r))] = Msg(told'[x], 1, r)
    <3>1. x \in 1..Len(told)
      BY <1>2, <1>6, <2>1 DEF Place
    <3> QED
      BY <1>2, <1>5, <1>6, <2>1, <3>1 DEF EndsWith
  <2> QED
    BY <1>2, <1>5, <1>6, <2>1 DEF EndsWith
<1>7. 2 * (Len(told') - 1) + 0 = 2 * Len(told) /\ 2 * Len(told) \in Nat
  BY <1>2
<1> QED
  BY <1>2, <1>3, <1>4, <1>6, <1>7 DEF ToldInv, PushedBy

(* The list ends with the rounds of the turns told, as many as it keeps.    *)
LEMMA ToldIsRecent ==
  ASSUME TypeOK, ToldInv
  PROVE  WindowIsRecent
<1> SUFFICES ASSUME ~Failing, ~Overrun, ~Saving PROVE WindowIsRecent
  BY DEF WindowIsRecent
<1> DEFINE L == Len(told)
           r == IF L <= Window \div 2 THEN L ELSE Window \div 2
           recent == Newest(told, Window \div 2)
<1>1. /\ told \in Seq(Turns) /\ L \in Nat /\ Window \in Nat \ {0} /\ Window \div 2 \in Nat
      /\ 2 * (Window \div 2) <= Window /\ list \in Seq(Messages) /\ Len(list) \in Nat
  BY ChatAssumption DEF TypeOK
<1>2. r \in Nat /\ r <= L /\ 2 * r <= Window /\ 2 * r \in Nat
  BY <1>1
<1>3. r = IF L <= Window \div 2 THEN L ELSE Window \div 2
  OBVIOUS
<1> HIDE DEF r
<1>4. Len(recent) = r /\ \A i \in 1..r : recent[i] = told[L - r + i]
  BY <1>1, <1>2, <1>3, NewestIs
<1>5. EndsWith(list, told, 2 * L)
  <2>1. CASE told = <<>>
    BY <1>1, <2>1 DEF EndsWith
  <2>2. CASE told # <<>>
    <3>1. PushedBy(told[Len(told)]) = 2
      BY <2>2, LastTold DEF PushedBy, Saving, Ended
    <3>2. 2 * (L - 1) + 2 = 2 * L
      BY <1>1
    <3> QED
      BY <2>2, <3>1, <3>2 DEF ToldInv
  <2> QED
    BY <2>1, <2>2
<1>6. 2 * r <= Len(list)
  BY <1>1, <1>2, <1>5 DEF EndsWith
<1> HIDE DEF recent
<1>7. /\ Newest(list, 2 * r) \in Seq(Messages) /\ Len(Newest(list, 2 * r)) = 2 * r
      /\ \A i \in 1..2 * r : Newest(list, 2 * r)[i] = list[Len(list) - 2 * r + i]
  <2>1. 2 * r = IF Len(list) <= 2 * r THEN Len(list) ELSE 2 * r
    BY <1>1, <1>2, <1>6
  <2> QED
    BY <1>1, <1>2, <2>1, NewestIs
<1>8. ASSUME NEW i \in 1..2 * r
      PROVE  list[Len(list) - 2 * r + i] =
               Msg(recent[(i + 1) \div 2], 1, IF i % 2 = 1 THEN "user" ELSE "assistant")
  <2> DEFINE x == (i + 1) \div 2
             role == IF i % 2 = 1 THEN "user" ELSE "assistant"
             y == L - r + x
  <2>1. x \in 1..r /\ i = Place(x, role)
    BY <1>2 DEF Place
  <2>2. recent[x] = told[y] /\ y \in 1..L
    BY <1>1, <1>2, <1>4, <2>1
  <2>3. 2 * L - Place(y, role) = 2 * r - i
    <3>1. Place(y, role) = 2 * (L - r) + Place(x, role)
      BY <1>1, <1>2, <2>1 DEF Place
    <3> QED
      BY <1>1, <1>2, <2>1, <3>1
  <2>4. 2 * r - i >= 0 /\ 2 * r - i < Window
    BY <1>1, <1>2
  <2>5. role \in {"user", "assistant"}
    OBVIOUS
  <2> HIDE DEF x, y, role
  <2>6. list[Len(list) - (2 * r - i)] = Msg(told[y], 1, role)
    BY <1>5, <2>2, <2>3, <2>4, <2>5 DEF EndsWith
  <2>7. Len(list) - (2 * r - i) = Len(list) - 2 * r + i
    BY <1>1, <1>2
  <2> QED
    BY <2>2, <2>6, <2>7 DEF x, role
<1>9. Newest(list, 2 * r) =
        [i \in 1..2 * r |->
           Msg(recent[(i + 1) \div 2], 1, IF i % 2 = 1 THEN "user" ELSE "assistant")]
  <2> DEFINE M == 2 * r
             N == Newest(list, M)
             e(i) == Msg(recent[(i + 1) \div 2], 1, IF i % 2 = 1 THEN "user" ELSE "assistant")
  <2>1. N \in Seq(Messages) /\ Len(N) = M /\ M \in Nat
    BY <1>2, <1>7
  <2>2. ASSUME NEW i \in 1..M PROVE N[i] = e(i)
    BY <1>7, <1>8, <2>2
  <2> HIDE DEF M, N, e
  <2>3. N = [i \in 1..M |-> e(i)]
    BY <2>1, <2>2
  <2> QED
    BY <2>3 DEF M, N, e
<1> QED
  BY <1>4, <1>9 DEF WindowIsRecent, recent

(* Unless calls fail or attempts overrun, turns that come one by one are    *)
(* the end of the list, for any number of turns and any window.             *)
THEOREM WindowStaysRecent == Spec => []WindowIsRecent
<1>1. Init => ToldInv
  BY DEF Init, ToldInv
<1>2. ASSUME TypeOK, ToldInv, [Next]_vars PROVE ToldInv'
  <2>1. CASE UNCHANGED vars
    BY <1>2, <2>1 DEF vars, stores, runs, ToldInv, EndsWith, PushedBy, Ended, Place
  <2>2. CASE Expire
    BY <2>2 DEF Expire, ToldInv
  <2>3. ASSUME NEW t \in Turns, NEW k \in Attempts, Crash(t, k) \/ TimesOut(t, k) PROVE ToldInv'
    BY <2>3 DEF Crash, TimesOut, ToldInv
  <2> QED
    BY <1>2, <2>1, <2>2, <2>3, BeginTold, StepTold DEF Next
<1> QED
  BY <1>1, <1>2, ToldIsRecent, ChatTypeCorrect, PTL DEF Spec

---------------------------------------------------------------------------
(* What liveness needs beside fairness: an attempt makes its calls in their *)
(* order, each once, and never starts over; so a turn has an end, whichever *)
(* calls fail and whichever attempts overrun.                               *)

CallsLeft ==
  [none |-> 9, pushUser |-> 8, trimUser |-> 7, pushAnswer |-> 6, trimAnswer |-> 5,
   find |-> 4, create |-> 3, saveUser |-> 2, saveAnswer |-> 1, over |-> 0]

MovesOn(t, k) == CallsLeft[at'[t][k]] < CallsLeft[at[t][k]]

(* Every step but the expiry of the list brings an attempt further, and     *)
(* none takes one back.                                                     *)
AttemptsAdvance ==
  [][/\ \A t \in Turns, k \in Attempts : at'[t][k] = at[t][k] \/ MovesOn(t, k)
     /\ ~Expire => \E t \in Turns, k \in Attempts : MovesOn(t, k)]_vars

Advances ==
  /\ \A t \in Turns, k \in Attempts : at'[t][k] = at[t][k] \/ MovesOn(t, k)
  /\ \E t \in Turns, k \in Attempts : MovesOn(t, k)

LEMMA OneAdvances ==
  ASSUME TypeOK, NEW t \in Turns, NEW k \in Attempts, NEW next \in Stages,
         at' = [at EXCEPT ![t][k] = next], CallsLeft[next] < CallsLeft[at[t][k]]
  PROVE  Advances
<1>1. /\ at'[t][k] = next
      /\ \A u \in Turns, i \in Attempts : u # t \/ i # k => at'[u][i] = at[u][i]
  BY DEF TypeOK
<1>2. MovesOn(t, k)
  BY <1>1 DEF MovesOn
<1> HIDE DEF MovesOn
<1> QED
  BY <1>1, <1>2 DEF Advances

LEMMA FailsAdvances ==
  ASSUME TypeOK, Unstarted, NEW t \in Turns, NEW k \in Attempts, Fails(t, k), ~Ended(t, k)
  PROVE  Advances
<1>1. /\ at'[t][k] = "over"
      /\ \A u \in Turns, i \in Attempts : u # t \/ i # k =>
           \/ at'[u][i] = at[u][i]
           \/ at[u][i] = "none" /\ at'[u][i] = "pushUser"
  BY FailsUnstarted
<1>2. at[t][k] \in Stages \ {"none", "over"}
  BY DEF TypeOK, Ended
<1>3. MovesOn(t, k)
  BY <1>1, <1>2 DEF MovesOn, CallsLeft, Stages
<1>4. ASSUME NEW u \in Turns, NEW i \in Attempts, at[u][i] = "none", at'[u][i] = "pushUser"
      PROVE  MovesOn(u, i)
  BY <1>4 DEF MovesOn, CallsLeft
<1> QED
  BY <1>1, <1>3, <1>4 DEF Advances

LEMMA StoredAdvances ==
  ASSUME TypeOK, Unstarted, NEW t \in Turns, NEW k \in Attempts, NEW role \in {"user", "assistant"},
         at[t][k] = Storing[role], Stored(t, k, role)
  PROVE  Advances
<1>1. CASE role = "user"
  BY <1>1, StagesOfCalls, OneAdvances DEF Stored, GoesOn, CallsLeft, Stages
<1>2. CASE role = "assistant"
  BY <1>2, StagesOfCalls, OneAdvances DEF Stored, Succeeds, CallsLeft, Stages
<1> QED
  BY <1>1, <1>2

LEMMA StepAdvances ==
  ASSUME TypeOK, Unstarted, NEW t \in Turns, NEW k \in Attempts, Step(t, k)
  PROVE  Advances
<1>1. ASSUME NEW role \in {"user", "assistant"}, RPush(t, k, role) PROVE Advances
  <2>1. at[t][k] = Pushing[role] /\ at' = [at EXCEPT ![t][k] = Trimming[role]]
    BY <1>1 DEF RPush, GoesOn
  <2>2. Trimming[role] \in Stages /\ CallsLeft[Trimming[role]] < CallsLeft[Pushing[role]]
    BY StagesOfCalls DEF CallsLeft
  <2> QED
    BY <2>1, <2>2, OneAdvances
<1>2. ASSUME NEW role \in {"user", "assistant"}, NEW b \in BOOLEAN, Trim(t, k, role, b)
      PROVE  Advances
  <2>1. at[t][k] = Trimming[role] /\ at' = [at EXCEPT ![t][k] = Trimmed[role]]
    BY <1>2 DEF Trim, GoesOn
  <2>2. Trimmed[role] \in Stages /\ CallsLeft[Trimmed[role]] < CallsLeft[Trimming[role]]
    BY StagesOfCalls DEF CallsLeft
  <2> QED
    BY <2>1, <2>2, OneAdvances
<1>3. ASSUME NEW b \in BOOLEAN, GetSessionByID(t, k, b) PROVE Advances
  <2> DEFINE next == IF session = None \/ b THEN "create" ELSE "saveUser"
  <2>1. at' = [at EXCEPT ![t][k] = next] /\ next \in {"create", "saveUser"}
    BY <1>3 DEF GetSessionByID, GoesOn
  <2>2. at[t][k] = "find"
    BY <1>3 DEF GetSessionByID
  <2>3. next \in Stages /\ CallsLeft[next] < CallsLeft[at[t][k]]
    BY <2>1, <2>2 DEF CallsLeft, Stages
  <2> HIDE DEF next
  <2> QED
    BY <2>1, <2>3, OneAdvances
<1>4. CASE CreateSession(t, k)
  <2>1. at[t][k] = "create" /\ at' = [at EXCEPT ![t][k] = "saveUser"]
    BY <1>4 DEF CreateSession, GoesOn
  <2>2. "saveUser" \in Stages /\ CallsLeft["saveUser"] < CallsLeft["create"]
    BY DEF CallsLeft, Stages
  <2> QED
    BY <2>1, <2>2, OneAdvances
<1>5. ASSUME NEW b \in BOOLEAN, CreateSessionFails(t, k, b) PROVE Advances
  BY <1>5, FailsAdvances DEF CreateSessionFails, Ended
<1>6. ASSUME NEW role \in {"user", "assistant"}, NEW b \in BOOLEAN, RPushFails(t, k, role, b)
      PROVE  Advances
  BY <1>6, StagesOfCalls, FailsAdvances DEF RPushFails, Ended
<1>7. ASSUME NEW role \in {"user", "assistant"}, SaveMessage(t, k, role) PROVE Advances
  BY <1>7, StoredAdvances DEF SaveMessage
<1>8. ASSUME NEW role \in {"user", "assistant"}, NEW b \in BOOLEAN, SaveMessageFails(t, k, role, b)
      PROVE  Advances
  <2>1. CASE t \in GraphTurns
    BY <1>8, <2>1, StoredAdvances DEF SaveMessageFails, OnError
  <2>2. CASE t \notin GraphTurns
    BY <1>8, <2>2, StagesOfCalls, FailsAdvances DEF SaveMessageFails, OnError, Ended
  <2> QED
    BY <2>1, <2>2
<1> QED
  BY <1>1, <1>2, <1>3, <1>4, <1>5, <1>6, <1>7, <1>8 DEF Step

(* A new attempt is one that has not run.                                   *)
LEMMA StartAdvances ==
  ASSUME TypeOK, Unstarted, NEW t \in Turns, Begin(t) \/ \E k \in Attempts : TimesOut(t, k)
  PROVE  Advances
<1>1. PICK k \in Attempts : k > attempt[t] /\ at' = [at EXCEPT ![t][k] = "pushUser"]
  <2>1. CASE Begin(t)
    <3>1. 1 \in Attempts /\ 1 > attempt[t]
      BY <2>1, ChatAssumption DEF Begin, Unstarted, Attempts
    <3> QED
      BY <2>1, <3>1 DEF Begin
  <2>2. ASSUME NEW k \in Attempts, TimesOut(t, k)
        PROVE  \E i \in Attempts : i > attempt[t] /\ at' = [at EXCEPT ![t][i] = "pushUser"]
    <3>1. k + 1 \in Attempts /\ k + 1 > attempt[t]
      BY <2>2, ChatAssumption DEF TimesOut, Awaited, Attempts
    <3> QED
      BY <2>2, <3>1 DEF TimesOut
  <2> QED
    BY <2>1, <2>2
<1>2. at[t][k] = "none"
  BY <1>1 DEF Unstarted
<1>3. "pushUser" \in Stages /\ CallsLeft["pushUser"] < CallsLeft["none"]
  BY DEF CallsLeft, Stages
<1> QED
  BY <1>1, <1>2, <1>3, OneAdvances

(* Whatever fails, overruns, crashes or races: a turn's attempts make at    *)
(* most nine steps each.                                                    *)
THEOREM AttemptsEnd == Spec => AttemptsAdvance
<1>1. ASSUME TypeOK, WindowInv, [Next]_vars
      PROVE  [/\ \A t \in Turns, k \in Attempts : at'[t][k] = at[t][k] \/ MovesOn(t, k)
              /\ ~Expire => \E t \in Turns, k \in Attempts : MovesOn(t, k)]_vars
  <2>1. Unstarted
    BY <1>1 DEF WindowInv
  <2>2. ASSUME NEW t \in Turns, NEW k \in Attempts, Crash(t, k) PROVE Advances
    BY <1>1, <2>1, <2>2, FailsAdvances DEF Crash
  <2>3. Advances \/ Expire \/ UNCHANGED vars
    BY <1>1, <2>1, <2>2, StepAdvances, StartAdvances DEF Next
  <2>4. Expire => at' = at
    BY DEF Expire, runs
  <2> QED
    BY <2>3, <2>4 DEF Advances
<1> QED
  BY <1>1, WindowInvariant, ChatTypeCorrect, PTL DEF Spec, AttemptsAdvance
===========================================================================
