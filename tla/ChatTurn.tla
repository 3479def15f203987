------------------------------ MODULE ChatTurn ----------------------------
(***************************************************************************)
(* The turns of one session in its two stores: SaveChatTurn                 *)
(* (agent_activities.go) and SaveBlueprintChatTurn (dynamic_activities.go)  *)
(* over the Redis list (redis_chat_repo.go) and the PostgreSQL rows         *)
(* (session_repo.go).  An attempt of an activity is a process that makes    *)
(* one call after the other, next to the attempts for other turns, and to   *)
(* earlier attempts that Temporal has already timed out.                    *)
(***************************************************************************)
EXTENDS Integers, Sequences, FiniteSets

CONSTANTS
  Turns,        \* the turns of the session: a query and its answer each
  GraphTurns,   \* those that a blueprint run saves
  None,
  Window,       \* messages the Redis list keeps (20)
  MaxAttempts,  \* attempts of SaveChatTurn (3), bound for SaveBlueprintChatTurn
  Failing,      \* whether calls fail, with or without effect, and workers crash
  Overrun       \* whether attempts outlive their start-to-close timeout

ASSUME ChatAssumption ==
  /\ IsFiniteSet(Turns) /\ GraphTurns \subseteq Turns /\ None \notin Turns
  /\ Window \in Nat \ {0} /\ MaxAttempts \in Nat \ {0}
  /\ {Failing, Overrun} \subseteq BOOLEAN

VARIABLES
  list,      \* Redis: chat:history:<session>
  session,   \* PostgreSQL: the turn whose query titles the session, if it exists
  messages,  \* PostgreSQL: saved messages, one per turn, attempt and role
  at,        \* what each attempt does next
  attempt,   \* the attempt whose result Temporal waits for
  outcome,   \* the activity of each turn, as its workflow sees it
  pushed,    \* history: the messages that reached the list
  told       \* history: the turns that came one by one, since others or the expiry

stores == <<list, session, messages>>
runs == <<at, attempt, outcome>>
vars == <<stores, runs, pushed, told>>

Attempts == 1..MaxAttempts
Msg(t, k, role) == [turn |-> t, attempt |-> k, role |-> role]

Ended(t, k) == at[t][k] \in {"none", "over"}
Saving == \E t \in Turns, k \in Attempts : ~Ended(t, k)
Awaited(t, k) == outcome[t] = "saving" /\ attempt[t] = k

Init ==
  /\ list = <<>>
  /\ session = None
  /\ messages = {}
  /\ at = [t \in Turns |-> [k \in Attempts |-> "none"]]
  /\ attempt = [t \in Turns |-> 0]
  /\ outcome = [t \in Turns |-> "none"]
  /\ pushed = {}
  /\ told = <<>>

(* The workflow that answered t schedules the activity.                     *)
Begin(t) ==
  /\ outcome[t] = "none"
  /\ outcome' = [outcome EXCEPT ![t] = "saving"]
  /\ attempt' = [attempt EXCEPT ![t] = 1]
  /\ at' = [at EXCEPT ![t][1] = "pushUser"]
  /\ told' = IF Saving THEN <<>> ELSE Append(told, t)
  /\ UNCHANGED <<stores, pushed>>

---------------------------------------------------------------------------
(* How an attempt goes on.                                                  *)

GoesOn(t, k, next) ==
  /\ at' = [at EXCEPT ![t][k] = next]
  /\ UNCHANGED <<attempt, outcome>>

Succeeds(t, k) ==
  /\ at' = [at EXCEPT ![t][k] = "over"]
  /\ outcome' = IF Awaited(t, k) THEN [outcome EXCEPT ![t] = "saved"] ELSE outcome
  /\ UNCHANGED attempt

(* Mutations: no retry; no last attempt.                                    *)
NoRetry(t, k) ==
  /\ at' = [at EXCEPT ![t][k] = "over"]
  /\ outcome' = [outcome EXCEPT ![t] = "gaveup"]
  /\ UNCHANGED attempt
RetriesForEver(t, k) == GoesOn(t, k, "pushUser")

(* The retry policies: the next attempt, or no other.  A blueprint run      *)
(* retries for ever, up to the bound.                                       *)
Retries(t, k) ==
  IF k < MaxAttempts
    THEN /\ at' = [at EXCEPT ![t][k] = "over", ![t][k + 1] = "pushUser"]
         /\ attempt' = [attempt EXCEPT ![t] = k + 1]
         /\ UNCHANGED outcome
    ELSE /\ t \notin GraphTurns
         /\ at' = [at EXCEPT ![t][k] = "over"]
         /\ outcome' = [outcome EXCEPT ![t] = "gaveup"]
         /\ UNCHANGED attempt

(* The error of an attempt that Temporal no longer waits for is dropped.    *)
Fails(t, k) ==
  IF Awaited(t, k) THEN Retries(t, k) ELSE GoesOn(t, k, "over")

(* Start-to-close timeout: a new attempt starts next to the running one.    *)
TimesOut(t, k) ==
  /\ Overrun
  /\ Awaited(t, k)
  /\ k < MaxAttempts
  /\ at' = [at EXCEPT ![t][k + 1] = "pushUser"]
  /\ attempt' = [attempt EXCEPT ![t] = k + 1]
  /\ UNCHANGED <<stores, outcome, pushed, told>>

(* The worker goes down, at any point of an attempt.                        *)
Crash(t, k) ==
  /\ Failing
  /\ ~Ended(t, k)
  /\ Fails(t, k)
  /\ UNCHANGED <<stores, pushed, told>>

---------------------------------------------------------------------------
(* AddMessage: push, then trim.                                             *)

Pushing == [user |-> "pushUser", assistant |-> "pushAnswer"]
Trimming == [user |-> "trimUser", assistant |-> "trimAnswer"]
Trimmed == [user |-> "pushAnswer", assistant |-> "find"]

AddsToList(t, k, role) ==
  /\ list' = Append(list, Msg(t, k, role))
  /\ pushed' = pushed \cup {Msg(t, k, role)}
  /\ UNCHANGED <<session, messages, told>>

RPush(t, k, role) ==
  /\ at[t][k] = Pushing[role]
  /\ AddsToList(t, k, role)
  /\ GoesOn(t, k, Trimming[role])

RPushFails(t, k, role, effect) ==
  /\ Failing
  /\ at[t][k] = Pushing[role]
  /\ Fails(t, k)
  /\ IF effect THEN AddsToList(t, k, role) ELSE UNCHANGED <<stores, pushed, told>>

(* The last n elements of s.                                                *)
Newest(s, n) == IF Len(s) <= n THEN s ELSE SubSeq(s, Len(s) - n + 1, Len(s))

(* Mutations: the oldest are kept; one too many is kept.                    *)
OldestKept(s) == IF Len(s) <= Window THEN s ELSE SubSeq(s, 1, Window)
NewestAndOne(s) == Newest(s, Window + 1)

(* LTrim key -20 -1                                                         *)
LTrim(s) == Newest(s, Window)

(* Expire and LTrim; their errors are ignored.                              *)
Trim(t, k, role, fails) ==
  /\ fails => Failing
  /\ at[t][k] = Trimming[role]
  /\ list' = IF fails THEN list ELSE LTrim(list)
  /\ GoesOn(t, k, Trimmed[role])
  /\ UNCHANGED <<session, messages, pushed, told>>

(* Seven days without a message.                                            *)
Expire ==
  /\ ~Saving
  /\ list # <<>>
  /\ list' = <<>>
  /\ told' = <<>>
  /\ UNCHANGED <<session, messages, runs, pushed>>

---------------------------------------------------------------------------
(* The rows.                                                                *)

(* Mutation: the row is never found.                                        *)
NeverFound(t, k, fails) ==
  /\ at[t][k] = "find"
  /\ GoesOn(t, k, "create")
  /\ UNCHANGED <<stores, pushed, told>>

(* Any error of GetSessionByID is taken for a missing session.              *)
GetSessionByID(t, k, fails) ==
  /\ fails => Failing
  /\ at[t][k] = "find"
  /\ GoesOn(t, k, IF session = None \/ fails THEN "create" ELSE "saveUser")
  /\ UNCHANGED <<stores, pushed, told>>

CreateSession(t, k) ==
  /\ at[t][k] = "create"
  /\ session = None
  /\ session' = t
  /\ GoesOn(t, k, "saveUser")
  /\ UNCHANGED <<list, messages, pushed, told>>

(* Mutation: the error is ignored.                                          *)
CreateSessionIgnored(t, k, effect) ==
  /\ at[t][k] = "create"
  /\ Failing \/ session # None
  /\ GoesOn(t, k, "saveUser")
  /\ UNCHANGED <<stores, pushed, told>>

(* The key exists, or the call fails.                                       *)
CreateSessionFails(t, k, effect) ==
  /\ at[t][k] = "create"
  /\ Failing \/ (session # None /\ ~effect)
  /\ session' = IF effect /\ session = None THEN t ELSE session
  /\ Fails(t, k)
  /\ UNCHANGED <<list, messages, pushed, told>>

Storing == [user |-> "saveUser", assistant |-> "saveAnswer"]

Stored(t, k, role) == IF role = "user" THEN GoesOn(t, k, "saveAnswer") ELSE Succeeds(t, k)

SaveMessage(t, k, role) ==
  /\ at[t][k] = Storing[role]
  /\ messages' = messages \cup {Msg(t, k, role)}
  /\ Stored(t, k, role)
  /\ UNCHANGED <<list, session, pushed, told>>

(* Mutation: SaveChatTurn ignores the error as well.                        *)
OnErrorGoesOn(t, k, role) == Stored(t, k, role)

(* SaveChatTurn returns the error, SaveBlueprintChatTurn ignores it.        *)
OnError(t, k, role) ==
  IF t \in GraphTurns THEN Stored(t, k, role) ELSE Fails(t, k)

(* A transaction that fails may have been committed.                        *)
SaveMessageFails(t, k, role, effect) ==
  /\ Failing
  /\ at[t][k] = Storing[role]
  /\ messages' = IF effect THEN messages \cup {Msg(t, k, role)} ELSE messages
  /\ OnError(t, k, role)
  /\ UNCHANGED <<list, session, pushed, told>>

---------------------------------------------------------------------------
Step(t, k) ==
  \/ \E role \in {"user", "assistant"} :
       \/ RPush(t, k, role)
       \/ SaveMessage(t, k, role)
       \/ \E b \in BOOLEAN :
            \/ RPushFails(t, k, role, b)
            \/ Trim(t, k, role, b)
            \/ SaveMessageFails(t, k, role, b)
  \/ CreateSession(t, k)
  \/ \E b \in BOOLEAN : GetSessionByID(t, k, b) \/ CreateSessionFails(t, k, b)

Next ==
  \/ \E t \in Turns : Begin(t)
  \/ \E t \in Turns, k \in Attempts : Step(t, k) \/ TimesOut(t, k) \/ Crash(t, k)
  \/ Expire

Spec == Init /\ [][Next]_vars

(* A worker executes its attempts.                                          *)
FairSpec == Spec /\ \A t \in Turns, k \in Attempts : WF_vars(Step(t, k))
---------------------------------------------------------------------------
Stages == {"none", "pushUser", "trimUser", "pushAnswer", "trimAnswer", "find",
           "create", "saveUser", "saveAnswer", "over"}
Messages == [turn : Turns, attempt : Attempts, role : {"user", "assistant"}]

TypeOK ==
  /\ list \in Seq(Messages)
  /\ session \in Turns \cup {None}
  /\ messages \subseteq Messages
  /\ at \in [Turns -> [Attempts -> Stages]]
  /\ attempt \in [Turns -> 0..MaxAttempts]
  /\ outcome \in [Turns -> {"none", "saving", "saved", "gaveup"}]
  /\ pushed \subseteq Messages
  /\ told \in Seq(Turns)

(* Messages are never saved without their session: GetSessionByID, a race   *)
(* of two creations and a lost reply all end in an existing row or no       *)
(* message.                                                                 *)
MessagesHaveSession == messages # {} => session # None

(* A chat turn whose saving was reported as done is in both stores, by one  *)
(* and the same attempt.                                                    *)
InBothStores(t) ==
  \E k \in Attempts : \A role \in {"user", "assistant"} :
    Msg(t, k, role) \in messages \cap pushed

SavedInBoth == \A t \in Turns \ GraphTurns : outcome[t] = "saved" => InBothStores(t)

(* In the history of a chat turn no answer stands without its question.     *)
AnswersHaveQuestions ==
  \A t \in Turns \ GraphTurns, k \in Attempts :
    Msg(t, k, "assistant") \in messages => Msg(t, k, "user") \in messages

ToTrim == {p \in Turns \X Attempts : at[p[1]][p[2]] \in {"trimUser", "trimAnswer"}}

(* Unless calls fail, the list exceeds the window by no more messages than  *)
(* there are attempts about to trim it.                                     *)
WindowBound == ~Failing => Len(list) <= Window + Cardinality(ToTrim)

(* Races of turns alone, with no store failing, cost no turn: the loser     *)
(* finds the session at its second attempt.                                 *)
RacesLoseNoTurn ==
  ~Failing /\ ~Overrun =>
    \A t \in Turns : /\ attempt[t] <= 2
                     /\ MaxAttempts >= 2 => outcome[t] # "gaveup"

(* Unless calls fail, turns that come one by one are the end of the list:   *)
(* the latest rounds, in order, each once.                                  *)
WindowIsRecent ==
  ~Failing /\ ~Overrun /\ ~Saving =>
    LET recent == Newest(told, Window \div 2)
        messagesOf == 2 * Len(recent)
    IN  Newest(list, messagesOf) =
          [i \in 1..messagesOf |->
             Msg(recent[(i + 1) \div 2], 1, IF i % 2 = 1 THEN "user" ELSE "assistant")]

(* However the stores fail, the chat workflow waiting for the activity gets *)
(* a result in the end.                                                     *)
SavingEnds == \A t \in Turns \ GraphTurns : outcome[t] = "saving" ~> outcome[t] # "saving"

(* When they do not, every turn is saved, whatever races there are.         *)
EveryTurnSaved == \A t \in Turns : outcome[t] = "saving" ~> outcome[t] = "saved"
===========================================================================
