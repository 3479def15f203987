---------------------------- MODULE MorningBrief ----------------------------
(***************************************************************************)
(* The daily brief: the ScheduledDataIngestion workflow, its activity      *)
(* FetchAndIngest (workflow/activities/data_activities.go), and the        *)
(* readers of what it leaves in Postgres and Redis (brief_usecase.go,      *)
(* brief_repo.go, v1/brief_handler.go).                                    *)
(*                                                                         *)
(* The activity writes a Postgres row and three Redis keys one after the   *)
(* other and ignores every error, so each write may be lost; the worker    *)
(* may stop between two of them, and Temporal then runs the whole activity *)
(* again.  A reader also takes three Redis calls, at any moment.  Every    *)
(* key lives 48 hours; here a key may go at any time.                      *)
(***************************************************************************)
EXTENDS Naturals, Sequences

CONSTANTS TargetTickers, \* sequence, in the order of the workflow
          MaxDay,        \* bound on the days modelled
          MaxLosses      \* bound on failed attempts, lost writes and lost keys

ASSUME BrAssumption == Len(TargetTickers) \in Nat /\ MaxDay \in Nat

VARIABLES
  brDay,    \* the day of the last scheduled run
  brNext,   \* index of the ticker the workflow waits for
  brAct,    \* the activity attempt: its next write and the date it writes
  brRows,   \* Postgres: the <<date, ticker>> pairs with a row
  brObject, \* Redis brief:object:<date>:<ticker>
  brIndex,  \* Redis brief:index:<date>
  brLatest, \* Redis brief:latest_date, 0 when absent
  brDone,   \* history: the <<date, ticker>> pairs whose activity returned
  brLosses, \* how many faults happened
  brRead    \* a reader's progress, and its answer

brCache == <<brObject, brIndex, brLatest>>
brFlow == <<brDay, brNext, brAct>>
brVars == <<brFlow, brRows, brCache, brDone, brLosses, brRead>>

Tickers == {TargetTickers[i] : i \in 1 .. Len(TargetTickers)}
Days == 1 .. MaxDay
Pairs == Days \X Tickers
Waiting == [write |-> "none"]
NoRead == [phase |-> "idle"]

BrInit ==
  /\ brDay = 0 /\ brNext = Len(TargetTickers) + 1 /\ brAct = Waiting
  /\ brRows = {} /\ brObject = {} /\ brLatest = 0
  /\ brIndex = [d \in Days |-> {}]
  /\ brDone = {} /\ brLosses = 0 /\ brRead = NoRead

Finished == brNext > Len(TargetTickers)
Lose == brLosses < MaxLosses /\ brLosses' = brLosses + 1

-----------------------------------------------------------------------------
\* Ingestion

\* The schedule starts a run each weekday; its workflow id keeps runs apart.
StartDay ==
  /\ Finished /\ brDay < MaxDay
  /\ brDay' = brDay + 1 /\ brNext' = 1
  /\ UNCHANGED <<brAct, brRows, brCache, brDone, brLosses, brRead>>

\* The script ran and its file was read and ingested.  The date comes from the
\* script's log, today's or the last trading day's, or is today.
Fetch ==
  /\ ~Finished /\ brAct = Waiting
  /\ \E d \in {brDay, brDay - 1} \cap Days :
       brAct' = [write |-> "row", date |-> d]
  /\ UNCHANGED <<brDay, brNext, brRows, brCache, brDone, brLosses, brRead>>

\* No file, an unreadable one or a failed ingestion: the attempt errs.  The
\* activity has no retry limit, so the workflow goes on waiting for it.
FetchFails ==
  /\ ~Finished /\ brAct = Waiting
  /\ Lose
  /\ UNCHANGED <<brFlow, brRows, brCache, brDone, brRead>>

Pair == <<brAct.date, TargetTickers[brNext]>>
ThenWrite(w) == brAct' = [brAct EXCEPT !.write = w]

\* Mutation: a row that is there already fails the attempt, which is run again.
RowMustBeNew ==
  /\ brAct.write = "row"
  /\ IF Pair \in brRows THEN brAct' = Waiting ELSE ThenWrite("object")
  /\ brRows' = brRows \cup {Pair}
  /\ UNCHANGED <<brDay, brNext, brCache, brDone, brLosses, brRead>>

\* Each write, which may be lost in silence.
WriteRow ==
  /\ brAct.write = "row"
  /\ ThenWrite("object")
  /\ \/ brRows' = brRows \cup {Pair} /\ UNCHANGED brLosses
     \/ Lose /\ UNCHANGED brRows
  /\ UNCHANGED <<brDay, brNext, brCache, brDone, brRead>>

\* Mutation: the date is announced with the object.
AnnouncesEarly ==
  /\ brAct.write = "object"
  /\ ThenWrite("index")
  /\ brObject' = brObject \cup {Pair} /\ brLatest' = brAct.date
  /\ UNCHANGED <<brDay, brNext, brRows, brIndex, brDone, brLosses, brRead>>

WriteObject ==
  /\ brAct.write = "object"
  /\ ThenWrite("index")
  /\ \/ brObject' = brObject \cup {Pair} /\ UNCHANGED brLosses
     \/ Lose /\ UNCHANGED brObject
  /\ UNCHANGED <<brDay, brNext, brRows, brIndex, brLatest, brDone, brRead>>

WriteIndex ==
  /\ brAct.write = "index"
  /\ ThenWrite("latest")
  /\ \/ /\ brIndex' = [brIndex EXCEPT ![brAct.date] = @ \cup {TargetTickers[brNext]}]
        /\ UNCHANGED brLosses
     \/ Lose /\ UNCHANGED brIndex
  /\ UNCHANGED <<brDay, brNext, brRows, brObject, brLatest, brDone, brRead>>

\* The last write; the activity returns and the workflow takes the next ticker.
WriteLatest ==
  /\ brAct.write = "latest"
  /\ \/ brLatest' = brAct.date /\ UNCHANGED brLosses
     \/ Lose /\ UNCHANGED brLatest
  /\ brAct' = Waiting /\ brNext' = brNext + 1
  /\ brDone' = brDone \cup {Pair}
  /\ UNCHANGED <<brDay, brRows, brObject, brIndex, brRead>>

\* The worker stops in the middle; the activity is run again from its start.
WorkerStops ==
  /\ brAct # Waiting
  /\ Lose
  /\ brAct' = Waiting
  /\ UNCHANGED <<brDay, brNext, brRows, brCache, brDone, brRead>>

\* A Redis key expires or is evicted.
KeyGoes ==
  /\ \/ \E p \in brObject :
          brObject' = brObject \ {p} /\ UNCHANGED <<brIndex, brLatest>>
     \/ \E d \in Days : /\ brIndex[d] # {}
                        /\ brIndex' = [brIndex EXCEPT ![d] = {}]
                        /\ UNCHANGED <<brObject, brLatest>>
     \/ brLatest # 0 /\ brLatest' = 0 /\ UNCHANGED <<brObject, brIndex>>
  /\ Lose
  /\ UNCHANGED <<brFlow, brRows, brDone, brRead>>

-----------------------------------------------------------------------------
\* Readers

\* GetMorningBrief with a date, or with the latest one in Redis, 0 if none.
ReadStart(d) ==
  /\ brRead.phase \in {"idle", "answered"}
  /\ brRead' = [phase |-> "dated", date |-> IF d = 0 THEN brLatest ELSE d,
                owed |-> {p[2] : p \in {q \in brDone : q[1] = (IF d = 0 THEN brLatest ELSE d)}}]
  /\ UNCHANGED <<brFlow, brRows, brCache, brDone, brLosses>>

\* repo.GetLatest: the given date's rows, or the last date's.
GetLatest(d) ==
  LET last == IF d # 0 \/ brRows = {} THEN d
              ELSE CHOOSE x \in Days : /\ \E p \in brRows : p[1] = x
                                       /\ \A p \in brRows : p[1] <= x
  IN {p \in brRows : p[1] = last}

Answer(list) == brRead' = [phase |-> "answered", date |-> brRead.date,
                           owed |-> brRead.owed, list |-> list]

ReadIndex ==
  /\ brRead.phase = "dated"
  /\ LET tickers == IF brRead.date = 0 THEN {} ELSE brIndex[brRead.date]
     IN IF tickers # {}
        THEN brRead' = [phase |-> "indexed", date |-> brRead.date,
                        owed |-> brRead.owed, tickers |-> tickers]
        ELSE Answer(GetLatest(brRead.date))
  /\ UNCHANGED <<brFlow, brRows, brCache, brDone, brLosses>>

\* MGET, where a missing object is left out; with none left, the database.
ReadObjects ==
  /\ brRead.phase = "indexed"
  /\ LET found == {p \in brObject : p[1] = brRead.date /\ p[2] \in brRead.tickers}
     IN Answer(IF found # {} THEN found ELSE GetLatest(brRead.date))
  /\ UNCHANGED <<brFlow, brRows, brCache, brDone, brLosses>>

Ingest == Fetch \/ WriteRow \/ WriteObject \/ WriteIndex \/ WriteLatest
BrNext ==
  \/ StartDay \/ Ingest \/ FetchFails \/ WorkerStops \/ KeyGoes
  \/ \E d \in 0 .. MaxDay : ReadStart(d)
  \/ ReadIndex \/ ReadObjects

BrSpec == BrInit /\ [][BrNext]_brVars

-----------------------------------------------------------------------------
\* Properties

Answered == brRead.phase = "answered"

\* An answer is of one date, the asked or announced one when there was one,
\* whatever was written, lost or expired between the reader's three calls.
AnswerOfOneDate ==
  Answered =>
    /\ \A p, q \in brRead.list : p[1] = q[1]
    /\ brRead.date # 0 => \A p \in brRead.list : p[1] = brRead.date

\* Without faults, an answer has every ticker whose ingestion for that date was
\* over when the reader began: the object is stored before the index names it.
AnswerIsComplete ==
  Answered /\ brLosses = 0 /\ brRead.date # 0 =>
    brRead.owed \subseteq {p[2] : p \in brRead.list}

\* The version the front end polls names a date that can be read.
AnnouncedIsReadable ==
  brLosses = 0 /\ brLatest # 0 =>
    \E t \in brIndex[brLatest] : <<brLatest, t>> \in brObject

\* What a reader gets.
BriefAnswersSound == AnswerOfOneDate /\ AnswerIsComplete /\ AnnouncedIsReadable

\* A day's run ends once its faults stop (their number is bounded here): each
\* retry starts one activity again and never the whole run.
RunEnds == []<>Finished
=============================================================================
