----------------------------- MODULE Ingestion -----------------------------
(***************************************************************************)
(* How texts reach the knowledge base.  An upload waits in a bounded       *)
(* channel for one of the workers (ingest_usecase.go, upload_handler.go);  *)
(* a brief's text is ingested for everyone by the scheduled activity       *)
(* (AgentUseCase.IngestKnowledge), which Temporal retries.  Both write a   *)
(* row, embed, store the chunks and mark the row, one call after the       *)
(* other, and then build the graph.                                        *)
(*                                                                         *)
(* A call may fail before its effect ("lost") or after it ("late").  A     *)
(* worker's calls end within its 60 seconds, but for those of the graph: a *)
(* model that does not answer holds the worker.  The channel and the       *)
(* workers are in memory: a stop of the process loses them.                *)
(***************************************************************************)
EXTENDS KnowledgeBase

CONSTANTS Uploads,      \* the uploads of users
          Briefs,       \* the texts of the scheduled activity
          JobOwner,     \* the user of each upload
          Text,         \* the lines of each job's text
          Extracted,    \* the model's reading of it
          GraphSafe,    \* the briefs with GRAPH_SAFE markers
          Workers,
          Activity,     \* the activity's goroutine
          QueueCap,     \* the channel's capacity
          IgMaxAttempts, \* bound on the activity's attempts
          MaxFaults     \* bound on failing and hanging calls and stops

ASSUME IgNames == Uploads \cap Briefs = {} /\ Activity \notin Workers
ASSUME IgText == Text \in [Uploads \cup Briefs -> Seq(Nat)]
ASSUME IgBounds == IgMaxAttempts \in Nat \ {0}

VARIABLES
  igJob,     \* where each job is
  igQueue,   \* the channel
  igAt,      \* what each runner is busy with
  igGraphed, \* history: the jobs whose graph was saved
  igFaults

igVars == <<igJob, igQueue, igAt, igGraphed, igFaults>>

Jobs == Uploads \cup Briefs
Runners == Workers \cup {Activity}
Free == [phase |-> "free"]
Owner(j) == IF j \in Uploads THEN JobOwner[j] ELSE KnSystem
Doc(r) == <<igAt[r].job, igAt[r].attempt>>
Ended == {"done", "dropped", "lost"}
Chunks == [j \in Jobs |-> Split(Text[j])]

IgInit ==
  /\ igJob = [j \in Jobs |-> "new"] /\ igQueue = <<>>
  /\ igAt = [r \in Runners |-> Free]
  /\ igGraphed = {} /\ igFaults = 0

Fault == igFaults < MaxFaults /\ igFaults' = igFaults + 1
Move(j, place) == igJob' = [igJob EXCEPT ![j] = place]
Busy(r, j, phase) ==
  igAt' = [igAt EXCEPT ![r] = [phase |-> phase, job |-> j, attempt |-> 1]]
GoTo(r, phase) == igAt' = [igAt EXCEPT ![r].phase = phase] /\ UNCHANGED igJob

\* POST /upload: the handler then blocks on the channel.
Upload(j) ==
  /\ igJob[j] = "new"
  /\ Move(j, "waiting")
  /\ UNCHANGED <<igQueue, igAt, igGraphed, igFaults, knVars>>

\* SubmitJob, once the channel has room
SubmitJob(j) ==
  /\ igJob[j] = "waiting" /\ Len(igQueue) < QueueCap
  /\ igQueue' = Append(igQueue, j)
  /\ Move(j, "queued")
  /\ UNCHANGED <<igAt, igGraphed, igFaults, knVars>>

\* A free worker takes the next job.
TakeJob(w) ==
  /\ igAt[w] = Free /\ igQueue # <<>>
  /\ igQueue' = Tail(igQueue)
  /\ Move(Head(igQueue), "working")
  /\ Busy(w, Head(igQueue), "parse")
  /\ UNCHANGED <<igGraphed, igFaults, knVars>>

\* The scheduled activity has a text.
StartBrief(j) ==
  /\ igAt[Activity] = Free /\ igJob[j] = "new"
  /\ Move(j, "working")
  /\ Busy(Activity, j, "create")
  /\ UNCHANGED <<igQueue, igGraphed, igFaults, knVars>>

\* Temporal's retry of the activity: from the start, with a row of its own.
NextAttempt(at) == [at EXCEPT !.phase = "create", !.attempt = @ + 1]

\* A worker logs the error and drops the job; the activity is run again.
GiveUp(r) ==
  IF r = Activity /\ igAt[r].attempt < IgMaxAttempts
  THEN /\ igAt' = [igAt EXCEPT ![r] = NextAttempt(igAt[r])]
       /\ UNCHANGED igJob
  ELSE igAt' = [igAt EXCEPT ![r] = Free] /\ Move(igAt[r].job, "dropped")

\* A call in phase `phase' ends as o tells.
Call(r, phase, next, o) ==
  /\ igAt[r].phase = phase
  /\ IF o = "ok" THEN GoTo(r, next) /\ UNCHANGED igFaults ELSE GiveUp(r) /\ Fault
  /\ UNCHANGED <<igQueue, igGraphed>>

\* The parser's answer, or the 60 seconds are over, or it is not readable.
Parse(r, o) == Call(r, "parse", "create", o) /\ o # "late" /\ UNCHANGED knVars

\* AddDocumentText, call by call
CreateRow(r, o) ==
  /\ Call(r, "create", "embed", o)
  /\ IF o = "lost" THEN UNCHANGED dcRows ELSE CreateDocument(Doc(r), Owner(igAt[r].job))
  /\ UNCHANGED <<dcChunks, kgNodes, kgRels>>

Embed(r, o) == Call(r, "embed", "store", o) /\ o # "late" /\ UNCHANGED knVars

StoreText(r, o) ==
  LET j == igAt[r].job
      chunks == ChunksOf(Doc(r), Chunks[j], Owner(j))
  IN /\ Call(r, "store", "mark", o)
     /\ chunks # {}
     /\ IF o = "lost" THEN UNCHANGED dcChunks ELSE StoreChunks(chunks)
     /\ UNCHANGED <<dcRows, kgNodes, kgRels>>

\* An empty slice of chunks is always an error.
StoreNothing(r) ==
  /\ igAt[r].phase = "store" /\ Chunks[igAt[r].job] = <<>>
  /\ GiveUp(r)
  /\ UNCHANGED <<igQueue, igGraphed, igFaults, knVars>>

MarkIndexed(r, o) ==
  /\ Call(r, "mark", "graph", o)
  /\ IF o = "lost" THEN UNCHANGED dcRows ELSE UpdateStatus(Doc(r))
  /\ UNCHANGED <<dcChunks, kgNodes, kgRels>>

\* BuildGraphFromText; whatever it comes to, the job is over.  A brief without
\* markers builds none.
BuildGraph(r, o) ==
  LET j == igAt[r].job IN
  /\ igAt[r].phase = "graph"
  /\ IF o = "ok" THEN UNCHANGED igFaults ELSE Fault
  /\ IF o = "lost" \/ (j \in Briefs /\ j \notin GraphSafe)
     THEN UNCHANGED <<kgNodes, kgRels, igGraphed>>
     ELSE SaveKnowledgeGraph(Extracted[j], Owner(j)) /\ igGraphed' = igGraphed \cup {j}
  /\ igAt' = [igAt EXCEPT ![r] = Free] /\ Move(j, "done")
  /\ UNCHANGED <<igQueue, dcRows, dcChunks>>

\* A worker builds the graph on context.Background(), and the model's client has
\* no timeout: nothing but a stop ends a call that is never answered.  (The
\* activity's own context has a deadline.)
Hang(w) ==
  /\ igAt[w].phase = "graph"
  /\ GoTo(w, "hung") /\ Fault
  /\ UNCHANGED <<igQueue, igGraphed, knVars>>

\* The process stops and is started again.
StopProcess ==
  /\ Fault
  /\ LET held == {igAt[w].job : w \in {v \in Workers : igAt[v] # Free}}
         gone == held \cup {j \in Uploads : igJob[j] \in {"waiting", "queued"}}
         act == igAt[Activity]
         again == act # Free /\ act.attempt < IgMaxAttempts
     IN /\ igJob' = [j \in Jobs |->
              IF j \in gone \/ (act # Free /\ ~again /\ j = act.job) THEN "lost" ELSE igJob[j]]
        /\ igAt' = [r \in Runners |->
              IF r = Activity /\ again
              THEN NextAttempt(act) ELSE Free]
  /\ igQueue' = <<>>
  /\ UNCHANGED <<igGraphed, knVars>>

Outcomes == {"ok", "lost", "late"}
\* Mutation: a worker that dropped a job does not come back for the next.
RunsUntilError(r) ==
  \/ /\ r \in Workers /\ "dropped" \notin {igJob[j] : j \in Jobs}
     /\ TakeJob(r)
  \/ \E o \in Outcomes :
       Parse(r, o) \/ CreateRow(r, o) \/ Embed(r, o) \/ StoreText(r, o)
         \/ MarkIndexed(r, o) \/ BuildGraph(r, o)
  \/ StoreNothing(r)

\* A worker's loop, and the activity's run.
Runs(r) ==
  \/ r \in Workers /\ TakeJob(r)
  \/ \E o \in Outcomes :
       Parse(r, o) \/ CreateRow(r, o) \/ Embed(r, o) \/ StoreText(r, o)
         \/ MarkIndexed(r, o) \/ BuildGraph(r, o)
  \/ StoreNothing(r)

IgNext ==
  \/ \E j \in Uploads : Upload(j) \/ SubmitJob(j)
  \/ \E j \in Briefs : StartBrief(j)
  \/ \E r \in Runners : Runs(r)
  \/ \E w \in Workers : Hang(w)
  \/ StopProcess

IgSpec == KnInit /\ IgInit /\ [][IgNext]_<<knVars, igVars>>

-----------------------------------------------------------------------------
\* Properties

\* A document said to be indexed can be searched whole, whatever call failed,
\* was late or was repeated; and an upload is one document at most, done only
\* if that document is indexed.
IndexedIsWhole ==
  /\ \A j \in Jobs, n \in 1 .. IgMaxAttempts : TextWhole(<<j, n>>, Text[j], Chunks[j])
  /\ \A j \in Uploads :
       LET docs == {d \in dcRows : d.id[1] = j}
       IN \A d \in docs : docs = {d} /\ (igJob[j] = "done" => d.status = "indexed")

\* What a saved graph shows its owner: each relation of the text, between his
\* own entities, is a row of the query for every keyword that the name of one
\* of its ends contains, and is missing from an answer only if that is full.
GraphSavedWhole ==
  /\ GraphSeenWhole
  /\ \A j \in igGraphed : \A p \in KeptRelations(Extracted[j]) :
       LET node(name) == [name |-> name, owner |-> Owner(j)]
           row(x, y) == [at |-> node(x), to |-> node(y), owner |-> Owner(j)]
       IN \A keyword \in {m[1] : m \in ContainedIn} :
            \A e \in {<<p[1], p[2]>>, <<p[2], p[1]>>} : <<keyword, e[1]>> \in ContainedIn =>
              \A answer \in GetRelatedKnowledge(keyword, Owner(j)) :
                row(e[1], e[2]) \in answer \/ Cardinality(answer) = GraphLimit

Hung(w) == igAt[w].phase = "hung"

\* An upload that was accepted by the server ends, whatever other jobs fail: no
\* submission waits for ever at a full channel and no job stays in it, unless
\* the model leaves its own worker without an answer, or all the workers.
UploadsEnd ==
  \A j \in Uploads : igJob[j] = "waiting" ~>
    \/ igJob[j] \in Ended
    \/ \E w \in Workers : Hung(w) /\ igAt[w].job = j
    \/ \A w \in Workers : Hung(w)
=============================================================================
