# Fin-Nexus in TLA+

Fin-Nexus is a multi-agent financial assistant: a Go server (gin, Temporal,
Redis, PostgreSQL, Neo4j, a Docker sandbox) and a TypeScript Temporal worker
that runs user-drawn "blueprints". This directory holds TLA+ modules for it,
TLC configurations that check them on small instances, and TLAPS proofs that
hold for every instance. Paths below are relative to `src/`, and those without a
top directory to `src/internal/`.

## 1. Inventory

| Component | State | Operations | Talks to |
|---|---|---|---|
| **PlanExecuteWorkflow** `workflow/plan_execute_workflow.go` | plan, levels, results by step id, buffered approval signals | plan, build levels, run a level, ask for approval, execute, reply, save the turn | agent activities; signals from the SSE handlers; events on Redis `stream:<session>` |
| **Agent activities, agents** `workflow/activities/agent_activities.go`, `usecase/*_agent.go` | registry of agent cards | PlannerDecide, AgentExecute, AgentPreview, AgentExecuteApproved, FinalReplyStream, LoadChatHistory, SaveChatTurn | LLM, RAG, sandbox, Redis, PostgreSQL |
| **Supervisor workflows** `workflow/multi_agent_workflow.go` | history, step counter, signal channel | decide / work loop, approval of code | older activities |
| **SSE handlers** `delivery/http/sse_handler.go`, `v1/agent_handler.go` | `activeWorkflows`: session -> workflow id, in memory | chat, blueprint run, approval, cancel, stream | Temporal client, Redis |
| **Chat turns** `SaveChatTurn`, `SaveBlueprintChatTurn`, `redis_chat_repo.go`, `session_repo.go` | Redis list of at most 20 messages per session; sessions and messages in PostgreSQL | save a turn, load history | both workflows |
| **GraphExecutionWorkflow** `orchestrator/src/workflows.ts` | current node, step counter, the last approval signal | validate, traverse, approve, loop, save | dynamic activities, the user's signals |
| **Dynamic activities** `activities/dynamic_activities.go` | none | run an LLM node or a router with the node's model and key | blueprint store, LLM |
| **Blueprints** `usecase/blueprint_usecase.go`, `persistence/blueprint_repo.go` | rows with sealed API keys, owner, version | create, update, delete, get, clone, validate, open for a run | crypto, PostgreSQL |
| **User configuration** `persistence/config_repo.go` | a row per user and agent, with a sealed key | save, delete, read; pick the client of a call | crypto, LLM factory |
| **Morning brief** `workflow/scheduled_workflow.go`, `activities/data_activities.go`, `usecase/brief_usecase.go` | rows in PostgreSQL; objects, an index per date and the latest date in Redis, 48 hours each | daily ingestion ticker by ticker, read, version | market data script, RAG |
| **Ingestion** `usecase/ingest_usecase.go` | bounded channel, workers | submit, process, stop | RAG |
| **RAG** `usecase/rag_usecase.go` | documents, chunks, graph | split, embed, store, build the graph, search, rerank, report | PostgreSQL, Neo4j, LLM |
| **Sandbox** `infrastructure/sandbox/docker.go` | containers, files on the host | run Python, copy its files, remove the container | Docker |
| **Registration** `usecase/auth_usecase.go` | users, tokens | register, login, check a token | PostgreSQL |
| **Skills** `usecase/skills` | registry | MatchSkills | agents |
| **Terminal client** `cmd/cli/main.go` | history, the answer being shown, one pending read | connect, ask, receive | the websocket |
| **Others** | saga helper, chat workflow, LLM adapters, server start, prompts | | |

What is hard to test in it:

* activities end in any order, fail, are retried and may have had their effect
  before they failed; the workflow collects them in its own order;
* approval signals are asynchronous, buffered or overwritten, and anonymous (they
  name no step, and the HTTP layer finds their workflow through a map that
  changes under it);
* events that ask the user for an approval can be lost; cancellation can come at
  any point;
* plans come from a language model and graphs from a user: ids repeat,
  dependencies dangle or cycle, edges loop, a `next` names no node;
* a chat turn is written to two stores in six steps, an update of a blueprint is
  four statements, a brief four writes, a document four calls, a registration
  two; each may stop in the middle while others go on or read;
* stored keys pass through masks, merges and seals before they are used again;
* the process restarts with or without the master key and loses its map, its
  queue and the requests in flight, while Temporal's workflows go on.

What makes each component correct: *workflow* - every step once, after what it
depends on, with its results; no generated code runs unreviewed; the answer
last; it ends. *Routing* - an answer or a cancellation reaches the workflow the
user means. *Chat turns* - window bound, pairing, both stores agree. *Graph
execution* - ends, visits what validation allows, runs shown code only.
*Blueprint store, configuration* - a key is never shown to others, used for
others or lost; rows keep their owner. *Brief* - one reader gets one date, whole.
*Ingestion, RAG* - what is called indexed can be found whole by its owner and by
nobody else. *Sandbox* - no container left. *Registration* - one account per
address. *Client* - no token lost.

## 2. Plan

Done: the core (`PlanSteps` to `PlanPromise`), then the handlers and the chat turns
(`SessionRouter`, `ChatTurn`), then the rest of the server in the order of the
sections below. Eight modules hold proofs.

Left: a refinement of the three approval gates to one abstract gate, as
`PlanPromise` is for the first.

## 3. Modules

### PlanSteps, PlanLevels - `buildLevels`
`PlanSteps` is `PlanStep`/`ExecutionPlan`: a plan is any sequence of steps with
an id, an agent, a set of dependencies and an approval flag; instruction texts
are identified with the step's index. `WellFormed` (ids unique, no dangling
dependency, no cycle) is what the planner's prompt asks for; it is only ever a
hypothesis. `PlanLevels` has one action, `BuildLevel`, one iteration of the loop:
`placed` is `placedIdx`, `CompletedIDs` is `completedIDs`, `NextLevel` the ready
steps or, failing any, all the rest.

### PlanExecute - `PlanExecuteWorkflow`
`pc` is where the workflow function is: history, plan, build, level, collect,
await (Receive), execute (AgentExecuteApproved), summary, save, end. Concurrent
with it are the launched activities (`fut`), the user who answers (`Click`) and
the user who cancels (`Cancel`).

* `PlanArrives` adopts any plan of `Plans`, as `PlannerDecide` enriches it from
  the agents' cards; an empty plan goes straight to the reply.
* `StartLevel` computes the inputs and launches. Both maps are keyed by step id,
  so steps sharing an id share the last one's entry: `Writer`.
* `ActivityEnds` is the end of AgentPreview or AgentExecute *after* its retries.
  AgentExecute of a coder would run its code unreviewed (`UnreviewedRuns`).
* `CollectExecuted`, `CollectWithoutPreview`, `AskApproval` await futures in the
  code's order: non-approvable steps, then approvable ones. `Fetched` includes
  the decoding error when a future of the other kind is found under the id.
* `ReceiveApproval`, `ReceiveRejection`, `ReceiveTooLate` take the oldest
  signal. A signal has a ghost field `about`, the request its sender was looking
  at; the workflow never reads it, only properties do.
* `ExecuteSucceeds`, `ExecuteFails(effect)`: an attempt may fail before or after
  its code ran; `Retried` is the retry policy. The agent ignores its context
  (`usecase/coder_agent.go:97`), so code of an attempt that timed out or was
  cancelled may in truth run after its step is settled; the model runs it with the
  settling. Which code it is, and by which answer, is fixed before.
* `ReplySucceeds`, `ReplyFails`, `SaveTurn` end it.

Left out: progress events, artifacts, texts; their publication errors are ignored
by the code. The one event whose loss matters, approval_required, may be lost
(`Lossy`). Start-to-close timeouts are failed attempts.

### PlanPromise - what the user is promised
Steps are pending, running or settled; a step of a well-formed plan starts when
what it waits for is settled; code runs only for a running, approved step; the
reply comes when all are settled; a turn is saved after the reply.
`PlanExecute!KeepsPromise` is this specification under the mapping: settled =
collected, running = launched, `ran` = the steps of the sandbox runs, `answered`
= the workflow returned without error.

### SessionRouter - the HTTP handlers and `activeWorkflows`
`active` is the map; `hnd[h]` is the request goroutine `h` serves and the call
it is about to make, so other requests run between the steps of one. A workflow
is its session, its kind, its stage in Temporal and the answers it holds;
`shown` are the workflows whose request for approval a user has in front of him.

* `Launch` (`HandleChat`, `HandleBlueprintRun`): name a workflow, store the entry;
  then `ExecuteWorkflow`, or `ExecuteWorkflowFails` and `Forget`. A failed start may
  have taken effect all the same (`Ambiguous`).
* `LoadEntry` (`HandleApproval`, `HandleCancel`), then `SignalWorkflow`, or
  `CancelWorkflow` and `Forget`, or `CallFails`. `Forget` deletes the entry of the
  session whatever it is by then. The answer carries the ghost `about`, the
  workflow whose request was answered.
* `Approve`, `CancelByID`: the older interface, by workflow id.
* `Ask`, `Await`, `Resume`, `End` are all the router sees of a workflow: chat
  workflows buffer signals, graph workflows have a flag that is overwritten, and
  cleared after the request was published.
* `Restart` loses the map and the requests in flight, not the workflows.

`OneAtATime` is a discipline of the *user*, not of the code: one request at a time
in a session, a new chat only when no other is live, no answer to a cancelled
workflow.

### ChatTurn - a session's turns in Redis and PostgreSQL
`list` is the Redis list, `session` the row (by the turn that created it),
`messages` the message rows. `at[t][k]` is the call that attempt `k` of the
activity for turn `t` makes next; `attempt` and `outcome` are Temporal's side of
it. `GraphTurns` are saved by `SaveBlueprintChatTurn`, the others by
`SaveChatTurn`: they differ in what a failed `SaveMessage` does (`OnError`) and in
the retry policy (`Retries`: three attempts, or as many as it takes). One action
per call, so attempts for different turns interleave between any two of them:

* `RPush`, `Trim`: `AddMessage`. The trim follows the push and its failure is
  ignored; Redis runs each command alone.
* `GetSessionByID` takes any error for a missing session; `CreateSession` succeeds
  only when the key is free, `CreateSessionFails` is the key's or the store's error.
* `SaveMessage` is one transaction; `SaveMessageFails(effect)` may have committed.
* `TimesOut` starts the next attempt next to the one that is late, whose result is
  then dropped; `Crash` ends an attempt at any point.
* `Expire`: the list is forgotten after seven days without a message.

`Failing` and `Overrun` select what a run is about: stores and workers fail,
attempts outlive their timeout. Ghosts: `pushed`, what ever reached the list, and
`told`, the turns that came one by one since turns last overlapped or the list
expired.

### Supervisor - the older chat workflows
One loop with a kind: "plain" is `MultiAgentWorkflow` (asks before it calls the
coder), "stream" is `StreamMultiAgentWorkflow` (shows code, then asks), "old" is a
run of the latter begun before its approval gate (`workflow.GetVersion`). `Report`
ends a turn of the loop; the turn that reaches the bound is answered with a notice
and not saved. `svSignals` is the channel, as in `PlanExecute`: a signal is used by
the next wait, whatever it was meant for. The activities have `MaximumAttempts: 3`, and
an attempt that fails or times out may have run code, so `RunCode` is an attempt: it
runs code or not, and the loop goes on or tries again. (A plain loop's `CoderRun`
writes its code anew in each.) What holds, `GatedAndSaved`, is a count: at most three
runs of code for each approval sent, and for each one asked for.

### BlueprintRules, GraphExecution - blueprints and their runs
`Validate` is the condition under which a blueprint is saved. It looks up the ends
of edges but not the nodes' own `next`, checks that something ends but not that it
can be reached, and allows loops; `GraphExecution` shows what follows. A run is at
a node (`gxAt`); `findNextNode` is the code's: the first matching edge, else the first
default one, else `next`. `Go` is the end of the loop's body.

The approval handler is not a queue. It keeps the last signal in `pendingApproval`,
runs at any moment, and the workflow clears the variable after the activity that
published the code has returned. So `ShowCode`, `WaitForApproval` and `Signal` are
three actions: an answer between the first two is lost and the run waits until the
user answers again (`OnlyUserHolds` allows that wait); `ShownCodeOnly` says that no
answer can approve code its sender had not been shown. A signal's `for` is a ghost.
Templates and streamed text are left out.

The engine sets no retry policy (`workflows.ts:82-85`), so an activity that fails, or
outlives its ten minutes, is tried until it succeeds. `AttemptFails` is a failure
before the effect, `Replies` and `ExecuteCode` include the lost reply, and
`OverrunCode`/`RunLate` an execution that was given up and runs all the same, later. So
code can run more than once; `gxRan` keeps each run's code with the answer it was given
by, and `ShownCodeOnly` says that all runs of one code are by one answer (no second form
of it is run). `SaveTurn` and `AnnounceDone` are two awaited activities; a cancellation
may fall between them or on either, and a cancelled run may have saved its turn.

A `next` that names no node throws a plain `Error` (`workflows.ts:149`). That fails the
workflow task and not the run: the server gives the task out again, and again. The
phase "stuck" is this, and nothing leaves it. (Line 314 throws one too; it is reached
after a cancellation, by an event that cannot be published, and by configurations that
`Validate` refuses.)

### KeyVault, BlueprintStore - blueprints in the table
`KeyVault` abstracts a stored value to whose key it is, what it was given for, and how
many seals it has; `Encrypt` adds one, `Decrypt` removes one, both do nothing in a
process without `API_KEY_MASTER_KEY`. A mask is a value too: it can be stored.

`BlueprintStore` has one node with a key per blueprint, an LLM or a Router node. The
orchestrator reads a key from both (`workflows.ts:278-289`), the repository seals, opens,
masks and keeps those of LLM nodes only. So a Router's key is stored as given, shown to
every reader of a public blueprint and copied by `BpClone`, and serves the runs of the
copy; an update that makes the node an LLM node takes it over. Such a key is of kind
`bare` from the moment it is given, and the properties about keys except that kind by
name; what the documentation says of it is the run `blueprint_router_key`.
 `BpCreate`, `BpClone`, `BpGet`, `BpDelete`
are one statement each. An update is four: `UpdateRead` (handler: read, merge the
request into the masked copy), `UpdateCheck` (use case: owner), `UpdateKeep`
(repository: stored values where the copy has none or a mask, then seal
everything), `UpdateSave` (every column; inserts if the row is gone). Requests run
between them. `StartRun` and `NodeCall` are `GetForExecution` and
`getClientWithFallback`, which reads the row again. `RestartWith` changes whether the
process has the key. `bpSeen` is a ghost: what the last step showed to somebody else than
the owner, or the key of its call.

### ModelConfig - `user_model_configs`
Save (the whole row), delete, restarts; `LLMClient` is the client of a call, with
its silent fallbacks: an unreadable row or an empty key gives the server's model.

### Registration - accounts and tokens
`RegisterCheck` and `RegisterCreate` are the look-up and the insert; the unique index
on `users.email` is what keeps an address single. `Tick` ages tokens.

### MorningBrief - ingestion and its readers
`Fetch`, then `WriteRow`, `WriteObject`, `WriteIndex`, `WriteLatest`, each of which may be lost in
silence (the code ignores its error); `WorkerStops` and `FetchFails` repeat the
activity; `KeyGoes` drops a key. A reader is three calls (`ReadStart`, `ReadIndex`,
`ReadObjects`), each with its way to the database. `owed` is a ghost: the tickers
whose ingestion was over when the reader began.

### CliClient - the terminal client
One message at a time: keys, frames, errors. `ServerSends` is external. `clSent` and
the numbers of the frames are ghosts. The frames are those of its own `switch`; a server
of this repository does not send them, since it has no route `/api/v1/ws/chat`
(README.md:236 describes one).

### Sandbox - `RunPython`
One run, call by call, each of which may fail; `ContainerWait` is the three-way
select. `ContainerCreate` may take effect without its answer: it returns before the
removal is deferred (`docker.go:58-61`), so that container stays. `sbLeaks` counts those
and the removals that fail. `ReadLogs` takes any short list of names, with repetitions, since the code's
own lines and the monitor's both name files.

### Skills - `MatchSkills`
The filter (`Candidates`) and the two loops of the exchange sort (`Pass`, `Sorted`),
each as a function of its index, against `BestMatches`: no skill without a hit or
twice, as many as there are or are allowed, in descending order, none with more
hits left out. `skHits` is the instruction of a call.

### KnowledgeBase, Ingestion, Research - RAG
`KnowledgeBase` is the tables, the graph and the splitting: a text is the lengths of
its lines. Nodes of the graph are keyed by name, label and owner; a relation
attaches to the owner's and the system's nodes (`Ends`). `GetRelatedKnowledge` is the
query: a relation is matched from both its ends (`RowsOf`), an end by a keyword its
name contains (`ContainedIn`), within what the owner may see, and the answer is any
`GraphLimit` of those rows (`LIMIT 20`, no order). `Limited` is that cut; `Research` cuts
once more, to `ReportLimit` of the distinct lines of all answers.

`Ingestion` runs texts through it: `Upload`/`SubmitJob` block on the channel
(`QueueCap`), `TakeJob` frees a place, then `Parse`, `CreateRow`, `Embed`, `StoreText`,
`MarkIndexed`, `BuildGraph`, each "ok", "lost" or "late" (an error after its effect). A
worker drops a job that fails; the scheduled activity's text is tried again from
the start and leaves a second document. `StopProcess` loses channel and workers. A
worker's calls have 60 seconds, all but the last: the graph is built on
`context.Background()` (`ingest_usecase.go:107`) and the model's client has no timeout,
so `Hang` may leave a worker in the phase "hung" until the process stops.

`Research` is the reader beside it: web search, and the internal search with its two
branches. None cancels another: each group waits for all and then looks at errors.

### MC modules
`MCPlanExecute`, `MCSessionRouter` and `MCBlueprints` give constants their values.
`MCWorkflows` and `MCServices` put independent engines and services (and `PlanLevels`, over
plans that are longer than `MCPlanExecute` enumerates) into one run:
a behaviour picks one in its first state and only that one moves, so their state
spaces add up instead of multiplying. `MCKnowledge` lets `Ingestion` and `Research`
interleave in the half of the behaviours where `asked` holds.

## 4. Runs

| Run | States | Shows |
|---|---|---|
| plan_execute | 390515 | The workflow with failing activities, lost approval events, retries and cancellation at any point keeps its promise while each approval request is answered at most once, and under fair workers and a user who answers what he sees it ends, or stays in Receive for a request never shown or after a cancellation. |
| stale_approval (violation) | 1713 | A second answer to the first approval request stays buffered and approves the next step's code, which the user has not reviewed. |
| router_orderly | 861453 | Under an orderly user (one request at a time in a session, a chat only when none is live) the map names the live workflow of each session and an answer reaches the workflow that asked; calls may still fail and two sessions interleave. |
| router_overlap | 365998 | What still holds when requests of a session overlap, starts fail after they took effect and the server restarts: no entry of a workflow that was never started is left behind, no answer leaves its session. |
| chat_race | 90254 | Three turns of both kinds, saved at once or one after the other with healthy stores: the loser of the creation race is saved by its second attempt, no turn is lost, the list is never longer than its window and the trims under way, and turns that come one by one are its latest rounds in order. |
| chat_overrun | 241255 | Attempts that outlive their timeout run next to their successors, any call fails before or after its effect and the worker crashes anywhere: a turn reported as saved is in both stores by one attempt, no message is stored without its session and no answer without its question, and the workflow gets its result. |
| blueprints | 4260835 | Two users create, clone, share, update, delete and run blueprints, two updates of four statements each interleaved with everything else and with restarts that lose or find the master key: clones are updated like any other row, and a node is a language model's or a router's. Keys given for blueprints and LLM nodes are masked and sealed for everyone else and serve their owner's calls only, and rows change as the owner check and the version allow. |
| blueprint_key_lost (violation) | 192776 | A key that an update keeps is sealed a second time, and the next run of the blueprint calls the model on a value still sealed. |
| blueprint_router_key (violation) | 22 | The key of a Router node lies in the table as it was given, although every process had the master key. |
| workflows | 1947908 | A run of every validated three-node blueprint over a set of edges and configurations, and the three kinds of supervisor loop, with signals sent early, late and twice: activities fail before and after their effect, are tried again and run on after they were given up, and runs are cancelled anywhere. Code runs only by an answer to it, a walk fits the blueprint that was validated, a turn is saved when the walk is over and a loop's only with a reply, and only the user, or a node that the blueprint lacks, can hold a run up. |
| services | 478119 | The levelling of plans and six services, one per behaviour: buildLevels over every plan of up to three steps and three ids, ill-formed ones included, which loses and repeats no step and orders the steps of a well-formed plan by their dependencies; saved model keys over restarts and overwrites, overlapping registrations and logins, the daily brief with lost writes, stopped workers and readers between the writes, the terminal client asked in the middle of an answer, a sandbox run failing at any call, and the choice of skills for every list of hits up to five. |
| knowledge | 463327 | Three uploads of two users and a brief's text go through a channel of one place, two workers and a retried activity, with calls lost before or after their effect, a model that does not answer, and the process stopping: what is indexed can be searched whole, a saved graph gives its owner every relation that a full answer does not leave out, a report asked for next to all this rests on the asker's sources, and every accepted upload ends unless the model holds its worker or all of them. |

The three violation runs are the entries under "findings" of `PROJECT.json`.

Bounds. `plan_execute`: every plan of up to two steps over two ids and three
agents (coder, researcher, unknown), and four longer ones: two coders with a
common dependent, a diamond listed backwards, coders sharing an id, a chain behind
a dangling dependency. Two steps suffice for every relation between a step and
another (order, id clash, cycle, two approvals); the longer plans add joins and
three levels. `MaxAttempts` is 2 (the code's 3 adds only one more equal round);
`Clicks` is 1 where properties hold and 2 where a repeated answer is the point.
Ids are only compared, so the first step of an enumerated plan has a fixed one.
The router runs have two sessions and two handlers (a pair of overlapping
requests), up to three workflows (one more than a session needs to supersede
another) and one buffered answer. `chat_race` has three turns and a window of two
rounds (the code's is ten), so that the list overruns it and two losers of one
race meet; a second attempt settles that race. `chat_overrun` has one turn and
three attempts that overlap: they race for the session as turns would, and its
invariants are proved for any number of turns. The last attempt of a
blueprint turn cannot fail in the model: the bound stands for the retries that
would follow.

`blueprints`: two users, one blueprint and one clone of it, two node ids (a node
may be renamed by an update) and both types of node, two updates in flight (`MaxBusy`:
one of the clone begins when no other is in flight, one of the first blueprint may join
it), four requests (a key for the blueprint
and one for a renamed LLM node, blanks, a Router with a key, or everything left as it
was read, masks included), two versions of each row, three seals: enough for an
update of a row that another update, a delete and a restart changed meanwhile, for
a clone that its new owner updates, and for a node that changes its type.
`workflows`: graphs of a first node of each type (seven variants), a coder (two) and
an end, with every sequence of up to three of six edges; invalid ones among them,
which `Validate` must refuse. Six steps and three signals let a coder run twice in
a loop with an answer too many, one fault (`GxMaxFaults`) can fall on any attempt;
the supervisor's bounds 2 and 3 let the limit come before, at and after an approval,
and its attempts are the code's three. `services`: every plan of up to three steps over
three ids; two tickers, two days and three faults (as many writes of one ticker can
be lost as a reader notices); two users, addresses, passwords, accounts and
registrations, tokens of two units in a time of three; four frames and four
questions; three file names in four lines (one repeats), one container that is lost
track of; up to five skills with up to three hits. `knowledge`: three uploads of two
users (one too long for a chunk, one that is blank) and a brief, a channel of one
place, two workers, two attempts, two faults (failing or hanging calls and stops, so
that both workers can hang); two entity names, one a part of the other, so that a
keyword matches both; answers of three rows and reports of one line, which the
rows of two texts overrun.

`CHECK_DEADLOCK FALSE`: all these processes end.

Fairness. `FairSpec` of `PlanExecute`: Temporal keeps scheduling workflow tasks and
activities, so `Workflow` and `Activity` are weakly fair; a user who has not cancelled
answers what he is shown in the end (`~cancelled /\ Answer`). Publications and
cancellations are not assumed. For chat turns, each attempt is weakly fair: its
worker executes its calls, which end one way or the other (`Step`); that a call
succeeds, or that a timeout or crash comes, is never assumed. `MCWorkflows`: `Walks`
and `Decides`, the engine's own steps, for the same reason; the user's signals are
not assumed, so a run may stay where it waits for one. Activities of the graph engine
are tried without limit; that one of them does not fail for ever is assumed, by the
bound on faults. `MCServices`: the brief's
activity goes on (`Ingest`; faults are not assumed and are bounded in number), and the
client's runtime executes the read it was given (`Receive`). `MCKnowledge`: the goroutine that
waits for the channel and each worker are scheduled (`SubmitJob`, `Runs`); how their calls
end is not assumed, and that they end only where the code has a deadline: `Hang` is
outside the fair steps and can be taken wherever a worker builds a graph, and `UploadsEnd`
names the workers it holds.

## 5. Proofs

All for arbitrary values of the constants, from the named assumptions of the modules
(`PlansAssumption`, `AgentsAssumption`, `BoundsAssumption`, `RouterAssumption`,
`ChatAssumption`, `KeyNames`, `BpAssumption`, `GxAssumption`, `BrAssumption`, `RgAssumption`, `KnNames`,
`KnSizes`, `IgNames`, `IgText`, `IgBounds`, `SkBound`, `SvBounds`), which TLC evaluates in the runs.

* `PlanLevelsProofs`: `LevelsInv` = types, `EachStepOnce`, `DependenciesEarlier`.
  Inductive because, as long as a step of a well-formed plan is unplaced, some
  step is ready (`SomeStepReady`, from acyclicity applied to the unplaced set),
  so the fallback is never taken there. `EarlyInv` adds that every unplaced step of such a
  plan waits for a step of the last level or an unplaced one (`HeldBack`): hence
  `StepsComeEarly`.
* `PlanExecuteProofs`: `ControlInv` = `TypeOK`, `LevelsInv`, `LevelByLevel`.
  `LevelByLevel` ties `pc`, `cur`, the launched and the collected steps: without
  it nothing says that a level starts only when the ones before it are collected.
  One lemma per action, then `TypeCorrect`, `RunsLevelByLevel`, `AnswerComesLast`,
  `ContextInjection` (a launched input is complete: `NextLevelInputs`) and
  `ResultsNeverChange` (a result belongs to a collected step, and only uncollected
  ones are settled). `ApprovalInv` = `SignalsMatchRequests`, `ReviewedCodeOnly`,
  assuming `Clicks = 1`: an answered request is the awaited one and its signal the
  only one buffered; the theorem `OnlyReviewedCodeRuns` follows. Its assumption is
  needed: the run stale_approval is the counterexample without it. Last, the
  refinement: under the mapping, every step of the workflow is a step of
  `PlanPromise` or leaves its variables alone; `PromiseKept`.
* `SessionRouterProofs`: `RouteInv` = `TypeOK`, `EntriesStarted`,
  `AnswersStayInSession` and what a request in flight knows of the workflow it
  is about (`RequestsKnowTheirSession`: at "start" the workflow is only named and
  no other handler starts it). Hence `EntriesNameStarted` and
  `AnswersNeverLeave`, with no assumption on the user. Under `Orderly` (one
  request at a time, no restart, no ambiguous failure) `OrderlyInv` adds
  that a session's only request is about its entry, that only the entry can be
  live and that nothing is live while a start or a removal is under way; hence
  `OrderlyEntriesTrack` and `OrderlyAnswersReachAsker`.
* `ChatTurnProofs`, four invariants. `StoreInv`: the properties `TypeOK`,
  `MessagesHaveSession`, `SavedInBoth`, `AnswersHaveQuestions` and `SavedSoFar`, what
  an attempt has done by the time it is at a call (its earlier messages are in the
  stores and the session exists): no later step of anybody takes that back. It
  needs no assumption on failures. `RaceInv`, without failures and timeouts: only
  the awaited attempt of a turn runs, it is the first or the second, and the second
  starts when the session exists, so it never creates it. `WindowInv`: attempts
  start in turn, so a retry replaces no attempt that is about to trim, and the
  cardinality of `ToTrim` grows with each push. `ToldInv`: while turns come one by one, only the
  last of them has an attempt, its first, and the list ends with exactly what the
  turns told so far have pushed, as far as the window reaches: `WindowStaysRecent`.
* `BlueprintProofs`: `OwnersFixed` = types and the existence of one owner per id, fixed
  by its insert, such that rows, the copies that checked updates carry and the run
  hold that owner's keys, blanks, masks, or values once given to a Router; other keys
  are sealed once a copy has passed `UpdateKeep`, if every process had the master key
  (a Router's is told from them by its kind from the start, which no step changes). From it,
  `KeysAreHidden`, `KeysServeOwners`, and, step by step, `RowsObeyTheLaw`.
* `WorkflowProofs`: `SvInv` counts the approvals that are still buffered beside those
  used, and the attempts the turn has left (`SupervisorGate`); `GateInv` says that the
  variable, once the wait began, holds nothing or an answer to the code shown last, and
  of every call ever made (run, in hand, or given up and still to run, `Calls`) that it is
  by an answer to its own code, that two calls of one code are by the same answer, and
  that codes are numbered below the one being shown (`GraphGate`); `WalkInv` says where a
  node can come from: the start and the targets of edges are nodes by `Validate`, so only
  a `next` can name none, and how far a save may have got in each phase, cancelled ones
  included (`WalkIsSound`; the first edge exists because positions are naturals).
* `AlgorithmProofs`: the loops. A loop of the code is a function of its turn, which
  to the provers is only a choice among the functions that satisfy its equation.
  `Recursion` shows that one exists (the states of the first `n` turns extend to
  `n + 1`, and agree), and `LoopInduction` gives what every loop invariant then
  yields; both rest on the well-foundedness of the naturals (`SetInduction`: an
  invariant is a set of turns, since an operator cannot be passed). With them: the
  sort, whose passes permute the candidates and leave the places before `i` in
  descending order above all later ones (`MatchesAreBest`, `SkillsAreBest`); the
  client, whose received tokens are those kept and shown and whose other frames
  are on the wire (`ClInv`, `ClientScreenIsTrue`); the splitting, whose chunks and
  unfinished piece are at every line the text read so far, cut (`SplitCuts`).
* `ServiceProofs`: `AccountsStayOne` (every token names a row, and rows stay),
  `SandboxStaysClean` (a container is there while its removal is to come, or is counted), `ModelCallsAreSound` (a row holds its user's key or none, with one
  seal if every process had the master key), `BriefAnswersStaySound` (`BriefInv`: what is
  indexed is stored, what is announced is indexed, and a reader knows as much),
  `GraphsAreWhole` (a relation is added only with both ends visible to its owner,
  and nothing is removed, so it stays among the rows that `Limited` chooses from; an answer
  that lacks a row is as large as the limit, `OnlyFullAnswersLack`), `ReportsAreSound` (the knowledge base may be written
  in any way meanwhile), `IndexedStaysWhole` (`IgInv`: a job has one runner at most
  and is where its place says, `Where`; the stored chunks are pieces of their
  document's cut text, all of them once it is indexed or about to be marked,
  `Rows`; an upload has one row at most, marked before it is done, `UploadsOnce`;
  that the pieces make up the text is `SplitCuts`).

### What liveness rests on

Neither fairness nor ENABLED is in the prover's reach. What can be proved is the
rest of each argument: that the code's own steps lower a measure, so that no loop of
it goes on for ever, and that where it stands it has a branch to take.

| Theorem | Measure | Beside it |
|---|---|---|
| `WorkflowStepsEnd` (`PlanExecuteProofs`) | `Left`: stage, steps to place, levels to start, steps to collect, the approval, attempts to execute; compared lexicographically (`Descent`, well founded on `Measures`) | only the workflow function moves it: activities, signals and cancellation leave it alone |
| `EveryFutureIsHandled` | | also in plans whose steps share ids, the future found under an id runs or ended in a way some branch takes |
| `EngineStepsEnd` (`WorkflowProofs`) | `GxLeft`, at most `5 * MaxSteps + 2 + GxMaxFaults` | a validated blueprint's nodes are all of a type the engine knows; loops in the graph are allowed; attempts that fail without end are not covered, as in the code they hold a run for ever |
| `LoopStepsEnd` (`WorkflowProofs`) | `SvLeft`, at most `6 * SvMaxSteps + 1` | |
| `AttemptsEnd` (`ChatTurnProofs`) | `CallsLeft` of each attempt | no step takes any attempt back; only the list's expiry moves none |
| `JobsNeverGoBack` (`ServiceProofs`) | `PlaceLeft` of a job, `TurnLeft` of a runner | failed calls, retries and stops of the process included; a runner with a job has a call to make, or is a worker whose call to the model hangs |

The measures are named apart from the fairness formulas because they do not depend on
them: with them, `OnlyApprovalBlocks`, `WorkflowsEnd`, `SavingEnds` and `UploadsEnd` come
down to "a step that can be taken is taken".

Only model-checked: the liveness properties `OnlyApprovalBlocks`, `EveryTurnSaved`,
`SavingEnds`, `WorkflowsEnd`, `ServicesEnd`, `UploadsEnd` themselves, for that last part;
every other property of a passing run is stated by a theorem.

## 6. What the code does beside its comments

Three disagreements are runs that must fail: `stale_approval`, `blueprint_key_lost` and
`blueprint_router_key`. Met while modelling, and part of the models without a run
of their own:

* Steps of one level are called independent; a step whose dependency is in no
  step goes to a level with the steps it should follow (`NextLevel`'s fallback).
* Cancelling a `PlanExecuteWorkflow` that waits in `Receive` does not end it: it goes
  on waiting (`OnlyApprovalBlocks` states it).
* With two requests of a session at once, the second chat's failed start removes
  the entry of the first, and an answer goes to the newer workflow; `TracksActive` and
  `AnswersReachAsker` need `OneAtATime`.
* A blueprint turn is reported as saved though its rows may be missing (its
  errors are only logged); hence `SavedInBoth` is about chat turns.
* The comment of `getClientWithFallback` names the user's default configuration as
  its last resort; the code takes the server's.
* A failing reranker is said to fall back to the vector order; the order is kept
  but the error is returned all the same, and the report becomes a placeholder.
* A Router's key is shown to readers of a public blueprint and pays for the runs of its
  clones, as section 3 says under `BlueprintStore`; no comment speaks of these.
* A blueprint whose node has a `next` that names none is accepted, and its run fails
  its workflow task for ever instead of ending (`workflows.ts:149`).
* Approved code can run again: after a lost reply or a late attempt, three times at most
  in the supervisor workflows and without limit in the graph engine, whose activities set
  no retry policy. Nothing recognises a run that was made before.
* A cancelled blueprint run may have saved its turn, or save it later.
* A container whose creation was not answered is never removed.
* An answer of the graph is cut at 20 rows in no order, and a report at 15 lines; what
  they leave out is not said.
* A model that never answers holds an upload worker for good; when all are held, later
  uploads wait at the channel.
* An approval that arrives between the publication of the code and the reset of
  the variable in `workflows.ts` is lost, and the run waits.

## 7. Not modelled

* `saga.go` has no caller, and `chat_workflow` is registered with no worker; the use
  cases `ChatWithAgent`, `MultiAgentChat` and `SearchOnly` have none either, and `hasCycle` of the
  blueprint use case is never called.
* Prompts, `fin_skills` and report templates are data; template filling, streamed
  tokens, progress events and artifacts are output that nothing reads back.
* What a language model, a search engine or an embedding returns is a choice of the
  environment. The adapters that call them hold no state.
* Read-only listings (sessions, messages, agent cards), telemetry, the
  database connections and the web framework.
* The bodies of agents and dynamic activities beyond what they may return, which
  code they may run and whose key they use: they build texts.
