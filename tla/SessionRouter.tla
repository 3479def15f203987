--------------------------- MODULE SessionRouter --------------------------
(***************************************************************************)
(* The HTTP handlers of internal/delivery/http/sse_handler.go and           *)
(* v1/agent_handler.go, which find "the" workflow of a session through the  *)
(* in-memory map activeWorkflows.  A handler is several steps: other        *)
(* requests run between its access to the map and its call of Temporal.     *)
(***************************************************************************)
EXTENDS Naturals, Sequences

CONSTANTS
  Sessions, Workflows, Handlers,
  None,         \* no workflow, no session
  OneAtATime,   \* a user sends one request at a time in a session, starts a
                \* chat when no other is live, answers no cancelled workflow
  Ambiguous,    \* whether ExecuteWorkflow may fail after it took effect
  MaxBuffered,  \* bound: answers waiting in a workflow
  MaxRestarts   \* bound: restarts of the server

ASSUME RouterAssumption ==
  /\ None \notin Sessions \cup Workflows
  /\ {OneAtATime, Ambiguous} \subseteq BOOLEAN
  /\ {MaxBuffered, MaxRestarts} \subseteq Nat

VARIABLES
  active,     \* activeWorkflows: session -> workflow ID
  hnd,        \* the request each handler goroutine is serving
  home,       \* the session a workflow ID was made for
  kind,       \* PlanExecuteWorkflow ("chat") or GraphExecutionWorkflow ("graph")
  stage,      \* the workflow in Temporal
  cancelled,  \* workflows whose cancellation was requested
  shown,      \* workflows whose approval request a user has before him
  inbox,      \* answers delivered to a workflow and not used: each is the
              \* workflow whose request the user was answering
  restarts

routeVars == <<active, hnd>>
flowVars == <<home, kind, stage, cancelled, shown, inbox>>
vars == <<routeVars, flowVars, restarts>>

(* A handler is idle, or at the call it is about to make.                   *)
Idle == [at |-> "idle", session |-> None, wf |-> None, about |-> None]
Serving(at, s, w, a) == [at |-> at, session |-> s, wf |-> w, about |-> a]

Busy(s) == \E h \in Handlers : hnd[h].session = s
Live(w) == stage[w] \in {"running", "asked", "waiting"}
LiveIn(s) == {w \in Workflows : home[w] = s /\ Live(w) /\ w \notin cancelled}

Init ==
  /\ active = [s \in Sessions |-> None]
  /\ hnd = [h \in Handlers |-> Idle]
  /\ home = [w \in Workflows |-> None]
  /\ kind = [w \in Workflows |-> "chat"]
  /\ stage = [w \in Workflows |-> "unused"]
  /\ cancelled = {}
  /\ shown = {}
  /\ inbox = [w \in Workflows |-> <<>>]
  /\ restarts = 0

(* A request for session s reaches an idle handler.                         *)
Arrives(h, s) == hnd[h] = Idle /\ (OneAtATime => ~Busy(s))

---------------------------------------------------------------------------
(* Starting a workflow.                                                     *)

(* Mutations: an entry is never replaced; there is one entry for all.       *)
StoredIfAbsent(s, w) ==
  IF active[s] = None THEN [active EXCEPT ![s] = w] ELSE active
StoredForAll(s, w) == [t \in Sessions |-> w]

(* activeWorkflows.Store                                                    *)
Stored(s, w) == [active EXCEPT ![s] = w]

(* Make the workflow ID and store it, before the workflow exists.           *)
Launch(h, s, w, k) ==
  /\ Arrives(h, s)
  /\ OneAtATime => LiveIn(s) = {}
  /\ stage[w] = "unused"
  /\ stage' = [stage EXCEPT ![w] = "named"]
  /\ home' = [home EXCEPT ![w] = s]
  /\ kind' = [kind EXCEPT ![w] = k]
  /\ active' = Stored(s, w)
  /\ hnd' = [hnd EXCEPT ![h] = Serving("start", s, w, None)]
  /\ UNCHANGED <<cancelled, shown, inbox, restarts>>

HandleChat(h, s, w) == Launch(h, s, w, "chat")

(* The blueprint was loaded before; a failure there changes nothing.        *)
HandleBlueprintRun(h, s, w) == Launch(h, s, w, "graph")

ExecuteWorkflow(h) ==
  /\ hnd[h].at = "start"
  /\ stage' = [stage EXCEPT ![hnd[h].wf] = "running"]
  /\ hnd' = [hnd EXCEPT ![h] = Idle]
  /\ UNCHANGED <<active, home, kind, cancelled, shown, inbox, restarts>>

ExecuteWorkflowFails(h, started) ==
  /\ hnd[h].at = "start"
  /\ started => Ambiguous
  /\ stage' = IF started THEN [stage EXCEPT ![hnd[h].wf] = "running"] ELSE stage
  /\ hnd' = [hnd EXCEPT ![h].at = "forget"]
  /\ UNCHANGED <<active, home, kind, cancelled, shown, inbox, restarts>>

(* Mutation: the entry of a workflow that did not start stays.              *)
ForgetNothing(h) ==
  /\ hnd[h].at = "forget"
  /\ hnd' = [hnd EXCEPT ![h] = Idle]
  /\ UNCHANGED <<active, flowVars, restarts>>

(* activeWorkflows.Delete(session), after a failed start and after a        *)
(* cancellation: whatever the session's entry is by then.                   *)
Forget(h) ==
  /\ hnd[h].at = "forget"
  /\ active' = [active EXCEPT ![hnd[h].session] = None]
  /\ hnd' = [hnd EXCEPT ![h] = Idle]
  /\ UNCHANGED <<flowVars, restarts>>

---------------------------------------------------------------------------
(* Answering and cancelling.                                                *)

(* Load the session's entry; without one the request is refused at once.    *)
LoadEntry(h, s, at, a) ==
  /\ Arrives(h, s)
  /\ active[s] # None
  /\ hnd' = [hnd EXCEPT ![h] = Serving(at, s, active[s], a)]
  /\ UNCHANGED <<active, flowVars, restarts>>

(* The user answers the request of workflow a, which he sees in session s.  *)
HandleApproval(h, s, a) ==
  /\ a \in shown
  /\ home[a] = s
  /\ OneAtATime => a \notin cancelled
  /\ LoadEntry(h, s, "signal", a)

HandleCancel(h, s) == LoadEntry(h, s, "cancel", None)

(* The answer about a's request joins the answers w has: a chat workflow    *)
(* buffers signals, a graph workflow has one flag that the next overwrites. *)
Delivered(w, a) ==
  [inbox EXCEPT ![w] = IF kind[w] = "graph" THEN <<a>> ELSE Append(@, a)]

Accepts(w) == Live(w) /\ (kind[w] = "chat" => Len(inbox[w]) < MaxBuffered)

(* SignalWorkflow fails for a workflow that is not open.                    *)
SignalWorkflow(h) ==
  /\ hnd[h].at = "signal"
  /\ Accepts(hnd[h].wf)
  /\ inbox' = Delivered(hnd[h].wf, hnd[h].about)
  /\ hnd' = [hnd EXCEPT ![h] = Idle]
  /\ UNCHANGED <<active, home, kind, stage, cancelled, shown, restarts>>

CancelWorkflow(h) ==
  /\ hnd[h].at = "cancel"
  /\ Live(hnd[h].wf)
  /\ cancelled' = cancelled \cup {hnd[h].wf}
  /\ hnd' = [hnd EXCEPT ![h].at = "forget"]
  /\ UNCHANGED <<active, home, kind, stage, shown, inbox, restarts>>

(* Mutation: a failed call forgets the entry.                               *)
CallFailsAndForgets(h) ==
  /\ hnd[h].at \in {"signal", "cancel"}
  /\ hnd' = [hnd EXCEPT ![h].at = "forget"]
  /\ UNCHANGED <<active, flowVars, restarts>>

(* The call fails: nothing else is done, the entry stays.                   *)
CallFails(h) ==
  /\ hnd[h].at \in {"signal", "cancel"}
  /\ hnd' = [hnd EXCEPT ![h] = Idle]
  /\ UNCHANGED <<active, flowVars, restarts>>

(* The older interface names the workflow instead of the session.           *)
Approve(a) ==
  /\ a \in shown
  /\ Accepts(a)
  /\ OneAtATime => ~Busy(home[a]) /\ a \notin cancelled
  /\ inbox' = Delivered(a, a)
  /\ UNCHANGED <<routeVars, home, kind, stage, cancelled, shown, restarts>>

CancelByID(w) ==
  /\ Live(w)
  /\ OneAtATime => ~Busy(home[w])
  /\ cancelled' = cancelled \cup {w}
  /\ UNCHANGED <<routeVars, home, kind, stage, shown, inbox, restarts>>

---------------------------------------------------------------------------
(* The workflows, and the server.                                           *)

(* approval_required reaches the session's stream, or nobody: a cancelled   *)
(* chat workflow can no longer publish, but goes on; a graph workflow stops.*)
Ask(w, seen) ==
  /\ stage[w] = "running"
  /\ w \in cancelled => ~seen /\ kind[w] = "chat"
  /\ stage' = [stage EXCEPT ![w] = "asked"]
  /\ shown' = IF seen THEN shown \cup {w} ELSE shown
  /\ UNCHANGED <<routeVars, home, kind, cancelled, inbox, restarts>>

(* Then the workflow waits.  A graph workflow first forgets the answer it   *)
(* has, be it the one to this request.                                      *)
Await(w) ==
  /\ stage[w] = "asked"
  /\ stage' = [stage EXCEPT ![w] = "waiting"]
  /\ inbox' = IF kind[w] = "graph" THEN [inbox EXCEPT ![w] = <<>>] ELSE inbox
  /\ UNCHANGED <<routeVars, home, kind, cancelled, shown, restarts>>

(* The oldest answer is taken, whatever it was about.                       *)
Resume(w) ==
  /\ stage[w] = "waiting"
  /\ inbox[w] # <<>>
  /\ stage' = [stage EXCEPT ![w] = "running"]
  /\ inbox' = [inbox EXCEPT ![w] = Tail(@)]
  /\ shown' = shown \ {w}
  /\ UNCHANGED <<routeVars, home, kind, cancelled, restarts>>

(* Only a graph workflow ends out of a request, when it is cancelled.       *)
End(w) ==
  /\ \/ stage[w] = "running"
     \/ stage[w] \in {"asked", "waiting"} /\ kind[w] = "graph" /\ w \in cancelled
  /\ stage' = [stage EXCEPT ![w] = "ended"]
  /\ shown' = shown \ {w}
  /\ UNCHANGED <<routeVars, home, kind, cancelled, inbox, restarts>>

(* The map is in memory only: requests in flight and entries are lost.      *)
Restart ==
  /\ restarts < MaxRestarts
  /\ restarts' = restarts + 1
  /\ active' = [s \in Sessions |-> None]
  /\ hnd' = [h \in Handlers |-> Idle]
  /\ UNCHANGED flowVars

Serve(h) ==
  \/ \E s \in Sessions, w \in Workflows :
       \/ HandleChat(h, s, w)
       \/ HandleBlueprintRun(h, s, w)
       \/ HandleApproval(h, s, w)
  \/ \E s \in Sessions : HandleCancel(h, s)
  \/ ExecuteWorkflow(h)
  \/ \E started \in BOOLEAN : ExecuteWorkflowFails(h, started)
  \/ Forget(h)
  \/ SignalWorkflow(h)
  \/ CancelWorkflow(h)
  \/ CallFails(h)

Run(w) == (\E seen \in BOOLEAN : Ask(w, seen)) \/ Await(w) \/ Resume(w) \/ End(w)

Direct(w) == Approve(w) \/ CancelByID(w)

Next ==
  \/ \E h \in Handlers : Serve(h)
  \/ \E w \in Workflows : Run(w) \/ Direct(w)
  \/ Restart

Spec == Init /\ [][Next]_vars
---------------------------------------------------------------------------
Place ==
  {Idle} \cup
  {Serving(at, s, w, None) : at \in {"start", "forget", "cancel"}, s \in Sessions, w \in Workflows}
  \cup {Serving("signal", s, w, a) : s \in Sessions, w \in Workflows, a \in Workflows}

TypeOK ==
  /\ active \in [Sessions -> Workflows \cup {None}]
  /\ hnd \in [Handlers -> Place]
  /\ home \in [Workflows -> Sessions \cup {None}]
  /\ kind \in [Workflows -> {"chat", "graph"}]
  /\ stage \in [Workflows -> {"unused", "named", "running", "asked", "waiting", "ended"}]
  /\ cancelled \subseteq Workflows
  /\ shown \subseteq Workflows
  /\ inbox \in [Workflows -> Seq(Workflows)]
  /\ restarts \in 0..MaxRestarts

(* Whatever requests overlap, fail or are cut off by a restart: an entry    *)
(* names a workflow of its session, one that was started unless the request *)
(* that made it is still being served.                                      *)
EntriesStarted ==
  \A s \in Sessions :
    LET w == active[s] IN
    w # None =>
      /\ home[w] = s
      /\ stage[w] = "named" =>
           \E h \in Handlers : hnd[h].wf = w /\ hnd[h].at \in {"start", "forget"}

(* An answer never leaves its session, even when it goes to the wrong       *)
(* workflow of it.                                                          *)
AnswersStayInSession ==
  \A w \in Workflows : \A k \in DOMAIN inbox[w] : home[inbox[w][k]] = home[w]

(* "activeWorkflows tracks the current active workflow ID for each session" *)
(* (sse_handler.go:22): when no request of a session is being served and it *)
(* has one live workflow, the session's entry is that workflow.             *)
TracksActive ==
  \A s \in Sessions : \A w \in LiveIn(s) :
    ~Busy(s) /\ LiveIn(s) = {w} => active[s] = w

(* HandleApproval "resumes the workflow from its human-in-the-loop pause    *)
(* point" (sse_handler.go:194): an answer goes to the workflow that asked.  *)
AnswersReachAsker ==
  \A w \in Workflows : \A k \in DOMAIN inbox[w] : inbox[w][k] = w
===========================================================================
