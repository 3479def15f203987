--------------------------- MODULE GraphExecution ---------------------------
(***************************************************************************)
(* A run of a saved blueprint (orchestrator/src/workflows.ts,              *)
(* GraphExecutionWorkflow), which walks the graph node by node, its        *)
(* activities (dynamic_activities.go, agent_activities.go) and its user.   *)
(*                                                                         *)
(* The approval handler keeps the last signal in a variable; it runs       *)
(* whenever a signal arrives.  A coder's code is published, the variable   *)
(* is cleared once that activity's result is in, and then the run waits:   *)
(* so three moments are told apart, the event reaching the user, the       *)
(* variable being cleared, and the signal arriving.  The engine sets no    *)
(* retry policy: an activity that fails, or outlives its ten minutes, is   *)
(* tried again until it succeeds, and a failed attempt may have had its    *)
(* effect, or have it later.                                               *)
(***************************************************************************)
EXTENDS BlueprintRules

CONSTANTS Blueprints, \* the blueprints that may be run
          MaxSteps,   \* 50
          MaxSignals, \* bound on the user's signals
          GxMaxFaults, \* bound on attempts that fail
          NoSignal

Edges == [source: STRING, target: STRING, condition: STRING]

ASSUME GxAssumption ==
  /\ MaxSteps \in Nat \ {0} /\ GxMaxFaults \in Nat
  /\ \A bp \in Blueprints : bp.edges \in Seq(Edges)

VARIABLES
  gxBp,      \* the blueprint
  gxAt,      \* current node id, "END" or ""
  gxSteps,
  gxPhase,
  gxPending, \* pendingApproval
  gxCode,    \* the code previewed last, numbered; 0 before the first
  gxShown,   \* the code the user was shown last
  gxSent,    \* signals sent so far
  gxCall,    \* what AgentExecuteApproved was last given: code and its approval
  gxLate,    \* what attempts of it, given up, may yet run
  gxFaults,  \* attempts that failed
  gxRan,     \* history: what was run
  gxSaved    \* history: how many times the turn was saved

gxUser == <<gxPending, gxShown, gxSent>>
gxExec == <<gxCall, gxLate, gxRan>>
gxVars == <<gxBp, gxAt, gxSteps, gxPhase, gxUser, gxCode, gxExec, gxFaults, gxSaved>>

Over == {"done", "cancelled"}
TOOL_AGENT_MAP == [researcher |-> "Researcher", coder |-> "Coder"]

\* The loop's condition.
LoopGoesOn(at, steps) == at \notin {"", "END"} /\ steps < MaxSteps

GxInit ==
  /\ gxBp \in {bp \in Blueprints : Validate(bp)}
  /\ gxAt = gxBp.start /\ gxSteps = 0
  /\ gxPhase = IF LoopGoesOn(gxAt, gxSteps) THEN "node" ELSE "save"
  /\ gxPending = NoSignal /\ gxCode = 0 /\ gxShown = 0 /\ gxSent = 0
  /\ gxCall = [code |-> 0, by |-> NoSignal] /\ gxLate = {} /\ gxRan = {}
  /\ gxFaults = 0 /\ gxSaved = 0

Running == gxPhase \notin Over \cup {"stuck"}
GxStay == UNCHANGED <<gxBp, gxAt, gxSteps>>
Here == CHOOSE n \in ToSet(gxBp.nodes) : n.id = gxAt

-----------------------------------------------------------------------------
\* findNextNode: the first edge with the condition, else the first edge without
\* one, else the node's own next; a router's answer need not be a choice.
IsDefault(c) == c \in {"", "default", "next"}
FirstEdge(positions) == gxBp.edges[Min(positions)].target
findNextNode(node, c) ==
  LET Leaving(e) == e.source = node.id
      matching == {i \in DOMAIN gxBp.edges :
                     Leaving(gxBp.edges[i]) /\ gxBp.edges[i].condition = c}
      defaults == {i \in DOMAIN gxBp.edges :
                     Leaving(gxBp.edges[i]) /\ IsDefault(gxBp.edges[i].condition)}
  IN CASE matching # {} -> FirstEdge(matching)
       [] matching = {} /\ defaults # {} -> FirstEdge(defaults)
       [] OTHER -> node.next

\* Mutation: the steps are not counted.
GoesUncounted(c) ==
  /\ gxAt' = findNextNode(Here, c)
  /\ gxPhase' = IF LoopGoesOn(gxAt', gxSteps) THEN "node" ELSE "save"
  /\ UNCHANGED <<gxBp, gxSteps>>

\* The end of the loop's body, and its condition.
Go(c) ==
  /\ gxAt' = findNextNode(Here, c)
  /\ gxSteps' = gxSteps + 1
  /\ gxPhase' = IF LoopGoesOn(gxAt', gxSteps') THEN "node" ELSE "save"
  /\ UNCHANGED gxBp

\* An attempt fails and is made again.
Fault == gxFaults < GxMaxFaults /\ gxFaults' = gxFaults + 1
\* A call comes back, and the run goes on, or its reply is lost.
Replies(phase) ==
  \/ gxPhase' = phase /\ UNCHANGED gxFaults
  \/ UNCHANGED gxPhase /\ Fault

\* A node that the blueprint does not have: an Error that is no ApplicationFailure
\* fails the workflow task, which the server gives out again for ever.
MissingNode ==
  /\ gxPhase = "node" /\ gxAt \notin NodeIdsOf(gxBp)
  /\ gxPhase' = "stuck"
  /\ GxStay /\ UNCHANGED <<gxUser, gxCode, gxExec, gxFaults, gxSaved>>

AtNode(type) == gxPhase = "node" /\ gxAt \in NodeIdsOf(gxBp) /\ Here.type = type

\* Start; a language model's node, streamed or not; a tool that needs no
\* approval, or none that the engine knows (Validate lets fetch_data pass).
RunPlainNode ==
  /\ \/ AtNode("Start") \/ AtNode("LLM")
     \/ AtNode("Tool") /\ ~(Here.tool \in DOMAIN TOOL_AGENT_MAP /\ TOOL_AGENT_MAP[Here.tool] = "Coder")
  /\ Go("default")
  /\ UNCHANGED <<gxUser, gxCode, gxExec, gxFaults, gxSaved>>

\* DynamicRouterDecideWithNodeConfig answers in lower case, whatever it likes.
RunRouter ==
  /\ AtNode("Router")
  /\ \E c \in ToSet(Here.choices) \cup {"other"} : Go(c)
  /\ UNCHANGED <<gxUser, gxCode, gxExec, gxFaults, gxSaved>>

\* AgentPreview: no code, or new code to be shown
PreviewCode ==
  /\ AtNode("Tool") /\ Here.tool = "coder"
  /\ \/ Go("default") /\ UNCHANGED gxCode
     \/ gxCode' = gxCode + 1 /\ gxPhase' = "publish" /\ GxStay
  /\ UNCHANGED <<gxUser, gxExec, gxFaults, gxSaved>>

\* PublishStreamEvent: the user sees the code; the result is not in yet.
ShowCode ==
  /\ gxPhase = "publish"
  /\ gxShown' = gxCode /\ Replies("published")
  /\ GxStay /\ UNCHANGED <<gxPending, gxSent, gxCode, gxExec, gxSaved>>

\* Mutation: the variable is not cleared.
WaitKeepingSignal ==
  /\ gxPhase = "published"
  /\ gxPhase' = "waiting"
  /\ GxStay /\ UNCHANGED <<gxUser, gxCode, gxExec, gxFaults, gxSaved>>

\* pendingApproval = null, and the wait begins
WaitForApproval ==
  /\ gxPhase = "published"
  /\ gxPhase' = "waiting" /\ gxPending' = NoSignal
  /\ GxStay /\ UNCHANGED <<gxShown, gxSent, gxCode, gxExec, gxFaults, gxSaved>>

\* A signal arrives, once or twice; `for' is what the user had been shown last
\* by then.  A signal names no code, so one that was meant for earlier code and
\* arrives after newer code was shown is an answer to the newer.
Signal(approved) ==
  /\ Running /\ gxShown > 0 /\ gxSent < MaxSignals
  /\ gxPending' = [approved |-> approved, for |-> gxShown, n |-> gxSent]
  /\ gxSent' = gxSent + 1
  /\ GxStay /\ UNCHANGED <<gxPhase, gxCode, gxShown, gxExec, gxFaults, gxSaved>>

\* The condition holds: the code is given to the executor, as shown or as
\* modified, or is refused.
Decide ==
  /\ gxPhase = "waiting" /\ gxPending # NoSignal
  /\ IF gxPending.approved
     THEN gxPhase' = "execute" /\ gxCall' = [code |-> gxCode, by |-> gxPending] /\ GxStay
     ELSE Go("default") /\ UNCHANGED gxCall
  /\ UNCHANGED <<gxUser, gxCode, gxLate, gxRan, gxFaults, gxSaved>>

\* AgentExecuteApproved runs the code, and its reply comes or not.
ExecuteCode ==
  /\ gxPhase = "execute"
  /\ gxRan' = gxRan \cup {gxCall}
  /\ \/ Go("default") /\ UNCHANGED gxFaults
     \/ Fault /\ GxStay /\ UNCHANGED gxPhase
  /\ UNCHANGED <<gxUser, gxCode, gxCall, gxLate, gxSaved>>

\* An attempt of it is given up after ten minutes and goes on: the agent does not
\* look at its context.
OverrunCode ==
  /\ gxPhase = "execute" /\ Fault
  /\ gxLate' = gxLate \cup {gxCall}
  /\ GxStay /\ UNCHANGED <<gxUser, gxPhase, gxCode, gxCall, gxRan, gxSaved>>

\* An attempt that was given up runs its code, whatever the run does by then.
RunLate ==
  /\ \E c \in gxLate : gxRan' = gxRan \cup {c} /\ gxLate' = gxLate \ {c}
  /\ GxStay /\ UNCHANGED <<gxUser, gxPhase, gxCode, gxCall, gxFaults, gxSaved>>

\* SaveBlueprintChatTurn, at an End node or after the loop
SaveTurn ==
  /\ gxPhase = "save" \/ AtNode("End")
  /\ gxSaved' = gxSaved + 1 /\ Replies("announce")
  /\ GxStay /\ UNCHANGED <<gxUser, gxCode, gxExec>>

\* The "done" event
AnnounceDone ==
  /\ gxPhase = "announce" /\ Replies("done")
  /\ GxStay /\ UNCHANGED <<gxUser, gxCode, gxExec, gxSaved>>

\* An attempt of any activity fails before it had an effect.
AttemptFails ==
  /\ \/ gxPhase \in {"publish", "execute", "save"}
     \/ gxPhase = "node" /\ gxAt \in NodeIdsOf(gxBp)
  /\ Fault
  /\ GxStay /\ UNCHANGED <<gxUser, gxPhase, gxCode, gxExec, gxSaved>>

\* POST /chat/cancel: whatever is awaited throws, and so does the event that
\* the catch block would publish.  An attempt under way may still run its code or
\* save the turn.
CancelRun ==
  /\ Running
  /\ gxPhase' = "cancelled"
  /\ gxLate' \in IF gxPhase = "execute" THEN {gxLate, gxLate \cup {gxCall}} ELSE {gxLate}
  /\ gxSaved' \in IF gxPhase = "save" \/ AtNode("End") THEN {gxSaved, gxSaved + 1} ELSE {gxSaved}
  /\ GxStay /\ UNCHANGED <<gxUser, gxCode, gxCall, gxRan, gxFaults>>

Engine ==
  \/ MissingNode \/ RunPlainNode \/ RunRouter
  \/ PreviewCode \/ ShowCode \/ WaitForApproval \/ Decide \/ ExecuteCode \/ OverrunCode
  \/ SaveTurn \/ AnnounceDone \/ AttemptFails
GxNext == Engine \/ RunLate \/ CancelRun \/ \E approved \in BOOLEAN : Signal(approved)

GxSpec == GxInit /\ [][GxNext]_gxVars

-----------------------------------------------------------------------------
\* Properties

\* Code runs only by an approval that arrived after that very code was shown, in
\* loops that preview again and again and with answers that come twice or too
\* early; and every run of it, repeated or late, is by the same one answer, so
\* that no two forms of it (as shown, as modified) are run.
ShownCodeOnly ==
  /\ \A r \in gxRan : r.by.approved /\ r.by.for = r.code
  /\ \A r, s \in gxRan : r.code = s.code => r.by = s.by

\* Where a walk may be saved: past its last node, at an End, or cut off.
WalkIsOver ==
  \/ gxAt \in {"", "END"} \/ gxSteps = MaxSteps
  \/ gxAt \in NodeIdsOf(gxBp) /\ Here.type = "End"

\* A validated blueprint is walked to an end of its own: a run is stuck only at a
\* node that some node's `next' names (Validate does not look at it), its steps
\* are bounded, and its turn is saved when the walk is over, before the end is
\* announced and once, but for attempts whose reply was lost.
WalkFitsBlueprint ==
  /\ gxPhase = "stuck" => \E n \in ToSet(gxBp.nodes) : n.next = gxAt /\ gxSteps > 0
  /\ gxSteps <= MaxSteps
  /\ gxSaved > 0 => WalkIsOver
  /\ gxPhase \in {"announce", "done"} => gxSaved > 0
  /\ gxSaved <= 1 + gxFaults

\* Only the user can hold a run up, as long as attempts do not fail for ever: it
\* ends, loops and all, is stuck, or waits for an answer to code it has shown and
\* has none (an answer that came before the wait is lost).
OnlyUserHolds ==
  []<>(\/ gxPhase \in Over \cup {"stuck"}
       \/ gxPhase = "waiting" /\ gxPending = NoSignal /\ gxShown = gxCode)
=============================================================================
