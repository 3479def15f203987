---------------------------- MODULE MCWorkflows ----------------------------
(* The two other workflow engines: a behaviour runs one of them.            *)
EXTENDS GraphExecution, Supervisor
VARIABLE engine
MCSteps == [k \in Kinds |-> IF k = "plain" THEN 2 ELSE 3]
Node(i, t, tool, next) ==
  [id |-> i, type |-> t, tool |-> tool, next |-> next, complete |-> TRUE,
   choices |-> IF t = "Router" THEN <<"yes", "no">> ELSE <<>>]
Graph(nodes, edges) == [start |-> "a", nodes |-> nodes, edges |-> edges]
Edge(s, t, c) == [source |-> s, target |-> t, condition |-> c]
\* A first node of every type, a coder and an end, joined by any two edges;
\* ids may be wrong and `next' may name no node.
Firsts == {Node("a", "Start", "", ""), Node("a", "LLM", "", "x"),
           Node("a", "LLM", "", "b"), Node("a", "Router", "", "c"),
           Node("a", "Router", "", ""), Node("a", "Tool", "fetch_data", "END"),
           Node("a", "Tool", "shell", "b")}
Coders == {Node("b", "Tool", "coder", ""), Node("b", "Tool", "coder", "a")}
SomeEdges == {Edge("a", "b", ""), Edge("a", "c", "yes"), Edge("a", "END", "no"),
              Edge("b", "a", "default"), Edge("b", "c", ""), Edge("a", "x", "")}
MCBlueprints ==
  {Graph(<<f, c, Node("c", "End", "", "")>>, es) :
     f \in Firsts, c \in Coders, es \in UNION {[1 .. n -> SomeEdges] : n \in 0 .. 3}}
  \cup {Graph(<<Node("a", "LLM", "", "a")>>, <<>>), Graph(<<>>, <<>>)}
AnyBlueprint == CHOOSE bp \in MCBlueprints : Validate(bp)
MCInit ==
  /\ engine \in {"graph", "supervisor"}
  /\ GxInit /\ SvInit
  /\ engine = "graph" => svKind = "plain"
  /\ engine = "supervisor" => gxBp = AnyBlueprint
MCNext ==
  /\ UNCHANGED engine
  /\ \/ engine = "graph" /\ GxNext /\ UNCHANGED svVars
     \/ engine = "supervisor" /\ SvNext /\ UNCHANGED gxVars
vars == <<engine, gxVars, svVars>>
Walks == engine = "graph" /\ Engine /\ UNCHANGED <<svVars, engine>>
Decides == engine = "supervisor" /\ SvWork /\ UNCHANGED <<gxVars, engine>>
MCSpec == MCInit /\ [][MCNext]_vars /\ WF_vars(Walks) /\ WF_vars(Decides)
\* Only the user can hold up a run of either engine.
WorkflowsEnd == /\ engine = "graph" => OnlyUserHolds
                /\ engine = "supervisor" => LoopEnds
=============================================================================
