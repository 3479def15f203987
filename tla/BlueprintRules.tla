--------------------------- MODULE BlueprintRules ---------------------------
(***************************************************************************)
(* Which workflow graphs may be saved: BlueprintUseCase.Validate.          *)
(*                                                                         *)
(* A blueprint is a record of its start node's id, its nodes and its edges *)
(* (sequences, as stored).  A node's configuration is known by whether it  *)
(* converts and has its required text, by its tool and by its choices.     *)
(***************************************************************************)
EXTENDS Naturals, Sequences, SequencesExt

CONSTANT MaxNodes \* 50

NodeTypes == {"Start", "LLM", "Tool", "Router", "End"}
ValidTools == {"researcher", "coder", "fetch_data"}

NodeIdsOf(bp) == {n.id : n \in ToSet(bp.nodes)}

\* validateNodeConfig
ConfigIsValid(n) ==
  CASE n.type = "LLM" -> n.complete
    [] n.type = "Tool" -> n.complete /\ n.tool \in ValidTools
    [] n.type = "Router" -> n.complete /\ Len(n.choices) >= 2
    [] n.type \in {"Start", "End"} -> TRUE
    [] OTHER -> FALSE

\* Mutation: the targets of edges are not looked up.
SourcesOnly(bp) == \A e \in ToSet(bp.edges) : e.source \in NodeIdsOf(bp)

EdgesAreValid(bp) ==
  \A e \in ToSet(bp.edges) :
    e.source \in NodeIdsOf(bp) /\ e.target \in NodeIdsOf(bp) \cup {"END"}

\* "End reachable": some edge or node ends; no path to it is looked for.
NamesAnEnd(bp) ==
  \/ \E e \in ToSet(bp.edges) : e.target = "END"
  \/ \E n \in ToSet(bp.nodes) : n.type = "End" \/ n.next = "END"

\* Validate; the targets of the nodes' own `next' are not looked up, and loops
\* are allowed.
Validate(bp) ==
  /\ bp.start # "" /\ bp.nodes # <<>> /\ Len(bp.nodes) <= MaxNodes
  /\ "" \notin NodeIdsOf(bp) /\ IsInjective([i \in DOMAIN bp.nodes |-> bp.nodes[i].id])
  /\ bp.start \in NodeIdsOf(bp)
  /\ EdgesAreValid(bp)
  /\ \A n \in ToSet(bp.nodes) : ConfigIsValid(n)
  /\ NamesAnEnd(bp)
=============================================================================
