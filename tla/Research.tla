------------------------------ MODULE Research ------------------------------
(***************************************************************************)
(* The researcher's two searches (AgentUseCase.RunResearcher) and the two  *)
(* branches of the internal one (RAGUseCase.SearchAndChat), which run side *)
(* by side on a knowledge base that others go on writing.  Neither group   *)
(* cancels: each waits for all its members, then looks at their errors.    *)
(***************************************************************************)
EXTENDS KnowledgeBase

CONSTANTS Asker,  \* the user who asks
          RsNames, \* the entity names a model may find in the question
          ReportLimit \* lines of the graph in a report (15)

VARIABLES
  rsVec,   \* the vector branch: its next call, or how it ended
  rsEnt,   \* the entity branch
  rsNames, \* the entities it found
  rsUsed,  \* chunks and relations collected for the internal report
  rsIn, rsWeb, \* the two searches: "runs", "report" or "placeholder"
  rsFinal

rsVars == <<rsVec, rsEnt, rsNames, rsUsed, rsIn, rsWeb, rsFinal>>

RsInit ==
  /\ rsVec = "embed" /\ rsEnt = "ask" /\ rsNames = {} /\ rsUsed = {}
  /\ rsIn = "runs" /\ rsWeb = "runs" /\ rsFinal = "none"

\* Embed, then SearchSimilar
VecEmbed(ok) ==
  /\ rsVec = "embed"
  /\ rsVec' = IF ok THEN "search" ELSE "err"
  /\ UNCHANGED <<rsEnt, rsNames, rsUsed, rsIn, rsWeb, rsFinal>>

VecSearch(ok) ==
  /\ rsVec = "search"
  /\ rsVec' = IF ok THEN "rerank" ELSE "err"
  /\ rsUsed' = IF ok THEN rsUsed \cup SearchSimilar(Asker) ELSE rsUsed
  /\ UNCHANGED <<rsEnt, rsNames, rsIn, rsWeb, rsFinal>>

\* Rerank: the scores choose among the candidates.  On an error the vector
\* order is kept, and the error is returned all the same.
VecRerank(ok) ==
  /\ rsVec = "rerank"
  /\ IF ok
     THEN rsVec' = "ok" /\ rsUsed' \in {rsUsed, {}}
     ELSE rsVec' = "err" /\ UNCHANGED rsUsed
  /\ UNCHANGED <<rsEnt, rsNames, rsIn, rsWeb, rsFinal>>

\* extractEntities: a list, the question itself, or an error
ExtractEntities(ok) ==
  /\ rsEnt = "ask"
  /\ IF ok
     THEN rsEnt' = "ok" /\ \E names \in SUBSET RsNames : rsNames' = names
     ELSE rsEnt' = "err" /\ UNCHANGED rsNames
  /\ UNCHANGED <<rsVec, rsUsed, rsIn, rsWeb, rsFinal>>

BranchesEnded == rsVec \in {"ok", "err"} /\ rsEnt \in {"ok", "err"}

\* A row as the report's context words it; equal lines are merged.
Line(w) == <<w.at.name, w.to.name>>

\* After g.Wait: the graph is read entity by entity, a failing one is skipped,
\* the first lines of all answers are kept, and the model writes the internal
\* report; any error gives a placeholder.
InternalReport ==
  /\ rsIn = "runs" /\ BranchesEnded
  /\ \/ /\ rsVec = "ok" /\ rsEnt = "ok"
        /\ \E read \in SUBSET rsNames :
             \E answer \in [read -> UNION {GetRelatedKnowledge(e, Asker) : e \in read}] :
               LET rows == UNION {answer[e] : e \in read}
               IN /\ \A e \in read : answer[e] \in GetRelatedKnowledge(e, Asker)
                  /\ \E lines \in Limited({Line(w) : w \in rows}, ReportLimit) :
                       rsUsed' = rsUsed \cup {w \in rows : Line(w) \in lines}
        /\ rsIn' = "report"
     \/ rsIn' = "placeholder" /\ rsUsed' = {}
  /\ UNCHANGED <<rsVec, rsEnt, rsNames, rsWeb, rsFinal>>

\* RunWebSearch
WebSearch(ok) ==
  /\ rsWeb = "runs"
  /\ rsWeb' = IF ok THEN "report" ELSE "placeholder"
  /\ UNCHANGED <<rsVec, rsEnt, rsNames, rsUsed, rsIn, rsFinal>>

\* The final report, of both searches; only its own failure is returned.
FinalReport(ok) ==
  /\ rsFinal = "none" /\ rsIn # "runs" /\ rsWeb # "runs"
  /\ rsFinal' = IF ok THEN "report" ELSE "error"
  /\ UNCHANGED <<rsVec, rsEnt, rsNames, rsUsed, rsIn, rsWeb>>

RsNext ==
  /\ \/ \E ok \in BOOLEAN : \/ VecEmbed(ok) \/ VecSearch(ok) \/ VecRerank(ok)
                            \/ ExtractEntities(ok) \/ WebSearch(ok) \/ FinalReport(ok)
     \/ InternalReport
  /\ UNCHANGED knVars

\* Next to it, others write to the knowledge base as they like.
RsSpec == RsInit /\ [][RsNext]_rsVars

-----------------------------------------------------------------------------
\* Properties

OwnerOf(s) == s.owner

\* A report rests on the asker's sources and the system's only, whoever writes
\* next to the search; and on all the branches or none: what one branch found
\* is not used when the other failed.
ReportFromOwnSources ==
  /\ \A s \in rsUsed : OwnerOf(s) \in {Asker, KnSystem}
  /\ rsIn = "report" => rsVec = "ok" /\ rsEnt = "ok"
  /\ rsIn = "placeholder" => rsUsed = {}
=============================================================================
