--------------------------- MODULE KnowledgeBase ---------------------------
(***************************************************************************)
(* What documents leave behind, and who can read it: the documents and     *)
(* document_chunks tables (persistence/postgres_doc.go), the splitting of  *)
(* a text (RAGUseCase.smartSplit), and the knowledge graph                 *)
(* (graph/neo4j_repo.go), whose nodes and relations carry their owner.     *)
(*                                                                         *)
(* A text is the sequence of its lines' lengths, 0 for a blank line; the   *)
(* model's reading of it is a record of entity names and of pairs of       *)
(* names.  A name stands for an entity's name and label.                   *)
(***************************************************************************)
EXTENDS Naturals, Sequences, FiniteSets, Functions

CONSTANTS KnUsers, KnSystem, \* accounts, and the owner "system"
          PrefixLen,         \* length of the source line each chunk starts with
          ChunkSize,
          ContainedIn,          \* pairs <<keyword, name>>: the name contains the keyword
          GraphLimit         \* rows of a graph query (20)

ASSUME KnNames == KnSystem \notin KnUsers
ASSUME KnSizes == {PrefixLen, ChunkSize, GraphLimit} \subseteq Nat

VARIABLES
  dcRows,   \* documents: a set of [id, owner, status]
  dcChunks, \* document_chunks: a set of [doc, n, owner, lines]
  kgNodes,  \* nodes: a set of [name, owner]
  kgRels    \* relations: a set of [from, to, owner]

knVars == <<dcRows, dcChunks, kgNodes, kgRels>>

KnInit == dcRows = {} /\ dcChunks = {} /\ kgNodes = {} /\ kgRels = {}

-----------------------------------------------------------------------------
\* Mutation: the line that does not fit is lost with the flush.
AddLineLossy(text, cut, i) ==
  IF text[i] = 0 THEN cut
  ELSE IF cut.len + text[i] > ChunkSize
       THEN [done |-> Append(cut.done, cut.lines), lines |-> <<>>, len |-> PrefixLen]
       ELSE [cut EXCEPT !.lines = Append(@, i), !.len = @ + text[i] + 1]

\* One turn of smartSplit's loop.  A chunk is the sequence of its lines; it is
\* flushed even when it holds its prefix only.
AddLine(text, cut, i) ==
  IF text[i] = 0 THEN cut
  ELSE IF cut.len + text[i] > ChunkSize
       THEN [done |-> Append(cut.done, cut.lines), lines |-> <<i>>,
             len |-> PrefixLen + text[i] + 1]
       ELSE [cut EXCEPT !.lines = Append(@, i), !.len = @ + text[i] + 1]

\* smartSplit: cut[i] is what its loop has after i lines.
Split(text) ==
  LET cut[i \in 0 .. Len(text)] ==
        IF i = 0 THEN [done |-> <<>>, lines |-> <<>>, len |-> PrefixLen]
        ELSE AddLine(text, cut[i - 1], i)
      end == cut[Len(text)]
  IN IF end.len > PrefixLen THEN Append(end.done, end.lines) ELSE end.done

-----------------------------------------------------------------------------
\* Documents and their chunks

\* docRepo.Create and UpdateStatus
CreateDocument(id, owner) ==
  dcRows' = dcRows \cup {[id |-> id, owner |-> owner, status |-> "processing"]}
UpdateStatus(id) ==
  dcRows' = {IF d.id = id THEN [d EXCEPT !.status = "indexed"] ELSE d : d \in dcRows}

\* Every chunk of a document, under its owner (AddDocumentText).
ChunksOf(id, split, owner) ==
  {[doc |-> id, n |-> n, owner |-> owner, lines |-> split[n]] : n \in 1 .. Len(split)}

\* StoreChunks: one INSERT of every chunk.
StoreChunks(chunks) == dcChunks' = dcChunks \cup chunks

\* Mutation: the owner is not asked.
SearchAll(u) == dcChunks

\* SearchSimilar: u's chunks and the system's, whatever their document's status.
SearchSimilar(u) == {c \in dcChunks : c.owner \in {u, KnSystem}}

-----------------------------------------------------------------------------
\* The graph

\* BuildGraphFromText: a relation is kept when both its ends are listed.
KeptRelations(x) == {p \in x.rels : p[1] \in x.ents /\ p[2] \in x.ents}

\* Mutation: an end is matched by its name alone.
EndsByName(name, nodes, owner) == {n \in nodes : n.name = name}

\* The nodes a relation of `owner' may attach to.
Ends(name, nodes, owner) == {n \in nodes : n.name = name /\ n.owner \in {owner, KnSystem}}

\* SaveKnowledgeGraph: nodes are merged, then relations, in one transaction.
SaveKnowledgeGraph(x, owner) ==
  LET nodes == kgNodes \cup {[name |-> e, owner |-> owner] : e \in x.ents}
  IN /\ kgNodes' = nodes
     /\ kgRels' = kgRels \cup
          UNION {[from: Ends(p[1], nodes, owner), to: Ends(p[2], nodes, owner),
                  owner: {owner}] : p \in KeptRelations(x)}

\* What MATCH (n)-[r]-(m) finds of a relation: it is read from both its ends.
RowsOf(r) == {[at |-> r.from, to |-> r.to, owner |-> r.owner],
              [at |-> r.to, to |-> r.from, owner |-> r.owner]}

\* The rows of the query: n's name contains the keyword, and user u or the
\* system owns the nodes and the relation.
Matched(keyword, u) ==
  {w \in UNION {RowsOf(r) : r \in kgRels} :
     /\ <<keyword, w.at.name>> \in ContainedIn
     /\ {w.at.owner, w.owner, w.to.owner} \subseteq {u, KnSystem}}

\* What is left of S when at most n of it are taken, whichever.
Limited(S, n) ==
  {T \in SUBSET S : Cardinality(T) = n \/ (T = S /\ Cardinality(S) < n)}

\* GetRelatedKnowledge: the answers that the query may give; it has a LIMIT and
\* no ORDER BY.
GetRelatedKnowledge(keyword, u) == Limited(Matched(keyword, u), GraphLimit)

-----------------------------------------------------------------------------
\* Properties

\* The length of a chunk's text.
Length(text, lines) ==
  LET len[k \in 0 .. Len(lines)] ==
        IF k = 0 THEN PrefixLen ELSE len[k - 1] + text[lines[k]] + 1
  IN len[Len(lines)]

\* The chunks of an indexed document hold each of its non-blank lines once and
\* in order, under the document's owner; no chunk is over its size unless one
\* line alone is (a line's end may exceed it by one).
TextWhole(id, text, split) ==
  \A d \in dcRows : d.id = id /\ d.status = "indexed" =>
    LET own == {c \in dcChunks : c.doc = id}
    IN /\ own # {} /\ {c.n : c \in own} = 1 .. Len(split)
       /\ \A c, e \in own : c.n = e.n => c = e
       /\ \A c \in own :
            c.owner = d.owner /\ (Len(c.lines) <= 1 \/ Length(text, c.lines) <= ChunkSize + 1)
       /\ UNION {Range(c.lines) : c \in own} = {i \in 1 .. Len(text) : text[i] # 0}
       /\ \A c, e \in own : \A k \in 1 .. Len(c.lines), l \in 1 .. Len(e.lines) :
            c.n < e.n \/ (c.n = e.n /\ k < l) => c.lines[k] < e.lines[l]

\* Visibility in the graph goes by a relation's owner alone: both its ends can
\* be read by whoever may read it, so that no reader misses a relation of his
\* for an end he cannot see, and no system relation names a private entity.
GraphSeenWhole ==
  \A r \in kgRels : \A e \in {r.from, r.to} :
    e \in kgNodes /\ e.owner \in {r.owner, KnSystem}
=============================================================================
