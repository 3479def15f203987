--------------------------- MODULE BlueprintStore ---------------------------
(***************************************************************************)
(* Saved workflow blueprints: the HTTP handlers (v1/blueprint_handler.go), *)
(* the use case (blueprint_usecase.go) and the table behind it             *)
(* (persistence/blueprint_repo.go).                                        *)
(*                                                                         *)
(* An update is four statements on the database, and other requests run    *)
(* between them: the handler reads the row and merges the request into the *)
(* copy, the use case reads it again to check the owner, the repository    *)
(* reads it a third time to keep the keys the request does not bring, and  *)
(* only then saves the whole row.  Nothing compares versions.              *)
(*                                                                         *)
(* Two types of node call a model and may carry a key, LLM and Router; the *)
(* repository treats the keys of LLM nodes alone.                          *)
(***************************************************************************)
EXTENDS KeyVault, FiniteSets

CONSTANTS BpIds,    \* the uuids that Create and Clone may draw
          NodeIds,  \* names of the one node with a key a modelled blueprint has
          Configs,  \* the keys and node a request may bring, see Brought
          Requests, \* the update requests that may be in flight together
          Originals, \* the ids Create draws; Clone draws the others
          MaxVersion, \* bound on the version of each row
          MaxBusy,  \* bound on the updates in flight together when one of the row begins
          MaxSeals, \* bound on the seals of a key
          Absent    \* no row

Nodes == [id: NodeIds, type: {"LLM", "Router"}, key: Keys]
Rows == [owner: Users, public: BOOLEAN, version: Nat, key: Keys, node: Nodes]

ASSUME BpAssumption ==
  /\ Absent \notin Rows /\ Users # {}
  /\ Originals \subseteq BpIds
  /\ \A c \in Configs : /\ {c.key, c.node} \subseteq {"given", "none", "nil", "mask", "keep"}
                        /\ c.id \in NodeIds /\ c.type \in {"LLM", "Router"}

VARIABLES
  master,    \* the running process has the master key
  everClear, \* history: some process ran without it
  bpRows,    \* the table
  bpDrawn,   \* ids drawn so far
  bpUpdate,  \* the update each request is busy with
  bpRun,     \* a run of a blueprint
  bpSeen     \* what the last step let out: the keys in a response to somebody
             \* else than the owner, or the key a model call was made on

keyVars == <<master, everClear>>
bpTable == <<bpRows, bpDrawn>>
bpVars == <<bpRows, bpDrawn, bpUpdate, bpRun, bpSeen>>

Idle == [phase |-> "idle"]
Nothing == [kind |-> "nothing"]
Quiet == bpSeen' = Nothing

Live(b) == bpRows[b] # Absent
Readable(u, b) == Live(b) /\ (bpRows[b].public \/ bpRows[b].owner = u)

BpInit ==
  /\ master \in BOOLEAN /\ everClear = ~master
  /\ bpRows = [b \in BpIds |-> Absent]
  /\ bpDrawn = {}
  /\ bpUpdate = [r \in Requests |-> Idle]
  /\ bpRun = Idle
  /\ bpSeen = Nothing

-----------------------------------------------------------------------------
\* What the table and the responses do to keys

\* encryptNodeConfig, for LLM nodes only: a mask in a node is saved as it is,
\* and so is a Router's key.
EncryptNode(n) ==
  IF n.type = "Router" \/ n.key = MaskKey THEN n
  ELSE [n EXCEPT !.key = Encrypt(@, master)]

\* encryptLLMConfig
Sealed(row) == [row EXCEPT !.key = Encrypt(@, master), !.node = EncryptNode(@)]

\* decryptLLMConfig fails as a whole when one key cannot be opened; a Router's
\* is handed on as it is stored.
CanOpen(row) == /\ CanDecrypt(row.key, master)
                /\ row.node.type = "LLM" => CanDecrypt(row.node.key, master)
DecryptNode(n) == IF n.type = "LLM" THEN Decrypt(n.key, master) ELSE n.key

\* Mutation: the nodes are forgotten.
ViewSkipsNode(row) == [row EXCEPT !.key = Masked(@)]

\* GetByID: masks in place of keys (clearNodeAPIKeys, LLM nodes only)
View(row) == [row EXCEPT !.key = Masked(@),
                !.node.key = IF row.node.type = "LLM" THEN Masked(@) ELSE @]

Show(u, row) ==
  bpSeen' = IF u = row.owner THEN Nothing
            ELSE [kind |-> "response", keys |-> {row.key, row.node.key}]

\* What a request of u brings: a configuration names a key of the blueprint
\* and of the node, each "given" (a new key of u's), or one of the blanks and
\* the mask, and the node's id and type.  An update may leave either out: it
\* names no provider, or no nodes ("keep").
KeyOf(k, u) == IF k = "given" THEN Given(u) ELSE [of |-> k, kind |-> "private", seals |-> 0]
NodeKeyOf(c, u) ==
  IF c.type = "Router" /\ c.node = "given" THEN [Given(u) EXCEPT !.kind = "bare"]
  ELSE KeyOf(c.node, u)
Whole == {c \in Configs : "keep" \notin {c.key, c.node}}
Brought(c, u) == [key |-> KeyOf(c.key, u),
                  node |-> [id |-> c.id, type |-> c.type, key |-> NodeKeyOf(c, u)]]

-----------------------------------------------------------------------------
\* Requests

Insert(row, ids) ==
  \E b \in ids \ bpDrawn :
    /\ bpRows' = [bpRows EXCEPT ![b] = row]
    /\ bpDrawn' = bpDrawn \cup {b}

\* POST /blueprints
BpCreate(u, pub, c) ==
  LET row == [owner |-> u, public |-> pub, version |-> 1,
              key |-> Brought(c, u).key, node |-> Brought(c, u).node]
  IN /\ Insert(Sealed(row), Originals)
     /\ Quiet
     /\ UNCHANGED <<bpUpdate, bpRun>>

\* Mutation: the stored row is cloned, not what the reader is shown.
CloneKeepsKeys(u, b) ==
  /\ Readable(u, b)
  /\ LET clone == [bpRows[b] EXCEPT !.owner = u, !.public = FALSE, !.version = 1]
     IN Insert(clone, BpIds \ Originals) /\ Show(u, View(bpRows[b]))
  /\ UNCHANGED <<bpUpdate, bpRun>>

\* POST /blueprints/:id/clone: a private copy of what the reader was shown.
BpClone(u, b) ==
  /\ Readable(u, b)
  /\ LET clone == [View(bpRows[b]) EXCEPT !.owner = u, !.public = FALSE,
                                          !.version = 1, !.key = NoKey]
     IN Insert(Sealed(clone), BpIds \ Originals) /\ Show(u, View(bpRows[b]))
  /\ UNCHANGED <<bpUpdate, bpRun>>

\* GET /blueprints/:id, /blueprints, /blueprints/public
BpGet(u, b) ==
  /\ Readable(u, b)
  /\ Show(u, View(bpRows[b]))
  /\ UNCHANGED <<bpTable, bpUpdate, bpRun>>

\* DELETE /blueprints/:id, one statement conditional on the owner
BpDelete(u, b) ==
  /\ Live(b) /\ bpRows[b].owner = u
  /\ bpRows' = [bpRows EXCEPT ![b] = Absent]
  /\ Quiet /\ UNCHANGED <<bpDrawn, bpUpdate, bpRun>>

\* PUT /blueprints/:id.  What the request leaves out stays as it was just read,
\* keys of LLM nodes masked.
UpdateRead(r, u, b, pub, c) ==
  /\ bpUpdate[r] = Idle
  /\ Readable(u, b) /\ bpRows[b].version < MaxVersion[b]
  /\ Cardinality({q \in Requests : bpUpdate[q] # Idle}) < MaxBusy[b]
  /\ bpUpdate' = [bpUpdate EXCEPT ![r] =
       [phase |-> "read", by |-> u, id |-> b, base |-> bpRows[b].version,
        row |-> [View(bpRows[b]) EXCEPT !.public = pub,
                   !.key = IF c.key = "keep" THEN @ ELSE Brought(c, u).key,
                   !.node = IF c.node = "keep" THEN @ ELSE Brought(c, u).node]]]
  /\ Quiet /\ UNCHANGED <<bpTable, bpRun>>

\* Mutation: readable is taken for owned.
CheckSkipped(r) ==
  /\ bpUpdate[r].phase = "read"
  /\ bpUpdate' = [bpUpdate EXCEPT ![r].phase = "checked", ![r].row.owner = bpUpdate[r].by]
  /\ Quiet /\ UNCHANGED <<bpTable, bpRun>>

\* BlueprintUseCase.Update reads the row again and refuses another's.
UpdateCheck(r) ==
  LET up == bpUpdate[r] IN
  /\ up.phase = "read"
  /\ bpUpdate' = [bpUpdate EXCEPT ![r] =
       IF Live(up.id) /\ bpRows[up.id].owner = up.by
       THEN [up EXCEPT !.phase = "checked", !.row.owner = up.by]
       ELSE Idle]
  /\ Quiet /\ UNCHANGED <<bpTable, bpRun>>

\* The keys an update keeps: the stored, sealed values, where the copy has
\* none or a mask (preserveNodeAPIKeys, for an LLM node with the id of a
\* stored node of either type).
KeptKey(k, old) == IF k \in {NoKey, MaskKey} THEN old.key ELSE k
KeptNode(n, old) ==
  IF /\ n.type = "LLM" /\ n.key \in {NoKey, MaskKey}
     /\ n.id = old.node.id /\ ~IsBlank(old.node.key)
  THEN [n EXCEPT !.key = old.node.key] ELSE n

WithKeptKeys(row, b) ==
  IF ~Live(b) THEN row
  ELSE [row EXCEPT !.key = KeptKey(@, bpRows[b]),
                   !.node = KeptNode(@, bpRows[b])]

\* repo.Update up to its Save; every key is then sealed, kept ones included.
\* The last conjunct bounds the seals.
UpdateKeep(r) ==
  LET up == bpUpdate[r]
      row == Sealed(WithKeptKeys([up.row EXCEPT !.version = @ + 1], up.id))
  IN /\ up.phase = "checked"
     /\ bpUpdate' = [bpUpdate EXCEPT ![r] = [up EXCEPT !.phase = "kept", !.row = row]]
     /\ Quiet /\ UNCHANGED <<bpTable, bpRun>>
     /\ row.key.seals <= MaxSeals /\ row.node.key.seals <= MaxSeals

\* db.Save writes every column, and inserts the row when there is none.
UpdateSave(r) ==
  LET up == bpUpdate[r] IN
  /\ up.phase = "kept"
  /\ bpRows' = [bpRows EXCEPT ![up.id] = up.row]
  /\ bpUpdate' = [bpUpdate EXCEPT ![r] = Idle]
  /\ Quiet /\ UNCHANGED <<bpDrawn, bpRun>>

-----------------------------------------------------------------------------
\* Runs of a blueprint

\* POST /chat/blueprint: GetForExecution opens every key, checks the access
\* and hands the blueprint to the workflow, node keys in clear.
StartRun(u, b) ==
  /\ bpRun = Idle
  /\ Readable(u, b) /\ CanOpen(bpRows[b])
  /\ bpRun' = [phase |-> "started", id |-> b, owner |-> bpRows[b].owner,
               node |-> DecryptNode(bpRows[b].node)]
  /\ Quiet /\ UNCHANGED <<bpTable, bpUpdate>>

\* getClientWithFallback: the node's key, else the blueprint's, which is read
\* now and not when the run started, else the server's.
ClientKey(run) ==
  IF ~IsBlank(run.node) THEN CreateClient(run.node)
  ELSE IF Live(run.id) /\ CanOpen(bpRows[run.id])
       THEN CreateClient(Decrypt(bpRows[run.id].key, master))
       ELSE CreateClient(NoKey)

NodeCall ==
  /\ bpRun # Idle
  /\ bpSeen' = [kind |-> "call", owner |-> bpRun.owner, key |-> ClientKey(bpRun)]
  /\ bpRun' = Idle
  /\ UNCHANGED <<bpTable, bpUpdate>>

-----------------------------------------------------------------------------
\* The process is started again, with or without the master key.  Requests in
\* flight are lost; a started run is Temporal's and goes on.
RestartWith(m) ==
  /\ master' = m
  /\ everClear' = (everClear \/ ~m)
  /\ bpUpdate' = [r \in Requests |-> Idle]
  /\ Quiet /\ UNCHANGED <<bpTable, bpRun>>

UserRequest(u) ==
  \/ \E pub \in BOOLEAN, c \in Whole : BpCreate(u, pub, c)
  \/ \E b \in BpIds :
       \/ BpClone(u, b)
       \/ BpGet(u, b)
       \/ BpDelete(u, b)
       \/ StartRun(u, b)
       \/ \E r \in Requests, pub \in BOOLEAN, c \in Configs : UpdateRead(r, u, b, pub, c)

BpNext ==
  /\ UNCHANGED keyVars
  /\ \/ \E u \in Users : UserRequest(u)
     \/ \E r \in Requests : UpdateCheck(r) \/ UpdateKeep(r) \/ UpdateSave(r)
     \/ NodeCall

Next == BpNext \/ \E m \in BOOLEAN : RestartWith(m)
vars == <<keyVars, bpVars>>
Spec == BpInit /\ [][Next]_vars

-----------------------------------------------------------------------------
\* Properties

\* Every row is typed and has a drawn id, and so has the copy of each update.
BpTypeOK ==
  /\ master \in BOOLEAN /\ everClear \in BOOLEAN
  /\ bpDrawn \subseteq BpIds
  /\ bpRows \in [BpIds -> Rows \cup {Absent}]
  /\ \A b \in BpIds : Live(b) => b \in bpDrawn
  /\ \A r \in Requests : bpUpdate[r] # Idle =>
       bpUpdate[r].id \in bpDrawn /\ bpUpdate[r].row \in Rows

\* A key that an account gave for a blueprint or an LLM node.
Private(v) == v.of \in Users /\ v.kind = "private"

\* The masks reach every reader (clearNodeAPIKeys, the list and clone paths):
\* whoever does not own a blueprint never gets such a key of it in a response,
\* neither in clear nor sealed, whatever was stored, kept or cloned before.
\* (A Router's key they do get, and their clones keep it.)
MaskedForOthers ==
  bpSeen.kind = "response" => \A v \in bpSeen.keys : ~Private(v)

\* Keys stay with the account that gave them, through public blueprints,
\* clones and interleaved updates: but for what was given to a Router, a row
\* holds its owner's keys only.
KeysStayWithTheirOwner ==
  \A b \in BpIds : Live(b) =>
    \A v \in {bpRows[b].key, bpRows[b].node.key} :
      Private(v) => v.of = bpRows[b].owner

\* With the master key in every process so far, what lies in the table in
\* clear is a mask (encryptNodeConfig skips it) or a Router's key; one that an
\* LLM node took over from a Router is sealed.
SealedAtRest ==
  ~everClear => \A b \in BpIds : Live(b) =>
    /\ bpRows[b].key.of \in Users => bpRows[b].key.seals > 0
    /\ bpRows[b].node.key.of \in Users /\ bpRows[b].node.key.seals = 0 =>
         bpRows[b].node.type = "Router" /\ bpRows[b].node.key.kind = "bare"

\* A model call of a run is made on the key of the account that owned the
\* blueprint, on a stored mask, on a key that somebody gave to a Router, or on
\* the server's key, although the key is looked up after the run started.
RunsOnTheOwnersKey ==
  bpSeen.kind = "call" /\ Private(bpSeen.key) => bpSeen.key.of = bpSeen.owner

\* Keys of blueprints and LLM nodes are hidden from everyone but their owner,
\* on the wire and in the table.
KeysStayHidden == MaskedForOthers /\ SealedAtRest

\* They stay with their owner, in the table and in the calls made on them.
KeysServeTheirOwner == KeysStayWithTheirOwner /\ RunsOnTheOwnersKey

\* The key an owner gives keeps working: what a model call is made on is the
\* clear key.  The comments of repo.Update ask for it: the stored sealed value
\* is kept, and only new values are sealed.
KeptKeysStillOpen ==
  bpSeen.kind = "call" /\ ~everClear => bpSeen.key.seals = 0

\* README.md, line 54: blueprint-level and node-level keys are encrypted in the
\* database; so is every node's key that lies in it, where all processes so far
\* had the master key.
NodeKeysEncrypted ==
  ~everClear => \A b \in BpIds : Live(b) /\ bpRows[b].node.key.of \in Users =>
                  bpRows[b].node.key.seals > 0

\* No update changes hands: the saved row has the owner the row had, also when
\* another user's update of a public blueprint is interleaved.
OwnerIsFixed ==
  [][\A b \in BpIds : Live(b) /\ bpRows'[b] # Absent =>
       bpRows'[b].owner = bpRows[b].owner]_bpRows

\* A deleted blueprint comes back only through an update that had passed the
\* owner check before the delete (db.Save inserts); a later request never
\* revives it.
DeletedStaysDeleted ==
  [][\A b \in bpDrawn : ~Live(b) /\ bpRows'[b] # Absent =>
       \E r \in Requests : bpUpdate[r] # Idle /\ bpUpdate[r].id = b]_bpRows

\* The version grows with every save, except when the saved copy was read
\* before somebody else's save or delete: then it may repeat or go back.
VersionGrowsUnlessStale ==
  [][\A b \in BpIds : Live(b) /\ bpRows'[b] \notin {Absent, bpRows[b]} =>
       \/ bpRows'[b].version > bpRows[b].version
       \/ \E r \in Requests : /\ bpUpdate[r] # Idle /\ bpUpdate[r].id = b
                              /\ bpUpdate[r].base # bpRows[b].version]_bpRows

\* What a request may do to another's row, a deleted one and an older one, with
\* the four statements of each update interleaved in any way.
RowsChangeLawfully == OwnerIsFixed /\ DeletedStaysDeleted /\ VersionGrowsUnlessStale
=============================================================================
