-------------------------- MODULE BlueprintProofs --------------------------
(***************************************************************************)
(* What the interleaved requests of BlueprintStore can do to the keys and  *)
(* the owners of blueprints, for any users, blueprints, updates in flight, *)
(* configurations and bounds.                                              *)
(*                                                                         *)
(* The argument: an id has one owner from the insert that drew it onwards, *)
(* through deletes and the updates that bring a deleted row back.  The     *)
(* invariant is stated with that assignment of owners as a parameter.      *)
(***************************************************************************)
EXTENDS BlueprintStore, TLAPS

Updates == [phase: {"read", "checked", "kept"}, by: Users, id: BpIds, base: Nat,
            row: Rows]
Runs == [phase: {"started"}, id: BpIds, owner: Users, node: Keys]

\* Every private key in the row is u's, and a Router has none.
OwnKeys(row, u) == /\ Private(row.key) => row.key.of = u
                   /\ Private(row.node.key) => row.node.key.of = u
                   /\ row.node.type = "Router" => ~Private(row.node.key)

\* Every user's key in the row is sealed, but for a Router's.
SealedKeys(row) == /\ row.key.of \in Users => row.key.seals > 0
                   /\ row.node.key.of \in Users =>
                        row.node.key.seals > 0 \/ row.node.type = "Router"

-----------------------------------------------------------------------------
\* Keys and rows

LEMMA KeyFacts ==
  ASSUME NEW v \in Keys
  PROVE  /\ v.seals \in Nat
         /\ IsBlank(v) => v.of \notin Users
         /\ ~IsBlank(v) => /\ v.of \in Users \cup {"mask"}
                           /\ v = [of |-> v.of, kind |-> v.kind, seals |-> v.seals]
         /\ v.kind \in {"private", "bare"}
         /\ MaskKey.of \notin Users /\ NoKey.of \notin Users /\ NoConf.of \notin Users
<1>1. CASE v \in {NoKey, NoConf, MaskKey}
  BY <1>1, KeyNames DEF IsBlank, NoKey, NoConf, MaskKey
<1>2. CASE v \in [of: Users \cup {"mask"}, kind: {"private", "bare"}, seals: Nat]
  BY <1>2, KeyNames DEF IsBlank, NoKey, NoConf, MaskKey
<1> QED
  BY <1>1, <1>2 DEF Keys

LEMMA MasksAreNotPrivate ==
  \A v \in {NoKey, NoConf, MaskKey} : v \in Keys /\ ~Private(v)
BY KeyNames DEF Keys, NoKey, NoConf, MaskKey, Private

\* Sealing keeps whose key it is, and leaves no user's key in clear.
LEMMA EncryptFacts ==
  ASSUME NEW v \in Keys, NEW on \in BOOLEAN
  PROVE  /\ Encrypt(v, on) \in Keys
         /\ Encrypt(v, on).of = v.of /\ Encrypt(v, on).kind = v.kind
         /\ on = TRUE /\ v.of \in Users => Encrypt(v, on).seals > 0
<1>1. CASE IsBlank(v) \/ on = FALSE
  <2>1. Encrypt(v, on) = v
    BY <1>1 DEF Encrypt
  <2> QED
    BY <1>1, <2>1, KeyFacts
<1>2. CASE ~IsBlank(v) /\ on = TRUE
  <2>1. Encrypt(v, on) = [of |-> v.of, kind |-> v.kind, seals |-> v.seals + 1]
    BY <1>2, KeyFacts DEF Encrypt
  <2>2. v.of \in Users \cup {"mask"} /\ v.seals \in Nat /\ v.kind \in {"private", "bare"}
    BY <1>2, KeyFacts
  <2> QED
    BY <2>1, <2>2 DEF Keys
<1> QED
  BY <1>1, <1>2

\* Opening keeps whose key it is, where it succeeds.
LEMMA DecryptFacts ==
  ASSUME NEW v \in Keys, NEW on \in BOOLEAN, CanDecrypt(v, on)
  PROVE  /\ Decrypt(v, on) \in Keys
         /\ Decrypt(v, on).of = v.of /\ Decrypt(v, on).kind = v.kind
         /\ IsBlank(v) => IsBlank(Decrypt(v, on))
<1>1. CASE IsBlank(v) \/ on = FALSE
  BY <1>1 DEF Decrypt
<1>2. CASE ~IsBlank(v) /\ on = TRUE
  <2>1. Decrypt(v, on) = [of |-> v.of, kind |-> v.kind, seals |-> v.seals - 1]
    BY <1>2, KeyFacts DEF Decrypt
  <2>2. v.of \in Users \cup {"mask"} /\ v.seals \in Nat /\ v.seals > 0 /\ v.kind \in {"private", "bare"}
    BY <1>2, KeyFacts DEF CanDecrypt
  <2> QED
    BY <1>2, <2>1, <2>2 DEF Keys
<1> QED
  BY <1>1, <1>2

LEMMA RowFacts ==
  ASSUME NEW row \in Rows
  PROVE  /\ row.owner \in Users /\ row.public \in BOOLEAN /\ row.version \in Nat
         /\ row.key \in Keys /\ row.node \in Nodes
         /\ row.node.id \in NodeIds /\ row.node.key \in Keys
         /\ row.node.type \in {"LLM", "Router"}
BY DEF Rows, Nodes

LEMMA NodeSealed ==
  ASSUME NEW n \in Nodes, master \in BOOLEAN
  PROVE  /\ EncryptNode(n) \in Nodes
         /\ EncryptNode(n).key.of = n.key.of /\ EncryptNode(n).key.kind = n.key.kind
         /\ EncryptNode(n).type = n.type
         /\ master = TRUE /\ n.key.of \in Users =>
              EncryptNode(n).key.seals > 0 \/ n.type = "Router"
<1>1. n.key \in Keys /\ n.id \in NodeIds /\ n.type \in {"LLM", "Router"}
  BY DEF Nodes
<1>2. CASE n.type = "Router" \/ n.key = MaskKey
  BY <1>1, <1>2, KeyFacts DEF EncryptNode
<1>3. CASE ~(n.type = "Router" \/ n.key = MaskKey)
  <2>1. EncryptNode(n) = [n EXCEPT !.key = Encrypt(n.key, master)]
    BY <1>3 DEF EncryptNode, Nodes
  <2>2. /\ EncryptNode(n).key = Encrypt(n.key, master) /\ EncryptNode(n).id = n.id
        /\ EncryptNode(n).type = n.type
    BY <2>1 DEF Nodes
  <2>3. EncryptNode(n) \in Nodes
    BY <1>1, <2>1, EncryptFacts DEF Nodes
  <2> QED
    BY <1>1, <2>2, <2>3, EncryptFacts
<1> QED
  BY <1>2, <1>3

\* encryptLLMConfig
LEMMA RowSealed ==
  ASSUME NEW row \in Rows, master \in BOOLEAN
  PROVE  /\ Sealed(row) \in Rows
         /\ Sealed(row).owner = row.owner /\ Sealed(row).version = row.version
         /\ \A u \in Users : OwnKeys(row, u) => OwnKeys(Sealed(row), u)
         /\ master = TRUE => SealedKeys(Sealed(row))
<1>1. /\ Sealed(row) = [row EXCEPT !.key = Encrypt(row.key, master),
                                   !.node = EncryptNode(row.node)]
      /\ row.key \in Keys /\ row.node \in Nodes
  BY RowFacts DEF Sealed
<1>2. /\ Sealed(row).key = Encrypt(row.key, master)
      /\ Sealed(row).node = EncryptNode(row.node)
      /\ Sealed(row).owner = row.owner /\ Sealed(row).version = row.version
  BY <1>1 DEF Rows
<1>3. /\ Encrypt(row.key, master) \in Keys /\ Encrypt(row.key, master).of = row.key.of
      /\ Encrypt(row.key, master).kind = row.key.kind
      /\ master = TRUE /\ row.key.of \in Users => Encrypt(row.key, master).seals > 0
  BY <1>1, EncryptFacts
<1>4. /\ EncryptNode(row.node) \in Nodes /\ EncryptNode(row.node).key.of = row.node.key.of
      /\ EncryptNode(row.node).key.kind = row.node.key.kind
      /\ EncryptNode(row.node).type = row.node.type
      /\ master = TRUE /\ row.node.key.of \in Users =>
           EncryptNode(row.node).key.seals > 0 \/ row.node.type = "Router"
  BY <1>1, NodeSealed
<1>5. Sealed(row) \in Rows
  BY <1>1, <1>3, <1>4 DEF Rows
<1> QED
  BY <1>2, <1>3, <1>4, <1>5 DEF OwnKeys, SealedKeys, Private

\* What a reader is shown holds no private key.
LEMMA RowViewed ==
  ASSUME NEW row \in Rows, NEW u, OwnKeys(row, u)
  PROVE  /\ View(row) \in Rows
         /\ View(row).owner = row.owner /\ View(row).version = row.version
         /\ ~Private(View(row).key) /\ ~Private(View(row).node.key)
<1> DEFINE key == IF row.node.type = "LLM" THEN Masked(row.node.key) ELSE row.node.key
<1>1. Masked(row.key) \in Keys /\ ~Private(Masked(row.key))
  BY MasksAreNotPrivate DEF Masked, IsBlank
<1>2. key \in Keys /\ ~Private(key)
  BY MasksAreNotPrivate, RowFacts DEF Masked, IsBlank, OwnKeys
<1>3. View(row) = [row EXCEPT !.key = Masked(row.key),
                              !.node = [row.node EXCEPT !.key = key]]
  BY DEF View, Rows, Nodes
<1> HIDE DEF key
<1>4. /\ View(row).key = Masked(row.key) /\ View(row).node.key = key
      /\ View(row).owner = row.owner /\ View(row).version = row.version
  BY <1>3 DEF Rows, Nodes
<1>5. View(row) \in Rows
  BY <1>1, <1>2, <1>3 DEF Rows, Nodes
<1> QED
  BY <1>1, <1>2, <1>4, <1>5

\* What a request of u brings are keys of u's; what it leaves out is not looked at.
LEMMA KeysBrought ==
  ASSUME NEW c \in Configs, NEW u \in Users
  PROVE  /\ c.key # "keep" => /\ Brought(c, u).key \in Keys
                              /\ Private(Brought(c, u).key) => Brought(c, u).key.of = u
         /\ c.node # "keep" =>
              /\ Brought(c, u).node \in Nodes
              /\ Private(Brought(c, u).node.key) => Brought(c, u).node.key.of = u
              /\ Brought(c, u).node.type = "Router" => ~Private(Brought(c, u).node.key)
<1>1. \A k \in {"given", "none", "nil", "mask"} :
        /\ KeyOf(k, u) \in Keys /\ (KeyOf(k, u).of \in Users => KeyOf(k, u).of = u)
        /\ KeyOf(k, u).of \in Users => k = "given"
  BY KeyNames DEF KeyOf, Given, Keys, NoKey, NoConf, MaskKey
<1>2. /\ {c.key, c.node} \subseteq {"given", "none", "nil", "mask", "keep"}
      /\ c.id \in NodeIds /\ c.type \in {"LLM", "Router"}
  BY BpAssumption
<1>3. ASSUME c.node # "keep"
      PROVE  /\ NodeKeyOf(c, u) \in Keys
             /\ NodeKeyOf(c, u).of \in Users => NodeKeyOf(c, u).of = u
             /\ c.type = "Router" => ~Private(NodeKeyOf(c, u))
  <2>1. CASE c.type = "Router" /\ c.node = "given"
    <3>1. NodeKeyOf(c, u) = [of |-> u, kind |-> "bare", seals |-> 0]
      BY <2>1 DEF NodeKeyOf, Given
    <3> QED
      BY <3>1 DEF Keys, Private
  <2>2. CASE ~(c.type = "Router" /\ c.node = "given")
    <3>1. NodeKeyOf(c, u) = KeyOf(c.node, u)
      BY <2>2 DEF NodeKeyOf
    <3> QED
      BY <1>1, <1>2, <1>3, <2>2, <3>1 DEF Private
  <2> QED
    BY <2>1, <2>2
<1>4. Brought(c, u).key = KeyOf(c.key, u)
      /\ Brought(c, u).node = [id |-> c.id, type |-> c.type, key |-> NodeKeyOf(c, u)]
  BY DEF Brought
<1> QED
  BY <1>1, <1>2, <1>3, <1>4 DEF Nodes, Private

\* What an update puts back from the stored row.
LEMMA KeysKept ==
  ASSUME NEW row \in Rows, NEW b \in BpIds, bpRows[b] \in Rows \cup {Absent}
  PROVE  /\ WithKeptKeys(row, b) \in Rows
         /\ WithKeptKeys(row, b).owner = row.owner
         /\ WithKeptKeys(row, b).version = row.version
         /\ \A u \in Users : OwnKeys(row, u) /\ (Live(b) => OwnKeys(bpRows[b], u)) =>
              OwnKeys(WithKeptKeys(row, b), u)
<1>1. CASE ~Live(b)
  BY <1>1 DEF WithKeptKeys
<1>2. CASE Live(b)
  <2> DEFINE old == bpRows[b]
  <2> DEFINE key == KeptKey(row.key, old)
  <2> DEFINE node == KeptNode(row.node, old)
  <2>1. old \in Rows
    BY <1>2 DEF Live
  <2>2. /\ row.key \in Keys /\ row.node \in Nodes /\ old.key \in Keys /\ old.node \in Nodes
    BY <2>1, RowFacts
  <2>3. /\ key \in {row.key, old.key}
        /\ node.key \in {row.node.key, old.node.key}
        /\ node \in Nodes /\ node.type = row.node.type
        /\ node = row.node \/ node.type = "LLM"
    BY <2>2 DEF KeptKey, KeptNode, Nodes
  <2>4. WithKeptKeys(row, b) = [row EXCEPT !.key = key, !.node = node]
    BY <1>2, <2>2 DEF WithKeptKeys, Rows
  <2> HIDE DEF key, node, old
  <2>5. /\ WithKeptKeys(row, b) \in Rows
        /\ WithKeptKeys(row, b).key = key /\ WithKeptKeys(row, b).node = node
        /\ WithKeptKeys(row, b).owner = row.owner
        /\ WithKeptKeys(row, b).version = row.version
    BY <2>2, <2>3, <2>4 DEF Rows
  <2> QED
    BY <1>2, <2>3, <2>5 DEF OwnKeys, old
<1> QED
  BY <1>1, <1>2

-----------------------------------------------------------------------------
\* The invariant.  `own' assigns an owner to each id.

Owners == [BpIds -> Users]

Rooted ==
  /\ master \in BOOLEAN /\ everClear \in BOOLEAN
  /\ everClear = FALSE => master = TRUE
  /\ bpDrawn \subseteq BpIds
  /\ bpRows \in [BpIds -> Rows \cup {Absent}]
  /\ bpUpdate \in [Requests -> Updates \cup {Idle}]
  /\ bpRun \in Runs \cup {Idle}

RowOK(own, b) ==
  Live(b) => /\ b \in bpDrawn /\ bpRows[b].owner = own[b]
             /\ OwnKeys(bpRows[b], own[b])
             /\ everClear = FALSE => SealedKeys(bpRows[b])

UpdateOK(own, r) ==
  bpUpdate[r] # Idle =>
    LET up == bpUpdate[r]
    IN /\ up.id \in bpDrawn
       /\ OwnKeys(up.row, up.by)
       /\ up.phase # "read" => up.by = own[up.id] /\ up.row.owner = up.by
       /\ up.phase = "kept" => /\ up.row.version = up.base + 1
                               /\ everClear = FALSE => SealedKeys(up.row)
       /\ up.phase # "kept" => up.row.version = up.base

RunOK(own) ==
  bpRun # Idle => /\ bpRun.id \in bpDrawn /\ bpRun.owner = own[bpRun.id]
                  /\ Private(bpRun.node) => bpRun.node.of = bpRun.owner

SeenOK == MaskedForOthers /\ RunsOnTheOwnersKey

OwnedBy(own) == /\ \A b \in BpIds : RowOK(own, b)
                /\ \A r \in Requests : UpdateOK(own, r)
                /\ RunOK(own)

OwnersFixed == Rooted /\ \E own \in Owners : OwnedBy(own)

-----------------------------------------------------------------------------
\* Steps

\* A new row under an id not drawn before: the id gets its owner.
LEMMA InsertStep ==
  ASSUME NEW own \in Owners, Rooted, OwnedBy(own), NEW row \in Rows,
         NEW ids \in SUBSET BpIds, Insert(row, ids),
         OwnKeys(row, row.owner), everClear = FALSE => SealedKeys(row),
         UNCHANGED <<keyVars, bpUpdate, bpRun>>
  PROVE  /\ Rooted'
         /\ \E new \in Owners : OwnedBy(new)' /\ \A b \in bpDrawn : new[b] = own[b]
<1>1. PICK b \in BpIds \ bpDrawn : /\ bpRows' = [bpRows EXCEPT ![b] = row]
                                  /\ bpDrawn' = bpDrawn \cup {b}
  BY DEF Insert
<1> DEFINE new == [own EXCEPT ![b] = row.owner]
<1>2. Rooted'
  BY <1>1 DEF Rooted, keyVars
<1>3. new \in Owners /\ \A a \in bpDrawn : new[a] = own[a]
  BY <1>1, RowFacts DEF Owners
<1>4. ASSUME NEW a \in BpIds PROVE RowOK(new, a)'
  <2>1. CASE a = b
    <3>1. bpRows'[a] = row /\ new[a] = row.owner /\ a \in bpDrawn'
      BY <1>1, <2>1 DEF Rooted, Owners
    <3> QED
      BY <3>1 DEF RowOK, keyVars
  <2>2. CASE a # b
    <3>1. bpRows'[a] = bpRows[a] /\ new[a] = own[a]
      BY <1>1, <2>2 DEF Rooted, Owners
    <3>2. RowOK(own, a)
      BY DEF OwnedBy
    <3> QED
      BY <1>1, <3>1, <3>2 DEF RowOK, Live, keyVars
  <2> QED
    BY <2>1, <2>2
<1>5. ASSUME NEW r \in Requests PROVE UpdateOK(new, r)'
  <2>1. UpdateOK(own, r)
    BY DEF OwnedBy
  <2> QED
    BY <1>1, <1>3, <2>1 DEF UpdateOK, keyVars
<1>6. RunOK(new)'
  <2>1. RunOK(own)
    BY DEF OwnedBy
  <2> QED
    BY <1>1, <1>3, <2>1 DEF RunOK
<1> HIDE DEF new
<1> QED
  BY <1>2, <1>3, <1>4, <1>5, <1>6 DEF OwnedBy

\* A response to the owner, or one that holds no private key.
LEMMA ShowSafely ==
  ASSUME NEW u, NEW row, Show(u, row),
         u = row.owner \/ (~Private(row.key) /\ ~Private(row.node.key))
  PROVE  SeenOK'
BY DEF Show, Nothing, SeenOK, MaskedForOthers, RunsOnTheOwnersKey

LEMMA QuietIsSafe == ASSUME Quiet PROVE SeenOK'
BY DEF Quiet, Nothing, SeenOK, MaskedForOthers, RunsOnTheOwnersKey

\* The owners of all ids drawn so far survive the step.
OwnersSurvive(own) ==
  \E new \in Owners : OwnedBy(new)' /\ \A b \in bpDrawn : new[b] = own[b]

LEMMA CreateStep ==
  ASSUME NEW own \in Owners, Rooted, OwnedBy(own), UNCHANGED keyVars,
         NEW u \in Users, NEW pub \in BOOLEAN, NEW c \in Whole, BpCreate(u, pub, c)
  PROVE  Rooted' /\ OwnersSurvive(own) /\ SeenOK'
<1> DEFINE row == [owner |-> u, public |-> pub, version |-> 1,
                   key |-> Brought(c, u).key, node |-> Brought(c, u).node]
<1>1. /\ Insert(Sealed(row), Originals) /\ Quiet
      /\ UNCHANGED <<bpUpdate, bpRun>>
  BY DEF BpCreate
<1>2. row \in Rows /\ row.owner = u /\ OwnKeys(row, u)
  <2>1. c \in Configs /\ c.key # "keep" /\ c.node # "keep"
    BY DEF Whole
  <2>2. /\ Brought(c, u).key \in Keys
        /\ Private(Brought(c, u).key) => Brought(c, u).key.of = u
        /\ Brought(c, u).node \in Nodes
        /\ Private(Brought(c, u).node.key) => Brought(c, u).node.key.of = u
        /\ Brought(c, u).node.type = "Router" => ~Private(Brought(c, u).node.key)
    BY <2>1, KeysBrought
  <2> QED
    BY <2>2 DEF Rows, OwnKeys
<1> HIDE DEF row
<1>4. /\ Sealed(row) \in Rows /\ Sealed(row).owner = u /\ OwnKeys(Sealed(row), u)
      /\ everClear = FALSE => SealedKeys(Sealed(row))
  BY <1>2, RowSealed DEF Rooted
<1>5. Originals \in SUBSET BpIds
  BY BpAssumption
<1> QED
  BY <1>1, <1>4, <1>5, InsertStep, QuietIsSafe DEF OwnersSurvive

LEMMA CloneStep ==
  ASSUME NEW own \in Owners, Rooted, OwnedBy(own), UNCHANGED keyVars,
         NEW u \in Users, NEW b \in BpIds, BpClone(u, b)
  PROVE  Rooted' /\ OwnersSurvive(own) /\ SeenOK'
<1> DEFINE row == [View(bpRows[b]) EXCEPT !.owner = u, !.public = FALSE,
                                          !.version = 1, !.key = NoKey]
<1>1. /\ Live(b) /\ Insert(Sealed(row), BpIds \ Originals) /\ Show(u, View(bpRows[b]))
      /\ UNCHANGED <<bpUpdate, bpRun>>
  BY DEF BpClone, Readable
<1>2. /\ View(bpRows[b]) \in Rows /\ ~Private(View(bpRows[b]).key)
      /\ ~Private(View(bpRows[b]).node.key)
  BY <1>1, RowViewed DEF Rooted, Live, OwnedBy, RowOK
<1>3. /\ row \in Rows /\ row.owner = u /\ row.key = NoKey
      /\ row.node = View(bpRows[b]).node
  BY <1>2 DEF Rows, Keys
<1> HIDE DEF row
<1>4. OwnKeys(row, u)
  BY <1>2, <1>3, MasksAreNotPrivate DEF OwnKeys
<1>5. /\ Sealed(row) \in Rows /\ Sealed(row).owner = u /\ OwnKeys(Sealed(row), u)
      /\ everClear = FALSE => SealedKeys(Sealed(row))
  BY <1>3, <1>4, RowSealed DEF Rooted
<1> QED
  <2>1. SeenOK'
    BY <1>1, <1>2, ShowSafely
  <2>2. Rooted' /\ OwnersSurvive(own)
    BY <1>1, <1>5, InsertStep DEF OwnersSurvive
  <2> QED
    BY <2>1, <2>2

\* Steps that leave the owners as they are.
LEMMA SameOwners ==
  ASSUME NEW own \in Owners, OwnedBy(own)' PROVE OwnersSurvive(own)
BY DEF OwnersSurvive

LEMMA GetStep ==
  ASSUME NEW own \in Owners, Rooted, OwnedBy(own), UNCHANGED keyVars,
         NEW u \in Users, NEW b \in BpIds, BpGet(u, b)
  PROVE  Rooted' /\ OwnersSurvive(own) /\ SeenOK'
<1>1. /\ Live(b) /\ Show(u, View(bpRows[b]))
      /\ UNCHANGED <<keyVars, bpTable, bpUpdate, bpRun>>
  BY DEF BpGet, Readable
<1>2. SeenOK'
  BY <1>1, RowViewed, ShowSafely DEF Rooted, Live, OwnedBy, RowOK
<1>3. Rooted' /\ OwnedBy(own)'
  BY <1>1 DEF Rooted, OwnedBy, RowOK, UpdateOK, RunOK, Live, keyVars, bpTable
<1> QED
  BY <1>2, <1>3, SameOwners

LEMMA DeleteStep ==
  ASSUME NEW own \in Owners, Rooted, OwnedBy(own), UNCHANGED keyVars,
         NEW u \in Users, NEW b \in BpIds, BpDelete(u, b)
  PROVE  Rooted' /\ OwnersSurvive(own) /\ SeenOK'
<1>1. /\ bpRows' = [bpRows EXCEPT ![b] = Absent] /\ Quiet
      /\ UNCHANGED <<keyVars, bpDrawn, bpUpdate, bpRun>>
  BY DEF BpDelete
<1>2. \A a \in BpIds : bpRows'[a] = IF a = b THEN Absent ELSE bpRows[a]
  BY <1>1 DEF Rooted
<1>3. Rooted'
  BY <1>1 DEF Rooted, keyVars
<1>4. \A a \in BpIds : RowOK(own, a)'
  BY <1>1, <1>2 DEF OwnedBy, RowOK, Live, keyVars
<1>5. (\A r \in Requests : UpdateOK(own, r)') /\ RunOK(own)'
  BY <1>1 DEF OwnedBy, UpdateOK, RunOK, keyVars
<1> QED
  BY <1>1, <1>3, <1>4, <1>5, QuietIsSafe, SameOwners DEF OwnedBy

\* A change of one update in flight.
LEMMA UpdateStep ==
  ASSUME NEW own \in Owners, Rooted, OwnedBy(own), Quiet,
         UNCHANGED <<keyVars, bpTable, bpRun>>,
         NEW r \in Requests, NEW up \in Updates \cup {Idle},
         bpUpdate' = [bpUpdate EXCEPT ![r] = up],
         up # Idle =>
           /\ up.id \in bpDrawn
           /\ OwnKeys(up.row, up.by)
           /\ up.phase # "read" => up.by = own[up.id] /\ up.row.owner = up.by
           /\ up.phase = "kept" => /\ up.row.version = up.base + 1
                                   /\ everClear = FALSE => SealedKeys(up.row)
           /\ up.phase # "kept" => up.row.version = up.base
  PROVE  Rooted' /\ OwnersSurvive(own) /\ SeenOK'
<1>1. \A q \in Requests : bpUpdate'[q] = IF q = r THEN up ELSE bpUpdate[q]
  BY DEF Rooted
<1>2. Rooted'
  BY DEF Rooted, keyVars, bpTable
<1>3. ASSUME NEW q \in Requests PROVE UpdateOK(own, q)'
  <2>1. CASE q = r
    BY <1>1, <2>1 DEF UpdateOK, keyVars, bpTable
  <2>2. CASE q # r
    <3>1. UpdateOK(own, q) /\ bpUpdate'[q] = bpUpdate[q]
      BY <1>1, <2>2 DEF OwnedBy
    <3> QED
      BY <3>1 DEF UpdateOK, keyVars, bpTable
  <2> QED
    BY <2>1, <2>2
<1>4. (\A b \in BpIds : RowOK(own, b)') /\ RunOK(own)'
  BY DEF OwnedBy, RowOK, RunOK, Live, keyVars, bpTable
<1> QED
  BY <1>2, <1>3, <1>4, QuietIsSafe, SameOwners DEF OwnedBy

LEMMA UpdateReadStep ==
  ASSUME NEW own \in Owners, Rooted, OwnedBy(own), UNCHANGED keyVars,
         NEW r \in Requests, NEW u \in Users, NEW b \in BpIds, NEW pub \in BOOLEAN,
         NEW c \in Configs, UpdateRead(r, u, b, pub, c)
  PROVE  Rooted' /\ OwnersSurvive(own) /\ SeenOK'
<1> DEFINE view == View(bpRows[b])
<1> DEFINE key == IF c.key = "keep" THEN view.key ELSE Brought(c, u).key
<1> DEFINE node == IF c.node = "keep" THEN view.node ELSE Brought(c, u).node
<1> DEFINE row == [view EXCEPT !.public = pub, !.key = key, !.node = node]
<1> DEFINE up == [phase |-> "read", by |-> u, id |-> b, base |-> bpRows[b].version,
                  row |-> row]
<1>1. Live(b) /\ bpRows[b] \in Rows /\ b \in bpDrawn /\ OwnKeys(bpRows[b], own[b])
  BY DEF UpdateRead, Readable, Rooted, Live, OwnedBy, RowOK
<1>2. /\ view \in Rows /\ view.version = bpRows[b].version
      /\ ~Private(view.key) /\ ~Private(view.node.key)
  BY <1>1, RowViewed
<1>3. key \in Keys /\ (Private(key) => key.of = u)
  <2>1. view.key \in Keys
    BY <1>2, RowFacts
  <2> HIDE DEF view
  <2> QED
    BY <1>2, <2>1, KeysBrought
<1>4. /\ node \in Nodes /\ (Private(node.key) => node.key.of = u)
      /\ node.type = "Router" => ~Private(node.key)
  <2>1. view.node \in Nodes
    BY <1>2, RowFacts
  <2> HIDE DEF view
  <2>2. CASE c.node = "keep"
    BY <1>2, <2>1, <2>2
  <2>3. CASE c.node # "keep"
    <3>1. node = Brought(c, u).node
      BY <2>3
    <3> HIDE DEF node
    <3> QED
      BY <2>3, <3>1, KeysBrought
  <2> QED
    BY <2>2, <2>3
<1>5. /\ bpUpdate' = [bpUpdate EXCEPT ![r] = up] /\ Quiet
      /\ UNCHANGED <<keyVars, bpTable, bpRun>>
  <2>1. view \in Rows
    BY <1>2
  <2> QED
    BY <2>1 DEF UpdateRead, Rows
<1> HIDE DEF key, node
<1>6. /\ row \in Rows /\ row.key = key /\ row.node = node
      /\ row.version = bpRows[b].version /\ row.version \in Nat
  <2> HIDE DEF view
  <2> QED
    BY <1>2, <1>3, <1>4 DEF Rows
<1> HIDE DEF row
<1>7. OwnKeys(row, u)
  BY <1>3, <1>4, <1>6 DEF OwnKeys
<1>8. up \in Updates /\ up.phase = "read"
  BY <1>6 DEF Updates
<1>9. up.id = b /\ up.by = u /\ up.row = row /\ up.base = row.version
  BY <1>6
<1> HIDE DEF up
<1> QED
  BY <1>1, <1>5, <1>7, <1>8, <1>9, UpdateStep

\* An update in flight, past its type.
LEMMA InFlight ==
  ASSUME NEW own \in Owners, Rooted, OwnedBy(own), NEW r \in Requests,
         bpUpdate[r] # Idle
  PROVE  /\ bpUpdate[r] \in Updates
         /\ bpUpdate[r].by \in Users /\ bpUpdate[r].id \in bpDrawn
         /\ bpUpdate[r].id \in BpIds /\ bpUpdate[r].base \in Nat
         /\ bpUpdate[r].row \in Rows /\ OwnKeys(bpUpdate[r].row, bpUpdate[r].by)
BY DEF Rooted, OwnedBy, UpdateOK, Updates

LEMMA UpdateCheckStep ==
  ASSUME NEW own \in Owners, Rooted, OwnedBy(own), UNCHANGED keyVars,
         NEW r \in Requests, UpdateCheck(r)
  PROVE  Rooted' /\ OwnersSurvive(own) /\ SeenOK'
<1> DEFINE up == bpUpdate[r]
<1> DEFINE passed == [up EXCEPT !.phase = "checked", !.row.owner = up.by]
<1>1. up.phase = "read" /\ up # Idle
  BY DEF UpdateCheck, Idle
<1>2. Quiet /\ UNCHANGED <<keyVars, bpTable, bpRun>>
  BY DEF UpdateCheck
<1>3. CASE Live(up.id) /\ bpRows[up.id].owner = up.by
  <2>1. bpUpdate' = [bpUpdate EXCEPT ![r] = passed]
    BY <1>3 DEF UpdateCheck
  <2>2. /\ up \in Updates /\ up.by \in Users /\ up.id \in bpDrawn /\ up.id \in BpIds
        /\ up.row \in Rows /\ OwnKeys(up.row, up.by)
    BY <1>1, InFlight
  <2>3. up.by = own[up.id]
    BY <1>3, <2>2 DEF OwnedBy, RowOK
  <2>4. up.row.version = up.base
    BY <1>1 DEF OwnedBy, UpdateOK
  <2> HIDE DEF up
  <2>5. /\ passed.id = up.id /\ passed.by = up.by /\ passed.phase = "checked"
        /\ passed.base = up.base /\ passed.row = [up.row EXCEPT !.owner = up.by]
    BY <2>2 DEF Updates
  <2>6. /\ passed.row \in Rows /\ passed.row.owner = up.by
        /\ passed.row.version = up.row.version /\ OwnKeys(passed.row, up.by)
    BY <2>2, <2>5 DEF Rows, OwnKeys
  <2>7. passed = [up EXCEPT !.phase = "checked", !.row = [up.row EXCEPT !.owner = up.by]]
    BY <2>2 DEF Updates
  <2>8. passed \in Updates
    BY <2>2, <2>5, <2>6, <2>7 DEF Updates
  <2> HIDE DEF passed
  <2> QED
    BY <1>2, <2>1, <2>2, <2>3, <2>4, <2>5, <2>6, <2>8, UpdateStep
<1>4. CASE ~(Live(up.id) /\ bpRows[up.id].owner = up.by)
  <2>1. bpUpdate' = [bpUpdate EXCEPT ![r] = Idle]
    BY <1>4, Zenon DEF UpdateCheck
  <2> QED
    BY <1>2, <2>1, UpdateStep
<1> QED
  BY <1>3, <1>4

LEMMA UpdateKeepStep ==
  ASSUME NEW own \in Owners, Rooted, OwnedBy(own), UNCHANGED keyVars,
         NEW r \in Requests, UpdateKeep(r)
  PROVE  Rooted' /\ OwnersSurvive(own) /\ SeenOK'
<1> DEFINE up == bpUpdate[r]
<1> DEFINE next == [up.row EXCEPT !.version = up.row.version + 1]
<1> DEFINE merged == WithKeptKeys(next, up.id)
<1> DEFINE row == Sealed(merged)
<1> DEFINE kept == [up EXCEPT !.phase = "kept", !.row = row]
<1>1. up.phase = "checked" /\ up # Idle
  BY DEF UpdateKeep, Idle
<1>2. /\ up \in Updates /\ up.by \in Users /\ up.id \in bpDrawn /\ up.id \in BpIds
      /\ up.row \in Rows /\ OwnKeys(up.row, up.by) /\ up.base \in Nat
      /\ up.row.version = up.base /\ up.by = own[up.id] /\ up.row.owner = up.by
  BY <1>1, InFlight DEF OwnedBy, UpdateOK
<1>3. /\ bpUpdate' = [bpUpdate EXCEPT ![r] = kept] /\ Quiet
      /\ UNCHANGED <<keyVars, bpTable, bpRun>>
  BY <1>2 DEF UpdateKeep, Rows
<1>4. /\ Live(up.id) => OwnKeys(bpRows[up.id], up.by)
      /\ bpRows[up.id] \in Rows \cup {Absent}
  BY <1>2 DEF OwnedBy, RowOK, Rooted
<1> HIDE DEF up
<1>5. /\ next \in Rows /\ next.owner = up.by /\ next.version = up.base + 1
      /\ OwnKeys(next, up.by)
  BY <1>2 DEF Rows, OwnKeys
<1> HIDE DEF next
<1>6. /\ merged \in Rows /\ merged.owner = up.by /\ merged.version = up.base + 1
      /\ OwnKeys(merged, up.by)
  BY <1>2, <1>4, <1>5, KeysKept
<1> HIDE DEF merged
<1>7. /\ row \in Rows /\ row.owner = up.by /\ row.version = up.base + 1
      /\ OwnKeys(row, up.by) /\ (everClear = FALSE => SealedKeys(row))
  BY <1>2, <1>6, RowSealed DEF Rooted
<1> HIDE DEF row
<1>8. /\ kept \in Updates /\ kept.id = up.id /\ kept.by = up.by /\ kept.phase = "kept"
      /\ kept.base = up.base /\ kept.row = row
  BY <1>2, <1>7 DEF Updates
<1> HIDE DEF kept
<1> QED
  BY <1>2, <1>3, <1>7, <1>8, UpdateStep

LEMMA UpdateSaveStep ==
  ASSUME NEW own \in Owners, Rooted, OwnedBy(own), UNCHANGED keyVars,
         NEW r \in Requests, UpdateSave(r)
  PROVE  Rooted' /\ OwnersSurvive(own) /\ SeenOK'
<1> DEFINE up == bpUpdate[r]
<1>1. up.phase = "kept" /\ up # Idle
  BY DEF UpdateSave, Idle
<1>2. /\ up \in Updates /\ up.id \in bpDrawn /\ up.id \in BpIds /\ up.by \in Users
      /\ up.row \in Rows /\ OwnKeys(up.row, up.by)
      /\ up.by = own[up.id] /\ up.row.owner = up.by
      /\ everClear = FALSE => SealedKeys(up.row)
  BY <1>1, InFlight DEF OwnedBy, UpdateOK
<1>3. /\ bpRows' = [bpRows EXCEPT ![up.id] = up.row]
      /\ bpUpdate' = [bpUpdate EXCEPT ![r] = Idle]
      /\ Quiet /\ UNCHANGED <<keyVars, bpDrawn, bpRun>>
  BY DEF UpdateSave
<1> HIDE DEF up
<1>4. Rooted'
  BY <1>2, <1>3 DEF Rooted, keyVars
<1>5. ASSUME NEW b \in BpIds PROVE RowOK(own, b)'
  <2>1. CASE b = up.id
    <3>1. bpRows'[b] = up.row
      BY <1>2, <1>3, <2>1 DEF Rooted
    <3> QED
      BY <1>2, <1>3, <2>1, <3>1 DEF RowOK, keyVars
  <2>2. CASE b # up.id
    <3>1. bpRows'[b] = bpRows[b] /\ RowOK(own, b)
      BY <1>2, <1>3, <2>2 DEF Rooted, OwnedBy
    <3> QED
      BY <1>3, <3>1 DEF RowOK, Live, keyVars
  <2> QED
    BY <2>1, <2>2
<1>6. ASSUME NEW q \in Requests PROVE UpdateOK(own, q)'
  <2>1. bpUpdate'[q] = Idle \/ bpUpdate'[q] = bpUpdate[q]
    BY <1>3 DEF Rooted
  <2>2. UpdateOK(own, q)
    BY DEF OwnedBy
  <2> QED
    BY <1>3, <2>1, <2>2 DEF UpdateOK, keyVars
<1>7. RunOK(own)'
  BY <1>3 DEF OwnedBy, RunOK
<1> QED
  BY <1>3, <1>4, <1>5, <1>6, <1>7, QuietIsSafe, SameOwners DEF OwnedBy

\* A change of the run alone.
LEMMA RunStep ==
  ASSUME NEW own \in Owners, Rooted, OwnedBy(own),
         UNCHANGED <<keyVars, bpTable, bpUpdate>>, bpRun' \in Runs \cup {Idle},
         bpRun' # Idle => /\ bpRun'.id \in bpDrawn /\ bpRun'.owner = own[bpRun'.id]
                          /\ Private(bpRun'.node) => bpRun'.node.of = bpRun'.owner
  PROVE  Rooted' /\ OwnersSurvive(own)
<1>1. Rooted'
  BY DEF Rooted, keyVars, bpTable
<1>2. (\A b \in BpIds : RowOK(own, b)') /\ (\A r \in Requests : UpdateOK(own, r)')
  BY DEF OwnedBy, RowOK, UpdateOK, Live, keyVars, bpTable
<1>3. RunOK(own)'
  BY DEF RunOK, bpTable
<1> QED
  BY <1>1, <1>2, <1>3, SameOwners DEF OwnedBy

LEMMA StartStep ==
  ASSUME NEW own \in Owners, Rooted, OwnedBy(own), UNCHANGED keyVars,
         NEW u \in Users, NEW b \in BpIds, StartRun(u, b)
  PROVE  Rooted' /\ OwnersSurvive(own) /\ SeenOK'
<1> DEFINE key == DecryptNode(bpRows[b].node)
<1> DEFINE run == [phase |-> "started", id |-> b, owner |-> bpRows[b].owner, node |-> key]
<1>1. /\ bpRows[b] \in Rows /\ b \in bpDrawn /\ bpRows[b].owner = own[b]
      /\ OwnKeys(bpRows[b], own[b])
  BY DEF StartRun, Readable, Live, Rooted, OwnedBy, RowOK
<1>2. /\ bpRows[b].node.type = "LLM" => CanDecrypt(bpRows[b].node.key, master)
      /\ bpRows[b].node.key \in Keys
  BY <1>1, RowFacts DEF StartRun, CanOpen
<1>3. /\ key \in Keys /\ key.of = bpRows[b].node.key.of
      /\ key.kind = bpRows[b].node.key.kind
  BY <1>2, DecryptFacts DEF Rooted, DecryptNode
<1>4. /\ bpRun' = run /\ Quiet /\ UNCHANGED <<bpTable, bpUpdate>>
  BY DEF StartRun
<1> HIDE DEF key
<1>5. run \in Runs
  BY <1>1, <1>3, RowFacts DEF Runs
<1>6. /\ run.id \in bpDrawn /\ run.owner = own[run.id]
      /\ Private(run.node) => run.node.of = run.owner
  BY <1>1, <1>3 DEF OwnKeys, Private
<1> HIDE DEF run
<1> QED
  BY <1>4, <1>5, <1>6, RunStep, QuietIsSafe

\* A private key a call is made on is the run's owner's, although the row was
\* read later.
LEMMA CallStep ==
  ASSUME NEW own \in Owners, Rooted, OwnedBy(own), UNCHANGED keyVars, NodeCall
  PROVE  Rooted' /\ OwnersSurvive(own) /\ SeenOK'
<1>1. /\ bpRun \in Runs /\ bpRun.node \in Keys /\ bpRun.owner = own[bpRun.id]
      /\ bpRun.id \in BpIds
      /\ Private(bpRun.node) => bpRun.node.of = bpRun.owner
  BY DEF NodeCall, Rooted, Runs, OwnedBy, RunOK
<1>2. Rooted' /\ OwnersSurvive(own)
  BY RunStep DEF NodeCall
<1> DEFINE Served(v) == Private(v) => v.of = bpRun.owner
<1>3. ASSUME NEW v \in Keys, Served(v)
      PROVE  Served(CreateClient(v))
  BY <1>3, KeyNames DEF CreateClient, Given, Private
<1>4. Served(ClientKey(bpRun))
  <2>1. CASE ~IsBlank(bpRun.node)
    BY <1>1, <1>3, <2>1 DEF ClientKey
  <2>2. CASE IsBlank(bpRun.node) /\ Live(bpRun.id) /\ CanOpen(bpRows[bpRun.id])
    <3> DEFINE row == bpRows[bpRun.id]
    <3>1. row \in Rows /\ (Private(row.key) => row.key.of = bpRun.owner)
      BY <1>1, <2>2 DEF Rooted, OwnedBy, RowOK, Live, OwnKeys
    <3>2. row.key \in Keys /\ CanDecrypt(row.key, master)
      BY <2>2, <3>1, RowFacts DEF CanOpen
    <3>3. /\ Decrypt(row.key, master) \in Keys
          /\ Decrypt(row.key, master).of = row.key.of
          /\ Decrypt(row.key, master).kind = row.key.kind
      BY <3>2, DecryptFacts DEF Rooted
    <3>4. ClientKey(bpRun) = CreateClient(Decrypt(row.key, master))
      BY <2>2 DEF ClientKey
    <3> HIDE DEF row
    <3>5. Served(Decrypt(row.key, master))
      BY <3>1, <3>3 DEF Private
    <3> QED
      BY <1>3, <3>3, <3>4, <3>5
  <2>3. CASE IsBlank(bpRun.node) /\ ~(Live(bpRun.id) /\ CanOpen(bpRows[bpRun.id]))
    <3>1. ClientKey(bpRun) = CreateClient(NoKey)
      BY <2>3 DEF ClientKey
    <3> QED
      BY <1>3, <3>1, MasksAreNotPrivate
  <2> QED
    BY <2>1, <2>2, <2>3
<1>5. bpSeen' = [kind |-> "call", owner |-> bpRun.owner, key |-> ClientKey(bpRun)]
  BY DEF NodeCall
<1>6. SeenOK'
  BY <1>4, <1>5 DEF SeenOK, MaskedForOthers, RunsOnTheOwnersKey
<1> QED
  BY <1>2, <1>6

LEMMA RestartStep ==
  ASSUME NEW own \in Owners, Rooted, OwnedBy(own), NEW m \in BOOLEAN, RestartWith(m)
  PROVE  Rooted' /\ OwnersSurvive(own) /\ SeenOK'
<1>1. /\ master' = m /\ everClear' = (everClear \/ ~m)
      /\ bpUpdate' = [r \in Requests |-> Idle]
      /\ Quiet /\ UNCHANGED <<bpTable, bpRun>>
  BY DEF RestartWith
<1>2. everClear' \in BOOLEAN /\ (everClear' = FALSE => everClear = FALSE /\ m = TRUE)
  BY <1>1 DEF Rooted
<1>3. Rooted'
  BY <1>1, <1>2 DEF Rooted, bpTable
<1>4. \A b \in BpIds : RowOK(own, b)'
  BY <1>1, <1>2 DEF OwnedBy, RowOK, Live, bpTable
<1>5. (\A r \in Requests : UpdateOK(own, r)') /\ RunOK(own)'
  BY <1>1 DEF OwnedBy, UpdateOK, RunOK, bpTable
<1> QED
  BY <1>1, <1>3, <1>4, <1>5, QuietIsSafe, SameOwners DEF OwnedBy

\* Every step keeps the owners of the ids drawn before it.
LEMMA StoreStep ==
  ASSUME NEW own \in Owners, Rooted, OwnedBy(own), SeenOK, [Next]_vars
  PROVE  Rooted' /\ OwnersSurvive(own) /\ SeenOK'
<1>1. CASE UNCHANGED vars
  <2>1. UNCHANGED <<keyVars, bpTable, bpUpdate, bpRun, bpSeen>>
    BY <1>1 DEF vars, bpVars, bpTable
  <2>2. bpRun' \in Runs \cup {Idle} /\ RunOK(own)
    BY <2>1 DEF Rooted, OwnedBy
  <2>3. Rooted' /\ OwnersSurvive(own)
    BY <2>1, <2>2, RunStep DEF RunOK
  <2> QED
    BY <2>1, <2>3 DEF SeenOK, MaskedForOthers, RunsOnTheOwnersKey
<1>2. ASSUME NEW m \in BOOLEAN, RestartWith(m)
      PROVE  Rooted' /\ OwnersSurvive(own) /\ SeenOK'
  BY <1>2, RestartStep
<1>3. ASSUME NEW u \in Users, UserRequest(u), UNCHANGED keyVars
      PROVE  Rooted' /\ OwnersSurvive(own) /\ SeenOK'
  BY <1>3, CreateStep, CloneStep, GetStep, DeleteStep, StartStep, UpdateReadStep
     DEF UserRequest
<1>4. ASSUME NEW r \in Requests, UpdateCheck(r) \/ UpdateKeep(r) \/ UpdateSave(r),
             UNCHANGED keyVars
      PROVE  Rooted' /\ OwnersSurvive(own) /\ SeenOK'
  BY <1>4, UpdateCheckStep, UpdateKeepStep, UpdateSaveStep
<1>5. CASE NodeCall /\ UNCHANGED keyVars
  BY <1>5, CallStep
<1> QED
  BY <1>1, <1>2, <1>3, <1>4, <1>5 DEF Next, BpNext

LEMMA OwnersStart == BpInit => OwnersFixed /\ SeenOK
<1> SUFFICES ASSUME BpInit PROVE OwnersFixed /\ SeenOK
  OBVIOUS
<1>1. Rooted
  BY DEF BpInit, Rooted
<1>2. SeenOK
  BY DEF BpInit, Nothing, SeenOK, MaskedForOthers, RunsOnTheOwnersKey
<1>3. \A own : OwnedBy(own)
  BY DEF BpInit, OwnedBy, RowOK, UpdateOK, RunOK, Live
<1>4. PICK u \in Users : TRUE
  BY BpAssumption
<1>5. [b \in BpIds |-> u] \in Owners
  BY DEF Owners
<1> QED
  BY <1>1, <1>2, <1>3, <1>5 DEF OwnersFixed

LEMMA OwnersInvariant == Spec => [](OwnersFixed /\ SeenOK)
<1>1. OwnersFixed /\ SeenOK /\ [Next]_vars => (OwnersFixed /\ SeenOK)'
  BY StoreStep DEF OwnersFixed, OwnersSurvive
<1> QED
  BY <1>1, OwnersStart, PTL DEF Spec

-----------------------------------------------------------------------------
\* Theorems

\* Types of the table and of the updates in flight; a row or an update names an
\* id that Create or Clone drew.
THEOREM BlueprintTypeCorrect == Spec => []BpTypeOK
<1>1. OwnersFixed => BpTypeOK
  <2> SUFFICES ASSUME Rooted, NEW own \in Owners, OwnedBy(own) PROVE BpTypeOK
    BY DEF OwnersFixed
  <2>1. \A b \in BpIds : Live(b) => b \in bpDrawn
    BY DEF OwnedBy, RowOK
  <2>2. \A r \in Requests : bpUpdate[r] # Idle =>
          bpUpdate[r].id \in bpDrawn /\ bpUpdate[r].row \in Rows
    BY InFlight
  <2> QED
    BY <2>1, <2>2 DEF BpTypeOK, Rooted
<1> QED
  BY <1>1, OwnersInvariant, PTL

\* However requests, deletes, clones, runs and restarts interleave, nobody but
\* its owner is shown a key given for a blueprint or an LLM node, and no key but
\* a Router's lies in the table in clear where every process had the master key.
THEOREM KeysAreHidden == Spec => []KeysStayHidden
<1>1. OwnersFixed /\ SeenOK => KeysStayHidden
  <2> SUFFICES ASSUME OwnersFixed, SeenOK, ~everClear, NEW b \in BpIds, Live(b)
               PROVE  /\ bpRows[b].key.of \in Users => bpRows[b].key.seals > 0
                      /\ bpRows[b].node.key.of \in Users /\ bpRows[b].node.key.seals = 0 =>
                           bpRows[b].node.type = "Router" /\ bpRows[b].node.key.kind = "bare"
    BY DEF SeenOK, KeysStayHidden, SealedAtRest
  <2> PICK own \in Owners : OwnedBy(own)
    BY DEF OwnersFixed
  <2> Rooted /\ everClear = FALSE
    BY DEF OwnersFixed
  <2>1. bpRows[b] \in Rows /\ OwnKeys(bpRows[b], own[b]) /\ SealedKeys(bpRows[b])
    BY DEF Rooted, OwnedBy, RowOK, Live
  <2>2. /\ bpRows[b].node.key.seals \in Nat
        /\ bpRows[b].node.key.kind \in {"private", "bare"}
    BY <2>1, RowFacts, KeyFacts
  <2> QED
    BY <2>1, <2>2 DEF OwnKeys, SealedKeys, Private
<1> QED
  BY <1>1, OwnersInvariant, PTL

\* Of the keys given for blueprints and LLM nodes, a row holds its owner's only,
\* and a run calls models on its owner's only, although it looks the key up
\* after it was started.
THEOREM KeysServeOwners == Spec => []KeysServeTheirOwner
<1>1. OwnersFixed /\ SeenOK => KeysServeTheirOwner
  BY DEF OwnersFixed, OwnedBy, RowOK, OwnKeys, SeenOK, KeysServeTheirOwner,
         KeysStayWithTheirOwner
<1> QED
  BY <1>1, OwnersInvariant, PTL

\* Which row a step writes, and what it was before.
LEMMA RowsWritten ==
  ASSUME NEW own \in Owners, Rooted, OwnedBy(own), [Next]_vars, NEW b \in BpIds,
         bpRows'[b] # bpRows[b]
  PROVE  \/ ~Live(b) /\ b \notin bpDrawn
         \/ bpRows'[b] = Absent
         \/ \E r \in Requests : /\ bpUpdate[r] # Idle /\ bpUpdate[r].id = b
                                /\ bpRows'[b] = bpUpdate[r].row
                                /\ bpUpdate[r].row.version = bpUpdate[r].base + 1
<1>1. ASSUME NEW row, NEW ids, Insert(row, ids) PROVE ~Live(b) /\ b \notin bpDrawn
  BY <1>1 DEF Insert, OwnedBy, RowOK, Rooted
<1>2. ASSUME NEW u \in Users, BpDelete(u, b) PROVE bpRows'[b] = Absent
  BY <1>2 DEF BpDelete, Rooted
<1>3. ASSUME NEW u \in Users, NEW a \in BpIds, BpDelete(u, a), a # b PROVE FALSE
  BY <1>3 DEF BpDelete, Rooted
<1>4. ASSUME NEW r \in Requests, UpdateSave(r)
      PROVE  /\ bpUpdate[r] # Idle /\ bpUpdate[r].id = b
             /\ bpRows'[b] = bpUpdate[r].row
             /\ bpUpdate[r].row.version = bpUpdate[r].base + 1
  <2>1. bpUpdate[r].phase = "kept" /\ bpUpdate[r] # Idle
    BY <1>4 DEF UpdateSave, Idle
  <2>2. bpRows' = [bpRows EXCEPT ![bpUpdate[r].id] = bpUpdate[r].row]
    BY <1>4 DEF UpdateSave
  <2> QED
    BY <2>1, <2>2 DEF Rooted, OwnedBy, UpdateOK
<1>5. bpRows' # bpRows
  OBVIOUS
<1>6. ASSUME NEW u \in Users, UserRequest(u)
      PROVE  \/ ~Live(b) /\ b \notin bpDrawn
             \/ bpRows'[b] = Absent
  BY <1>1, <1>2, <1>3, <1>5, <1>6
     DEF UserRequest, BpCreate, BpClone, BpGet, StartRun, UpdateRead, bpTable
<1>7. ~UNCHANGED vars /\ ~NodeCall /\ (\A m \in BOOLEAN : ~RestartWith(m))
      /\ \A r \in Requests : ~UpdateCheck(r) /\ ~UpdateKeep(r)
  BY <1>5 DEF vars, bpVars, NodeCall, RestartWith, UpdateCheck, UpdateKeep, bpTable
<1> QED
  BY <1>4, <1>6, <1>7 DEF Next, BpNext

\* No update changes the owner of a row; a deleted row comes back only by an
\* update that was in flight; and the version of a row grows unless the saved
\* copy was read before another save.
THEOREM RowsObeyTheLaw == Spec => RowsChangeLawfully
<1>1. OwnersFixed /\ SeenOK /\ [Next]_vars =>
        [\A b \in BpIds : Live(b) /\ bpRows'[b] # Absent =>
           bpRows'[b].owner = bpRows[b].owner]_bpRows
  <2> SUFFICES ASSUME Rooted, NEW own \in Owners, OwnedBy(own), SeenOK, [Next]_vars,
                      NEW b \in BpIds, Live(b), bpRows'[b] # Absent
               PROVE  bpRows'[b].owner = bpRows[b].owner
    BY DEF OwnersFixed
  <2>1. PICK new \in Owners : OwnedBy(new)' /\ \A a \in bpDrawn : new[a] = own[a]
    BY StoreStep DEF OwnersSurvive
  <2>2. bpRows[b].owner = own[b] /\ b \in bpDrawn
    BY DEF OwnedBy, RowOK
  <2>3. bpRows'[b].owner = new[b]
    BY <2>1 DEF OwnedBy, RowOK, Live
  <2> QED
    BY <2>1, <2>2, <2>3
<1>2. OwnersFixed /\ SeenOK /\ [Next]_vars =>
        [\A b \in bpDrawn : ~Live(b) /\ bpRows'[b] # Absent =>
           \E r \in Requests : bpUpdate[r] # Idle /\ bpUpdate[r].id = b]_bpRows
  <2> SUFFICES ASSUME Rooted, NEW own \in Owners, OwnedBy(own), [Next]_vars,
                      NEW b \in bpDrawn, ~Live(b), bpRows'[b] # Absent
               PROVE  \E r \in Requests : bpUpdate[r] # Idle /\ bpUpdate[r].id = b
    BY DEF OwnersFixed
  <2>1. b \in BpIds /\ bpRows'[b] # bpRows[b]
    BY DEF Rooted, Live
  <2> QED
    BY <2>1, RowsWritten
<1>3. OwnersFixed /\ SeenOK /\ [Next]_vars =>
        [\A b \in BpIds : Live(b) /\ bpRows'[b] \notin {Absent, bpRows[b]} =>
           \/ bpRows'[b].version > bpRows[b].version
           \/ \E r \in Requests : /\ bpUpdate[r] # Idle /\ bpUpdate[r].id = b
                                  /\ bpUpdate[r].base # bpRows[b].version]_bpRows
  <2> SUFFICES ASSUME Rooted, NEW own \in Owners, OwnedBy(own), [Next]_vars,
                      NEW b \in BpIds, Live(b), bpRows'[b] \notin {Absent, bpRows[b]}
               PROVE  \/ bpRows'[b].version > bpRows[b].version
                      \/ \E r \in Requests : /\ bpUpdate[r] # Idle /\ bpUpdate[r].id = b
                                             /\ bpUpdate[r].base # bpRows[b].version
    BY DEF OwnersFixed
  <2>1. PICK r \in Requests : /\ bpUpdate[r] # Idle /\ bpUpdate[r].id = b
                              /\ bpRows'[b] = bpUpdate[r].row
                              /\ bpUpdate[r].row.version = bpUpdate[r].base + 1
    BY RowsWritten
  <2>2. bpUpdate[r].base \in Nat
    BY <2>1, InFlight
  <2> QED
    BY <2>1, <2>2
<1> QED
  BY <1>1, <1>2, <1>3, OwnersInvariant, PTL
     DEF Spec, RowsChangeLawfully, OwnerIsFixed, DeletedStaysDeleted, VersionGrowsUnlessStale
===========================================================================
