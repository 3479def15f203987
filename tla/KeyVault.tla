------------------------------ MODULE KeyVault ------------------------------
(***************************************************************************)
(* API keys as the tables hold them (pkg/crypto/crypto.go).                *)
(*                                                                         *)
(* A stored value is known by whose key it is and by how many times it was *)
(* sealed: Encrypt draws a fresh nonce and seals what it is given, sealed  *)
(* or not; Decrypt opens one seal and fails on a value that has none (the  *)
(* base64 decoding or the GCM tag rejects it).  A process without          *)
(* API_KEY_MASTER_KEY (`on' FALSE) stores and reads values as they are.    *)
(*                                                                         *)
(* A key given to a Router node of a blueprint is told from all others, as *)
(* `bare': a Router's configuration may carry a key (workflows.ts), but    *)
(* the repository seals and masks the keys of LLM nodes only.              *)
(***************************************************************************)
EXTENDS Naturals

CONSTANTS Users, \* the accounts; a key is named after the account that gave it
          System \* stands for the key of the server's own configuration

ASSUME KeyNames == /\ System \notin Users
                   /\ {"none", "nil", "mask"} \cap (Users \cup {System}) = {}

\* An empty api_key, a missing llm_config, and repo's APIKeyMask.
NoKey == [of |-> "none", kind |-> "private", seals |-> 0]
NoConf == [of |-> "nil", kind |-> "private", seals |-> 0]
MaskKey == [of |-> "mask", kind |-> "private", seals |-> 0]

Given(u) == [of |-> u, kind |-> "private", seals |-> 0]
IsBlank(v) == v \in {NoKey, NoConf}

Encrypt(v, on) == IF IsBlank(v) \/ ~on THEN v ELSE [v EXCEPT !.seals = @ + 1]

CanDecrypt(v, on) == IsBlank(v) \/ ~on \/ v.seals > 0
Decrypt(v, on) == IF IsBlank(v) \/ ~on THEN v ELSE [v EXCEPT !.seals = @ - 1]

\* What a reader is shown in place of a key.
Masked(v) == IF IsBlank(v) THEN v ELSE MaskKey

\* llm.LLMFactory.CreateClient: whose key a client made from the value v uses.
CreateClient(v) == IF IsBlank(v) THEN Given(System) ELSE v

Keys == {NoKey, NoConf, MaskKey} \cup
        [of: Users \cup {"mask"}, kind: {"private", "bare"}, seals: Nat]
=============================================================================
