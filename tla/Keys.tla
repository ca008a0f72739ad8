-------------------------------- MODULE Keys --------------------------------
(***************************************************************************)
(* The life of API keys: KeyService (create, revoke, rotate, bootstrap)    *)
(* and the Auth middleware with its asynchronous Touch, over the shared    *)
(* key store, used by several replicas and administrators at once.  Every  *)
(* store call is one atomic statement; between two calls of one operation  *)
(* anything may happen.  A store call may fail, and a write may be applied *)
(* and still be reported as failed (the connection or the request context  *)
(* ends while the statement runs).                                         *)
(*                                                                         *)
(* A plaintext and its SHA-256 hash are the same value here, a secret:     *)
(* only the store's lookups by hash and the plaintext's path to its owner  *)
(* matter.                                                                 *)
(***************************************************************************)
EXTENDS Integers, FiniteSets

CONSTANTS Secrets,       \* plaintext keys
          Seed,          \* BOOTSTRAP_API_KEY, NoSeed when it is empty
          NoSeed,
          None,
          Never,         \* no expiry
          Inputs,        \* what administrators ask CreateKey for
          Admins,        \* handlers of /keys requests
          Replicas,      \* API processes, which bootstrap when they start
          Clients,       \* authenticated requests
          MaxKeys,       \* bound on rows of api_keys
          MaxTime,       \* bound on the clock
          MaxRestarts    \* bound on restarts of replicas

Scopes == {"tw", "admin"}
Ranks  == {"member", "partner", "admin"}
Times  == 0..MaxTime

\* CreateApiKeyInput; a rank of "" asks for the default.
Input == [nameOk  : BOOLEAN,
          rank    : Ranks \cup {"", "other"},
          scopes  : SUBSET (Scopes \cup {"other"}),
          expires : Times \cup {Never}]

ASSUME KeysAssumption ==
  /\ Seed \in Secrets \cup {NoSeed}
  /\ NoSeed \notin Secrets
  /\ None \notin Secrets
  /\ Never \notin Times
  /\ Inputs \subseteq Input
  /\ MaxKeys \in Nat /\ MaxTime \in Nat /\ MaxRestarts \in Nat

Ids == 1..MaxKeys

VARIABLES
  keys,        \* api_keys: the row of each id, or None
  nextID,      \* the sequence behind id
  now,         \* the clock
  op,          \* the /keys operation each administrator's handler is in
  boot,        \* the Bootstrap of each replica
  restarts,
  cl,          \* the authenticated request of each client
  generated,   \* secrets apikey.Generate has returned
  replaced,    \* replaced[id]: secrets of the rotations that revoked id
  failed,      \* secrets of the rotations that ended in an error
  revokedOk    \* secrets whose revocation was reported as done

store   == <<keys, nextID>>
history == <<generated, replaced, failed, revokedOk>>
vars    == <<store, now, op, boot, restarts, cl, history>>

Row == [secret  : Secrets,
        rank    : Ranks,
        scopes  : SUBSET Scopes,
        expires : Times \cup {Never},
        revoked : BOOLEAN,
        uses    : Nat]

ASSUME NoneAssumption == None \notin Row

Rows == {id \in Ids : keys[id] # None}

IdleOp     == [pc |-> "idle", id |-> 0, row |-> None]
IdleClient == [pc |-> "idle", id |-> 0, row |-> None, dead |-> FALSE]

Init ==
  /\ keys = [id \in Ids |-> None]
  /\ nextID = 1
  /\ now = 0
  /\ op = [a \in Admins |-> IdleOp]
  /\ boot = [i \in Replicas |-> [pc |-> "lookup", secret |-> None]]
  /\ restarts = 0
  /\ cl = [c \in Clients |-> IdleClient]
  /\ generated = {}
  /\ replaced = [id \in Ids |-> {}]
  /\ failed = {}
  /\ revokedOk = {}

-----------------------------------------------------------------------------
(***************************************************************************)
(* The store's statements.                                                 *)
(***************************************************************************)
Exists(secret) == \E id \in Rows : keys[id].secret = secret

\* Create: the INSERT, refused by the UNIQUE constraint for a known hash.
Insert(row) ==
  /\ nextID \in Ids
  /\ ~Exists(row.secret)
  /\ keys' = [keys EXCEPT ![nextID] = row]
  /\ nextID' = nextID + 1

\* Revoke: UPDATE ... SET revoked_at = now() WHERE id = $1
SetRevoked(id) == keys' = [keys EXCEPT ![id].revoked = TRUE] /\ UNCHANGED nextID

NewRow(secret, rank, scopes, expires) ==
  [secret |-> secret, rank |-> rank, scopes |-> scopes, expires |-> expires,
   revoked |-> FALSE, uses |-> 0]

Expired(row) == row.expires # Never /\ row.expires <= now

-----------------------------------------------------------------------------
(***************************************************************************)
(* KeyService.CreateKey up to the INSERT: validation, the default rank and *)
(* a fresh secret.  A rejected input changes nothing.                      *)
(***************************************************************************)
\* Mutant: unknown scopes are let through.
ValidInput_AnyScope(in) ==
  /\ in.nameOk
  /\ in.scopes # {}
  /\ in.rank \in Ranks \cup {""}
  /\ ~Expired(in)

ValidInput(in) ==
  /\ in.nameOk
  /\ in.scopes # {}
  /\ in.scopes \subseteq Scopes
  /\ in.rank \in Ranks \cup {""}
  /\ ~Expired(in)

RankOf(in) == IF in.rank = "" THEN "member" ELSE in.rank

RowFrom(in, secret) == NewRow(secret, RankOf(in), in.scopes, in.expires)

Generate(secret) ==
  /\ secret \in Secrets \ (generated \cup {Seed})
  /\ generated' = generated \cup {secret}

CreateKey(a, in, secret) ==
  /\ op[a].pc = "idle"
  /\ ValidInput(in)
  /\ Generate(secret)
  /\ op' = [op EXCEPT ![a] = [pc |-> "create", id |-> 0,
                              row |-> RowFrom(in, secret)]]
  /\ UNCHANGED <<store, now, boot, restarts, cl, replaced, failed, revokedOk>>

\* The INSERT of CreateKey goes through, whether or not the service is told.
CreateInsert(a) ==
  /\ op[a].pc = "create"
  /\ Insert(op[a].row)
  /\ op' = [op EXCEPT ![a] = IdleOp]
  /\ UNCHANGED <<now, boot, restarts, cl, generated, replaced, failed, revokedOk>>

\* The INSERT of CreateKey or of RotateKey fails: an error is returned.
CreateFails(a) ==
  /\ op[a].pc \in {"create", "replace"}
  /\ failed' = IF op[a].pc = "replace" THEN failed \cup {op[a].row.secret} ELSE failed
  /\ op' = [op EXCEPT ![a] = IdleOp]
  /\ UNCHANGED <<store, now, boot, restarts, cl, generated, replaced, revokedOk>>

(***************************************************************************)
(* KeyService.RevokeKey.  A key that is already revoked is revoked again.  *)
(***************************************************************************)
RevokeKey(a, id, told) ==
  /\ op[a].pc = "idle"
  /\ id \in Rows
  /\ SetRevoked(id)
  /\ revokedOk' = IF told THEN revokedOk \cup {keys[id].secret} ELSE revokedOk
  /\ UNCHANGED <<now, op, boot, restarts, cl, generated, replaced, failed>>

(***************************************************************************)
(* KeyService.RotateKey: read the row with List, create the replacement    *)
(* from what was read, then revoke the old key by its id.                  *)
(***************************************************************************)
InputOf(row) == [nameOk |-> TRUE, rank |-> row.rank, scopes |-> row.scopes,
                 expires |-> row.expires]

\* Mutant: the old key is revoked before its replacement exists.
RotateKey_RevokeFirst(a, id, secret) ==
  /\ op[a].pc = "idle"
  /\ id \in Rows
  /\ ValidInput(InputOf(keys[id]))
  /\ Generate(secret)
  /\ op' = [op EXCEPT ![a] = [pc |-> "replace", id |-> id,
                              row |-> RowFrom(InputOf(keys[id]), secret)]]
  /\ SetRevoked(id)
  /\ replaced' = [replaced EXCEPT ![id] = @ \cup {secret}]
  /\ UNCHANGED <<now, boot, restarts, cl, failed, revokedOk>>

RotateKey(a, id, secret) ==
  /\ op[a].pc = "idle"
  /\ id \in Rows
  /\ ValidInput(InputOf(keys[id]))
  /\ Generate(secret)
  /\ op' = [op EXCEPT ![a] = [pc |-> "replace", id |-> id,
                              row |-> RowFrom(InputOf(keys[id]), secret)]]
  /\ UNCHANGED <<store, now, boot, restarts, cl, replaced, failed, revokedOk>>

\* The same for RotateKey; told: the result reached the service.
RotateInsert(a, told) ==
  /\ op[a].pc = "replace"
  /\ Insert(op[a].row)
  /\ IF told
     THEN /\ op' = [op EXCEPT ![a].pc = "revoke"]
          /\ UNCHANGED failed
     ELSE /\ op' = [op EXCEPT ![a] = IdleOp]
          /\ failed' = failed \cup {op[a].row.secret}
  /\ UNCHANGED <<now, boot, restarts, cl, generated, replaced, revokedOk>>

RotateRevoke(a, told) ==
  /\ op[a].pc = "revoke"
  /\ SetRevoked(op[a].id)
  /\ replaced' = [replaced EXCEPT ![op[a].id] = @ \cup {op[a].row.secret}]
  /\ IF told
     THEN /\ revokedOk' = revokedOk \cup {keys[op[a].id].secret}
          /\ UNCHANGED failed
     ELSE /\ failed' = failed \cup {op[a].row.secret}
          /\ UNCHANGED revokedOk
  /\ op' = [op EXCEPT ![a] = IdleOp]
  /\ UNCHANGED <<now, boot, restarts, cl, generated>>

\* The revocation fails (for instance, the client has gone): the replacement
\* stays and its plaintext is dropped with the error return.
RotateRevokeFails(a) ==
  /\ op[a].pc = "revoke"
  /\ failed' = failed \cup {op[a].row.secret}
  /\ op' = [op EXCEPT ![a] = IdleOp]
  /\ UNCHANGED <<store, now, boot, restarts, cl, generated, replaced, revokedOk>>

-----------------------------------------------------------------------------
(***************************************************************************)
(* KeyService.Bootstrap, called by NewRouter when a replica starts.  The   *)
(* replica serves requests whether or not it succeeded.                    *)
(***************************************************************************)
\* Mutant: a failing lookup is taken for a key that is already there.
BootLookupSeed_ErrorIsFound(i) ==
  /\ boot[i].pc = "lookup" /\ Seed # NoSeed
  /\ boot' = [boot EXCEPT ![i] = [pc |-> "ok", secret |-> Seed]]
  /\ UNCHANGED <<store, now, op, restarts, cl, history>>

\* GetByHash finds the seed: done.  Anything else, an error too: register it.
BootLookupSeed(i) ==
  /\ boot[i].pc = "lookup" /\ Seed # NoSeed
  /\ \/ /\ Exists(Seed)
        /\ boot' = [boot EXCEPT ![i] = [pc |-> "ok", secret |-> Seed]]
     \/ boot' = [boot EXCEPT ![i] = [pc |-> "create", secret |-> Seed]]
  /\ UNCHANGED <<store, now, op, restarts, cl, history>>

\* List finds keys: done.
BootSkip(i) ==
  /\ boot[i].pc = "lookup" /\ Seed = NoSeed
  /\ Rows # {}
  /\ boot' = [boot EXCEPT ![i].pc = "ok"]
  /\ UNCHANGED <<store, now, op, restarts, cl, history>>

\* List finds none: a random key is generated and written to the log.
BootGenerate(i, secret) ==
  /\ boot[i].pc = "lookup" /\ Seed = NoSeed
  /\ Rows = {}
  /\ Generate(secret)
  /\ boot' = [boot EXCEPT ![i] = [pc |-> "create", secret |-> secret]]
  /\ UNCHANGED <<store, now, op, restarts, cl, replaced, failed, revokedOk>>

BootInsert(i, told) ==
  /\ boot[i].pc = "create"
  /\ Insert(NewRow(boot[i].secret, "admin", Scopes, Never))
  /\ boot' = [boot EXCEPT ![i].pc = IF told THEN "ok" ELSE "failed"]
  /\ UNCHANGED <<now, op, restarts, cl, history>>

\* ErrConflict: another replica has registered it in the meantime.
BootConflict(i) ==
  /\ boot[i].pc = "create"
  /\ Exists(boot[i].secret)
  /\ boot' = [boot EXCEPT ![i].pc = "ok"]
  /\ UNCHANGED <<store, now, op, restarts, cl, history>>

BootFails(i) ==
  /\ \/ boot[i].pc = "create"
     \/ boot[i].pc = "lookup" /\ Seed = NoSeed
  /\ boot' = [boot EXCEPT ![i].pc = "failed"]
  /\ UNCHANGED <<store, now, op, restarts, cl, history>>

Restart(i) ==
  /\ restarts < MaxRestarts
  /\ restarts' = restarts + 1
  /\ boot' = [boot EXCEPT ![i] = [pc |-> "lookup", secret |-> None]]
  /\ UNCHANGED <<store, now, op, cl, history>>

-----------------------------------------------------------------------------
(***************************************************************************)
(* The Auth middleware: the row is copied out of the store, then judged    *)
(* by the clock, and an admitted request is counted on the side.           *)
(***************************************************************************)
AuthLookup(c, secret) ==
  /\ cl[c].pc = "idle"
  /\ \/ \E id \in Rows :
          /\ keys[id].secret = secret
          /\ cl' = [cl EXCEPT ![c] = [pc |-> "found", id |-> id, row |-> keys[id],
                                     dead |-> secret \in revokedOk]]
     \/ cl' = [cl EXCEPT ![c].pc = "refused"]      \* unknown key or store error: 401
  /\ UNCHANGED <<store, now, op, boot, restarts, history>>

AuthCheck(c) ==
  /\ cl[c].pc = "found"
  /\ cl' = [cl EXCEPT ![c].pc = IF cl[c].row.revoked \/ Expired(cl[c].row)
                                THEN "refused" ELSE "admitted"]
  /\ UNCHANGED <<store, now, op, boot, restarts, history>>

\* Mutant: the whole row is written back, as it was read.
Touch_WholeRow(c) ==
  /\ cl[c].pc = "admitted"
  /\ keys' = [keys EXCEPT ![cl[c].id] = [cl[c].row EXCEPT !.uses = @ + 1]]
  /\ cl' = [cl EXCEPT ![c].pc = "counted"]
  /\ UNCHANGED <<nextID, now, op, boot, restarts, history>>

\* Mutant: the count is written back from the copy that was read.
Touch_ReadThenWrite(c) ==
  /\ cl[c].pc = "admitted"
  /\ keys' = [keys EXCEPT ![cl[c].id].uses = cl[c].row.uses + 1]
  /\ cl' = [cl EXCEPT ![c].pc = "counted"]
  /\ UNCHANGED <<nextID, now, op, boot, restarts, history>>

\* touchAsync: UPDATE ... SET request_count = request_count + 1 WHERE id = $1
Touch(c) ==
  /\ cl[c].pc = "admitted"
  /\ keys' = [keys EXCEPT ![cl[c].id].uses = @ + 1]
  /\ cl' = [cl EXCEPT ![c].pc = "counted"]
  /\ UNCHANGED <<nextID, now, op, boot, restarts, history>>

\* The goroutine's own 5 s timeout, or any other error: a warning.
TouchFails(c) ==
  /\ cl[c].pc = "admitted"
  /\ cl' = [cl EXCEPT ![c].pc = "uncounted"]
  /\ UNCHANGED <<store, now, op, boot, restarts, history>>

Tick ==
  /\ now < MaxTime
  /\ now' = now + 1
  /\ UNCHANGED <<store, op, boot, restarts, cl, history>>

Next ==
  \/ \E a \in Admins :
       \/ \E in \in Inputs, secret \in Secrets : CreateKey(a, in, secret)
       \/ \E id \in Ids, secret \in Secrets : RotateKey(a, id, secret)
       \/ \E told \in BOOLEAN :
            \/ RotateInsert(a, told)
            \/ RotateRevoke(a, told)
            \/ \E id \in Ids : RevokeKey(a, id, told)
       \/ CreateInsert(a) \/ CreateFails(a) \/ RotateRevokeFails(a)
  \/ \E i \in Replicas :
       \/ BootLookupSeed(i) \/ BootSkip(i)
       \/ \E secret \in Secrets : BootGenerate(i, secret)
       \/ \E told \in BOOLEAN : BootInsert(i, told)
       \/ BootConflict(i) \/ BootFails(i) \/ Restart(i)
  \/ \E c \in Clients :
       \/ \E secret \in Secrets : AuthLookup(c, secret)
       \/ AuthCheck(c) \/ Touch(c) \/ TouchFails(c)
  \/ Tick

Spec == Init /\ [][Next]_vars

-----------------------------------------------------------------------------
TypeOK ==
  /\ keys \in [Ids -> Row \cup {None}]
  /\ nextID \in 1..(MaxKeys + 1)
  /\ now \in Times
  /\ op \in [Admins -> [pc : {"idle", "create", "replace", "revoke"},
                       id : {0} \cup Ids, row : Row \cup {None}]]
  /\ boot \in [Replicas -> [pc : {"lookup", "create", "ok", "failed"},
                           secret : Secrets \cup {None}]]
  /\ restarts \in 0..MaxRestarts
  /\ cl \in [Clients -> [pc : {"idle", "found", "refused", "admitted", "counted", "uncounted"},
                        id : {0} \cup Ids, row : Row \cup {None}, dead : BOOLEAN]]
  /\ generated \subseteq Secrets
  /\ replaced \in [Ids -> SUBSET Secrets]
  /\ failed \subseteq Secrets
  /\ revokedOk \subseteq Secrets

(***************************************************************************)
(* A revocation that was reported as done is for good: no request that     *)
(* presents the key afterwards is admitted, whatever usage counting of     *)
(* earlier requests, rotations, restarts and bootstraps of the seed do to  *)
(* the row in the meantime.                                                *)
(***************************************************************************)
RevocationIsFinal ==
  \A c \in Clients : cl[c].pc \in {"admitted", "counted", "uncounted"} => ~cl[c].dead

(***************************************************************************)
(* A rotation takes the old key away only when a replacement with the same *)
(* rank, scopes and expiry is in the store (RotateKey creates it first).   *)
(***************************************************************************)
ReplacementInPlace ==
  \A id \in Rows : \A secret \in replaced[id] :
    \E n \in Rows : /\ keys[n].secret = secret
                    /\ keys[n].rank = keys[id].rank
                    /\ keys[n].scopes = keys[id].scopes
                    /\ keys[n].expires = keys[id].expires

(***************************************************************************)
(* When Bootstrap of a fixed seed reports success the seed is in the       *)
(* store, whoever registered it, and stays there.                          *)
(***************************************************************************)
BootstrapEstablishesSeed ==
  Seed # NoSeed /\ (\E i \in Replicas : boot[i].pc = "ok") => Exists(Seed)

(***************************************************************************)
(* Usage counting is exact but best effort: a key's request count is the   *)
(* number of admitted requests whose Touch went through (UPDATE ... + 1).  *)
(***************************************************************************)
UsesAreCounted ==
  \A id \in Rows :
    keys[id].uses = Cardinality({c \in Clients : cl[c].pc = "counted" /\ cl[c].id = id})

(***************************************************************************)
(* docs/api-reference.md on rotation: "a failed rotation leaves the old    *)
(* key usable".  It does not when the revocation is applied but reported   *)
(* as failed.                                                              *)
(***************************************************************************)
FailedRotationKeepsOldKey == \A id \in Ids : replaced[id] \cap failed = {}
=============================================================================
