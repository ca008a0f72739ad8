----------------------------- MODULE KeysProofs -----------------------------
(***************************************************************************)
(* The properties of Keys for any number of administrators, replicas,      *)
(* requests, secrets, rows and restarts.  IInv is inductive.               *)
(***************************************************************************)
EXTENDS Keys, FiniteSetTheorems, TLAPS

\* The rows are numbered by the sequence, and only a row has been rotated.
Numbered ==
  /\ \A id \in Rows : id < nextID
  /\ \A id \in Ids : replaced[id] # {} => id \in Rows

\* What a rotation carries over from one row to another.
SameGrant(row, other) ==
  /\ row.rank = other.rank
  /\ row.scopes = other.scopes
  /\ row.expires = other.expires

\* The ids of the rows of a table k, and whether one of them has this secret and
\* this grant.
RowsOf(k) == {id \in Ids : k[id] # None}

Carried(k, secret, row) ==
  \E n \in RowsOf(k) : k[n].secret = secret /\ SameGrant(k[n], row)

\* What an operation o holds between two statements is still true of the table.
OpHolds(o, k) ==
  /\ o.pc # "idle" => o.row \in Row /\ o.row.uses = 0
  /\ o.pc \in {"replace", "revoke"} => o.id \in RowsOf(k) /\ SameGrant(o.row, k[o.id])
  /\ o.pc = "revoke" => Carried(k, o.row.secret, o.row)

OpsHoldRows == \A a \in Admins : OpHolds(op[a], keys)

\* A fixed seed is what Bootstrap registers.
BootHoldsSeed ==
  \A i \in Replicas :
    boot[i].pc = "create" =>
      boot[i].secret \in Secrets /\ (Seed # NoSeed => boot[i].secret = Seed)

\* A request judges a copy of a row that is there, and one that came after the
\* revocation judges a revoked copy.
ClientHolds(x, k) ==
  /\ x.pc \in {"found", "admitted", "counted", "uncounted"} => x.id \in RowsOf(k)
  /\ x.pc = "found" => x.row \in Row /\ (x.dead => x.row.revoked)

ClientsHoldRows == \A c \in Clients : ClientHolds(cl[c], keys)

\* A secret names one row.
OneRowPerSecret == \A m, n \in Rows : keys[m].secret = keys[n].secret => m = n

\* A secret whose revocation was reported belongs to a revoked row.
ReportedIsRevoked ==
  \A secret \in revokedOk : \E id \in Rows : keys[id].secret = secret /\ keys[id].revoked

\* The requests counted for a row.
CountedFor(id) == {c \in Clients : cl[c].pc = "counted" /\ cl[c].id = id}

IInv ==
  /\ TypeOK
  /\ Numbered
  /\ OneRowPerSecret
  /\ OpsHoldRows
  /\ ReplacementInPlace
  /\ BootHoldsSeed
  /\ BootstrapEstablishesSeed
  /\ ClientsHoldRows
  /\ ReportedIsRevoked
  /\ RevocationIsFinal
  /\ \A id \in Ids : IsFiniteSet(CountedFor(id))
  /\ UsesAreCounted

-----------------------------------------------------------------------------
(***************************************************************************)
(* What a step can do to the store: nothing, one INSERT, or one UPDATE of  *)
(* a row that is there.                                                    *)
(***************************************************************************)
CountsUse(id) == keys' = [keys EXCEPT ![id].uses = @ + 1] /\ UNCHANGED nextID

StoreStep ==
  \/ UNCHANGED store
  \/ \E row \in Row : row.uses = 0 /\ Insert(row)
  \/ \E id \in Rows : SetRevoked(id)
  \/ \E c \in Clients : Touch(c) /\ cl[c].id \in Rows

\* The row of a new key is a row.
LEMMA RowFromType ==
  ASSUME NEW in \in Input, ValidInput(in), NEW secret \in Secrets
  PROVE  /\ RowFrom(in, secret) \in Row
         /\ RowFrom(in, secret).uses = 0
         /\ RowFrom(in, secret).scopes = in.scopes
         /\ RowFrom(in, secret).expires = in.expires
         /\ in.rank # "" => RowFrom(in, secret).rank = in.rank
BY DEF RowFrom, NewRow, RankOf, ValidInput, Row, Input, Ranks

\* So is the one a rotation makes, with the grant of the old one.
LEMMA RotatedRow ==
  ASSUME NEW row \in Row, ValidInput(InputOf(row)), NEW secret \in Secrets
  PROVE  /\ RowFrom(InputOf(row), secret) \in Row
         /\ RowFrom(InputOf(row), secret).uses = 0
         /\ SameGrant(RowFrom(InputOf(row), secret), row)
<1>1. InputOf(row) \in Input /\ InputOf(row).rank # ""
  BY DEF InputOf, Input, Row, Ranks
<1>2. /\ InputOf(row).rank = row.rank
      /\ InputOf(row).scopes = row.scopes
      /\ InputOf(row).expires = row.expires
  BY DEF InputOf
<1> QED BY <1>1, <1>2, RowFromType DEF SameGrant

\* Every step is one of these.
LEMMA EveryStepIsStoreStep ==
  ASSUME IInv, [Next]_vars
  PROVE  StoreStep
<1>1. CASE UNCHANGED store
  BY <1>1 DEF StoreStep
<1>2. ASSUME NEW a \in Admins, CreateInsert(a) \/ RotateInsert(a, TRUE) \/ RotateInsert(a, FALSE)
      PROVE  StoreStep
  <2>1. op[a].pc # "idle" /\ Insert(op[a].row)
    BY <1>2 DEF CreateInsert, RotateInsert
  <2>2. op[a].row \in Row /\ op[a].row.uses = 0
    BY <2>1 DEF IInv, OpsHoldRows, OpHolds
  <2> QED BY <2>1, <2>2 DEF StoreStep
<1>3. ASSUME NEW a \in Admins, RotateRevoke(a, TRUE) \/ RotateRevoke(a, FALSE)
      PROVE  StoreStep
  <2>1. op[a].pc = "revoke" /\ SetRevoked(op[a].id)
    BY <1>3 DEF RotateRevoke
  <2>2. op[a].id \in Rows
    BY <2>1 DEF IInv, OpsHoldRows, OpHolds, RowsOf, Rows
  <2> QED BY <2>1, <2>2 DEF StoreStep
<1>4. ASSUME NEW a \in Admins, NEW id \in Ids, NEW told \in BOOLEAN, RevokeKey(a, id, told)
      PROVE  StoreStep
  BY <1>4 DEF RevokeKey, StoreStep
<1>5. ASSUME NEW i \in Replicas, NEW told \in BOOLEAN, BootInsert(i, told)
      PROVE  StoreStep
  <2>1. boot[i].secret \in Secrets /\ Insert(NewRow(boot[i].secret, "admin", Scopes, Never))
    BY <1>5 DEF BootInsert, IInv, BootHoldsSeed
  <2>2. /\ NewRow(boot[i].secret, "admin", Scopes, Never) \in Row
        /\ NewRow(boot[i].secret, "admin", Scopes, Never).uses = 0
    BY <2>1 DEF NewRow, Row, Ranks
  <2> QED BY <2>1, <2>2 DEF StoreStep
<1>6. ASSUME NEW c \in Clients, Touch(c)
      PROVE  StoreStep
  BY <1>6 DEF Touch, IInv, ClientsHoldRows, ClientHolds, Rows, RowsOf, StoreStep
<1> QED
  BY <1>1, <1>2, <1>3, <1>4, <1>5, <1>6
     DEF Next, vars, CreateKey, CreateFails, RotateKey, RotateRevokeFails, BootLookupSeed,
         BootSkip, BootGenerate, BootConflict, BootFails, Restart, AuthLookup, AuthCheck,
         TouchFails, Tick

\* What no step takes back: rows stay, with their secret, grant and revocation.
Persists ==
  \A id \in Rows :
    /\ id \in Rows'
    /\ keys'[id].secret = keys[id].secret
    /\ SameGrant(keys'[id], keys[id])
    /\ keys[id].revoked => keys'[id].revoked

\* Whatever is done to the table, secrets stay unique and rows stay, revoked ones revoked.
LEMMA StoreKept ==
  ASSUME IInv, StoreStep
  PROVE  /\ keys' \in [Ids -> Row \cup {None}]
         /\ nextID' \in 1..(MaxKeys + 1)
         /\ \A id \in Rows' : id < nextID'
         /\ OneRowPerSecret'
         /\ Persists
<1> USE KeysAssumption, NoneAssumption
<1>0. /\ keys \in [Ids -> Row \cup {None}] /\ nextID \in 1..(MaxKeys + 1)
      /\ \A id \in Rows : id < nextID /\ keys[id] \in Row
  BY DEF IInv, TypeOK, Numbered, Rows
<1>1. CASE UNCHANGED store
  BY <1>0, <1>1 DEF store, Rows, Persists, SameGrant, IInv, OneRowPerSecret, Numbered
<1>2. ASSUME NEW row \in Row, Insert(row)
      PROVE  /\ keys' \in [Ids -> Row \cup {None}]
             /\ nextID' \in 1..(MaxKeys + 1)
             /\ \A id \in Rows' : id < nextID'
             /\ OneRowPerSecret'
             /\ Persists
  <2>1. /\ nextID \in Ids /\ nextID \notin Rows /\ nextID' = nextID + 1
        /\ keys' = [keys EXCEPT ![nextID] = row]
    BY <1>0, <1>2 DEF Insert, Ids
  <2>2. keys' \in [Ids -> Row \cup {None}] /\ nextID' \in 1..(MaxKeys + 1)
    BY <1>0, <2>1 DEF Ids
  <2>3. Rows' = Rows \cup {nextID} /\ \A id \in Rows : keys'[id] = keys[id]
    BY <1>0, <2>1 DEF Rows
  <2>4. \A id \in Rows' : id < nextID'
    BY <1>0, <2>1, <2>3 DEF Rows, Ids
  <2>5. OneRowPerSecret'
    BY <1>0, <1>2, <2>1, <2>3 DEF IInv, OneRowPerSecret, Insert, Exists
  <2>6. Persists
    BY <2>3 DEF Persists, SameGrant
  <2> QED BY <2>2, <2>4, <2>5, <2>6
<1>3. ASSUME NEW id \in Rows, SetRevoked(id) \/ CountsUse(id)
      PROVE  /\ keys' \in [Ids -> Row \cup {None}]
             /\ nextID' \in 1..(MaxKeys + 1)
             /\ \A n \in Rows' : n < nextID'
             /\ OneRowPerSecret'
             /\ Persists
  <2>1. id \in Ids /\ keys[id] \in Row /\ nextID' = nextID
    BY <1>0, <1>3 DEF Rows, SetRevoked, CountsUse
  <2>2. PICK row \in Row :
          /\ keys' = [keys EXCEPT ![id] = row]
          /\ row.secret = keys[id].secret /\ SameGrant(row, keys[id])
          /\ keys[id].revoked => row.revoked
    <3>1. CASE SetRevoked(id)
      <4>1. [keys[id] EXCEPT !.revoked = TRUE] \in Row
        BY <2>1 DEF Row
      <4> QED BY <2>1, <3>1, <4>1 DEF SetRevoked, SameGrant, Row
    <3>2. CASE CountsUse(id)
      <4>1. [keys[id] EXCEPT !.uses = @ + 1] \in Row
        BY <2>1 DEF Row
      <4> QED BY <2>1, <3>2, <4>1 DEF CountsUse, SameGrant, Row
    <3> QED BY <1>3, <3>1, <3>2
  <2>3. keys' \in [Ids -> Row \cup {None}] /\ Rows' = Rows
    BY <1>0, <2>1, <2>2 DEF Rows
  <2>4. Persists
    BY <1>0, <2>1, <2>2, <2>3 DEF Persists, SameGrant, Rows
  <2>5. OneRowPerSecret'
    BY <2>3, <2>4 DEF IInv, OneRowPerSecret, Persists
  <2> QED BY <1>0, <2>1, <2>3, <2>4, <2>5
<1> QED BY <1>1, <1>2, <1>3 DEF StoreStep, Touch, CountsUse

-----------------------------------------------------------------------------
(***************************************************************************)
(* Administrators.                                                         *)
(***************************************************************************)
\* What was carried over stays.
LEMMA CarriedKeeps ==
  ASSUME Persists, NEW secret, NEW row, Carried(keys, secret, row)
  PROVE  Carried(keys', secret, row)
BY DEF Persists, Carried, SameGrant, Rows, RowsOf

\* An operation that is not in a step holds what it held.
LEMMA OpKeeps ==
  ASSUME Persists, NEW o, OpHolds(o, keys)
  PROVE  OpHolds(o, keys')
BY CarriedKeeps DEF Persists, OpHolds, SameGrant, Rows, RowsOf

\* The types of what an administrator's step changes.
OpRec == [pc : {"idle", "create", "replace", "revoke"}, id : {0} \cup Ids,
          row : Row \cup {None}]

\* Whatever step is taken, operations hold rows that the table has.
LEMMA OpsKeep ==
  ASSUME IInv, [Next]_vars, StoreStep, Persists
  PROVE  op' \in [Admins -> OpRec] /\ OpsHoldRows'
<1>0. op \in [Admins -> OpRec] /\ \A a \in Admins : OpHolds(op[a], keys')
  BY OpKeeps DEF IInv, TypeOK, OpRec, OpsHoldRows
<1>1. CASE op' = op
  BY <1>0, <1>1 DEF OpsHoldRows
<1>2. ASSUME NEW a \in Admins, NEW o \in OpRec, op' = [op EXCEPT ![a] = o], OpHolds(o, keys')
      PROVE  op' \in [Admins -> OpRec] /\ OpsHoldRows'
  <2>1. op' \in [Admins -> OpRec] /\ \A b \in Admins : op'[b] = IF b = a THEN o ELSE op[b]
    BY <1>0, <1>2
  <2> QED BY <1>0, <1>2, <2>1 DEF OpsHoldRows
<1>3. IdleOp \in OpRec /\ OpHolds(IdleOp, keys')
  BY DEF IdleOp, OpRec, OpHolds
<1>4. ASSUME NEW a \in Admins, NEW in \in Inputs, NEW secret \in Secrets, CreateKey(a, in, secret)
      PROVE  op' \in [Admins -> OpRec] /\ OpsHoldRows'
  <2> DEFINE o == [pc |-> "create", id |-> 0, row |-> RowFrom(in, secret)]
  <2>1. RowFrom(in, secret) \in Row /\ RowFrom(in, secret).uses = 0
    BY <1>4, RowFromType, KeysAssumption DEF CreateKey
  <2>2. o \in OpRec /\ OpHolds(o, keys')
    BY <2>1 DEF OpRec, OpHolds
  <2>3. op' = [op EXCEPT ![a] = o]
    BY <1>4 DEF CreateKey
  <2> HIDE DEF o
  <2> QED BY <1>2, <2>2, <2>3
<1>5. ASSUME NEW a \in Admins, NEW id \in Ids, NEW secret \in Secrets, RotateKey(a, id, secret)
      PROVE  op' \in [Admins -> OpRec] /\ OpsHoldRows'
  <2> DEFINE o == [pc |-> "replace", id |-> id, row |-> RowFrom(InputOf(keys[id]), secret)]
  <2>1. id \in Rows /\ keys[id] \in Row /\ ValidInput(InputOf(keys[id]))
    BY <1>5 DEF RotateKey, IInv, TypeOK, Rows
  <2>2. o.row \in Row /\ o.row.uses = 0 /\ SameGrant(o.row, keys[id])
    BY <2>1, RotatedRow
  <2>3. o \in OpRec /\ OpHolds(o, keys)
    BY <2>1, <2>2 DEF OpRec, OpHolds, Rows, RowsOf
  <2>4. OpHolds(o, keys')
    BY <2>3, OpKeeps
  <2>5. op' = [op EXCEPT ![a] = o]
    BY <1>5 DEF RotateKey
  <2> HIDE DEF o
  <2> QED BY <1>2, <2>3, <2>4, <2>5
<1>6. ASSUME NEW a \in Admins, RotateInsert(a, TRUE)
      PROVE  op' \in [Admins -> OpRec] /\ OpsHoldRows'
  <2> DEFINE o == [op[a] EXCEPT !.pc = "revoke"]
  <2>1. /\ op[a].pc = "replace" /\ op[a] \in OpRec /\ Insert(op[a].row)
        /\ op' = [op EXCEPT ![a].pc = "revoke"]
    BY <1>0, <1>6 DEF RotateInsert
  <2>2. o \in OpRec /\ op' = [op EXCEPT ![a] = o]
    BY <1>0, <2>1 DEF OpRec
  <2>3. o.pc = "revoke" /\ o.id = op[a].id /\ o.row = op[a].row
    BY <2>1 DEF OpRec
  <2>4. op[a].row \in Row /\ op[a].row.uses = 0 /\ op[a].id \in RowsOf(keys') /\ SameGrant(op[a].row, keys'[op[a].id])
    BY <1>0, <2>1 DEF OpHolds
  <2>5. Carried(keys', op[a].row.secret, op[a].row)
    <3>1. nextID \in Ids /\ keys' = [keys EXCEPT ![nextID] = op[a].row]
      BY <2>1 DEF Insert
    <3>2. keys'[nextID] = op[a].row
      BY <3>1 DEF IInv, TypeOK
    <3> QED BY <2>4, <3>1, <3>2, NoneAssumption DEF Carried, RowsOf, SameGrant
  <2>6. OpHolds(o, keys')
    BY <2>3, <2>4, <2>5 DEF OpHolds
  <2> HIDE DEF o
  <2> QED BY <1>2, <2>2, <2>6
<1>7. ASSUME NEW a \in Admins, op' = [op EXCEPT ![a] = IdleOp]
      PROVE  op' \in [Admins -> OpRec] /\ OpsHoldRows'
  BY <1>2, <1>3, <1>7
<1> QED
  BY <1>1, <1>4, <1>5, <1>6, <1>7
     DEF Next, vars, CreateInsert, CreateFails, RotateInsert, RotateRevoke, RotateRevokeFails,
         RevokeKey, BootLookupSeed, BootSkip, BootGenerate, BootInsert, BootConflict, BootFails,
         Restart, AuthLookup, AuthCheck, Touch, TouchFails, Tick, history

\* The rotations that took a key away left their replacements.
LEMMA ReplacementsKeep ==
  ASSUME IInv, [Next]_vars, Persists
  PROVE  /\ replaced' \in [Ids -> SUBSET Secrets]
         /\ \A id \in Ids : replaced'[id] # {} => id \in Rows'
         /\ ReplacementInPlace'
<1> DEFINE Left(id, secret) == id \in RowsOf(keys') /\ Carried(keys', secret, keys'[id])
<1>0. /\ replaced \in [Ids -> SUBSET Secrets]
      /\ \A id \in Ids : replaced[id] # {} => id \in Rows
      /\ ReplacementInPlace
  BY DEF IInv, TypeOK, Numbered
<1>a. ASSUME NEW id \in Rows, NEW secret, NEW row, SameGrant(row, keys[id]),
             Carried(keys, secret, row)
      PROVE  Left(id, secret)
  <2>1. Carried(keys', secret, row)
    BY <1>a, CarriedKeeps
  <2>2. id \in RowsOf(keys') /\ SameGrant(row, keys'[id])
    BY <1>a DEF Persists, SameGrant, Rows, RowsOf
  <2> QED BY <2>1, <2>2 DEF Carried, SameGrant
<1>1. ASSUME NEW id \in Ids, NEW secret \in replaced[id]
      PROVE  Left(id, secret)
  <2>1. id \in Rows
    BY <1>0
  <2>2. Carried(keys, secret, keys[id]) /\ SameGrant(keys[id], keys[id])
    BY <1>0, <2>1 DEF ReplacementInPlace, SameGrant, Carried, Rows, RowsOf
  <2> QED BY <1>a, <2>1, <2>2
<1>2. ASSUME \A id \in Ids : \A secret \in replaced'[id] : Left(id, secret)
      PROVE  ReplacementInPlace' /\ \A id \in Ids : replaced'[id] # {} => id \in Rows'
  BY <1>2 DEF ReplacementInPlace, Carried, SameGrant, Rows, RowsOf
<1> HIDE DEF Left
<1>3. CASE replaced' = replaced
  BY <1>0, <1>1, <1>2, <1>3
<1>4. ASSUME NEW a \in Admins, NEW told \in BOOLEAN, RotateRevoke(a, told)
      PROVE  /\ replaced' \in [Ids -> SUBSET Secrets]
             /\ \A id \in Ids : replaced'[id] # {} => id \in Rows'
             /\ ReplacementInPlace'
  <2>1. /\ op[a].pc = "revoke"
        /\ replaced' = [replaced EXCEPT ![op[a].id] = @ \cup {op[a].row.secret}]
    BY <1>4 DEF RotateRevoke
  <2>2. OpHolds(op[a], keys)
    BY DEF IInv, OpsHoldRows
  <2>3. /\ op[a].row.secret \in Secrets /\ op[a].id \in Rows /\ op[a].id \in Ids
        /\ SameGrant(op[a].row, keys[op[a].id])
        /\ Carried(keys, op[a].row.secret, op[a].row)
    BY <2>1, <2>2 DEF OpHolds, Row, Rows, RowsOf
  <2>4. Left(op[a].id, op[a].row.secret)
    BY <1>a, <2>3
  <2>5. \A id \in Ids : \A secret \in replaced'[id] :
          secret \in replaced[id] \/ (id = op[a].id /\ secret = op[a].row.secret)
    BY <1>0, <2>1, <2>3
  <2>6. \A id \in Ids : \A secret \in replaced'[id] : Left(id, secret)
    BY <1>1, <2>4, <2>5
  <2>7. replaced' \in [Ids -> SUBSET Secrets]
    BY <1>0, <2>1, <2>3
  <2> QED BY <1>2, <2>6, <2>7
<1> QED
  BY <1>3, <1>4
     DEF Next, vars, history, CreateKey, CreateInsert, CreateFails, RotateKey, RotateInsert,
         RotateRevokeFails, RevokeKey, BootLookupSeed, BootSkip, BootGenerate, BootInsert,
         BootConflict, BootFails, Restart, AuthLookup, AuthCheck, Touch, TouchFails, Tick

-----------------------------------------------------------------------------
(***************************************************************************)
(* Replicas.                                                               *)
(***************************************************************************)
BootRec == [pc : {"lookup", "create", "ok", "failed"}, secret : Secrets \cup {None}]

\* What one replica may have to show in the new state.
BootHolds(b) ==
  /\ b.pc = "create" => b.secret \in Secrets /\ (Seed # NoSeed => b.secret = Seed)
  /\ b.pc = "ok" /\ Seed # NoSeed => Exists(Seed)'

\* Whatever step is taken, a Bootstrap that has succeeded has its seed in the table.
LEMMA BootKeeps ==
  ASSUME IInv, [Next]_vars, Persists, keys' \in [Ids -> Row \cup {None}]
  PROVE  boot' \in [Replicas -> BootRec] /\ BootHoldsSeed' /\ BootstrapEstablishesSeed'
<1> DEFINE Goal == boot' \in [Replicas -> BootRec] /\ BootHoldsSeed' /\ BootstrapEstablishesSeed'
<1>a. \A secret : Exists(secret) => Exists(secret)'
  BY DEF Persists, Exists
<1>0. boot \in [Replicas -> BootRec] /\ \A i \in Replicas : BootHolds(boot[i])
  BY <1>a DEF IInv, TypeOK, BootRec, BootHolds, BootHoldsSeed, BootstrapEstablishesSeed
<1>1. CASE boot' = boot
  BY <1>0, <1>1 DEF BootHolds, BootHoldsSeed, BootstrapEstablishesSeed
<1>2. ASSUME NEW i \in Replicas, NEW b \in BootRec, boot' = [boot EXCEPT ![i] = b], BootHolds(b)
      PROVE  Goal
  <2>1. boot' \in [Replicas -> BootRec] /\ \A j \in Replicas : BootHolds(boot'[j])
    BY <1>0, <1>2
  <2> QED BY <2>1 DEF BootHolds, BootHoldsSeed, BootstrapEstablishesSeed
<1> HIDE DEF Goal
<1>3. ASSUME NEW i \in Replicas, BootLookupSeed(i)
      PROVE  Goal
  <2>1. Seed # NoSeed /\ Seed \in Secrets
    BY <1>3, KeysAssumption DEF BootLookupSeed
  <2>2. CASE Exists(Seed) /\ boot' = [boot EXCEPT ![i] = [pc |-> "ok", secret |-> Seed]]
    <3>1. [pc |-> "ok", secret |-> Seed] \in BootRec /\ BootHolds([pc |-> "ok", secret |-> Seed])
      BY <1>a, <2>1, <2>2 DEF BootRec, BootHolds
    <3> QED BY <1>2, <2>2, <3>1
  <2>3. CASE boot' = [boot EXCEPT ![i] = [pc |-> "create", secret |-> Seed]]
    <3>1. [pc |-> "create", secret |-> Seed] \in BootRec
          /\ BootHolds([pc |-> "create", secret |-> Seed])
      BY <2>1 DEF BootRec, BootHolds
    <3> QED BY <1>2, <2>3, <3>1
  <2> QED BY <1>3, <2>2, <2>3 DEF BootLookupSeed
<1>4. ASSUME NEW i \in Replicas, NEW secret \in Secrets, BootGenerate(i, secret)
      PROVE  Goal
  <2>1. [pc |-> "create", secret |-> secret] \in BootRec
        /\ BootHolds([pc |-> "create", secret |-> secret])
    BY <1>4 DEF BootRec, BootHolds, BootGenerate
  <2> QED BY <1>2, <1>4, <2>1 DEF BootGenerate
<1>5. ASSUME NEW i \in Replicas, Restart(i)
      PROVE  Goal
  <2>1. [pc |-> "lookup", secret |-> None] \in BootRec
        /\ BootHolds([pc |-> "lookup", secret |-> None])
    BY DEF BootRec, BootHolds
  <2> QED BY <1>2, <1>5, <2>1 DEF Restart
<1>6. ASSUME NEW i \in Replicas, NEW label \in {"ok", "failed"},
             boot' = [boot EXCEPT ![i].pc = label],
             label = "ok" /\ Seed # NoSeed => Exists(Seed)'
      PROVE  Goal
  <2>1. [boot[i] EXCEPT !.pc = label] \in BootRec
        /\ BootHolds([boot[i] EXCEPT !.pc = label])
    BY <1>0, <1>6 DEF BootRec, BootHolds
  <2>2. boot' = [boot EXCEPT ![i] = [boot[i] EXCEPT !.pc = label]]
    BY <1>0, <1>6
  <2> QED BY <1>2, <2>1, <2>2
<1>7. ASSUME NEW i \in Replicas, NEW told \in BOOLEAN, BootInsert(i, told)
      PROVE  Goal
  <2>1. Seed # NoSeed => boot[i].secret = Seed
    BY <1>0, <1>7 DEF BootInsert, BootHolds
  <2>3. Seed # NoSeed => Exists(Seed)'
    <3>1. nextID \in Ids /\ keys' = [keys EXCEPT ![nextID] = NewRow(boot[i].secret, "admin", Scopes, Never)]
      BY <1>7 DEF BootInsert, Insert
    <3>2. keys'[nextID] = NewRow(boot[i].secret, "admin", Scopes, Never)
      BY <3>1 DEF IInv, TypeOK
    <3>3. keys'[nextID].secret = boot[i].secret /\ keys'[nextID] # None
      <4>1. boot[i].secret \in Secrets
        BY <1>0, <1>7 DEF BootInsert, BootHolds
      <4>2. keys'[nextID] \in Row
        BY <3>2, <4>1 DEF NewRow, Row, Ranks
      <4>3. keys'[nextID].secret = boot[i].secret
        BY <3>2 DEF NewRow
      <4> QED BY <4>2, <4>3, NoneAssumption
    <3> QED BY <2>1, <3>1, <3>3 DEF Exists, Rows
  <2> QED BY <1>6, <1>7, <2>3 DEF BootInsert
<1>8. ASSUME NEW i \in Replicas, BootConflict(i)
      PROVE  Goal
  <2>1. Seed # NoSeed => Exists(Seed)'
    BY <1>0, <1>8, <1>a DEF BootConflict, BootHolds
  <2> QED BY <1>6, <1>8, <2>1 DEF BootConflict
<1>9. ASSUME NEW i \in Replicas, BootSkip(i) \/ BootFails(i)
      PROVE  Goal
  BY <1>6, <1>9 DEF BootSkip, BootFails
<1> QED
  BY <1>1, <1>3, <1>4, <1>5, <1>7, <1>8, <1>9
     DEF Goal, Next, vars, history, CreateKey, CreateInsert, CreateFails, RotateKey, RotateInsert,
         RotateRevoke, RotateRevokeFails, RevokeKey, AuthLookup, AuthCheck, Touch, TouchFails, Tick

-----------------------------------------------------------------------------
(***************************************************************************)
(* Revocations.                                                            *)
(***************************************************************************)
\* The row of a reported revocation is revoked and stays so.
LEMMA ReportsKeep ==
  ASSUME IInv, [Next]_vars, Persists
  PROVE  ReportedIsRevoked' /\ revokedOk' \subseteq Secrets
<1>0. /\ revokedOk \subseteq Secrets /\ keys \in [Ids -> Row \cup {None}]
      /\ \A secret \in revokedOk : \E id \in Rows' : keys'[id].secret = secret /\ keys'[id].revoked
  BY DEF IInv, TypeOK, ReportedIsRevoked, Persists
<1>1. CASE revokedOk' = revokedOk
  BY <1>0, <1>1 DEF ReportedIsRevoked
<1>2. ASSUME NEW id \in Rows, SetRevoked(id), revokedOk' = revokedOk \cup {keys[id].secret}
      PROVE  ReportedIsRevoked' /\ revokedOk' \subseteq Secrets
  <2>1. id \in Ids /\ keys[id] \in Row
    BY <1>0 DEF Rows
  <2>2. keys'[id].revoked /\ id \in Rows' /\ keys'[id].secret = keys[id].secret
    BY <1>0, <1>2, <2>1 DEF SetRevoked, Persists, Row
  <2> QED BY <1>0, <1>2, <2>1, <2>2 DEF ReportedIsRevoked, Row
<1>3. ASSUME NEW a \in Admins, NEW id \in Ids, NEW told \in BOOLEAN, RevokeKey(a, id, told)
      PROVE  ReportedIsRevoked' /\ revokedOk' \subseteq Secrets
  BY <1>1, <1>2, <1>3 DEF RevokeKey
<1>4. ASSUME NEW a \in Admins, NEW told \in BOOLEAN, RotateRevoke(a, told)
      PROVE  ReportedIsRevoked' /\ revokedOk' \subseteq Secrets
  <2>1. op[a].id \in Rows
    BY <1>4 DEF RotateRevoke, IInv, OpsHoldRows, OpHolds, Rows, RowsOf
  <2> QED BY <1>1, <1>2, <1>4, <2>1 DEF RotateRevoke
<1> QED
  BY <1>1, <1>3, <1>4
     DEF Next, vars, history, CreateKey, CreateInsert, CreateFails, RotateKey, RotateInsert,
         RotateRevokeFails, BootLookupSeed, BootSkip, BootGenerate, BootInsert,
         BootConflict, BootFails, Restart, AuthLookup, AuthCheck, Touch, TouchFails, Tick

-----------------------------------------------------------------------------
(***************************************************************************)
(* Requests.                                                               *)
(***************************************************************************)
ClientRec == [pc : {"idle", "found", "refused", "admitted", "counted", "uncounted"},
              id : {0} \cup Ids, row : Row \cup {None}, dead : BOOLEAN]

\* A key whose revocation was reported is found revoked.
LEMMA FoundRevoked ==
  ASSUME IInv, NEW id \in Rows, keys[id].secret \in revokedOk
  PROVE  keys[id].revoked
BY DEF IInv, ReportedIsRevoked, OneRowPerSecret

\* Lookup, check and Touch keep what is said of clients.
LEMMA ClientsKeep ==
  ASSUME IInv, [Next]_vars, Persists
  PROVE  cl' \in [Clients -> ClientRec] /\ ClientsHoldRows' /\ RevocationIsFinal'
<1> DEFINE Goal == cl' \in [Clients -> ClientRec] /\ ClientsHoldRows' /\ RevocationIsFinal'
           Alive(x) == x.pc \in {"admitted", "counted", "uncounted"} => ~x.dead
<1>a. ASSUME NEW x, ClientHolds(x, keys) PROVE ClientHolds(x, keys')
  BY <1>a DEF ClientHolds, Persists, Rows, RowsOf
<1>0. /\ cl \in [Clients -> ClientRec]
      /\ \A c \in Clients : ClientHolds(cl[c], keys') /\ Alive(cl[c])
  BY <1>a DEF IInv, TypeOK, ClientRec, ClientsHoldRows, RevocationIsFinal
<1>1. CASE cl' = cl
  BY <1>0, <1>1 DEF ClientsHoldRows, RevocationIsFinal
<1>2. ASSUME NEW c \in Clients, NEW x \in ClientRec, cl' = [cl EXCEPT ![c] = x],
             ClientHolds(x, keys'), Alive(x)
      PROVE  Goal
  <2>1. cl' \in [Clients -> ClientRec]
    BY <1>0, <1>2
  <2>2. \A d \in Clients : cl'[d] = IF d = c THEN x ELSE cl[d]
    BY <1>0, <1>2
  <2>3. \A d \in Clients : ClientHolds(cl'[d], keys') /\ Alive(cl'[d])
    BY <1>0, <1>2, <2>2
  <2> QED BY <2>1, <2>3 DEF ClientsHoldRows, RevocationIsFinal
<1> HIDE DEF Goal
<1>3. ASSUME NEW c \in Clients, NEW secret \in Secrets, AuthLookup(c, secret)
      PROVE  Goal
  <2>1. ASSUME NEW id \in Rows, keys[id].secret = secret,
               cl' = [cl EXCEPT ![c] = [pc |-> "found", id |-> id, row |-> keys[id],
                                        dead |-> secret \in revokedOk]]
        PROVE  Goal
    <3> DEFINE x == [pc |-> "found", id |-> id, row |-> keys[id],
                     dead |-> secret \in revokedOk]
    <3>1. id \in Ids /\ keys[id] \in Row
      BY DEF Rows, IInv, TypeOK
    <3>2. x \in ClientRec
      BY <3>1 DEF ClientRec
    <3>3. x.dead => keys[id].revoked
      BY <2>1, FoundRevoked
    <3>4. ClientHolds(x, keys) /\ Alive(x)
      BY <3>1, <3>3 DEF ClientHolds, Rows, RowsOf
    <3>5. ClientHolds(x, keys')
      BY <1>a, <3>4
    <3>6. cl' = [cl EXCEPT ![c] = x]
      BY <2>1
    <3> HIDE DEF x
    <3> QED BY <1>2, <3>2, <3>4, <3>5, <3>6
  <2>2. ASSUME cl' = [cl EXCEPT ![c].pc = "refused"]
        PROVE  Goal
    <3> DEFINE x == [cl[c] EXCEPT !.pc = "refused"]
    <3>1. x \in ClientRec /\ x.pc = "refused" /\ cl' = [cl EXCEPT ![c] = x]
      BY <1>0, <2>2 DEF ClientRec
    <3>2. ClientHolds(x, keys') /\ Alive(x)
      BY <3>1 DEF ClientHolds
    <3> HIDE DEF x
    <3> QED BY <1>2, <3>1, <3>2
  <2> QED BY <1>3, <2>1, <2>2 DEF AuthLookup
<1>4. ASSUME NEW c \in Clients, NEW label \in {"refused", "admitted", "counted", "uncounted"},
             cl[c].pc \in {"found", "admitted"},
             cl' = [cl EXCEPT ![c].pc = label],
             label # "refused" => ~cl[c].dead
      PROVE  Goal
  <2> DEFINE x == [cl[c] EXCEPT !.pc = label]
  <2>1. /\ x \in ClientRec /\ cl' = [cl EXCEPT ![c] = x]
        /\ x.pc = label /\ x.id = cl[c].id /\ x.dead = cl[c].dead
    BY <1>0, <1>4 DEF ClientRec
  <2>2. ClientHolds(cl[c], keys')
    BY <1>0
  <2>3. ClientHolds(x, keys')
    BY <1>4, <2>1, <2>2 DEF ClientHolds
  <2>4. Alive(x)
    BY <1>4, <2>1
  <2> HIDE DEF x
  <2> QED BY <1>2, <2>1, <2>3, <2>4
<1>5. ASSUME NEW c \in Clients, AuthCheck(c)
      PROVE  Goal
  <2>1. cl[c].pc = "found" /\ (cl[c].dead => cl[c].row.revoked)
    BY <1>5 DEF AuthCheck, IInv, ClientsHoldRows, ClientHolds
  <2>2. CASE cl[c].row.revoked \/ Expired(cl[c].row)
    BY <1>4, <1>5, <2>1, <2>2 DEF AuthCheck
  <2>3. CASE ~(cl[c].row.revoked \/ Expired(cl[c].row))
    BY <1>4, <1>5, <2>1, <2>3 DEF AuthCheck
  <2> QED BY <2>2, <2>3
<1>6. ASSUME NEW c \in Clients, Touch(c) \/ TouchFails(c)
      PROVE  Goal
  BY <1>0, <1>4, <1>6 DEF Touch, TouchFails
<1> QED
  BY <1>1, <1>3, <1>5, <1>6
     DEF Goal, Next, vars, history, CreateKey, CreateInsert, CreateFails, RotateKey, RotateInsert,
         RotateRevoke, RotateRevokeFails, RevokeKey, BootLookupSeed, BootSkip, BootGenerate,
         BootInsert, BootConflict, BootFails, Restart, Tick

-----------------------------------------------------------------------------
(***************************************************************************)
(* Usage counting.                                                         *)
(***************************************************************************)
\* Only Touch counts a request.
LEMMA OnlyTouchCounts ==
  ASSUME IInv, [Next]_vars, \A c \in Clients : ~Touch(c)
  PROVE  \A id \in Ids : CountedFor(id)' = CountedFor(id)
<1>0. cl \in [Clients -> ClientRec]
  BY DEF IInv, TypeOK, ClientRec
<1>1. \/ cl' = cl
      \/ \E c \in Clients : /\ cl[c].pc # "counted" /\ cl'[c].pc # "counted"
                            /\ \A d \in Clients \ {c} : cl'[d] = cl[d]
  <2>1. ASSUME NEW c \in Clients, NEW secret \in Secrets, AuthLookup(c, secret)
        PROVE  /\ cl[c].pc # "counted" /\ cl'[c].pc # "counted"
               /\ \A d \in Clients \ {c} : cl'[d] = cl[d]
    BY <1>0, <2>1 DEF AuthLookup, ClientRec
  <2>2. ASSUME NEW c \in Clients, AuthCheck(c) \/ TouchFails(c)
        PROVE  /\ cl[c].pc # "counted" /\ cl'[c].pc # "counted"
               /\ \A d \in Clients \ {c} : cl'[d] = cl[d]
    BY <1>0, <2>2 DEF AuthCheck, TouchFails, ClientRec
  <2> QED
    BY <2>1, <2>2
       DEF Next, vars, history, CreateKey, CreateInsert, CreateFails, RotateKey, RotateInsert,
           RotateRevoke, RotateRevokeFails, RevokeKey, BootLookupSeed, BootSkip, BootGenerate,
           BootInsert, BootConflict, BootFails, Restart, Tick
<1> QED BY <1>1 DEF CountedFor

\* Only a Touch that goes through counts, and it counts one.
LEMMA UsesKeep ==
  ASSUME IInv, [Next]_vars, StoreStep, Persists
  PROVE  (\A id \in Ids : IsFiniteSet(CountedFor(id)))' /\ UsesAreCounted'
<1>0. /\ keys \in [Ids -> Row \cup {None}] /\ cl \in [Clients -> ClientRec]
      /\ \A id \in Rows : id \in Ids /\ keys[id] \in Row
      /\ \A id \in Ids : IsFiniteSet(CountedFor(id))
      /\ \A id \in Rows : keys[id].uses = Cardinality(CountedFor(id))
  BY DEF IInv, TypeOK, ClientRec, UsesAreCounted, CountedFor, Rows
<1>a. ASSUME \A id \in Rows' : keys'[id].uses = Cardinality(CountedFor(id)')
      PROVE  UsesAreCounted'
  BY <1>a DEF UsesAreCounted, CountedFor
<1>1. CASE \A c \in Clients : ~Touch(c)
  <2>1. \A id \in Ids : CountedFor(id)' = CountedFor(id)
    BY <1>1, OnlyTouchCounts
  <2>2. \A id \in Rows' : keys'[id].uses = Cardinality(CountedFor(id))
    <3>1. CASE UNCHANGED store
      BY <1>0, <3>1 DEF store, Rows
    <3>2. ASSUME NEW row \in Row, row.uses = 0, Insert(row)
          PROVE  \A id \in Rows' : keys'[id].uses = Cardinality(CountedFor(id))
      <4>1. nextID \in Ids /\ nextID \notin Rows /\ keys' = [keys EXCEPT ![nextID] = row]
        BY <3>2 DEF Insert, IInv, Numbered, Ids
      <4>2. CountedFor(nextID) = {}
        BY <4>1 DEF CountedFor, IInv, ClientsHoldRows, ClientHolds, Rows, RowsOf
      <4>3. Cardinality(CountedFor(nextID)) = 0
        BY <4>2, FS_EmptySet
      <4> QED BY <1>0, <3>2, <4>1, <4>3 DEF Rows
    <3>3. ASSUME NEW n \in Rows, SetRevoked(n)
          PROVE  \A id \in Rows' : keys'[id].uses = Cardinality(CountedFor(id))
      <4>1. \A id \in Rows' : id \in Rows /\ keys'[id].uses = keys[id].uses
        BY <1>0, <3>3 DEF SetRevoked, Rows, Row
      <4> QED BY <1>0, <4>1
    <3> QED BY <1>1, <3>1, <3>2, <3>3 DEF StoreStep
  <2>3. \A id \in Rows' : id \in Ids
    BY DEF Rows
  <2> QED BY <1>0, <1>a, <2>1, <2>2, <2>3
<1>2. ASSUME NEW c \in Clients, Touch(c)
      PROVE  (\A id \in Ids : IsFiniteSet(CountedFor(id)))' /\ UsesAreCounted'
  <2> DEFINE n == cl[c].id
  <2>1. n \in Rows /\ n \in Ids /\ keys[n] \in Row
    BY <1>0, <1>2 DEF Touch, IInv, ClientsHoldRows, ClientHolds, Rows, RowsOf
  <2>2. /\ keys' = [keys EXCEPT ![n].uses = @ + 1]
        /\ cl' = [cl EXCEPT ![c].pc = "counted"] /\ cl[c].pc = "admitted"
    BY <1>2 DEF Touch
  <2>3. c \notin CountedFor(n)
    BY <2>2 DEF CountedFor
  <2>4. \A id \in Ids : {d \in Clients : cl'[d].pc = "counted" /\ cl'[d].id = id}
                          = IF id = n THEN CountedFor(id) \cup {c} ELSE CountedFor(id)
    BY <1>0, <2>2 DEF CountedFor, ClientRec
  <2>5. \A id \in Rows' : id \in Rows /\ keys'[id].uses = IF id = n THEN keys[id].uses + 1
                                                                    ELSE keys[id].uses
    BY <1>0, <2>1, <2>2 DEF Rows, Row
  <2>6. /\ IsFiniteSet(CountedFor(n) \cup {c})
        /\ Cardinality(CountedFor(n) \cup {c}) = Cardinality(CountedFor(n)) + 1
    BY <1>0, <2>1, <2>3, FS_AddElement
  <2>7. \A id \in Ids : IsFiniteSet({d \in Clients : cl'[d].pc = "counted" /\ cl'[d].id = id})
    BY <1>0, <2>4, <2>6
  <2>8. \A id \in Rows' : keys'[id].uses
                          = Cardinality({d \in Clients : cl'[d].pc = "counted" /\ cl'[d].id = id})
    BY <1>0, <2>4, <2>5, <2>6
  <2> QED BY <2>7, <2>8 DEF UsesAreCounted, CountedFor
<1> QED BY <1>1, <1>2

-----------------------------------------------------------------------------
\* The clock, the restarts and the remaining histories.
LEMMA RestTypes ==
  ASSUME IInv, [Next]_vars
  PROVE  /\ now' \in Times
         /\ restarts' \in 0..MaxRestarts
         /\ generated' \subseteq Secrets
         /\ failed' \subseteq Secrets
<1>0. /\ now \in Times /\ restarts \in 0..MaxRestarts
      /\ generated \subseteq Secrets /\ failed \subseteq Secrets
      /\ MaxTime \in Nat /\ MaxRestarts \in Nat
  BY KeysAssumption DEF IInv, TypeOK
<1>1. now' \in Times
  <2>1. now' = now \/ Tick
    BY DEF Next, vars, history, CreateKey, CreateInsert, CreateFails, RotateKey, RotateInsert,
           RotateRevoke, RotateRevokeFails, RevokeKey, BootLookupSeed, BootSkip, BootGenerate,
           BootInsert, BootConflict, BootFails, Restart, AuthLookup, AuthCheck, Touch, TouchFails
  <2> QED BY <1>0, <2>1 DEF Tick, Times
<1>2. restarts' \in 0..MaxRestarts
  <2>1. restarts' = restarts \/ \E i \in Replicas : Restart(i)
    BY DEF Next, vars, history, CreateKey, CreateInsert, CreateFails, RotateKey, RotateInsert,
           RotateRevoke, RotateRevokeFails, RevokeKey, BootLookupSeed, BootSkip, BootGenerate,
           BootInsert, BootConflict, BootFails, AuthLookup, AuthCheck, Touch, TouchFails, Tick
  <2> QED BY <1>0, <2>1 DEF Restart
<1>3. generated' \subseteq Secrets
  <2>1. generated' = generated \/ \E secret \in Secrets : Generate(secret)
    BY DEF Next, vars, history, CreateKey, CreateInsert, CreateFails, RotateKey, RotateInsert,
           RotateRevoke, RotateRevokeFails, RevokeKey, BootLookupSeed, BootSkip, BootGenerate,
           BootInsert, BootConflict, BootFails, Restart, AuthLookup, AuthCheck, Touch, TouchFails,
           Tick
  <2> QED BY <1>0, <2>1 DEF Generate
<1>4. failed' \subseteq Secrets
  <2>1. \/ failed' = failed
        \/ \E a \in Admins : op[a].pc # "idle" /\ failed' = failed \cup {op[a].row.secret}
    BY DEF Next, vars, history, CreateKey, CreateInsert, CreateFails, RotateKey, RotateInsert,
           RotateRevoke, RotateRevokeFails, RevokeKey, BootLookupSeed, BootSkip, BootGenerate,
           BootInsert, BootConflict, BootFails, Restart, AuthLookup, AuthCheck, Touch, TouchFails,
           Tick
  <2>2. \A a \in Admins : op[a].pc # "idle" => op[a].row.secret \in Secrets
    BY DEF IInv, OpsHoldRows, OpHolds, Row
  <2> QED BY <1>0, <2>1, <2>2
<1> QED BY <1>1, <1>2, <1>3, <1>4

\* Initially the table is empty and nothing is under way.
LEMMA InitIInv == Init => IInv
<1> SUFFICES ASSUME Init PROVE IInv
  OBVIOUS
<1> USE KeysAssumption DEF Init
<1>1. Rows = {}
  BY DEF Rows
<1>2. TypeOK
  BY DEF TypeOK, IdleOp, IdleClient, Times, Ids
<1>3. Numbered /\ OneRowPerSecret /\ OpsHoldRows
  BY <1>1 DEF Numbered, OneRowPerSecret, OpsHoldRows, OpHolds, IdleOp
<1>4. ReplacementInPlace /\ BootHoldsSeed /\ BootstrapEstablishesSeed
  BY <1>1 DEF ReplacementInPlace, BootHoldsSeed, BootstrapEstablishesSeed
<1>5. ClientsHoldRows /\ ReportedIsRevoked /\ RevocationIsFinal
  BY <1>1 DEF ClientsHoldRows, ClientHolds, ReportedIsRevoked, RevocationIsFinal, IdleClient
<1>6. \A id \in Ids : CountedFor(id) = {}
  BY DEF CountedFor, IdleClient
<1>7. \A id \in Ids : IsFiniteSet(CountedFor(id))
  BY <1>6, FS_EmptySet
<1>8. UsesAreCounted
  BY <1>1 DEF UsesAreCounted
<1> QED BY <1>2, <1>3, <1>4, <1>5, <1>7, <1>8 DEF IInv

(***************************************************************************)
(* The invariant is inductive: the properties of Keys, and what operations *)
(* and requests hold between their statements.                             *)
(***************************************************************************)
THEOREM Inductive == Spec => []IInv
<1>1. IInv /\ [Next]_vars => IInv'
  <2> SUFFICES ASSUME IInv, [Next]_vars PROVE IInv'
    OBVIOUS
  <2>1. StoreStep
    BY EveryStepIsStoreStep
  <2>2. /\ keys' \in [Ids -> Row \cup {None}] /\ nextID' \in 1..(MaxKeys + 1)
        /\ \A id \in Rows' : id < nextID'
        /\ OneRowPerSecret' /\ Persists
    BY <2>1, StoreKept
  <2>3. op' \in [Admins -> OpRec] /\ OpsHoldRows'
    BY <2>1, <2>2, OpsKeep
  <2>4. /\ replaced' \in [Ids -> SUBSET Secrets]
        /\ \A id \in Ids : replaced'[id] # {} => id \in Rows'
        /\ ReplacementInPlace'
    BY <2>2, ReplacementsKeep
  <2>5. boot' \in [Replicas -> BootRec] /\ BootHoldsSeed' /\ BootstrapEstablishesSeed'
    BY <2>2, BootKeeps
  <2>6. ReportedIsRevoked' /\ revokedOk' \subseteq Secrets
    BY <2>2, ReportsKeep
  <2>7. cl' \in [Clients -> ClientRec] /\ ClientsHoldRows' /\ RevocationIsFinal'
    BY <2>2, ClientsKeep
  <2>8. (\A id \in Ids : IsFiniteSet(CountedFor(id)))' /\ UsesAreCounted'
    BY <2>1, <2>2, UsesKeep
  <2>9. TypeOK'
    BY <2>2, <2>3, <2>4, <2>5, <2>6, <2>7, RestTypes DEF TypeOK, OpRec, BootRec, ClientRec
  <2>10. Numbered'
    BY <2>2, <2>4 DEF Numbered
  <2> QED BY <2>2, <2>3, <2>4, <2>5, <2>6, <2>7, <2>8, <2>9, <2>10 DEF IInv
<1> QED BY InitIInv, <1>1, PTL DEF Spec

\* The variables have their types.
THEOREM TypeCorrect == Spec => []TypeOK
<1>1. IInv => TypeOK
  BY DEF IInv
<1> QED BY Inductive, <1>1, PTL

\* No request that presents a key after its revocation was reported is admitted
\* (Auth, touchAsync, Revoke).
THEOREM RevocationsAreFinal == Spec => []RevocationIsFinal
<1>1. IInv => RevocationIsFinal
  BY DEF IInv
<1> QED BY Inductive, <1>1, PTL

\* A rotation revokes the old key only with its replacement in place (RotateKey).
THEOREM ReplacementsAreInPlace == Spec => []ReplacementInPlace
<1>1. IInv => ReplacementInPlace
  BY DEF IInv
<1> QED BY Inductive, <1>1, PTL

\* Where Bootstrap reports success, a fixed seed is in the store (Bootstrap).
THEOREM SeedIsEstablished == Spec => []BootstrapEstablishesSeed
<1>1. IInv => BootstrapEstablishesSeed
  BY DEF IInv
<1> QED BY Inductive, <1>1, PTL

\* The request count of a key is the number of its requests whose Touch went
\* through, however many run at once (Touch).
THEOREM CountsAreExact == Spec => []UsesAreCounted
<1>1. IInv => UsesAreCounted
  BY DEF IInv
<1> QED BY Inductive, <1>1, PTL
=============================================================================
