--------------------------- MODULE AccountsProofs ---------------------------
(***************************************************************************)
(* For any requests, subjects and addresses: TypeOK, and that a takeover   *)
(* or an erasure deletes every credential of the account (PurgeSeesAll).   *)
(* As long as each subject keeps its address: VouchedCredentials, and      *)
(* IdentityNeverMoves, in the second half.                                 *)
(***************************************************************************)
EXTENDS Accounts, TLAPS

\* What a request knows and holds at each label.
NeedsUser == Label \ {"start", "subject", "email", "insert", "erase_find", "done"}
NeedsKey == {"save_lock", "save", "save_local", "cred_lock", "vouch", "cred"}
NeedsExcl == {"recheck", "snapshot", "purge", "save", "erase_check", "erase_delete",
              "erase_commit"}

Shape ==
    \A p \in Proc :
        /\ pc[p] \in NeedsUser => User(p) \in UserId
        /\ pc[p] \in NeedsKey => loc[p].key \in Key
        /\ pc[p] \in {"save", "vouch", "cred", "erase_check", "erase_delete"} => tx[p] = NoTx

\* The lock discipline: an exclusive holder is alone, a bound insert in
\* progress holds its account's lock shared and nobody else does, a purge and
\* an erasure hold it exclusively.
LockInv ==
    /\ \A u \in UserId : excl[u] # NoProc => shared[u] = {}
    /\ \A p \in Proc :
        /\ pc[p] \in {"vouch", "cred"} => p \in shared[User(p)]
        /\ pc[p] \notin {"vouch", "cred"} => \A u \in UserId : p \notin shared[u]
        /\ pc[p] \in NeedsExcl => excl[User(p)] = p
        /\ tx[p].purged => pc[p] \in {"update", "link", "commit"} /\ excl[User(p)] = p

\* What each request asks for never changes.
JobOK == job \in Workload

IInv == TypeOK /\ Shape /\ LockInv /\ PurgeSeesAll

\* The empty schema, every request at its start (pg.go Schema).
LEMMA InitIInv == Init => IInv
<1> SUFFICES ASSUME Init PROVE IInv
  OBVIOUS
<1> USE StoreAssumption DEF Init, StoreInit
<1>1. TypeOK
  BY DEF TypeOK, StoreTypeOK, UserRow, NoRow, MaybeUser, Tx, NoTx, NoKey, NoUser, Label,
         Local_, NoLocal, Outside, UserId
<1>2. Shape /\ LockInv /\ PurgeSeesAll
  BY DEF Shape, LockInv, PurgeSeesAll, Purging, NeedsUser, NeedsKey, NeedsExcl, NoTx, Label
<1>3. QED
  BY <1>1, <1>2 DEF IInv

\* What a request's workload entry says of the values its steps use: users,
\* identity keys and purposes the program can be given (porte.go Claims).
LEMMA RequestFacts ==
  ASSUME IInv, JobOK, NEW p \in Proc
  PROVE  /\ tx[p] \in Tx /\ loc[p] \in Local_ /\ User(p) \in MaybeUser
         /\ Claim(p) \in SsoKey /\ Claim(p) \in Key /\ Address(p) \in Email
         /\ pc[p] \in Label
<1>1. job[p] \in Request
  BY WorkloadAssumption DEF JobOK
<1>2. Claim(p) \in SsoKey /\ Claim(p) \in Key /\ Address(p) \in Email
  BY <1>1 DEF Request, Claim, Address, SsoKey, Key
<1>3. tx[p] \in Tx /\ loc[p] \in Local_ /\ pc[p] \in Label
  BY DEF IInv, TypeOK, StoreTypeOK
<1>4. User(p) \in MaybeUser
  BY <1>3 DEF Local_, User
<1>5. QED
  BY <1>2, <1>3, <1>4

\* A step of one request that takes and releases no lock and adds no
\* credential: what is left to show is about that request alone.
LEMMA LocalStep ==
  ASSUME IInv, JobOK, NEW p \in Proc, NEW label, TypeOK',
         pc' = [pc EXCEPT ![p] = label],
         UNCHANGED <<excl, shared>>, sess' \subseteq sess, codes' \subseteq codes,
         \A q \in Proc : q # p => tx'[q] = tx[q] /\ loc'[q] = loc[q],
         label \in NeedsUser => User(p)' \in UserId,
         label \in NeedsKey => loc'[p].key \in Key,
         label \in {"save", "vouch", "cred", "erase_check", "erase_delete"} => tx'[p] = NoTx,
         label \in {"vouch", "cred"} <=> pc[p] \in {"vouch", "cred"},
         label \in {"vouch", "cred"} => User(p)' = User(p),
         label \in NeedsExcl \/ tx'[p].purged => excl[User(p)'] = p,
         tx'[p].purged => label \in {"update", "link", "commit"},
         tx'[p].purged \/ label = "erase_commit" => CredsOf(User(p))' \subseteq tx'[p].dead
  PROVE  IInv'
<1>1. pc'[p] = label /\ \A q \in Proc : q # p => pc'[q] = pc[q]
  BY DEF IInv, TypeOK
<1>2. Shape'
  BY <1>1 DEF IInv, Shape, User
<1>3. LockInv'
  <2>1. \A u \in UserId : excl'[u] # NoProc => shared'[u] = {}
    BY DEF IInv, LockInv
  <2>2. ASSUME NEW q \in Proc
        PROVE  /\ pc'[q] \in {"vouch", "cred"} => q \in shared'[User(q)']
               /\ pc'[q] \notin {"vouch", "cred"} => \A u \in UserId : q \notin shared'[u]
               /\ pc'[q] \in NeedsExcl => excl'[User(q)'] = q
               /\ tx'[q].purged => pc'[q] \in {"update", "link", "commit"} /\ excl'[User(q)'] = q
    <3>1. CASE q = p
      BY <1>1, <3>1 DEF IInv, LockInv, User
    <3>2. CASE q # p
      BY <1>1, <3>2 DEF IInv, LockInv, User
    <3>3. QED
      BY <3>1, <3>2
  <2>3. QED
    BY <2>1, <2>2 DEF LockInv
<1>4. PurgeSeesAll'
  BY <1>1 DEF IInv, PurgeSeesAll, Purging, CredsOf, User
<1>5. QED
  BY <1>2, <1>3, <1>4 DEF IInv

\* A step that ends a transaction and releases its locks.  Where somebody
\* else holds an account's lock exclusively, it adds no credential.
LEMMA ReleaseStep ==
  ASSUME IInv, JobOK, NEW p \in Proc, NEW label \in Outside, TypeOK',
         pc' = [pc EXCEPT ![p] = label], ReleaseLocks(p),
         \A u \in UserId : excl[u] \notin {p, NoProc} => CredsOf(u)' \subseteq CredsOf(u),
         \A q \in Proc : q # p => tx'[q] = tx[q] /\ loc'[q] = loc[q],
         label \in NeedsUser => User(p)' \in UserId,
         label \in NeedsKey => loc'[p].key \in Key
  PROVE  IInv'
<1> USE StoreAssumption
<1>1. /\ pc'[p] = label /\ tx'[p] = NoTx /\ ~NoTx.purged
      /\ \A u \in UserId : excl'[u] # p /\ p \notin shared'[u]
  BY DEF IInv, TypeOK, NoTx
<1>2. ASSUME NEW q \in Proc, q # p
      PROVE  /\ pc'[q] = pc[q] /\ tx'[q] = tx[q] /\ loc'[q] = loc[q] /\ User(q)' = User(q)
             /\ \A u \in UserId : (excl'[u] = q <=> excl[u] = q)
                                  /\ (q \in shared'[u] <=> q \in shared[u])
  BY <1>2 DEF IInv, TypeOK, StoreTypeOK, ReleaseLocks, User
<1>3. Shape'
  BY <1>1, <1>2 DEF IInv, Shape, Outside
<1>4. LockInv'
  <2>1. \A u \in UserId : excl'[u] # NoProc => shared'[u] = {}
    BY DEF IInv, LockInv, TypeOK, StoreTypeOK, ReleaseLocks
  <2>2. ASSUME NEW q \in Proc
        PROVE  /\ pc'[q] \in {"vouch", "cred"} => q \in shared'[User(q)']
               /\ pc'[q] \notin {"vouch", "cred"} => \A u \in UserId : q \notin shared'[u]
               /\ pc'[q] \in NeedsExcl => excl'[User(q)'] = q
               /\ tx'[q].purged => pc'[q] \in {"update", "link", "commit"} /\ excl'[User(q)'] = q
    <3>1. CASE q = p
      BY <1>1, <3>1 DEF Outside, NeedsExcl
    <3>2. CASE q # p
      BY <1>2, <3>2 DEF IInv, LockInv, Shape, NeedsUser, NeedsExcl, Label
    <3>3. QED
      BY <3>1, <3>2
  <2>3. QED
    BY <2>1, <2>2 DEF LockInv
<1>5. PurgeSeesAll'
  <2> SUFFICES ASSUME NEW q \in Proc, Purging(q)'
               PROVE  CredsOf(User(q))' \subseteq tx'[q].dead
    BY DEF PurgeSeesAll
  <2>1. q # p
    BY <1>1 DEF Purging, Outside
  <2>2. Purging(q) /\ User(q)' = User(q) /\ tx'[q] = tx[q]
    BY <1>2, <2>1 DEF Purging
  <2>3. User(q) \in UserId /\ excl[User(q)] = q
    BY <2>2 DEF IInv, LockInv, Shape, Purging, NeedsUser, NeedsExcl, Label
  <2>4. CredsOf(User(q))' \subseteq CredsOf(User(q))
    BY <2>1, <2>2, <2>3 DEF CredsOf
  <2>5. QED
    BY <2>2, <2>4 DEF IInv, PurgeSeesAll
<1>6. QED
  BY <1>3, <1>4, <1>5 DEF IInv

\* No transaction is open before BeginTx and after Commit or Rollback
\* (bound.go withUserLock).
LEMMA NoTxType == NoTx \in Tx
BY DEF Tx, NoTx, NoRow, UserRow, MaybeUser, NoKey, NoUser

\* An account's credentials are stored sessions and login codes
\* (takeover.go purge).
LEMMA CredsOfType ==
  ASSUME TypeOK, NEW u
  PROVE  CredsOf(u) \in SUBSET Cred /\ IdentitiesOf(u) \in SUBSET Key
BY DEF TypeOK, StoreTypeOK, CredsOf, IdentitiesOf

\* What a transaction deletes, it deletes from what is stored
\* (takeover.go purge, erase.go eraseLocked).
LEMMA DeletesType ==
  ASSUME TypeOK, NEW p \in Proc, NEW G \in SUBSET Key, NEW D \in SUBSET Cred,
         NEW b \in BOOLEAN
  PROVE  /\ [tx EXCEPT ![p].gone = G, ![p].dead = D, ![p].purged = b] \in [Proc -> Tx]
         /\ [tx EXCEPT ![p].gone = G, ![p].dead = D] \in [Proc -> Tx]
<1>1. tx[p] \in Tx /\ tx \in [Proc -> Tx]
  BY DEF TypeOK, StoreTypeOK
<1>2. /\ [tx[p] EXCEPT !.gone = G, !.dead = D, !.purged = b] \in Tx
      /\ [tx[p] EXCEPT !.gone = G, !.dead = D] \in Tx
  BY <1>1 DEF Tx
<1>3. QED
  BY <1>1, <1>2

\* A request that ends in an error leaves nothing uncommitted and no lock
\* behind (linking.go UpsertFromOIDC's deferred Rollback).
LEMMA FailIInv ==
  ASSUME IInv, JobOK, NEW p \in Proc, Fail(p)
  PROVE  IInv'
<1>1. /\ pc' = [pc EXCEPT ![p] = "done"] /\ tx' = [tx EXCEPT ![p] = NoTx]
      /\ ReleaseLocks(p) /\ UNCHANGED <<users, ident, sess, codes, loc, evictor>>
  BY DEF Fail, Rollback, Goto, tables
<1>2. TypeOK'
  BY <1>1, NoTxType, StoreAssumption
  DEF IInv, TypeOK, StoreTypeOK, ReleaseLocks, Label, Outside
<1>3. QED
  BY <1>1, <1>2, ReleaseStep
  DEF IInv, TypeOK, StoreTypeOK, Outside, NeedsUser, NeedsKey, CredsOf

\* A takeover, a Save or an erasure takes the account's exclusive lock, which
\* nobody else holds in any mode (bound.go lockUser).
LEMMA ExclusiveIInv ==
  ASSUME IInv, JobOK, NEW p \in Proc, LockAccount(p) \/ SaveLock(p) \/ EraseLock(p)
  PROVE  IInv'
<1> USE StoreAssumption
        DEF IInv, LockAccount, SaveLock, EraseLock, At, LockExclusive, Goto
<1>1. TypeOK'
  BY DEF TypeOK, StoreTypeOK, Label, Outside, Shape, NeedsUser, User
<1>2. Shape'
  BY DEF Shape, TypeOK, User, NeedsUser, NeedsKey, Label, Outside
<1>3. User(p) \in UserId /\ excl[User(p)] \in {p, NoProc} /\ shared[User(p)] = {}
  <2>1. pc[p] \in {"lock", "save_lock", "erase_lock"} /\ WaitsFor(p) = {}
    OBVIOUS
  <2>2. AdvisoryHolders(p, User(p), "exclusive") = {}
    BY <2>1 DEF WaitsFor, Start
  <2>3. User(p) \in UserId /\ p \notin shared[User(p)] /\ shared[User(p)] \subseteq Proc
    BY <2>1 DEF LockInv, Shape, TypeOK, StoreTypeOK, NeedsUser, Label
  <2>4. QED
    BY <2>2, <2>3 DEF AdvisoryHolders
<1>4. LockInv'
  <2>1. \A u \in UserId : excl'[u] # NoProc => shared'[u] = {}
    BY <1>3 DEF LockInv, TypeOK, StoreTypeOK
  <2>2. ASSUME NEW q \in Proc
        PROVE  /\ pc'[q] \in {"vouch", "cred"} => q \in shared'[User(q)']
               /\ pc'[q] \notin {"vouch", "cred"} => \A u \in UserId : q \notin shared'[u]
    BY DEF LockInv, TypeOK, StoreTypeOK, User
  <2>3. ASSUME NEW q \in Proc
        PROVE  /\ pc'[q] \in NeedsExcl => excl'[User(q)'] = q
               /\ tx'[q].purged => pc'[q] \in {"update", "link", "commit"} /\ excl'[User(q)'] = q
    <3>1. CASE q = p
      BY <1>3, <3>1 DEF LockInv, TypeOK, StoreTypeOK, User
    <3>2. CASE q # p
      BY <1>3, <3>2 DEF LockInv, Shape, TypeOK, StoreTypeOK, User, NeedsUser, NeedsExcl, Label
    <3>3. QED
      BY <3>1, <3>2
  <2>4. QED
    BY <2>1, <2>2, <2>3 DEF LockInv
<1>5. PurgeSeesAll'
  BY DEF PurgeSeesAll, Purging, TypeOK, User, CredsOf
<1>6. QED
  BY <1>1, <1>2, <1>4, <1>5

\* The purge deletes what its snapshot saw, and under the exclusive lock that
\* is every credential of the account (takeover.go purge).
LEMMA PurgeIInv ==
  ASSUME IInv, JobOK, NEW p \in Proc, Purge(p)
  PROVE  IInv'
<1>1. /\ pc[p] = "purge" /\ pc' = [pc EXCEPT ![p] = "update"]
      /\ User(p) \in UserId /\ excl[User(p)] = p
  BY DEF IInv, Shape, LockInv, NeedsUser, NeedsExcl, Label, Purge, At, Goto
<1>2. /\ \A q \in Proc : q # p => tx'[q] = tx[q]
      /\ tx'[p].dead = CredsOf(User(p))
  BY DEF IInv, TypeOK, StoreTypeOK, Tx, Purge
<1>3. UNCHANGED <<users, ident, sess, codes, excl, shared, loc, evictor>>
  BY DEF Purge, tables
<1>4. tx' \in [Proc -> Tx]
  <2>1. loc[p].snap \cap IdentitiesOf(User(p)) \in SUBSET Key
    BY RequestFacts DEF Local_
  <2>2. QED
    BY <2>1, CredsOfType, DeletesType DEF IInv, Purge
<1>5. TypeOK'
  BY <1>1, <1>2, <1>3, <1>4 DEF IInv, TypeOK, StoreTypeOK, Label, Outside
<1>6. QED
  BY <1>1, <1>2, <1>3, <1>5, LocalStep DEF NeedsUser, NeedsKey, NeedsExcl, CredsOf, User

\* EraseIdentity's deletes see every credential of the account for the same
\* reason (erase.go eraseLocked).
LEMMA EraseDeleteIInv ==
  ASSUME IInv, JobOK, NEW p \in Proc, EraseDelete(p)
  PROVE  IInv'
<1>1. /\ pc[p] = "erase_delete" /\ pc' = [pc EXCEPT ![p] = "erase_commit"]
      /\ User(p) \in UserId /\ excl[User(p)] = p /\ tx[p] = NoTx
  BY DEF IInv, Shape, LockInv, NeedsUser, NeedsExcl, Label, EraseDelete, At, Goto
<1>2. /\ \A q \in Proc : q # p => tx'[q] = tx[q]
      /\ tx'[p].dead = CredsOf(User(p)) /\ tx'[p].purged = FALSE
  BY <1>1 DEF IInv, TypeOK, StoreTypeOK, Tx, NoTx, EraseDelete
<1>3. UNCHANGED <<users, ident, sess, codes, excl, shared, loc, evictor>>
  BY DEF EraseDelete, tables
<1>4. tx' \in [Proc -> Tx]
  <2>1. {Claim(p)} \in SUBSET Key
    BY RequestFacts
  <2>2. QED
    BY <2>1, CredsOfType, DeletesType DEF IInv, EraseDelete
<1>5. TypeOK'
  BY <1>1, <1>2, <1>3, <1>4 DEF IInv, TypeOK, StoreTypeOK, Label, Outside
<1>6. QED
  BY <1>1, <1>2, <1>3, <1>5, LocalStep DEF NeedsUser, NeedsKey, NeedsExcl, CredsOf, User

\* CommitLogin and CommitErase: the transaction's writes become the tables'.
LEMMA PublishType ==
  ASSUME TypeOK, NEW p \in Proc, Publish(p)
  PROVE  StoreTypeOK' /\ tx'[p] = NoTx
<1>1. tx[p] \in Tx
  BY DEF TypeOK, StoreTypeOK
<1>2. users' \in [UserId -> UserRow] /\ ident' \in [Key -> MaybeUser]
  BY <1>1 DEF Publish, TypeOK, StoreTypeOK, Tx, MaybeUser
<1>3. QED
  BY <1>2, NoTxType, StoreAssumption DEF Publish, ReleaseLocks, TypeOK, StoreTypeOK

\* A request whose transaction has ended, with its locks released, is again
\* where it has neither (bound.go withUserLock, linking.go UpsertFromOIDC).
LEMMA EndTypeOK ==
  ASSUME TypeOK, NEW p \in Proc, NEW label \in Outside, pc' = [pc EXCEPT ![p] = label],
         StoreTypeOK', tx'[p] = NoTx, \A q \in Proc : q # p => tx'[q] = tx[q],
         ReleaseLocks(p), loc' \in [Proc -> Local_],
         evictor' \in [UserId -> SsoKey \cup {NoKey}]
  PROVE  TypeOK'
<1>1. pc' \in [Proc -> Label] /\ pc'[p] = label /\ \A q \in Proc : q # p => pc'[q] = pc[q]
  BY DEF TypeOK, Outside, Label
<1>2. ASSUME NEW u \in UserId
      PROVE  excl'[u] # p /\ p \notin shared'[u]
  BY StoreAssumption DEF ReleaseLocks
<1>3. ASSUME NEW q \in Proc, NEW u \in UserId, excl[u] # q, q \notin shared[u]
      PROVE  excl'[u] # q /\ q \notin shared'[u]
  BY <1>3, StoreAssumption DEF ReleaseLocks
<1>4. ASSUME NEW q \in Proc, pc'[q] \in Outside
      PROVE  tx'[q] = NoTx /\ \A u \in UserId : excl'[u] # q /\ q \notin shared'[u]
  <2>1. CASE q = p
    BY <1>2, <2>1
  <2>2. CASE q # p
    <3>1. tx[q] = NoTx /\ \A u \in UserId : excl[u] # q /\ q \notin shared[u]
      BY <1>1, <1>4, <2>2 DEF TypeOK
    <3>2. QED
      BY <1>3, <2>2, <3>1
  <2>3. QED
    BY <2>1, <2>2
<1>5. QED
  BY <1>1, <1>4 DEF TypeOK

\* A login's commit publishes its rows and releases its locks together
\* (linking.go UpsertFromOIDC).
LEMMA CommitLoginIInv ==
  ASSUME IInv, JobOK, NEW p \in Proc, CommitLogin(p)
  PROVE  IInv'
<1>1. /\ pc[p] = "commit" /\ pc' = [pc EXCEPT ![p] = "save_lock"]
      /\ User(p) \in UserId /\ Publish(p)
      /\ loc' = [loc EXCEPT ![p].key = Claim(p)]
      /\ evictor' \in {evictor, [evictor EXCEPT ![User(p)] = Claim(p)]}
  BY DEF IInv, Shape, NeedsUser, Label, CommitLogin, At, Goto
<1>2. loc' \in [Proc -> Local_] /\ User(p)' = User(p) /\ loc'[p].key = Claim(p)
  BY <1>1, RequestFacts DEF IInv, TypeOK, Local_, User
<1>3. evictor' \in [UserId -> SsoKey \cup {NoKey}]
  BY <1>1, RequestFacts DEF IInv, TypeOK
<1>4. TypeOK'
  <2>1. StoreTypeOK' /\ tx'[p] = NoTx
    BY <1>1, PublishType DEF IInv
  <2>2. ReleaseLocks(p) /\ \A q \in Proc : q # p => tx'[q] = tx[q]
    BY <1>1 DEF Publish, IInv, TypeOK, StoreTypeOK
  <2>3. "save_lock" \in Outside
    BY DEF Outside
  <2>4. QED
    BY <1>1, <1>2, <1>3, <2>1, <2>2, <2>3, EndTypeOK DEF IInv
<1>5. /\ \A u \in UserId : CredsOf(u)' \subseteq CredsOf(u)
      /\ \A q \in Proc : q # p => tx'[q] = tx[q] /\ loc'[q] = loc[q]
      /\ ReleaseLocks(p)
  BY <1>1 DEF IInv, TypeOK, StoreTypeOK, Publish, CredsOf
<1>6. QED
  BY <1>1, <1>2, <1>4, <1>5, ReleaseStep, RequestFacts DEF Outside

\* An erasure's commit, likewise (bound.go withUserLock).
LEMMA CommitEraseIInv ==
  ASSUME IInv, JobOK, NEW p \in Proc, CommitErase(p)
  PROVE  IInv'
<1>1. /\ pc' = [pc EXCEPT ![p] = "done"] /\ Publish(p) /\ UNCHANGED <<loc, evictor>>
  BY DEF CommitErase, Goto
<1>2. TypeOK'
  <2>1. StoreTypeOK' /\ tx'[p] = NoTx
    BY <1>1, PublishType DEF IInv
  <2>2. ReleaseLocks(p) /\ \A q \in Proc : q # p => tx'[q] = tx[q]
    BY <1>1 DEF Publish, IInv, TypeOK, StoreTypeOK
  <2>3. "done" \in Outside
    BY DEF Outside
  <2>4. loc' \in [Proc -> Local_] /\ evictor' \in [UserId -> SsoKey \cup {NoKey}]
    BY <1>1 DEF IInv, TypeOK
  <2>5. QED
    BY <1>1, <2>1, <2>2, <2>3, <2>4, EndTypeOK DEF IInv
<1>3. QED
  BY <1>1, <1>2, ReleaseStep
  DEF IInv, TypeOK, StoreTypeOK, Publish, Outside, NeedsUser, NeedsKey, CredsOf

\* A bound insert cannot slip in behind a purge of its account: it holds the
\* lock shared, so nobody holds it exclusively.
LEMMA InsertCredIInv ==
  ASSUME IInv, JobOK, NEW p \in Proc, InsertCred(p)
  PROVE  IInv'
<1>1. /\ pc[p] = "cred" /\ pc' = [pc EXCEPT ![p] = "done"]
      /\ ReleaseLocks(p) /\ UNCHANGED <<users, ident, tx, loc, evictor>>
  BY DEF InsertCred, At, Goto
<1>2. /\ User(p) \in UserId /\ tx[p] = NoTx
      /\ loc[p].key \in Key /\ loc[p].from \in Proc \cup {NoProc}
  BY <1>1, RequestFacts DEF IInv, Shape, NeedsUser, NeedsKey, Label, Local_
<1>3. sess' \subseteq Cred /\ codes' \subseteq Cred
  BY <1>2 DEF IInv, TypeOK, StoreTypeOK, Cred, InsertCred
<1>4. TypeOK'
  BY <1>1, <1>2, <1>3, StoreAssumption
  DEF IInv, TypeOK, StoreTypeOK, ReleaseLocks, Label, Outside
<1>5. \A u \in UserId : u # User(p) => CredsOf(u)' \subseteq CredsOf(u)
  BY DEF InsertCred, CredsOf
<1>6. excl[User(p)] = NoProc
  BY <1>1, <1>2 DEF IInv, LockInv
<1>7. QED
  BY <1>1, <1>4, <1>5, <1>6, ReleaseStep DEF Outside, NeedsUser, NeedsKey

\* Save's own transaction updates the row it still owns and ends
\* (pg.go saveFederated).
LEMMA SaveFederatedIInv ==
  ASSUME IInv, JobOK, NEW p \in Proc, SaveFederated(p)
  PROVE  IInv'
<1>1. CASE Fail(p)
  BY <1>1, FailIInv
<1>2. CASE ~Fail(p)
  <2>1. /\ pc[p] = "save" /\ pc' = [pc EXCEPT ![p] = "cred_lock"]
        /\ ident' = [ident EXCEPT ![Claim(p)] = User(p)]
        /\ ReleaseLocks(p) /\ UNCHANGED <<users, sess, codes, tx, loc, evictor>>
    BY <1>2 DEF SaveFederated, At, Goto
  <2>2. User(p) \in UserId /\ loc[p].key \in Key /\ tx[p] = NoTx
    BY <2>1 DEF IInv, Shape, NeedsUser, NeedsKey, Label
  <2>3. TypeOK'
    BY <2>1, <2>2, StoreAssumption
    DEF IInv, TypeOK, StoreTypeOK, MaybeUser, ReleaseLocks, Label, Outside
  <2>4. QED
    BY <2>1, <2>2, <2>3, ReleaseStep DEF Outside, User, CredsOf
<1>3. QED
  BY <1>1, <1>2

\* A step that only reads: it changes nothing but where p is and what it knows.
LEMMA ReadStep ==
  ASSUME IInv, JobOK, NEW p \in Proc,
         pc' = [pc EXCEPT ![p] = pc'[p]], pc'[p] \in Label \ {"erase_commit"},
         loc' \in [Proc -> Local_], \A q \in Proc : q # p => loc'[q] = loc[q],
         UNCHANGED <<users, ident, sess, codes, excl, shared, tx, evictor>>,
         pc[p] \notin {"update", "link", "commit"},
         pc'[p] \in Outside => pc[p] \in Outside,
         pc'[p] \in NeedsUser => User(p)' \in UserId,
         pc'[p] \in NeedsKey => loc'[p].key \in Key,
         pc'[p] \in {"save", "vouch", "cred", "erase_check", "erase_delete"} => tx[p] = NoTx,
         pc'[p] \in {"vouch", "cred"} <=> pc[p] \in {"vouch", "cred"},
         pc'[p] \in {"vouch", "cred"} => User(p)' = User(p),
         pc'[p] \in NeedsExcl => excl[User(p)'] = p
  PROVE  IInv'
<1>1. TypeOK'
  BY DEF IInv, TypeOK, StoreTypeOK
<1>2. ~tx[p].purged
  BY DEF IInv, LockInv
<1>3. QED
  BY <1>1, <1>2, LocalStep

\* Assigning the account a request resolved keeps its locals well formed
\* (linking.go resolveOrCreate).
LEMMA LocUser ==
  ASSUME IInv, JobOK, NEW p \in Proc, NEW u \in UserId, loc' = [loc EXCEPT ![p].user = u]
  PROVE  /\ loc' \in [Proc -> Local_] /\ User(p)' = u /\ loc'[p].key = loc[p].key
         /\ \A q \in Proc : q # p => loc'[q] = loc[q]
<1>1. [loc[p] EXCEPT !.user = u] \in Local_
  BY RequestFacts DEF Local_, MaybeUser
<1>2. QED
  BY <1>1, RequestFacts DEF IInv, TypeOK, Local_, User

\* So does assigning the snapshot a purge works on (takeover.go purge).
LEMMA LocSnap ==
  ASSUME IInv, JobOK, NEW p \in Proc, NEW S \in SUBSET Key, loc' = [loc EXCEPT ![p].snap = S]
  PROVE  /\ loc' \in [Proc -> Local_] /\ User(p)' = User(p)
         /\ \A q \in Proc : q # p => loc'[q] = loc[q]
<1>1. [loc[p] EXCEPT !.snap = S] \in Local_
  BY RequestFacts DEF Local_
<1>2. QED
  BY <1>1, RequestFacts DEF IInv, TypeOK, Local_, User

\* So does assigning the identity a credential is bound to (bind.go
\* bindToCaller, handlers.go issueLoginCode).
LEMMA LocBinding ==
  ASSUME IInv, JobOK, NEW p \in Proc, NEW u \in UserId, NEW k \in Key, NEW f \in Proc \cup {NoProc},
         loc' = [loc EXCEPT ![p].user = u, ![p].key = k, ![p].from = f]
  PROVE  /\ loc' \in [Proc -> Local_] /\ User(p)' = u /\ loc'[p].key = k
         /\ \A q \in Proc : q # p => loc'[q] = loc[q]
<1>1. [loc[p] EXCEPT !.user = u, !.key = k, !.from = f] \in Local_
  BY RequestFacts DEF Local_, MaybeUser
<1>2. QED
  BY <1>1, RequestFacts DEF IInv, TypeOK, Local_, User

\* A stored identity belongs to a stored account: the user_id foreign key
\* (pg.go Schema).
LEMMA IdentOwner ==
  ASSUME IInv, JobOK, NEW k \in Key, ident[k] # NoUser
  PROVE  ident[k] \in UserId
BY DEF IInv, TypeOK, StoreTypeOK, MaybeUser

\* existingUser, byVerifiedEmail and the decision to insert or refuse.
LEMMA ResolveIInv ==
  ASSUME IInv, JobOK, NEW p \in Proc,
         ResolveBySubject(p) \/ ResolveByEmail(p) \/ Recheck(p) \/ PurgeSnapshot(p)
  PROVE  IInv'
<1> USE DEF Goto, storeVars
<1>1. CASE Fail(p)
  BY <1>1, FailIInv
<1>2. CASE Unmatched(p) /\ ~Fail(p) /\ pc[p] \in {"start", "subject", "email", "recheck"}
  <2>1. /\ pc' = [pc EXCEPT ![p] = "insert"]
        /\ UNCHANGED <<users, ident, sess, codes, excl, shared, tx, loc, evictor>>
    BY <1>2 DEF Unmatched
  <2>2. pc'[p] = "insert" /\ loc' \in [Proc -> Local_]
    BY <2>1 DEF IInv, TypeOK
  <2>3. QED
    BY <1>2, <2>1, <2>2, ReadStep DEF Label, Outside, NeedsUser, NeedsKey, NeedsExcl
<1>3. CASE ResolveBySubject(p) /\ ~Fail(p) /\ ~Unmatched(p)
  <2>1. /\ pc[p] \in {"start", "subject"}
        /\ UNCHANGED <<users, ident, sess, codes, excl, shared, tx, evictor>>
    BY <1>3 DEF ResolveBySubject, Start, At
  <2>2. CASE ident[Claim(p)] # NoUser
    <3>1. loc' = [loc EXCEPT ![p].user = ident[Claim(p)]] /\ pc' = [pc EXCEPT ![p] = "update"]
      BY <1>3, <2>2 DEF ResolveBySubject
    <3>2. pc'[p] = "update" /\ ident[Claim(p)] \in UserId
      BY <2>2, <3>1, IdentOwner, RequestFacts DEF IInv, TypeOK
    <3>3. QED
      BY <2>1, <3>1, <3>2, LocUser, ReadStep DEF Label, Outside, NeedsUser, NeedsKey, NeedsExcl
  <2>3. CASE ident[Claim(p)] = NoUser
    <3>1. pc' = [pc EXCEPT ![p] = "email"] /\ loc' = loc
      BY <1>3, <2>3 DEF ResolveBySubject
    <3>2. /\ pc'[p] = "email" /\ loc' \in [Proc -> Local_]
      BY <3>1 DEF IInv, TypeOK
    <3>3. QED
      BY <2>1, <3>1, <3>2, ReadStep DEF Label, Outside, NeedsUser, NeedsKey, NeedsExcl
  <2>4. QED
    BY <2>2, <2>3
<1>4. CASE ResolveByEmail(p) /\ ~Unmatched(p)
  <2>1. PICK u \in UserId : loc' = [loc EXCEPT ![p].user = u]
    BY <1>4 DEF ResolveByEmail, Holders
  <2>2. /\ pc[p] = "email" /\ pc' = [pc EXCEPT ![p] = "lock"]
        /\ UNCHANGED <<users, ident, sess, codes, excl, shared, tx, evictor>>
    BY <1>4 DEF ResolveByEmail, At
  <2>3. pc'[p] = "lock"
    BY <2>2 DEF IInv, TypeOK
  <2>4. QED
    BY <2>1, <2>2, <2>3, LocUser, ReadStep DEF Label, Outside, NeedsUser, NeedsKey, NeedsExcl
<1>5. CASE Recheck(p) /\ ~Unmatched(p)
  <2>1. /\ pc[p] = "recheck" /\ User(p) \in UserId /\ excl[User(p)] = p
    BY <1>5 DEF Recheck, At, IInv, Shape, LockInv, NeedsUser, NeedsExcl, Label
  <2>2. /\ UNCHANGED <<users, ident, sess, codes, excl, shared, tx, loc, evictor>>
        /\ \/ pc' = [pc EXCEPT ![p] = "update"]
           \/ pc' = [pc EXCEPT ![p] = "snapshot"]
    BY <1>5 DEF Recheck
  <2>3. /\ pc'[p] \in {"update", "snapshot"} /\ pc' = [pc EXCEPT ![p] = pc'[p]]
        /\ loc' \in [Proc -> Local_] /\ User(p)' = User(p)
    BY <2>2 DEF IInv, TypeOK, User
  <2>4. QED
    BY <2>1, <2>2, <2>3, ReadStep DEF Label, Outside, NeedsUser, NeedsKey, NeedsExcl
<1>6. CASE PurgeSnapshot(p)
  <2>1. /\ pc[p] = "snapshot" /\ User(p) \in UserId /\ excl[User(p)] = p
    BY <1>6 DEF PurgeSnapshot, At, IInv, Shape, LockInv, NeedsUser, NeedsExcl, Label
  <2>2. /\ UNCHANGED <<users, ident, sess, codes, excl, shared, tx, evictor>>
        /\ pc' = [pc EXCEPT ![p] = "purge"]
        /\ loc' = [loc EXCEPT ![p].snap = IdentitiesOf(User(p))]
    BY <1>6 DEF PurgeSnapshot
  <2>3. pc'[p] = "purge" /\ IdentitiesOf(User(p)) \in SUBSET Key
    BY <2>2, CredsOfType DEF IInv, TypeOK
  <2>4. QED
    BY <2>1, <2>2, <2>3, LocSnap, ReadStep DEF Label, Outside, NeedsUser, NeedsKey, NeedsExcl
<1>7. QED
  BY <1>1, <1>2, <1>3, <1>4, <1>5, <1>6
  DEF ResolveBySubject, ResolveByEmail, Recheck, At, Start

\* The login's uncommitted writes: the account row, then the identity.
LEMMA RowWrite ==
  ASSUME TypeOK, NEW p \in Proc, NEW u \in UserId, NEW r \in UserRow,
         tx' = [tx EXCEPT ![p].row = u, ![p].data = r]
  PROVE  /\ tx' \in [Proc -> Tx]
         /\ tx'[p].purged = tx[p].purged /\ tx'[p].dead = tx[p].dead
         /\ \A q \in Proc : q # p => tx'[q] = tx[q]
<1>1. tx[p] \in Tx /\ tx \in [Proc -> Tx]
  BY DEF TypeOK, StoreTypeOK
<1>2. [tx[p] EXCEPT !.row = u, !.data = r] \in Tx
  BY <1>1 DEF Tx, MaybeUser
<1>3. QED
  BY <1>1, <1>2 DEF Tx

\* A transaction that notes the identity it links leaves the others alone
\* (linking.go UpsertFromOIDC).
LEMMA LinkWrite ==
  ASSUME TypeOK, NEW p \in Proc, NEW u \in UserId, NEW k \in Key,
         tx' = [tx EXCEPT ![p].key = k, ![p].to = u]
  PROVE  /\ tx' \in [Proc -> Tx]
         /\ tx'[p].purged = tx[p].purged /\ tx'[p].dead = tx[p].dead
         /\ \A q \in Proc : q # p => tx'[q] = tx[q]
<1>1. tx[p] \in Tx /\ tx \in [Proc -> Tx]
  BY DEF TypeOK, StoreTypeOK
<1>2. [tx[p] EXCEPT !.key = k, !.to = u] \in Tx
  BY <1>1 DEF Tx, MaybeUser
<1>3. QED
  BY <1>1, <1>2 DEF Tx

\* Inserting an account takes an unused id or adopts the row that won
\* (linking.go insertUser).
LEMMA InsertUserIInv ==
  ASSUME IInv, JobOK, NEW p \in Proc, InsertUser(p)
  PROVE  IInv'
<1>1. pc[p] = "insert" /\ UNCHANGED <<users, ident, sess, codes, excl, shared, evictor>>
  BY DEF InsertUser, At, tables, storeVars
<1>2. CASE Holders(Address(p)) # {}
  <2>1. /\ pc' = [pc EXCEPT ![p] = "subject"] /\ loc' = [loc EXCEPT ![p].second = TRUE]
        /\ tx' = tx
    BY <1>2 DEF InsertUser, Goto, storeVars
  <2>2. [loc[p] EXCEPT !.second = TRUE] \in Local_
    BY RequestFacts DEF Local_
  <2>3. /\ pc'[p] = "subject" /\ loc' \in [Proc -> Local_]
        /\ \A q \in Proc : q # p => loc'[q] = loc[q]
    BY <2>1, <2>2 DEF IInv, TypeOK
  <2>4. QED
    BY <1>1, <2>1, <2>3, ReadStep DEF Label, Outside, NeedsUser, NeedsKey, NeedsExcl
<1>3. CASE Holders(Address(p)) = {}
  <2>1. PICK u \in UserId :
          /\ loc' = [loc EXCEPT ![p].user = u]
          /\ tx' = [tx EXCEPT ![p].row = u,
                      ![p].data = [email |-> Address(p), verified |-> job[p].verified]]
    BY <1>3 DEF InsertUser
  <2>2. pc' = [pc EXCEPT ![p] = "link"] /\ pc'[p] = "link"
    BY <1>3 DEF InsertUser, Goto, IInv, TypeOK
  <2>3. [email |-> Address(p), verified |-> job[p].verified] \in UserRow
    BY RequestFacts, WorkloadAssumption DEF JobOK, Request, UserRow
  <2>4. /\ tx' \in [Proc -> Tx] /\ ~tx'[p].purged
        /\ \A q \in Proc : q # p => tx'[q] = tx[q]
    <3>1. ~tx[p].purged
      BY <1>1 DEF IInv, LockInv
    <3>2. QED
      BY <2>1, <2>3, <3>1, RowWrite DEF IInv
  <2>5. TypeOK'
    <3>1. StoreTypeOK' /\ evictor' \in [UserId -> SsoKey \cup {NoKey}]
      BY <1>1, <2>4 DEF IInv, TypeOK, StoreTypeOK
    <3>2. pc' \in [Proc -> Label] /\ \A q \in Proc : q # p => pc'[q] = pc[q]
      BY <2>2 DEF IInv, TypeOK, Label
    <3>3. \A q \in Proc : pc'[q] \in Outside =>
            tx'[q] = NoTx /\ \A v \in UserId : excl'[v] # q /\ q \notin shared'[v]
      BY <1>1, <2>2, <2>4, <3>2 DEF IInv, TypeOK, Outside
    <3>4. loc' \in [Proc -> Local_]
      BY <2>1, LocUser
    <3>5. QED
      BY <3>1, <3>2, <3>3, <3>4 DEF TypeOK
  <2>6. /\ User(p)' = u /\ u \in UserId
        /\ \A q \in Proc : q # p => tx'[q] = tx[q] /\ loc'[q] = loc[q]
    BY <2>1, <2>4, LocUser
  <2>7. /\ "link" \in NeedsUser /\ "link" \notin NeedsKey /\ "link" \notin NeedsExcl
        /\ pc[p] \notin {"vouch", "cred"}
    BY <1>1 DEF NeedsUser, NeedsKey, NeedsExcl, Label
  <2>8. QED
    BY <1>1, <2>2, <2>4, <2>5, <2>6, <2>7, LocalStep
<1>4. QED
  BY <1>2, <1>3

\* updateUser and the link keep what a purge deleted before them.
LEMMA WriteIInv ==
  ASSUME IInv, JobOK, NEW p \in Proc, UpdateUser(p) \/ LinkIdentity(p)
  PROVE  IInv'
<1>1. CASE Fail(p)
  BY <1>1, FailIInv
<1>2. CASE ~Fail(p)
  <2>1. /\ pc[p] \in {"update", "link"}
        /\ \/ pc' = [pc EXCEPT ![p] = "link"]
           \/ pc' = [pc EXCEPT ![p] = "commit"]
        /\ UNCHANGED <<users, ident, sess, codes, excl, shared, loc, evictor>>
    BY <1>2 DEF UpdateUser, LinkIdentity, At, Goto, tables
  <2>2. /\ User(p) \in UserId /\ pc'[p] \in {"link", "commit"}
        /\ pc' = [pc EXCEPT ![p] = pc'[p]] /\ pc' \in [Proc -> Label]
        /\ \A q \in Proc : q # p => pc'[q] = pc[q]
        /\ tx[p].purged => excl[User(p)] = p /\ CredsOf(User(p)) \subseteq tx[p].dead
    BY <2>1 DEF IInv, TypeOK, Shape, LockInv, PurgeSeesAll, Purging, NeedsUser, Label
  <2>3. /\ tx' \in [Proc -> Tx] /\ tx'[p].purged = tx[p].purged /\ tx'[p].dead = tx[p].dead
        /\ \A q \in Proc : q # p => tx'[q] = tx[q]
    <3>1. CASE UpdateUser(p)
      <4> DEFINE row == [email |-> IF job[p].verified THEN Address(p) ELSE users[User(p)].email,
                         verified |-> users[User(p)].verified \/ job[p].verified]
      <4>1. tx' = [tx EXCEPT ![p].row = User(p), ![p].data = row]
        BY <1>2, <3>1 DEF UpdateUser
      <4>2. row \in UserRow
        BY <2>2, RequestFacts, WorkloadAssumption DEF JobOK, Request, UserRow, IInv, TypeOK, StoreTypeOK
      <4>3. QED
        BY <2>2, <4>1, <4>2, RowWrite DEF IInv
    <3>2. CASE LinkIdentity(p)
      <4>1. tx' = [tx EXCEPT ![p].key = Claim(p), ![p].to = User(p)]
        BY <3>2 DEF LinkIdentity
      <4>2. QED
        BY <2>2, <4>1, LinkWrite, RequestFacts DEF IInv
    <3>3. QED
      BY <3>1, <3>2
  <2>4. TypeOK'
    <3>1. StoreTypeOK' /\ loc' \in [Proc -> Local_]
          /\ evictor' \in [UserId -> SsoKey \cup {NoKey}]
      BY <2>1, <2>3 DEF IInv, TypeOK, StoreTypeOK
    <3>2. \A q \in Proc : pc'[q] \in Outside =>
            tx'[q] = NoTx /\ \A u \in UserId : excl'[u] # q /\ q \notin shared'[u]
      BY <2>1, <2>2, <2>3 DEF IInv, TypeOK, Outside
    <3>3. QED
      BY <2>2, <3>1, <3>2 DEF TypeOK
  <2>5. QED
    BY <2>1, <2>2, <2>3, <2>4, LocalStep DEF NeedsUser, NeedsKey, NeedsExcl, CredsOf, User
<1>3. QED
  BY <1>1, <1>2

\* Local registration, which commits each write by itself and takes no lock.
LEMMA RegisterIInv ==
  ASSUME IInv, JobOK, NEW p \in Proc, Register(p)
  PROVE  IInv'
<1>1. CASE Fail(p)
  BY <1>1, FailIInv
<1>2. CASE ~Fail(p)
  <2>1. PICK u \in UserId :
          /\ users' = [users EXCEPT ![u] = [email |-> Address(p), verified |-> FALSE]]
          /\ loc' = [loc EXCEPT ![p].user = u, ![p].key = Local(u)]
    BY <1>2 DEF Register
  <2>2. /\ pc[p] = "start" /\ pc' = [pc EXCEPT ![p] = "save_local"]
        /\ UNCHANGED <<ident, sess, codes, excl, shared, tx, evictor>>
    BY <1>2 DEF Register, Start, Goto
  <2>3. Local(u) \in Key
    BY DEF Key
  <2>4. [loc[p] EXCEPT !.user = u, !.key = Local(u)] \in Local_
    BY <2>3, RequestFacts DEF Local_, MaybeUser
  <2>5. /\ loc' \in [Proc -> Local_] /\ User(p)' = u /\ loc'[p].key = Local(u)
        /\ \A q \in Proc : q # p => loc'[q] = loc[q]
    BY <2>1, <2>4, RequestFacts DEF IInv, TypeOK, Local_, User
  <2>6. users' \in [UserId -> UserRow]
    BY <2>1, RequestFacts DEF IInv, TypeOK, StoreTypeOK, UserRow
  <2>7. tx[p] = NoTx /\ ~tx[p].purged
    BY <2>2 DEF IInv, TypeOK, LockInv, Outside
  <2>8. TypeOK'
    BY <2>2, <2>5, <2>6, <2>7 DEF IInv, TypeOK, StoreTypeOK, Label, Outside
  <2>9. QED
    BY <2>2, <2>3, <2>5, <2>7, <2>8, LocalStep DEF NeedsUser, NeedsKey, NeedsExcl
<1>3. QED
  BY <1>1, <1>2

\* A registration saves its password identity without a lock (local.go
\* Register, pg.go Save).
LEMMA SaveLocalIInv ==
  ASSUME IInv, JobOK, NEW p \in Proc, SaveLocal(p)
  PROVE  IInv'
<1>1. /\ pc[p] = "save_local" /\ pc' = [pc EXCEPT ![p] = "cred_lock"]
      /\ User(p) \in UserId /\ loc[p].key \in Key /\ tx[p] = NoTx /\ ~tx[p].purged
      /\ ident' = [ident EXCEPT ![Local(User(p))] = User(p)]
      /\ UNCHANGED <<users, sess, codes, excl, shared, tx, loc, evictor>>
  BY DEF SaveLocal, At, Goto, IInv, TypeOK, Shape, Outside, NeedsUser, NeedsKey, Label, LockInv
<1>2. ident' \in [Key -> MaybeUser]
  BY <1>1 DEF IInv, TypeOK, StoreTypeOK, MaybeUser
<1>3. TypeOK'
  BY <1>1, <1>2 DEF IInv, TypeOK, StoreTypeOK, Label, Outside
<1>4. QED
  BY <1>1, <1>3, LocalStep DEF NeedsUser, NeedsKey, NeedsExcl, User

\* The shared lock is granted only while nobody holds the exclusive one.
LEMMA LockForCreateIInv ==
  ASSUME IInv, JobOK, NEW p \in Proc, LockForCreate(p)
  PROVE  IInv'
<1>1. /\ pc[p] = "cred_lock" /\ pc' = [pc EXCEPT ![p] = "vouch"]
      /\ WaitsFor(p) = {} /\ User(p) \in UserId /\ loc[p].key \in Key /\ tx[p] = NoTx
      /\ ~tx[p].purged
      /\ shared' = [shared EXCEPT ![User(p)] = @ \cup {p}]
      /\ UNCHANGED <<users, ident, sess, codes, excl, tx, loc, evictor>>
  BY DEF LockForCreate, LockShared, At, Goto, IInv, TypeOK, Shape, LockInv, Outside,
         NeedsUser, NeedsKey, Label
<1>2. excl[User(p)] = NoProc
  <2>1. AdvisoryHolders(p, User(p), "shared") = {}
    BY <1>1 DEF WaitsFor, Start
  <2>2. excl[User(p)] # p
    BY <1>1 DEF IInv, TypeOK, Outside
  <2>3. QED
    BY <2>1, <2>2 DEF AdvisoryHolders
<1>3. pc'[p] = "vouch" /\ \A q \in Proc : q # p => pc'[q] = pc[q]
  BY <1>1 DEF IInv, TypeOK
<1>4. /\ \A u \in UserId : u # User(p) => shared'[u] = shared[u]
      /\ shared'[User(p)] = shared[User(p)] \cup {p}
      /\ shared' \in [UserId -> SUBSET Proc]
  BY <1>1 DEF IInv, TypeOK, StoreTypeOK
<1>5. \A q \in Proc, u \in UserId : q # p => (q \in shared'[u] <=> q \in shared[u])
  BY <1>4
<1>6. TypeOK'
  <2>1. StoreTypeOK' /\ pc' \in [Proc -> Label]
    BY <1>1, <1>4 DEF IInv, TypeOK, StoreTypeOK, Label
  <2>2. \A q \in Proc : pc'[q] \in Outside =>
          tx'[q] = NoTx /\ \A u \in UserId : excl'[u] # q /\ q \notin shared'[u]
    BY <1>1, <1>3, <1>5 DEF IInv, TypeOK, Outside
  <2>3. QED
    BY <1>1, <2>1, <2>2 DEF IInv, TypeOK
<1>7. Shape'
  BY <1>1, <1>3 DEF IInv, Shape, User
<1>8. LockInv'
  <2>1. \A u \in UserId : excl'[u] # NoProc => shared'[u] = {}
    BY <1>1, <1>2, <1>4 DEF IInv, LockInv
  <2>2. ASSUME NEW q \in Proc
        PROVE  /\ pc'[q] \in {"vouch", "cred"} => q \in shared'[User(q)']
               /\ pc'[q] \notin {"vouch", "cred"} => \A u \in UserId : q \notin shared'[u]
               /\ pc'[q] \in NeedsExcl => excl'[User(q)'] = q
               /\ tx'[q].purged => pc'[q] \in {"update", "link", "commit"} /\ excl'[User(q)'] = q
    <3>1. CASE q = p
      BY <1>1, <1>3, <1>4, <3>1 DEF User, NeedsExcl
    <3>2. CASE q # p
      BY <1>1, <1>3, <1>5, <3>2 DEF IInv, LockInv, Shape, User, NeedsUser, NeedsExcl, Label
    <3>3. QED
      BY <3>1, <3>2
  <2>3. QED
    BY <2>1, <2>2 DEF LockInv
<1>9. PurgeSeesAll'
  BY <1>1, <1>3 DEF IInv, PurgeSeesAll, Purging, CredsOf, User
<1>10. QED
  BY <1>6, <1>7, <1>8, <1>9 DEF IInv

\* Creating a credential: the shared lock is held from before the check until
\* the insert commits (bound.go whileBound, vouched).
LEMMA VouchIInv ==
  ASSUME IInv, JobOK, NEW p \in Proc, Vouch(p)
  PROVE  IInv'
<1>1. CASE Fail(p)
  BY <1>1, FailIInv
<1>2. CASE ~Fail(p)
  <2>1. /\ pc[p] = "vouch" /\ pc' = [pc EXCEPT ![p] = "cred"]
        /\ UNCHANGED <<users, ident, sess, codes, excl, shared, tx, loc, evictor>>
    BY <1>2 DEF Vouch, At, Goto, storeVars
  <2>2. /\ pc'[p] = "cred" /\ loc' \in [Proc -> Local_] /\ User(p)' = User(p)
        /\ User(p) \in UserId /\ loc[p].key \in Key /\ tx[p] = NoTx
    BY <2>1 DEF IInv, TypeOK, Shape, NeedsUser, NeedsKey, Label, User
  <2>3. QED
    BY <2>1, <2>2, ReadStep DEF Label, Outside, NeedsUser, NeedsKey, NeedsExcl
<1>3. QED
  BY <1>1, <1>2

\* A credential is bound to what the request signed in with.
LEMMA BindIInv ==
  ASSUME IInv, JobOK, NEW p \in Proc, MintToken(p) \/ DeviceExchange(p)
  PROVE  IInv'
<1>1. CASE Fail(p)
  BY <1>1, FailIInv
<1>2. CASE ~Fail(p)
  <2>1. /\ pc[p] = "start"
        /\ UNCHANGED <<users, ident, sess, codes, excl, shared, tx, evictor>>
    BY <1>2 DEF MintToken, DeviceExchange, Start, storeVars
  <2>2. PICK u \in UserId, k \in Key, f \in Proc \cup {NoProc} : Bind(p, u, k, f)
    <3>1. CASE MintToken(p)
      <4>1. PICK s \in sess : Bind(p, s.user, s.key, s.id)
        BY <3>1 DEF MintToken
      <4>2. s \in Cred
        BY DEF IInv, TypeOK, StoreTypeOK
      <4>3. QED
        BY <4>1, <4>2 DEF Cred
    <3>2. CASE DeviceExchange(p)
      BY <1>2, <3>2, IdentOwner, RequestFacts DEF DeviceExchange
    <3>3. QED
      BY <3>1, <3>2
  <2>3. pc' = [pc EXCEPT ![p] = "cred_lock"] /\ pc'[p] = "cred_lock"
    BY <2>2 DEF Bind, Goto, IInv, TypeOK
  <2>4. loc' = [loc EXCEPT ![p].user = u, ![p].key = k, ![p].from = f]
    BY <2>2 DEF Bind
  <2>5. /\ loc' \in [Proc -> Local_] /\ User(p)' = u /\ loc'[p].key = k
        /\ \A q \in Proc : q # p => loc'[q] = loc[q]
    BY <2>4, LocBinding
  <2>6. QED
    BY <2>1, <2>3, <2>5, ReadStep DEF Label, Outside, NeedsUser, NeedsKey, NeedsExcl
<1>3. QED
  BY <1>1, <1>2

\* A login code is consumed and its session requested (handlers.go
\* handleExchange, pg.go Consume).
LEMMA ExchangeCodeIInv ==
  ASSUME IInv, JobOK, NEW p \in Proc, ExchangeCode(p)
  PROVE  IInv'
<1>1. /\ pc[p] = "start"
      /\ UNCHANGED <<users, ident, sess, excl, shared, tx, evictor>>
  BY DEF ExchangeCode, Start
<1>2. PICK c \in codes : /\ codes' = codes \ {c}
                         /\ \/ Bind(p, c.user, c.key, c.id)
                            \/ Goto(p, "done") /\ UNCHANGED loc
  BY DEF ExchangeCode
<1>3. c.user \in UserId /\ c.key \in Key /\ c.id \in Proc \cup {NoProc}
  BY DEF IInv, TypeOK, StoreTypeOK, Cred
<1>4. /\ pc' = [pc EXCEPT ![p] = pc'[p]] /\ pc'[p] \in {"cred_lock", "done"}
      /\ pc' \in [Proc -> Label] /\ \A q \in Proc : q # p => pc'[q] = pc[q]
  BY <1>2 DEF Bind, Goto, IInv, TypeOK, Label
<1>5. /\ loc' \in [Proc -> Local_] /\ \A q \in Proc : q # p => loc'[q] = loc[q]
      /\ pc'[p] = "cred_lock" => User(p)' \in UserId /\ loc'[p].key \in Key
  <2>1. CASE Bind(p, c.user, c.key, c.id)
    <3>1. PICK u \in UserId, k \in Key, f \in Proc \cup {NoProc} :
            loc' = [loc EXCEPT ![p].user = u, ![p].key = k, ![p].from = f]
      BY <1>3, <2>1 DEF Bind
    <3>2. User(p)' = u /\ loc'[p].key = k
      BY <3>1, LocBinding
    <3>3. loc' \in [Proc -> Local_] /\ \A q \in Proc : q # p => loc'[q] = loc[q]
      BY <3>1, LocBinding
    <3>4. QED
      BY <3>2, <3>3
  <2>2. CASE Goto(p, "done") /\ UNCHANGED loc
    BY <2>2 DEF Goto, IInv, TypeOK
  <2>3. QED
    BY <1>2, <2>1, <2>2
<1>6. tx[p] = NoTx /\ ~tx[p].purged
  BY <1>1 DEF IInv, TypeOK, LockInv, Outside
<1>7. TypeOK'
  <2>1. StoreTypeOK'
    BY <1>1, <1>2 DEF IInv, TypeOK, StoreTypeOK
  <2>2. \A q \in Proc : pc'[q] \in Outside =>
          tx'[q] = NoTx /\ \A u \in UserId : excl'[u] # q /\ q \notin shared'[u]
    BY <1>1, <1>4 DEF IInv, TypeOK, Outside
  <2>3. QED
    BY <1>1, <1>4, <1>5, <2>1, <2>2 DEF IInv, TypeOK
<1>8. codes' \subseteq codes
  BY <1>2
<1>9. QED
  BY <1>1, <1>4, <1>5, <1>6, <1>7, <1>8, LocalStep DEF NeedsUser, NeedsKey, NeedsExcl

\* EraseIdentity and the back-channel logout find the account first.
LEMMA FindIInv ==
  ASSUME IInv, JobOK, NEW p \in Proc, EraseFind(p) \/ LogoutFind(p)
  PROVE  IInv'
<1>1. CASE Fail(p)
  BY <1>1, FailIInv
<1>2. CASE ~Fail(p)
  <2>1. /\ pc[p] \in {"start", "erase_find"}
        /\ ident[Claim(p)] # NoUser /\ loc' = [loc EXCEPT ![p].user = ident[Claim(p)]]
        /\ UNCHANGED <<users, ident, sess, codes, excl, shared, tx, evictor>>
        /\ \/ pc' = [pc EXCEPT ![p] = "erase_lock"]
           \/ pc' = [pc EXCEPT ![p] = "revoke"]
    BY <1>2 DEF EraseFind, LogoutFind, Start, At, Goto, storeVars
  <2>2. /\ pc' = [pc EXCEPT ![p] = pc'[p]] /\ pc'[p] \in {"erase_lock", "revoke"}
        /\ ident[Claim(p)] \in UserId
    BY <2>1, IdentOwner, RequestFacts DEF IInv, TypeOK
  <2>3. /\ loc' \in [Proc -> Local_] /\ User(p)' \in UserId
        /\ \A q \in Proc : q # p => loc'[q] = loc[q]
    BY <2>1, <2>2, LocUser
  <2>4. /\ pc'[p] \in Label \ {"erase_commit"} /\ pc'[p] \in Outside /\ pc[p] \in Outside
        /\ pc'[p] \notin NeedsKey /\ pc'[p] \notin NeedsExcl
        /\ pc'[p] \notin {"save", "vouch", "cred", "erase_check", "erase_delete"}
        /\ pc[p] \notin {"update", "link", "commit", "vouch", "cred"}
    BY <2>1, <2>2 DEF Label, Outside, NeedsKey, NeedsExcl
  <2>5. QED
    BY <2>1, <2>2, <2>3, <2>4, ReadStep
<1>3. QED
  BY <1>1, <1>2

\* An erasure re-reads the owner under the lock and starts over when it moved
\* (erase.go eraseLocked).
LEMMA EraseCheckIInv ==
  ASSUME IInv, JobOK, NEW p \in Proc, EraseCheck(p)
  PROVE  IInv'
<1> DEFINE owner == ident[Claim(p)]
<1>1. CASE Fail(p)
  BY <1>1, FailIInv
<1>2. CASE owner = User(p) /\ ~Fail(p)
  <2>1. /\ pc[p] = "erase_check" /\ pc' = [pc EXCEPT ![p] = "erase_delete"]
        /\ UNCHANGED <<users, ident, sess, codes, excl, shared, tx, loc, evictor>>
    BY <1>2 DEF EraseCheck, At, Goto, storeVars
  <2>2. /\ pc'[p] = "erase_delete" /\ loc' \in [Proc -> Local_] /\ User(p)' = User(p)
        /\ User(p) \in UserId /\ excl[User(p)] = p /\ tx[p] = NoTx
    BY <2>1 DEF IInv, TypeOK, Shape, LockInv, NeedsUser, NeedsExcl, Label, User
  <2>3. QED
    BY <2>1, <2>2, ReadStep DEF Label, Outside, NeedsUser, NeedsKey, NeedsExcl
<1>3. CASE owner # User(p) /\ ~Fail(p)
  <2>1. /\ pc' = [pc EXCEPT ![p] = "erase_find"]
        /\ loc[p].tries < 2 /\ loc' = [loc EXCEPT ![p].tries = @ + 1]
        /\ tx' = [tx EXCEPT ![p] = NoTx] /\ ReleaseLocks(p)
        /\ UNCHANGED <<users, ident, sess, codes, evictor>>
    BY <1>3 DEF EraseCheck, Goto, Rollback, tables
  <2>2. [loc[p] EXCEPT !.tries = @ + 1] \in Local_
    BY <2>1, RequestFacts DEF Local_
  <2>3. loc' \in [Proc -> Local_] /\ \A q \in Proc : q # p => loc'[q] = loc[q]
    BY <2>1, <2>2 DEF IInv, TypeOK
  <2>4. TypeOK'
    BY <2>1, <2>3, NoTxType, StoreAssumption
    DEF IInv, TypeOK, StoreTypeOK, ReleaseLocks, Label, Outside
  <2>5. QED
    BY <2>1, <2>3, <2>4, ReleaseStep
    DEF IInv, TypeOK, StoreTypeOK, Outside, NeedsUser, NeedsKey, CredsOf
<1>4. QED
  BY <1>1, <1>2, <1>3

\* Back-channel logout deletes the account's sessions without a lock
\* (handlers.go handleBackchannelLogout).
LEMMA RevokeUserIInv ==
  ASSUME IInv, JobOK, NEW p \in Proc, RevokeUser(p)
  PROVE  IInv'
<1>1. /\ pc[p] = "revoke" /\ pc' = [pc EXCEPT ![p] = "done"] /\ sess' \subseteq sess
      /\ tx[p] = NoTx /\ ~tx[p].purged
      /\ UNCHANGED <<users, ident, codes, excl, shared, tx, loc, evictor>>
  BY DEF RevokeUser, At, Goto, IInv, TypeOK, LockInv, Outside
<1>2. TypeOK'
  BY <1>1 DEF IInv, TypeOK, StoreTypeOK, Label, Outside
<1>3. QED
  BY <1>1, <1>2, LocalStep DEF NeedsUser, NeedsKey, NeedsExcl

\* A session that ends, or nothing at all.
LEMMA OtherIInv ==
  ASSUME IInv, JobOK, EndSession \/ UNCHANGED vars
  PROVE  IInv'
<1>1. /\ sess' \subseteq sess
      /\ UNCHANGED <<users, ident, codes, excl, shared, tx, pc, loc, evictor>>
  BY DEF EndSession, vars
<1>2. TypeOK'
  BY <1>1 DEF IInv, TypeOK, StoreTypeOK
<1>3. Shape' /\ LockInv' /\ PurgeSeesAll'
  BY <1>1 DEF IInv, Shape, LockInv, PurgeSeesAll, Purging, CredsOf, User
<1>4. QED
  BY <1>2, <1>3 DEF IInv

\* Every step of every request keeps the invariant (linking.go, bound.go,
\* erase.go, pg.go).
LEMMA NextIInv ==
  ASSUME IInv, JobOK, [Next]_vars
  PROVE  IInv'
<1>1. ASSUME NEW p \in Proc, UpsertStep(p)
      PROVE  IInv'
  BY <1>1, ResolveIInv, ExclusiveIInv, InsertUserIInv, PurgeIInv, WriteIInv, CommitLoginIInv
  DEF UpsertStep
<1>2. ASSUME NEW p \in Proc, SaveStep(p)
      PROVE  IInv'
  BY <1>2, ExclusiveIInv, SaveFederatedIInv, RegisterIInv, SaveLocalIInv DEF SaveStep
<1>3. ASSUME NEW p \in Proc, CreateStep(p)
      PROVE  IInv'
  BY <1>3, LockForCreateIInv, VouchIInv, InsertCredIInv, BindIInv, ExchangeCodeIInv, FailIInv
  DEF CreateStep, Unauthenticated
<1>4. ASSUME NEW p \in Proc, EraseStep(p) \/ LogoutStep(p)
      PROVE  IInv'
  BY <1>4, FindIInv, ExclusiveIInv, EraseCheckIInv, EraseDeleteIInv, CommitEraseIInv,
     RevokeUserIInv
  DEF EraseStep, LogoutStep
<1>5. ASSUME NEW p \in Proc, Abort(p)
      PROVE  IInv'
  BY <1>5, FailIInv DEF Abort
<1>6. QED
  BY <1>1, <1>2, <1>3, <1>4, <1>5, OtherIInv DEF Next, Step, Finished

\* The inductive invariant: types, what a request knows at each label, the
\* exclusion of pg/bound.go's advisory locks, and PurgeSeesAll.
THEOREM Inductive == Spec => [](IInv /\ JobOK)
<1>1. Init => IInv /\ JobOK
  BY InitIInv DEF Init, JobOK
<1>2. IInv /\ JobOK /\ [Next]_vars => (IInv /\ JobOK)'
  <2>1. SUFFICES ASSUME IInv, JobOK, [Next]_vars PROVE JobOK'
    BY NextIInv
  <2>2. job' = job
    BY <2>1 DEF Next, Step, Abort, EndSession, Finished, vars
  <2>3. QED
    BY <2>2, <2>1 DEF JobOK
<1>3. QED
  BY <1>1, <1>2, PTL DEF Spec

\* Every row, lock and request record keeps its shape, and a request outside
\* a transaction holds no lock and has nothing uncommitted: withUserLock's and
\* UpsertFromOIDC's deferred rollbacks leave nothing behind.
THEOREM TypeCorrect == Spec => []TypeOK
<1>1. IInv => TypeOK
  BY DEF IInv
<1>2. QED
  BY <1>1, Inductive, PTL

\* No credential of the account survives the delete of a takeover
\* (UpsertFromOIDC's purge) or of EraseIdentity, whatever bound inserts run
\* beside it: what pg/bound.go's two lock modes promise.
THEOREM PurgeComplete == Spec => []PurgeSeesAll
<1>1. IInv => PurgeSeesAll
  BY DEF IInv
<1>2. QED
  BY <1>1, Inductive, PTL

-----------------------------------------------------------------------------
(***************************************************************************)
(* Nobody's session or login code outlives the identity it was minted      *)
(* under (VouchedCredentials), and no identity moves from one account to   *)
(* another, as long as each subject keeps its address.  (One that changes  *)
(* it between two first logins is re-pointed by the second: linking.go     *)
(* linkIdentity.)                                                          *)
(*                                                                         *)
(* An identity key has one account it may belong to, its home: the one     *)
(* with the subject's address, or the account whose password it is.        *)
(* Whatever a request has read, from the row it resolved to the credential *)
(* it is about to insert, is about a key at home, so an identity can go    *)
(* but not move.  It goes only under the exclusive lock of its account,    *)
(* which a request between vouched and its insert excludes.                *)
(***************************************************************************)

SubjectsKeepAddress ==
    \A w \in Workload : \A p, q \in Proc : w[p].subj = w[q].subj => w[p].email = w[q].email

KeepsAddress == \A p, q \in Proc : job[p].subj = job[q].subj => job[p].email = job[q].email
Steady == JobOK /\ KeepsAddress

Home(k, u) == k = Local(u) \/ \E q \in Proc : k = Claim(q) /\ users[u].email = Address(q)

\* The unique index on email, with the rows not committed yet.
Pending(p) == tx[p].row # NoUser
Waits(p) ==
    /\ pc[p] \in {"link", "commit"}
    /\ tx[p].data.email \in Email
    /\ \A u \in UserId : users[u].email = tx[p].data.email => u = tx[p].row
    /\ Exists(tx[p].row) => users[tx[p].row].email = tx[p].data.email
Emails ==
    /\ \A u, v \in UserId : users[u].email = users[v].email /\ Exists(u) => u = v
    /\ \A p \in Proc : Pending(p) => Waits(p)
    /\ \A p, q \in Proc : Pending(p) /\ Pending(q) =>
          (tx[p].row = tx[q].row <=> tx[p].data.email = tx[q].data.email)

\* What a request has read or is writing.
Resolved == {"lock", "recheck", "snapshot", "purge", "update", "save_lock", "save"}
Erasing == {"erase_lock", "erase_check", "erase_delete", "erase_commit"}
Minting == {"cred_lock", "vouch", "cred"}
Known(p) ==
    /\ pc[p] \in Resolved => users[User(p)].email = Address(p)
    /\ pc[p] \in {"link", "commit"} => tx[p].row = User(p) /\ tx[p].data.email = Address(p)
    /\ pc[p] = "commit" => tx[p].key = Claim(p) /\ tx[p].to = User(p)
    /\ tx[p].key # NoKey => pc[p] = "commit"
    /\ pc[p] \in Erasing => Home(Claim(p), User(p))
    /\ pc[p] = "save" => loc[p].key = Claim(p)
    /\ pc[p] = "save_lock" => loc[p].key = Claim(p)
    /\ pc[p] = "save_local" => loc[p].key = Local(User(p))
    /\ pc[p] \in Minting => Home(loc[p].key, User(p))
    /\ pc[p] = "cred" => ident[loc[p].key] = User(p)
    /\ tx[p].gone # {} => Purging(p)
    /\ \A k \in tx[p].gone : Home(k, User(p))

AtHome == \A k \in Key : ident[k] # NoUser => Home(k, ident[k])

\* A credential is named by the request that minted it, which is over; a
\* named token's request remembers what its parent session is bound to.
Named ==
    /\ \A c \in sess \cup codes : pc[c.id] = "done"
    /\ \A c, d \in sess : c.id = d.id => c.key = d.key
Token(p) == Kind(p) = "mint" =>
    /\ pc[p] \in {"start", "cred_lock", "vouch", "cred", "done"}
    /\ pc[p] \in Minting =>
          /\ loc[p].from \in Proc /\ pc[loc[p].from] = "done"
          /\ \A c \in sess : c.id = loc[p].from => c.key = loc[p].key

VInv ==
    /\ Emails /\ AtHome /\ Named /\ VouchedCredentials
    /\ \A p \in Proc : Known(p) /\ Token(p)

EmailsStay == \A u \in UserId : Exists(u) => users'[u].email = users[u].email

LEMMA JobFacts ==
    ASSUME Steady, NEW p \in Proc
    PROVE  /\ Address(p) \in Email /\ Address(p) # NoEmail /\ Claim(p) \in SsoKey /\ Claim(p) \in Key
           /\ \A q \in Proc : Claim(p) = Claim(q) => Address(p) = Address(q)
           /\ \A u : Claim(p) # Local(u)
<1>1. job[p] \in Request
  BY WorkloadAssumption DEF Steady, JobOK
<1>2. Address(p) \in Email /\ Claim(p) \in SsoKey /\ Claim(p) \in Key
  BY <1>1 DEF Request, Claim, Address, SsoKey, Key
<1>3. \A q \in Proc : Claim(p) = Claim(q) => Address(p) = Address(q)
  BY DEF Steady, KeepsAddress, Claim, Address, Sso
<1>4. \A u : Claim(p) # Local(u)
  BY DEF Claim, Sso, Local
<1> QED
  BY <1>2, <1>3, <1>4, StoreAssumption

LEMMA HomeUnique ==
    ASSUME Steady, Emails, NEW k, NEW u \in UserId, NEW v \in UserId, Home(k, u), Home(k, v)
    PROVE  u = v
<1>1. CASE k = Local(u) \/ k = Local(v)
  <2>1. k = Local(u) /\ k = Local(v)
    BY <1>1, JobFacts DEF Home
  <2> QED
    BY <2>1 DEF Local
<1>2. CASE k # Local(u) /\ k # Local(v)
  <2>1. PICK p \in Proc, q \in Proc : /\ k = Claim(p) /\ users[u].email = Address(p)
                                      /\ k = Claim(q) /\ users[v].email = Address(q)
    BY <1>2 DEF Home
  <2>2. users[u].email = users[v].email /\ Exists(u)
    BY <2>1, JobFacts DEF Exists
  <2> QED
    BY <2>2 DEF Emails
<1> QED
  BY <1>1, <1>2

LEMMA HomeStays ==
    ASSUME Steady, job' = job, EmailsStay, NEW k, NEW u \in UserId, Home(k, u)
    PROVE  Home(k, u)'
<1>1. CASE k = Local(u)
  BY <1>1 DEF Home
<1>2. ASSUME NEW q \in Proc, k = Claim(q), users[u].email = Address(q) PROVE Home(k, u)'
  <2>1. users'[u].email = Address(q)
    BY <1>2, JobFacts DEF EmailsStay, Exists
  <2>2. Claim(q)' = Claim(q) /\ Address(q)' = Address(q)
    BY DEF Claim, Address
  <2> QED
    BY <1>2, <2>1, <2>2 DEF Home
<1> QED
  BY <1>1, <1>2 DEF Home

LEMMA OwnHome ==
    ASSUME NEW p \in Proc, NEW u, users[u].email = Address(p)
    PROVE  Home(Claim(p), u)
  BY DEF Home

LEMMA VouchingInit == ASSUME Init PROVE VInv
<1> USE StoreAssumption DEF Init, StoreInit
<1>1. Emails
  BY DEF Emails, Exists, NoRow, Pending, NoTx
<1>2. AtHome /\ Named /\ VouchedCredentials
  BY DEF AtHome, Named, VouchedCredentials
<1>3. ASSUME NEW p \in Proc PROVE Known(p) /\ Token(p)
  <2>1. pc[p] \in {"start", "done"} /\ tx[p] = NoTx
    OBVIOUS
  <2>2. Known(p)
    BY <2>1 DEF Known, Resolved, Erasing, Minting, NoTx
  <2>3. Token(p)
    BY <2>1 DEF Token, Minting
  <2> QED
    BY <2>2, <2>3
<1> QED
  BY <1>1, <1>2, <1>3 DEF VInv

-----------------------------------------------------------------------------
(* What a step of one request leaves of the others. *)

LEMMA OthersKnow ==
    ASSUME IInv, VInv, Steady, job' = job, EmailsStay, NEW q \in Proc,
           pc'[q] = pc[q], tx'[q] = tx[q], loc'[q] = loc[q],
           pc[q] = "cred" => ident'[loc[q].key] = ident[loc[q].key]
    PROVE  Known(q)'
<1>1. Known(q) /\ Claim(q)' = Claim(q) /\ Address(q)' = Address(q) /\ User(q)' = User(q)
      /\ Purging(q)' = Purging(q)
  BY DEF VInv, Claim, Address, User, Purging
<1>2. Address(q) # NoEmail
  BY JobFacts
<1>3. pc[q] \in Resolved => users'[User(q)].email = Address(q)
  <2>1. pc[q] \in Resolved => User(q) \in UserId
    BY DEF IInv, Shape, Resolved, NeedsUser, Label
  <2> QED
    BY <1>1, <1>2, <2>1 DEF Known, EmailsStay, Exists
<1>4. pc[q] \in Erasing \cup Minting => User(q) \in UserId
  BY DEF IInv, Shape, Erasing, Minting, NeedsUser, Label
<1>5. /\ pc[q] \in Erasing => Home(Claim(q), User(q))'
      /\ pc[q] \in Minting => Home(loc[q].key, User(q))'
  <2>1. CASE pc[q] \in Erasing
    <3>1. Home(Claim(q), User(q)) /\ User(q) \in UserId
      BY <1>1, <1>4, <2>1 DEF Known
    <3>2. PICK k, u : k = Claim(q) /\ u = User(q) /\ u \in UserId
      BY <3>1
    <3>3. Home(k, u)'
      BY <3>1, <3>2, HomeStays
    <3> QED
      BY <1>1, <2>1, <3>2, <3>3 DEF Erasing, Minting
  <2>2. CASE pc[q] \in Minting
    <3>1. Home(loc[q].key, User(q)) /\ User(q) \in UserId
      BY <1>1, <1>4, <2>2 DEF Known
    <3>2. PICK k, u : k = loc[q].key /\ u = User(q) /\ u \in UserId
      BY <3>1
    <3>3. Home(k, u)'
      BY <3>1, <3>2, HomeStays
    <3> QED
      BY <1>1, <2>2, <3>2, <3>3 DEF Erasing, Minting
  <2> QED
    BY <2>1, <2>2
<1>6. \A k \in tx[q].gone : Home(k, User(q))'
  <2> SUFFICES ASSUME NEW k \in tx[q].gone PROVE Home(k, User(q))'
    OBVIOUS
  <2>1. Home(k, User(q)) /\ Purging(q)
    BY <1>1 DEF Known
  <2>2. User(q) \in UserId
    BY <2>1 DEF IInv, LockInv, Shape, Purging, NeedsUser, Label
  <2>3. PICK u \in UserId : u = User(q)
    BY <2>2
  <2> QED
    BY <1>1, <2>1, <2>3, HomeStays
<1> QED
  BY <1>1, <1>3, <1>5, <1>6 DEF Known

\* Credentials go; none is added.
LEMMA CredsGo ==
    ASSUME IInv, IInv', VInv, job' = job, NEW p \in Proc, pc[p] # "done",
           \A q \in Proc : q # p => pc'[q] = pc[q] /\ loc'[q] = loc[q],
           sess' \subseteq sess, codes' \subseteq codes, Token(p)'
    PROVE  Named' /\ \A q \in Proc : Token(q)'
<1>1. \A c \in sess \cup codes : c.id \in Proc /\ pc[c.id] = "done"
  BY DEF VInv, Named, IInv, TypeOK, StoreTypeOK, Cred
<1>2. Named'
  <2>1. \A c \in sess' \cup codes' : pc'[c.id] = "done"
    BY <1>1
  <2> QED
    BY <2>1 DEF VInv, Named
<1>3. ASSUME NEW q \in Proc PROVE Token(q)'
  <2>1. CASE q = p
    BY <2>1
  <2>2. CASE q # p
    <3>1. Token(q) /\ pc'[q] = pc[q] /\ loc'[q] = loc[q] /\ Kind(q)' = Kind(q)
      BY <2>2 DEF VInv, Kind
    <3>2. \A r \in Proc : pc[r] = "done" => pc'[r] = "done"
      OBVIOUS
    <3> QED
      BY <3>1, <3>2 DEF Token
  <2> QED
    BY <2>1, <2>2
<1> QED
  BY <1>2, <1>3

\* No identity is linked or unlinked, no address written, no credential added.
LEMMA QuietStep ==
    ASSUME IInv, IInv', VInv, Steady, job' = job, NEW p \in Proc, pc[p] # "done",
           \A q \in Proc : q # p => pc'[q] = pc[q] /\ tx'[q] = tx[q] /\ loc'[q] = loc[q],
           users' = users, ident' = ident, sess' \subseteq sess, codes' \subseteq codes,
           \/ tx'[p].row = NoUser
           \/ pc'[p] \in {"link", "commit"} /\ tx'[p].row = tx[p].row /\ tx'[p].data = tx[p].data,
           Known(p)', Token(p)'
    PROVE  VInv'
<1>1. EmailsStay
  BY DEF EmailsStay
<1>2. \A q \in Proc : Known(q)'
  <2> SUFFICES ASSUME NEW q \in Proc, q # p PROVE Known(q)'
    OBVIOUS
  <2> QED
    BY <1>1, OthersKnow
<1>3. Emails'
  <2>1. \A q \in Proc : Pending(q)' => Pending(q) /\ tx'[q].row = tx[q].row /\ tx'[q].data = tx[q].data
    BY DEF Pending
  <2>2. \A q \in Proc : Pending(q)' => Waits(q)'
    <3> SUFFICES ASSUME NEW q \in Proc, Pending(q)' PROVE Waits(q)'
      OBVIOUS
    <3>1. Waits(q) /\ tx'[q].row = tx[q].row /\ tx'[q].data = tx[q].data
      BY <2>1 DEF VInv, Emails
    <3>2. pc'[q] \in {"link", "commit"}
      BY <3>1 DEF Waits, Pending
    <3> QED
      BY <3>1, <3>2 DEF Waits, Exists
  <2> QED
    BY <2>1, <2>2 DEF VInv, Emails, Exists
<1>4. AtHome'
  <2> SUFFICES ASSUME NEW k \in Key, ident[k] # NoUser PROVE Home(k, ident[k])'
    BY DEF AtHome
  <2>1. PICK u \in UserId : u = ident[k]
    BY DEF IInv, TypeOK, StoreTypeOK, MaybeUser
  <2>2. Home(k, u)'
    BY <1>1, <2>1, HomeStays DEF VInv, AtHome
  <2> QED
    BY <2>1, <2>2
<1>5. VouchedCredentials'
  BY DEF VInv, VouchedCredentials
<1>6. Named' /\ \A q \in Proc : Token(q)'
  BY CredsGo
<1> QED
  BY <1>2, <1>3, <1>4, <1>5, <1>6 DEF VInv

LEMMA NotMint == ASSUME NEW p \in Proc, job' = job, Kind(p) # "mint" PROVE Token(p)'
  BY DEF Token, Kind

\* Where a request is past a named token's few labels, it is none.
LEMMA IsNotMint ==
    ASSUME VInv, NEW p \in Proc, pc[p] \notin {"start", "cred_lock", "vouch", "cred", "done"}
    PROVE  Kind(p) # "mint"
  BY DEF VInv, Token

\* Before its writes, and outside its transaction, a request has none.
LEMMA NoWrites ==
    ASSUME IInv, VInv, NEW p \in Proc, pc[p] \notin {"update", "link", "commit", "erase_commit"}
    PROVE  tx[p].row = NoUser /\ tx[p].key = NoKey /\ tx[p].gone = {}
<1>1. ~Pending(p)
  BY DEF VInv, Emails, Waits
<1>2. ~Purging(p)
  BY DEF IInv, LockInv, Purging
<1>3. tx[p].key = NoKey /\ tx[p].gone = {}
  BY <1>2 DEF VInv, Known
<1> QED
  BY <1>1, <1>3 DEF Pending

LEMMA ReadKeeps ==
    ASSUME IInv, IInv', VInv, Steady, job' = job, NEW p \in Proc, NEW label \in Label,
           pc[p] \notin {"update", "link", "commit", "erase_commit", "done"},
           pc' = [pc EXCEPT ![p] = label], label \notin {"link", "commit", "erase_commit"},
           UNCHANGED <<users, ident, tx>>, sess' \subseteq sess, codes' \subseteq codes,
           \A q \in Proc : q # p => loc'[q] = loc[q],
           label \in Resolved => users[User(p)'].email = Address(p),
           label \in Erasing => Home(Claim(p), User(p)'),
           label \in {"save", "save_lock"} => loc'[p].key = Claim(p),
           label = "save_local" => loc'[p].key = Local(User(p)'),
           label \in Minting => Home(loc'[p].key, User(p)'),
           label = "cred" => ident[loc'[p].key] = User(p)',
           Token(p)'
    PROVE  VInv'
<1>1. pc'[p] = label /\ \A q \in Proc : q # p => pc'[q] = pc[q]
  BY DEF IInv, TypeOK
<1>2. tx'[p].row = NoUser /\ tx'[p].key = NoKey /\ tx'[p].gone = {}
  BY NoWrites
<1>3. Claim(p)' = Claim(p) /\ Address(p)' = Address(p)
  BY DEF Claim, Address
<1>4. \A k, u : Home(k, u) => Home(k, u)'
  BY DEF Home, Claim, Address
<1>5. Known(p)'
  <2>1. label \in Erasing => Home(Claim(p), User(p))'
    <3>1. PICK k, u : k = Claim(p) /\ u = User(p)'
      OBVIOUS
    <3> QED
      BY <1>3, <1>4, <3>1
  <2>2. label \in Minting => Home(loc[p].key, User(p))'
    <3>1. PICK k, u : k = loc'[p].key /\ u = User(p)'
      OBVIOUS
    <3> QED
      BY <1>4, <3>1
  <2> QED
    BY <1>1, <1>2, <1>3, <2>1, <2>2 DEF Known
<1> QED
  BY <1>1, <1>2, <1>5, QuietStep

LEMMA FailKeeps ==
    ASSUME IInv, IInv', VInv, Steady, job' = job, NEW p \in Proc, pc[p] # "done", Fail(p)
    PROVE  VInv'
<1>1. /\ pc' = [pc EXCEPT ![p] = "done"] /\ tx' = [tx EXCEPT ![p] = NoTx]
      /\ UNCHANGED <<users, ident, sess, codes, loc>>
  BY DEF Fail, Rollback, Goto, tables
<1>2. /\ pc'[p] = "done" /\ tx'[p] = NoTx
      /\ \A q \in Proc : q # p => pc'[q] = pc[q] /\ tx'[q] = tx[q]
  BY <1>1 DEF IInv, TypeOK, StoreTypeOK
<1>3. Known(p)' /\ Token(p)'
  BY <1>2 DEF Known, Token, Resolved, Erasing, Minting, NoTx
<1> QED
  BY <1>1, <1>2, <1>3, QuietStep DEF NoTx

-----------------------------------------------------------------------------
(* The steps that read, lock, or end something. *)

LEMMA ResolveKeeps ==
    ASSUME IInv, IInv', VInv, Steady, job' = job, NEW p \in Proc,
           ResolveBySubject(p) \/ ResolveByEmail(p) \/ Recheck(p)
    PROVE  VInv'
<1>1. pc[p] \in {"start", "subject", "email", "recheck"} /\ Kind(p) # "mint"
  BY IsNotMint DEF ResolveBySubject, ResolveByEmail, Recheck, Start, At
<1>2. Token(p)' /\ tx[p].row = NoUser
  BY <1>1, NotMint, NoWrites
<1>3. CASE Fail(p)
  BY <1>1, <1>3, FailKeeps
<1>4. CASE UNCHANGED <<storeVars, loc>> /\ Goto(p, "insert")
  BY <1>1, <1>2, <1>4, ReadKeeps DEF Goto, storeVars, Label, Resolved, Erasing, Minting
<1>5. CASE UNCHANGED <<storeVars, loc>> /\ Goto(p, "email")
  BY <1>1, <1>2, <1>5, ReadKeeps DEF Goto, storeVars, Label, Resolved, Erasing, Minting
<1>6. ASSUME ident[Claim(p)] # NoUser, loc' = [loc EXCEPT ![p].user = ident[Claim(p)]],
             Goto(p, "update"), UNCHANGED storeVars
      PROVE  VInv'
  <2>1. PICK u \in UserId : u = ident[Claim(p)]
    BY <1>6, JobFacts DEF IInv, TypeOK, StoreTypeOK, MaybeUser
  <2>2. users[u].email = Address(p)
    <3>1. Home(Claim(p), u)
      BY <1>6, <2>1, JobFacts DEF VInv, AtHome
    <3> QED
      BY <3>1, JobFacts DEF Home
  <2>3. User(p)' = u /\ \A q \in Proc : q # p => loc'[q] = loc[q]
    BY <1>6, <2>1, LocUser DEF Steady
  <2> QED
    BY <1>1, <1>2, <1>6, <2>2, <2>3, ReadKeeps
    DEF Goto, storeVars, Label, Resolved, Erasing, Minting, User
<1>7. ASSUME NEW u \in Holders(Address(p)), loc' = [loc EXCEPT ![p].user = u],
             Goto(p, "lock"), UNCHANGED storeVars
      PROVE  VInv'
  <2>1. u \in UserId /\ users[u].email = Address(p)
    BY DEF Holders
  <2>2. User(p)' = u /\ \A q \in Proc : q # p => loc'[q] = loc[q]
    BY <1>7, <2>1, LocUser DEF Steady
  <2> QED
    BY <1>1, <1>2, <1>7, <2>1, <2>2, ReadKeeps
    DEF Goto, storeVars, Label, Resolved, Erasing, Minting, User
<1>8. ASSUME users[User(p)].email = Address(p), NEW label \in {"update", "snapshot"},
             Goto(p, label), UNCHANGED <<storeVars, loc>>
      PROVE  VInv'
  BY <1>1, <1>2, <1>8, ReadKeeps DEF Goto, storeVars, Label, Resolved, Erasing, Minting, User
<1>9. CASE ResolveBySubject(p)
  BY <1>3, <1>4, <1>5, <1>6, <1>9 DEF ResolveBySubject, Unmatched
<1>10. CASE ResolveByEmail(p)
  BY <1>3, <1>4, <1>7, <1>10 DEF ResolveByEmail, Unmatched
<1>11. CASE Recheck(p)
  BY <1>3, <1>4, <1>8, <1>11 DEF Recheck, Unmatched
<1> QED
  BY <1>9, <1>10, <1>11

LEMMA LockKeeps ==
    ASSUME IInv, IInv', VInv, Steady, job' = job, NEW p \in Proc,
           LockAccount(p) \/ SaveLock(p) \/ EraseLock(p) \/ LockForCreate(p)
    PROVE  VInv'
<1>1. /\ UNCHANGED <<users, ident, sess, codes, tx, loc>>
      /\ \/ pc[p] = "lock" /\ pc' = [pc EXCEPT ![p] = "recheck"]
         \/ pc[p] = "save_lock" /\ pc' = [pc EXCEPT ![p] = "save"]
         \/ pc[p] = "erase_lock" /\ pc' = [pc EXCEPT ![p] = "erase_check"]
         \/ pc[p] = "cred_lock" /\ pc' = [pc EXCEPT ![p] = "vouch"]
  BY DEF LockAccount, SaveLock, EraseLock, LockForCreate, LockExclusive, LockShared, At, Goto
<1>2. PICK label \in {"recheck", "save", "erase_check", "vouch"} : pc' = [pc EXCEPT ![p] = label]
  BY <1>1
<1>3. pc'[p] = label /\ \A q \in Proc : pc[q] = "done" => pc'[q] = "done"
  BY <1>1, <1>2 DEF IInv, TypeOK
<1>4. Token(p)'
  <2>1. CASE Kind(p) = "mint"
    BY <1>1, <1>2, <1>3, <2>1 DEF VInv, Token, Kind, Minting
  <2>2. CASE Kind(p) # "mint"
    BY <2>2, NotMint
  <2> QED
    BY <2>1, <2>2
<1>5. Known(p) /\ User(p)' = User(p) /\ loc'[p] = loc[p]
  BY <1>1 DEF VInv, User
<1>6. /\ label \in Resolved => users[User(p)].email = Address(p)
      /\ label \in Erasing => Home(Claim(p), User(p))
      /\ label \in {"save", "save_lock"} => loc[p].key = Claim(p)
      /\ label \in Minting => Home(loc[p].key, User(p))
      /\ label \notin {"save_local", "cred", "link", "commit", "erase_commit"} /\ label \in Label
      /\ pc[p] \notin {"update", "link", "commit", "erase_commit", "done"}
  BY <1>1, <1>2, <1>3, <1>5 DEF Known, Resolved, Erasing, Minting, Label
<1> QED
  BY <1>1, <1>2, <1>4, <1>5, <1>6, ReadKeeps

\* loc[p].second, snap and tries are in nobody's way.
LEMMA SameBinding ==
    ASSUME IInv, NEW p \in Proc, NEW r, loc' = [loc EXCEPT ![p] = r],
           r.user = loc[p].user, r.key = loc[p].key, r.from = loc[p].from
    PROVE  /\ User(p)' = User(p) /\ loc'[p].key = loc[p].key /\ loc'[p].from = loc[p].from
           /\ \A q \in Proc : q # p => loc'[q] = loc[q]
  BY DEF IInv, TypeOK, User

LEMMA SnapshotKeeps ==
    ASSUME IInv, IInv', VInv, Steady, job' = job, NEW p \in Proc, PurgeSnapshot(p)
    PROVE  VInv'
<1>1. /\ pc[p] = "snapshot" /\ pc' = [pc EXCEPT ![p] = "purge"]
      /\ UNCHANGED <<users, ident, sess, codes, tx>>
      /\ loc' = [loc EXCEPT ![p] = [loc[p] EXCEPT !.snap = IdentitiesOf(User(p))]]
  BY DEF PurgeSnapshot, At, Goto, storeVars, IInv, TypeOK
<1>2. loc[p] \in Local_
  BY DEF IInv, TypeOK
<1>3. User(p)' = User(p) /\ \A q \in Proc : q # p => loc'[q] = loc[q]
  BY <1>1, <1>2, SameBinding DEF Local_
<1>4. Token(p)' /\ users[User(p)].email = Address(p)
  BY <1>1, NotMint, IsNotMint DEF VInv, Known, Resolved
<1> QED
  BY <1>1, <1>3, <1>4, ReadKeeps DEF Label, Resolved, Erasing, Minting, User

\* The identities a purge deletes are the account's own.
LEMMA PurgeKeeps ==
    ASSUME IInv, IInv', VInv, Steady, job' = job, NEW p \in Proc, Purge(p)
    PROVE  VInv'
<1>1. /\ pc[p] = "purge" /\ pc' = [pc EXCEPT ![p] = "update"]
      /\ UNCHANGED <<users, ident, sess, codes, loc>>
  BY DEF Purge, At, Goto, tables
<1>2. /\ pc'[p] = "update" /\ \A q \in Proc : q # p => pc'[q] = pc[q] /\ tx'[q] = tx[q]
      /\ tx'[p].row = tx[p].row /\ tx'[p].key = tx[p].key
      /\ tx'[p].gone \subseteq IdentitiesOf(User(p)) /\ tx'[p].purged
  BY <1>1 DEF Purge, IInv, TypeOK, StoreTypeOK, Tx
<1>3. tx[p].row = NoUser /\ tx[p].key = NoKey
  BY <1>1, NoWrites
<1>4. Token(p)' /\ users[User(p)].email = Address(p)
  BY <1>1, NotMint, IsNotMint DEF VInv, Known, Resolved
<1>5. \A k \in tx'[p].gone : Home(k, User(p))'
  <2> SUFFICES ASSUME NEW k \in tx'[p].gone PROVE Home(k, User(p))'
    OBVIOUS
  <2>1. k \in Key /\ ident[k] = User(p) /\ User(p) \in UserId
    BY <1>1, <1>2 DEF IdentitiesOf, IInv, Shape, NeedsUser, Label
  <2>2. Home(k, User(p))
    BY <2>1, StoreAssumption DEF VInv, AtHome, UserId, NoUser
  <2> QED
    BY <1>1, <2>2 DEF Home, Claim, Address, User
<1>6. Known(p)'
  BY <1>1, <1>2, <1>3, <1>4, <1>5 DEF Known, Resolved, Erasing, Minting, Purging, User, Address
<1> QED
  BY <1>1, <1>2, <1>3, <1>4, <1>6, QuietStep

LEMMA EraseDeleteKeeps ==
    ASSUME IInv, IInv', VInv, Steady, job' = job, NEW p \in Proc, EraseDelete(p)
    PROVE  VInv'
<1>1. /\ pc[p] = "erase_delete" /\ pc' = [pc EXCEPT ![p] = "erase_commit"]
      /\ UNCHANGED <<users, ident, sess, codes, loc>>
  BY DEF EraseDelete, At, Goto, tables
<1>2. /\ pc'[p] = "erase_commit" /\ \A q \in Proc : q # p => pc'[q] = pc[q] /\ tx'[q] = tx[q]
      /\ tx'[p].row = tx[p].row /\ tx'[p].key = tx[p].key
      /\ tx'[p].gone = {Claim(p)}
  BY <1>1 DEF EraseDelete, IInv, TypeOK, StoreTypeOK, Tx
<1>3. tx[p].row = NoUser /\ tx[p].key = NoKey
  BY <1>1, NoWrites
<1>4. Token(p)'
  BY <1>1, NotMint, IsNotMint
<1>5. Home(Claim(p), User(p)) /\ Claim(p)' = Claim(p) /\ User(p)' = User(p)
  BY <1>1 DEF VInv, Known, Erasing, Claim, User
<1>6. Home(Claim(p), User(p))'
  BY <1>1, <1>5 DEF Home, Claim, Address
<1>7. \A k \in tx'[p].gone : Home(k, User(p))'
  BY <1>2, <1>5, <1>6
<1>8. Known(p)'
  BY <1>2, <1>3, <1>6, <1>7 DEF Known, Resolved, Erasing, Minting, Purging
<1> QED
  BY <1>1, <1>2, <1>3, <1>4, <1>8, QuietStep

LEMMA LinkKeeps ==
    ASSUME IInv, IInv', VInv, Steady, job' = job, NEW p \in Proc, LinkIdentity(p)
    PROVE  VInv'
<1>1. /\ pc[p] = "link" /\ pc' = [pc EXCEPT ![p] = "commit"]
      /\ UNCHANGED <<users, ident, sess, codes, loc>>
  BY DEF LinkIdentity, At, Goto, tables
<1>2. /\ pc'[p] = "commit" /\ \A q \in Proc : q # p => pc'[q] = pc[q] /\ tx'[q] = tx[q]
      /\ tx'[p].row = tx[p].row /\ tx'[p].data = tx[p].data
      /\ tx'[p].gone = tx[p].gone /\ tx'[p].purged = tx[p].purged
      /\ tx'[p].key = Claim(p) /\ tx'[p].to = User(p)
  BY <1>1 DEF LinkIdentity, IInv, TypeOK, StoreTypeOK, Tx
<1>3. Known(p) /\ Token(p)' /\ Claim(p)' = Claim(p) /\ User(p)' = User(p) /\ Address(p)' = Address(p)
  BY <1>1, NotMint, IsNotMint DEF VInv, Claim, User, Address
<1>4. \A k : Home(k, User(p)) => Home(k, User(p))'
  BY <1>1 DEF Home, Claim, Address, User
<1>5. Known(p)'
  BY <1>1, <1>2, <1>3, <1>4 DEF Known, Resolved, Erasing, Minting, Purging
<1> QED
  BY <1>1, <1>2, <1>3, <1>5, QuietStep

\* vouched: a named token has its parent's word, and that has the identity's.
LEMMA VouchKeeps ==
    ASSUME IInv, IInv', VInv, Steady, job' = job, NEW p \in Proc, Vouch(p)
    PROVE  VInv'
<1>1. pc[p] = "vouch"
  BY DEF Vouch, At
<1>2. CASE Fail(p)
  BY <1>1, <1>2, FailKeeps
<1>3. CASE Vouched(p) /\ Goto(p, "cred") /\ UNCHANGED <<storeVars, loc>>
  <2>1. ident[loc[p].key] = User(p)
    <3>1. CASE Kind(p) = "mint"
      <4>1. PICK s \in sess : s.id = loc[p].from /\ s.user = User(p)
        BY <1>3, <3>1 DEF Vouched
      <4>2. s.key = loc[p].key
        BY <1>1, <3>1, <4>1 DEF VInv, Token, Minting
      <4>3. ident[s.key] = s.user
        BY DEF VInv, VouchedCredentials
      <4> QED
        BY <4>1, <4>2, <4>3
    <3>2. CASE Kind(p) # "mint"
      BY <1>3, <3>2 DEF Vouched
    <3> QED
      BY <3>1, <3>2
  <2>2. pc' = [pc EXCEPT ![p] = "cred"] /\ UNCHANGED <<users, ident, sess, codes, tx, loc>>
    BY <1>3 DEF Goto, storeVars
  <2>3. pc'[p] = "cred" /\ \A q \in Proc : pc[q] = "done" => pc'[q] = "done"
    BY <1>1, <2>2 DEF IInv, TypeOK
  <2>4. Token(p)'
    BY <1>1, <2>2, <2>3 DEF VInv, Token, Kind, Minting
  <2>5. Home(loc[p].key, User(p))
    BY <1>1 DEF VInv, Known, Minting
  <2>6. User(p)' = User(p) /\ loc'[p] = loc[p]
    BY <2>2 DEF User
  <2> QED
    BY <1>1, <2>1, <2>2, <2>4, <2>5, <2>6, ReadKeeps DEF Label, Resolved, Erasing, Minting
<1> QED
  BY <1>2, <1>3 DEF Vouch

\* What a request goes on to mint is bound to a key at home.
LEMMA BindingKeeps ==
    ASSUME IInv, IInv', VInv, Steady, job' = job, NEW p \in Proc, pc[p] = "start",
           NEW u \in UserId, NEW k \in Key, NEW f \in Proc \cup {NoProc},
           Bind(p, u, k, f), Home(k, u),
           UNCHANGED <<users, ident, tx>>, sess' \subseteq sess, codes' \subseteq codes,
           Kind(p) = "mint" => f \in Proc /\ pc[f] = "done" /\ \A c \in sess : c.id = f => c.key = k
    PROVE  VInv'
<1>1. pc' = [pc EXCEPT ![p] = "cred_lock"] /\ loc' = [loc EXCEPT ![p].user = u, ![p].key = k, ![p].from = f]
  BY DEF Bind, Goto
<1>2. User(p)' = u /\ loc'[p].key = k /\ loc'[p].from = f
  BY <1>1 DEF IInv, TypeOK, Local_, User
<1>3. \A q \in Proc : q # p => loc'[q] = loc[q]
  BY <1>1 DEF IInv, TypeOK
<1>4. pc'[p] = "cred_lock" /\ \A q \in Proc : pc[q] = "done" => pc'[q] = "done"
  BY <1>1 DEF IInv, TypeOK
<1>5. Token(p)'
  <2>1. CASE Kind(p) = "mint"
    <3>1. f \in Proc /\ pc'[f] = "done" /\ \A c \in sess' : c.id = f => c.key = k
      BY <1>4, <2>1
    <3> QED
      BY <1>2, <1>4, <3>1 DEF Token, Minting
  <2>2. CASE Kind(p) # "mint"
    BY <2>2, NotMint
  <2> QED
    BY <2>1, <2>2
<1> QED
  BY <1>1, <1>2, <1>3, <1>5, ReadKeeps DEF Label, Resolved, Erasing, Minting

LEMMA CredFacts ==
    ASSUME IInv, VInv, NEW c \in sess \cup codes
    PROVE  /\ c.user \in UserId /\ c.key \in Key /\ c.id \in Proc /\ pc[c.id] = "done"
           /\ ident[c.key] = c.user /\ Home(c.key, c.user)
<1>1. c.user \in UserId /\ c.key \in Key /\ c.id \in Proc
  BY DEF IInv, TypeOK, StoreTypeOK, Cred
<1>2. pc[c.id] = "done" /\ ident[c.key] = c.user
  BY DEF VInv, Named, VouchedCredentials
<1> QED
  BY <1>1, <1>2 DEF VInv, AtHome, UserId, NoUser

LEMMA BindKeeps ==
    ASSUME IInv, IInv', VInv, Steady, job' = job, NEW p \in Proc,
           MintToken(p) \/ ExchangeCode(p) \/ DeviceExchange(p) \/ Unauthenticated(p)
    PROVE  VInv'
<1>1. pc[p] = "start"
  BY DEF MintToken, ExchangeCode, DeviceExchange, Unauthenticated, Start
<1>2. CASE Fail(p)
  BY <1>1, <1>2, FailKeeps
<1>3. CASE MintToken(p)
  <2>1. PICK s \in sess : Bind(p, s.user, s.key, s.id)
    BY <1>3 DEF MintToken
  <2>2. UNCHANGED <<users, ident, sess, codes, tx>>
    BY <1>3 DEF MintToken, storeVars
  <2>3. s.user \in UserId /\ s.key \in Key /\ s.id \in Proc /\ pc[s.id] = "done" /\ Home(s.key, s.user)
    BY CredFacts
  <2>4. \A c \in sess : c.id = s.id => c.key = s.key
    BY DEF VInv, Named
  <2>5. PICK u \in UserId, k \in Key, f \in Proc : u = s.user /\ k = s.key /\ f = s.id
    BY <2>3
  <2> QED
    BY <1>1, <2>1, <2>2, <2>3, <2>4, <2>5, BindingKeeps
<1>4. CASE ExchangeCode(p)
  <2>1. PICK c \in codes : /\ codes' = codes \ {c}
                           /\ \/ Bind(p, c.user, c.key, c.id)
                              \/ Goto(p, "done") /\ UNCHANGED loc
    BY <1>4 DEF ExchangeCode
  <2>2. UNCHANGED <<users, ident, sess, tx>> /\ codes' \subseteq codes /\ Kind(p) # "mint"
    BY <1>4, <2>1 DEF ExchangeCode, Start
  <2>3. c.user \in UserId /\ c.key \in Key /\ c.id \in Proc /\ Home(c.key, c.user)
    BY CredFacts
  <2>4. CASE Bind(p, c.user, c.key, c.id)
    <3>1. PICK u \in UserId, k \in Key, f \in Proc : u = c.user /\ k = c.key /\ f = c.id
      BY <2>3
    <3> QED
      BY <1>1, <2>2, <2>3, <2>4, <3>1, BindingKeeps
  <2>5. CASE Goto(p, "done") /\ UNCHANGED loc
    BY <1>1, <2>2, <2>5, ReadKeeps, NotMint DEF Goto, Label, Resolved, Erasing, Minting
  <2> QED
    BY <2>1, <2>4, <2>5
<1>5. CASE DeviceExchange(p) /\ ~Fail(p)
  <2>1. /\ ident[Claim(p)] # NoUser /\ Bind(p, ident[Claim(p)], Claim(p), NoProc)
        /\ UNCHANGED <<users, ident, sess, codes, tx>> /\ Kind(p) # "mint"
    BY <1>5 DEF DeviceExchange, storeVars, Start
  <2>2. PICK u, k : u = ident[Claim(p)] /\ k = Claim(p)
    OBVIOUS
  <2>3. k \in Key /\ u \in UserId /\ Home(k, u)
    BY <2>1, <2>2, JobFacts DEF VInv, AtHome, IInv, TypeOK, StoreTypeOK, MaybeUser
  <2> QED
    BY <1>1, <2>1, <2>2, <2>3, BindingKeeps
<1> QED
  BY <1>2, <1>3, <1>4, <1>5 DEF Unauthenticated

LEMMA FindKeeps ==
    ASSUME IInv, IInv', VInv, Steady, job' = job, NEW p \in Proc, EraseFind(p) \/ LogoutFind(p)
    PROVE  VInv'
<1>1. pc[p] \in {"start", "erase_find"} /\ Kind(p) # "mint"
  BY IsNotMint DEF EraseFind, LogoutFind, Start, At
<1>2. CASE Fail(p)
  BY <1>1, <1>2, FailKeeps
<1>3. CASE ~Fail(p)
  <2>1. /\ ident[Claim(p)] # NoUser /\ loc' = [loc EXCEPT ![p].user = ident[Claim(p)]]
        /\ UNCHANGED <<users, ident, sess, codes, tx>>
        /\ \E label \in {"erase_lock", "revoke"} : pc' = [pc EXCEPT ![p] = label]
    BY <1>3 DEF EraseFind, LogoutFind, Goto, storeVars
  <2>2. PICK u \in UserId : u = ident[Claim(p)]
    BY <2>1, JobFacts DEF IInv, TypeOK, StoreTypeOK, MaybeUser
  <2>3. User(p)' = u /\ \A q \in Proc : q # p => loc'[q] = loc[q]
    BY <2>1, <2>2, LocUser DEF Steady
  <2>4. Home(Claim(p), User(p)')
    BY <2>1, <2>2, <2>3, JobFacts DEF VInv, AtHome
  <2>5. Token(p)'
    BY <1>1, NotMint
  <2>6. PICK label \in {"erase_lock", "revoke"} : pc' = [pc EXCEPT ![p] = label]
    BY <2>1
  <2> QED
    BY <1>1, <2>1, <2>3, <2>4, <2>5, <2>6, ReadKeeps DEF Label, Resolved, Erasing, Minting
<1> QED
  BY <1>2, <1>3

LEMMA EraseCheckKeeps ==
    ASSUME IInv, IInv', VInv, Steady, job' = job, NEW p \in Proc, EraseCheck(p)
    PROVE  VInv'
<1>1. pc[p] = "erase_check" /\ Token(p)'
  BY NotMint, IsNotMint DEF EraseCheck, At
<1>2. CASE Fail(p)
  BY <1>1, <1>2, FailKeeps
<1>3. CASE Goto(p, "erase_delete") /\ UNCHANGED <<storeVars, loc>>
  <2>1. Home(Claim(p), User(p)) /\ User(p)' = User(p)
    BY <1>1, <1>3 DEF VInv, Known, Erasing, User
  <2> QED
    BY <1>1, <1>3, <2>1, ReadKeeps DEF Goto, storeVars, Label, Resolved, Erasing, Minting
<1>4. CASE loc' = [loc EXCEPT ![p].tries = @ + 1] /\ Goto(p, "erase_find") /\ Rollback(p)
  <2>1. /\ tx' = [tx EXCEPT ![p] = NoTx] /\ pc' = [pc EXCEPT ![p] = "erase_find"]
        /\ UNCHANGED <<users, ident, sess, codes>>
    BY <1>4 DEF Goto, Rollback, tables
  <2>2. /\ pc'[p] = "erase_find" /\ tx'[p] = NoTx
        /\ \A q \in Proc : q # p => pc'[q] = pc[q] /\ tx'[q] = tx[q] /\ loc'[q] = loc[q]
    BY <1>4, <2>1 DEF IInv, TypeOK, StoreTypeOK
  <2>3. Known(p)'
    BY <2>2 DEF Known, Resolved, Erasing, Minting, NoTx
  <2> QED
    BY <1>1, <2>1, <2>2, <2>3, QuietStep DEF NoTx
<1> QED
  BY <1>2, <1>3, <1>4 DEF EraseCheck

LEMMA RevokeKeeps ==
    ASSUME IInv, IInv', VInv, Steady, job' = job, NEW p \in Proc, RevokeUser(p)
    PROVE  VInv'
<1>1. pc[p] = "revoke" /\ Token(p)'
  BY NotMint, IsNotMint DEF RevokeUser, At
<1>2. /\ pc' = [pc EXCEPT ![p] = "done"] /\ sess' \subseteq sess
      /\ UNCHANGED <<users, ident, codes, tx, loc>>
  BY DEF RevokeUser, Goto
<1> QED
  BY <1>1, <1>2, ReadKeeps DEF Label, Resolved, Erasing, Minting

LEMMA EndKeeps ==
    ASSUME VInv, EndSession \/ UNCHANGED vars
    PROVE  VInv'
<1>1. sess' \subseteq sess /\ UNCHANGED <<users, ident, codes, tx, job, pc, loc>>
  BY DEF EndSession, vars
<1>2. Emails' /\ AtHome' /\ Named' /\ VouchedCredentials'
  BY <1>1 DEF VInv, Emails, Waits, Pending, Exists, AtHome, Home, Claim, Address, Named, VouchedCredentials
<1>3. ASSUME NEW p \in Proc PROVE Known(p)' /\ Token(p)'
  <2>1. Known(p) /\ Token(p)
    BY DEF VInv
  <2>2. Known(p)'
    BY <1>1, <2>1 DEF Known, Home, Claim, Address, User, Purging
  <2>3. Token(p)'
    BY <1>1, <2>1 DEF Token, Kind
  <2> QED
    BY <2>2, <2>3
<1> QED
  BY <1>2, <1>3 DEF VInv

-----------------------------------------------------------------------------
(* The steps that write a row. *)

\* Nothing is linked or added; a row is pending that was not.
LEMMA RowKeeps ==
    ASSUME IInv, IInv', VInv, Steady, job' = job, NEW p \in Proc, pc[p] # "done",
           pc'[p] \in {"link", "commit"},
           \A q \in Proc : q # p => pc'[q] = pc[q] /\ tx'[q] = tx[q] /\ loc'[q] = loc[q],
           UNCHANGED <<users, ident, sess, codes>>,
           NEW u \in UserId, tx'[p].row = u, tx'[p].data.email = Address(p),
           \A v \in UserId : users[v].email = Address(p) => v = u,
           Exists(u) => users[u].email = Address(p),
           \A q \in Proc \ {p} : tx[q].row # u,
           \A q \in Proc \ {p} : Pending(q) => tx[q].data.email # Address(p),
           Known(p)', Token(p)'
    PROVE  VInv'
<1>1. EmailsStay /\ Address(p) \in Email /\ u # NoUser
  BY JobFacts, StoreAssumption DEF EmailsStay, UserId, NoUser
<1>2. \A q \in Proc : Known(q)'
  <2> SUFFICES ASSUME NEW q \in Proc, q # p PROVE Known(q)'
    OBVIOUS
  <2> QED
    BY <1>1, OthersKnow
<1>3. Emails'
  <2>1. Waits(p)'
    BY <1>1 DEF Waits, Exists
  <2>2. \A q \in Proc : q # p /\ Pending(q)' => Pending(q) /\ Waits(q)'
    BY DEF VInv, Emails, Pending, Waits, Exists
  <2>3. \A q, r \in Proc : Pending(q)' /\ Pending(r)' =>
          (tx'[q].row = tx'[r].row <=> tx'[q].data.email = tx'[r].data.email)
    <3> SUFFICES ASSUME NEW q \in Proc, NEW r \in Proc, Pending(q)', Pending(r)'
                 PROVE  tx'[q].row = tx'[r].row <=> tx'[q].data.email = tx'[r].data.email
      OBVIOUS
    <3>1. CASE q # p /\ r # p
      BY <2>2, <3>1 DEF VInv, Emails
    <3>2. CASE q = p \/ r = p
      BY <2>2, <3>2
    <3> QED
      BY <3>1, <3>2
  <2> QED
    BY <2>1, <2>2, <2>3 DEF VInv, Emails, Exists
<1>4. AtHome'
  <2> SUFFICES ASSUME NEW k \in Key, ident[k] # NoUser PROVE Home(k, ident[k])'
    BY DEF AtHome
  <2>1. PICK v \in UserId : v = ident[k]
    BY DEF IInv, TypeOK, StoreTypeOK, MaybeUser
  <2>2. Home(k, v)'
    BY <1>1, <2>1, HomeStays DEF VInv, AtHome
  <2> QED
    BY <2>1, <2>2
<1>5. VouchedCredentials'
  BY DEF VInv, VouchedCredentials
<1>6. Named' /\ \A q \in Proc : Token(q)'
  BY CredsGo
<1> QED
  BY <1>2, <1>3, <1>4, <1>5, <1>6 DEF VInv

\* The row a login writes keeps what its transaction deletes and links.
LEMMA RowWritten ==
    ASSUME IInv, NEW p \in Proc, NEW u \in UserId, NEW r \in UserRow,
           tx' = [tx EXCEPT ![p].row = u, ![p].data = r]
    PROVE  /\ tx'[p].row = u /\ tx'[p].data = r /\ tx'[p].key = tx[p].key
           /\ tx'[p].gone = tx[p].gone /\ tx'[p].purged = tx[p].purged
           /\ \A q \in Proc : q # p => tx'[q] = tx[q]
<1>1. tx[p] \in Tx /\ tx \in [Proc -> Tx]
  BY DEF IInv, TypeOK, StoreTypeOK
<1> QED
  BY <1>1 DEF Tx

\* insertUser: ON CONFLICT leaves the address to the row that has it.
LEMMA InsertUserKeeps ==
    ASSUME IInv, IInv', VInv, Steady, job' = job, NEW p \in Proc, InsertUser(p)
    PROVE  VInv'
<1>1. pc[p] = "insert" /\ UNCHANGED <<users, ident, sess, codes>> /\ Token(p)'
  BY NotMint, IsNotMint DEF InsertUser, At, tables, storeVars
<1>2. CASE Holders(Address(p)) # {}
  <2>1. /\ pc' = [pc EXCEPT ![p] = "subject"] /\ tx' = tx
        /\ loc' = [loc EXCEPT ![p] = [loc[p] EXCEPT !.second = TRUE]]
    BY <1>2 DEF InsertUser, Goto, storeVars, IInv, TypeOK
  <2>2. loc[p] \in Local_
    BY DEF IInv, TypeOK
  <2>3. User(p)' = User(p) /\ \A q \in Proc : q # p => loc'[q] = loc[q]
    BY <2>1, <2>2, SameBinding DEF Local_
  <2> QED
    BY <1>1, <2>1, <2>3, ReadKeeps DEF Label, Resolved, Erasing, Minting
<1>3. CASE Holders(Address(p)) = {}
  <2> DEFINE row == [email |-> Address(p), verified |-> job[p].verified]
  <2>1. PICK u \in UserId :
          /\ Fresh(u) /\ loc' = [loc EXCEPT ![p].user = u]
          /\ tx' = [tx EXCEPT ![p].row = u, ![p].data = row]
    BY <1>3 DEF InsertUser
  <2>2. row \in UserRow
    BY RequestFacts, WorkloadAssumption DEF Steady, JobOK, Request, UserRow
  <2>3. /\ tx'[p].row = u /\ tx'[p].data = row /\ tx'[p].key = tx[p].key
        /\ tx'[p].gone = tx[p].gone /\ \A q \in Proc : q # p => tx'[q] = tx[q]
    BY <2>1, <2>2, RowWritten
  <2>4. pc' = [pc EXCEPT ![p] = "link"]
    BY <1>3 DEF InsertUser, Goto
  <2>5. pc'[p] = "link" /\ \A q \in Proc : q # p => pc'[q] = pc[q]
    BY <2>4 DEF IInv, TypeOK
  <2>6. User(p)' = u /\ \A q \in Proc : q # p => loc'[q] = loc[q]
    BY <2>1, LocUser DEF Steady
  <2>7. tx[p].key = NoKey /\ tx[p].gone = {}
    BY <1>1, NoWrites
  <2>8. Known(p)'
    BY <2>3, <2>5, <2>6, <2>7 DEF Known, Resolved, Erasing, Minting, Address
  <2>9. EmailHolders(p, Address(p)) = {}
    BY <1>1 DEF InsertUser, At, WaitsFor
  <2>10. /\ \A v \in UserId : users[v].email # Address(p)
         /\ ~Exists(u) /\ \A q \in Proc : tx[q].row # u
         /\ \A q \in Proc \ {p} : Pending(q) => tx[q].data.email # Address(p)
    BY <1>3, <2>1, <2>9 DEF Holders, Fresh, EmailHolders, Pending
  <2> QED
    BY <1>1, <2>3, <2>5, <2>6, <2>8, <2>10, RowKeeps
<1> QED
  BY <1>2, <1>3

\* updateUser: the account resolved has the login's address already, and
\* nobody else is writing its row.
LEMMA UpdateUserKeeps ==
    ASSUME IInv, IInv', VInv, Steady, job' = job, NEW p \in Proc, UpdateUser(p)
    PROVE  VInv'
<1>1. pc[p] = "update" /\ Token(p)' /\ Known(p)
  BY NotMint, IsNotMint DEF UpdateUser, At, VInv
<1>2. CASE Fail(p)
  BY <1>1, <1>2, FailKeeps
<1>3. CASE ~Fail(p)
  <2> DEFINE row == [email |-> IF job[p].verified THEN Address(p) ELSE users[User(p)].email,
                     verified |-> users[User(p)].verified \/ job[p].verified]
  <2>1. /\ tx' = [tx EXCEPT ![p].row = User(p), ![p].data = row] /\ pc' = [pc EXCEPT ![p] = "link"]
        /\ UNCHANGED <<users, ident, sess, codes, loc>>
    BY <1>3 DEF UpdateUser, Goto, tables
  <2>2. PICK u \in UserId : u = User(p)
    BY <1>1 DEF IInv, Shape, NeedsUser, Label
  <2>3. users[u].email = Address(p)
    BY <1>1, <2>2 DEF Known, Resolved
  <2>4. row.email = Address(p) /\ row \in UserRow
    BY <2>2, <2>3, RequestFacts, WorkloadAssumption
    DEF Steady, JobOK, Request, UserRow, IInv, TypeOK, StoreTypeOK
  <2>5. /\ tx'[p].row = u /\ tx'[p].data.email = Address(p) /\ tx'[p].key = tx[p].key
        /\ tx'[p].gone = tx[p].gone /\ tx'[p].purged = tx[p].purged
        /\ \A q \in Proc : q # p => tx'[q] = tx[q]
    <3>1. PICK r \in UserRow : r = row
      BY <2>4
    <3>2. tx' = [tx EXCEPT ![p].row = u, ![p].data = r]
      BY <2>1, <2>2, <3>1
    <3>3. /\ tx'[p].row = u /\ tx'[p].data = r /\ tx'[p].key = tx[p].key
          /\ tx'[p].gone = tx[p].gone /\ tx'[p].purged = tx[p].purged
          /\ \A q \in Proc : q # p => tx'[q] = tx[q]
      BY <3>2, RowWritten
    <3> QED
      BY <2>4, <3>1, <3>3
  <2>6. pc'[p] = "link" /\ \A q \in Proc : q # p => pc'[q] = pc[q] /\ loc'[q] = loc[q]
    BY <2>1 DEF IInv, TypeOK
  <2>7. Known(p)'
    <3>1. User(p)' = u /\ Address(p)' = Address(p) /\ Claim(p)' = Claim(p)
      BY <2>1, <2>2 DEF User, Address, Claim
    <3>2. tx[p].key = NoKey /\ (tx[p].gone # {} => tx[p].purged)
      BY <1>1 DEF Known, Purging
    <3>3. \A k \in tx'[p].gone : Home(k, u)'
      BY <1>1, <2>1, <2>2, <2>5 DEF Known, Home, Claim, Address
    <3> QED
      BY <2>5, <2>6, <3>1, <3>2, <3>3 DEF Known, Resolved, Erasing, Minting, Purging
  <2>8. \A v \in UserId : users[v].email = Address(p) => v = u
    BY <2>3, JobFacts DEF VInv, Emails, Exists
  <2>9. \A q \in Proc \ {p} : tx[q].row # u
    BY <1>1, <2>2 DEF UpdateUser, At, WaitsFor, RowHolders
  <2>10. \A q \in Proc \ {p} : Pending(q) => tx[q].data.email # Address(p)
    BY <2>3, <2>9 DEF VInv, Emails, Waits
  <2> QED
    BY <1>1, <2>1, <2>3, <2>5, <2>6, <2>7, <2>8, <2>9, <2>10, RowKeeps
<1> QED
  BY <1>2, <1>3

-----------------------------------------------------------------------------
(* The steps that link or unlink an identity. *)

Stays == \A k \in Key : ident[k] # NoUser => ident'[k] \in {NoUser, ident[k]}

\* A key is linked to the account that is its home; keys of an account go
\* under its exclusive lock, and their credentials with them.
LEMMA LinkStep ==
    ASSUME IInv, IInv', VInv, Steady, job' = job, NEW p \in Proc, pc[p] # "done",
           \A q \in Proc : q # p => pc'[q] = pc[q] /\ tx'[q] = tx[q] /\ loc'[q] = loc[q],
           sess' \subseteq sess, codes' \subseteq codes, EmailsStay, Emails',
           NEW key, NEW u \in UserId, NEW gone,
           \A k \in Key : ident'[k] = IF k = key THEN u ELSE IF k \in gone THEN NoUser ELSE ident[k],
           \A v \in UserId : Home(key, v) => v = u,
           key \in Key => Home(key, u)',
           \A k \in gone : Home(k, u),
           gone # {} => excl[u] = p /\ CredsOf(u)' = {},
           Known(p)', Token(p)'
    PROVE  VInv' /\ Stays
<1>1. \A k \in Key : ident[k] # NoUser => ident[k] \in UserId /\ Home(k, ident[k])
  BY DEF VInv, AtHome, IInv, TypeOK, StoreTypeOK, MaybeUser
<1>2. Stays
  BY <1>1 DEF Stays
<1>3. AtHome'
  <2> SUFFICES ASSUME NEW k \in Key, ident'[k] # NoUser PROVE Home(k, ident[k])'
    BY DEF AtHome
  <2>1. CASE k = key
    BY <2>1
  <2>2. CASE k # key
    <3>1. ident'[k] = ident[k]
      BY <2>2
    <3>2. PICK v \in UserId : v = ident[k]
      BY <1>1, <3>1
    <3>3. Home(k, v)'
      BY <1>1, <3>1, <3>2, HomeStays
    <3> QED
      BY <3>1, <3>2, <3>3
  <2> QED
    BY <2>1, <2>2
\* A key bound to an account keeps it, unless it is one that goes.
<1>4. ASSUME NEW k \in Key, NEW v \in UserId, ident[k] = v
      PROVE  Home(k, v) /\ (ident'[k] = v \/ (k \in gone /\ v = u))
  <2>1. Home(k, v)
    BY <1>1, <1>4, StoreAssumption DEF UserId, NoUser
  <2>2. k \in gone => v = u
    BY <2>1, HomeUnique DEF VInv
  <2>3. k = key => v = u
    BY <2>1
  <2> QED
    BY <1>4, <2>1, <2>2, <2>3
<1>5. VouchedCredentials'
  <2> SUFFICES ASSUME NEW c \in sess' \cup codes' PROVE ident'[c.key] = c.user
    BY DEF VouchedCredentials
  <2>1. c \in sess \cup codes
    OBVIOUS
  <2>2. c.user \in UserId /\ c.key \in Key /\ ident[c.key] = c.user
    BY <2>1, CredFacts
  <2>3. ~(c.key \in gone /\ c.user = u)
    BY DEF CredsOf
  <2> QED
    BY <1>4, <2>2, <2>3
<1>6. \A q \in Proc : Known(q)'
  <2> SUFFICES ASSUME NEW q \in Proc, q # p PROVE Known(q)'
    OBVIOUS
  <2>1. ASSUME pc[q] = "cred" PROVE ident'[loc[q].key] = ident[loc[q].key]
    <3>1. /\ loc[q].key \in Key /\ User(q) \in UserId /\ q \in shared[User(q)]
          /\ ident[loc[q].key] = User(q)
      BY <2>1 DEF IInv, Shape, LockInv, NeedsKey, NeedsUser, Label, VInv, Known
    <3>2. PICK k \in Key, v \in UserId : k = loc[q].key /\ v = User(q)
      BY <3>1
    <3>3. ~(k \in gone /\ v = u)
      BY <3>1, <3>2, StoreAssumption DEF IInv, LockInv
    <3> QED
      BY <1>4, <3>1, <3>2, <3>3
  <2> QED
    BY <2>1, OthersKnow
<1>7. Named' /\ \A q \in Proc : Token(q)'
  BY CredsGo
<1> QED
  BY <1>2, <1>3, <1>5, <1>6, <1>7 DEF VInv

\* A row gets the address of the one request that was writing it.
LEMMA RowLands ==
    ASSUME IInv, VInv, Steady, NEW p \in Proc,
           \A q \in Proc : q # p => pc'[q] = pc[q] /\ tx'[q] = tx[q], tx'[p].row = NoUser,
           NEW u \in UserId, NEW d, users' = [users EXCEPT ![u] = d], d.email = Address(p),
           \A v \in UserId : users[v].email = Address(p) => v = u,
           Exists(u) => users[u].email = Address(p),
           \A q \in Proc \ {p} : Pending(q) => (tx[q].row = u <=> tx[q].data.email = Address(p))
    PROVE  EmailsStay /\ Emails'
<1>1. Address(p) \in Email /\ Address(p) # NoEmail
  BY JobFacts
<1>2. users'[u].email = Address(p) /\ \A v \in UserId : v # u => users'[v] = users[v]
  BY DEF IInv, TypeOK, StoreTypeOK
<1>3. EmailsStay
  BY <1>2 DEF EmailsStay
<1>4. \A v, w \in UserId : users'[v].email = users'[w].email /\ Exists(v)' => v = w
  BY <1>2 DEF VInv, Emails, Exists
<1>5. \A q \in Proc : Pending(q)' => q # p /\ Pending(q) /\ tx'[q] = tx[q] /\ pc'[q] = pc[q]
  BY DEF Pending
<1>6. ASSUME NEW q \in Proc, Pending(q)' PROVE Waits(q)'
  <2>1. q # p /\ Waits(q) /\ tx'[q] = tx[q] /\ pc'[q] = pc[q] /\ tx[q].row \in UserId
    BY <1>5, <1>6 DEF VInv, Emails, Pending, IInv, TypeOK, StoreTypeOK, Tx, MaybeUser
  <2>2. tx[q].row = u <=> tx[q].data.email = Address(p)
    BY <1>5, <1>6, <2>1
  <2> QED
    BY <1>2, <2>1, <2>2 DEF Waits, Exists
<1>7. \A q, r \in Proc : Pending(q)' /\ Pending(r)' =>
        (tx'[q].row = tx'[r].row <=> tx'[q].data.email = tx'[r].data.email)
  BY <1>5 DEF VInv, Emails
<1> QED
  BY <1>3, <1>4, <1>6, <1>7 DEF Emails

\* CreateFromPassword inserts an account nobody else has or is inserting.
LEMMA RegisterKeeps ==
    ASSUME IInv, IInv', VInv, Steady, job' = job, NEW p \in Proc, Register(p)
    PROVE  VInv' /\ Stays
<1>1. pc[p] = "start" /\ Token(p)'
  BY NotMint DEF Register, Start
<1>2. CASE Fail(p)
  BY <1>1, <1>2, FailKeeps DEF Fail, Rollback, tables, Stays
<1>3. CASE ~Fail(p)
  <2> DEFINE row == [email |-> Address(p), verified |-> FALSE]
  <2>1. PICK u \in UserId :
          /\ Fresh(u) /\ users' = [users EXCEPT ![u] = row]
          /\ loc' = [loc EXCEPT ![p].user = u, ![p].key = Local(u)]
    BY <1>3 DEF Register
  <2>2. /\ pc' = [pc EXCEPT ![p] = "save_local"] /\ UNCHANGED <<ident, sess, codes, tx>>
        /\ Holders(Address(p)) = {} /\ EmailHolders(p, Address(p)) = {}
    BY <1>1, <1>3 DEF Register, Goto, WaitsFor, Start
  <2>3. /\ User(p)' = u /\ loc'[p].key = Local(u)
        /\ \A q \in Proc : q # p => loc'[q] = loc[q]
    BY <2>1 DEF IInv, TypeOK, Local_, User
  <2>4. pc'[p] = "save_local" /\ \A q \in Proc : q # p => pc'[q] = pc[q]
    BY <2>2 DEF IInv, TypeOK
  <2>5. tx[p].row = NoUser /\ tx[p].key = NoKey /\ tx[p].gone = {}
    BY <1>1, NoWrites
  <2>6. Known(p)'
    BY <2>2, <2>3, <2>4, <2>5 DEF Known, Resolved, Erasing, Minting
  <2>7. /\ \A v \in UserId : users[v].email # Address(p)
        /\ ~Exists(u) /\ \A q \in Proc : tx[q].row # u
        /\ \A q \in Proc \ {p} : Pending(q) => tx[q].data.email # Address(p)
    BY <2>1, <2>2 DEF Holders, Fresh, EmailHolders, Pending
  <2>8. EmailsStay /\ Emails'
    BY <2>1, <2>2, <2>4, <2>5, <2>7, RowLands
  <2>9. NoKey \notin Key /\ \A v \in UserId : ~Home(NoKey, v)
    BY JobFacts DEF NoKey, Key, SsoKey, Sso, Local, Home, Claim
  <2>10. PICK key, gone : key = NoKey /\ gone = {}
    OBVIOUS
  <2>11. /\ \A k \in Key : ident'[k] = IF k = key THEN u ELSE IF k \in gone THEN NoUser ELSE ident[k]
         /\ \A v \in UserId : Home(key, v) => v = u
         /\ key \notin Key /\ gone = {}
    BY <2>2, <2>9, <2>10
  <2> QED
    BY <1>1, <2>2, <2>3, <2>4, <2>6, <2>8, <2>11, LinkStep
<1> QED
  BY <1>2, <1>3

\* Emails' facts are about users, tx and where a writer is.
LEMMA SameRows ==
    ASSUME IInv, VInv, NEW p \in Proc, UNCHANGED <<users, tx>>, tx[p].row = NoUser,
           \A q \in Proc : q # p => pc'[q] = pc[q]
    PROVE  EmailsStay /\ Emails'
<1>1. \A q \in Proc : Pending(q)' => q # p /\ Pending(q)
  BY DEF Pending
<1>2. \A q \in Proc : Pending(q)' => Waits(q)'
  BY <1>1 DEF VInv, Emails, Waits, Exists
<1> QED
  BY <1>1, <1>2 DEF VInv, Emails, EmailsStay, Exists

\* Save binds the subject, or the password, to the account it is at home in.
LEMMA SaveKeeps ==
    ASSUME IInv, IInv', VInv, Steady, job' = job, NEW p \in Proc, SaveLocal(p) \/ SaveFederated(p)
    PROVE  VInv' /\ Stays
<1>1. pc[p] \in {"save_local", "save"} /\ Token(p)'
  BY NotMint, IsNotMint DEF SaveLocal, SaveFederated, At
<1>2. CASE Fail(p)
  BY <1>1, <1>2, FailKeeps DEF Fail, Rollback, tables, Stays
<1>3. CASE ~Fail(p)
  <2>1. /\ pc' = [pc EXCEPT ![p] = "cred_lock"] /\ UNCHANGED <<users, sess, codes, tx, loc>>
        /\ \/ pc[p] = "save_local" /\ ident' = [ident EXCEPT ![Local(User(p))] = User(p)]
           \/ pc[p] = "save" /\ ident' = [ident EXCEPT ![Claim(p)] = User(p)]
    BY <1>3 DEF SaveLocal, SaveFederated, At, Goto
  <2>2. PICK u, key : u = User(p) /\ key = loc[p].key
    OBVIOUS
  <2>3. u \in UserId /\ key \in Key /\ Known(p)
    BY <1>1, <2>2 DEF IInv, Shape, NeedsUser, NeedsKey, Label, VInv
  <2>4. ident' = [ident EXCEPT ![key] = u]
    BY <2>1, <2>2, <2>3 DEF Known
  <2>5. Home(key, u)
    <3>1. CASE pc[p] = "save_local"
      BY <2>2, <2>3, <3>1 DEF Known, Home
    <3>2. CASE pc[p] = "save"
      BY <2>2, <2>3, <3>2, OwnHome DEF Known, Resolved
    <3> QED
      BY <1>1, <3>1, <3>2
  <2>6. \A v \in UserId : Home(key, v) => v = u
    BY <2>3, <2>5, HomeUnique DEF VInv
  <2>7. Home(key, u)'
    BY <2>1, <2>5 DEF Home, Claim, Address
  <2>8. pc'[p] = "cred_lock" /\ \A q \in Proc : q # p => pc'[q] = pc[q]
    BY <2>1 DEF IInv, TypeOK
  <2>9. tx[p].row = NoUser /\ tx[p].key = NoKey /\ tx[p].gone = {}
    BY <1>1, NoWrites
  <2>10. Known(p)'
    BY <2>1, <2>2, <2>7, <2>8, <2>9 DEF Known, Resolved, Erasing, Minting, User
  <2>11. EmailsStay /\ Emails'
    BY <2>1, <2>8, <2>9, SameRows
  <2>12. PICK gone : gone = {}
    OBVIOUS
  <2>13. \A k \in Key : ident'[k] = IF k = key THEN u ELSE IF k \in gone THEN NoUser ELSE ident[k]
    BY <2>4, <2>12 DEF IInv, TypeOK, StoreTypeOK
  <2> QED
    BY <1>1, <2>1, <2>3, <2>6, <2>7, <2>8, <2>10, <2>11, <2>12, <2>13, LinkStep
<1> QED
  BY <1>2, <1>3

\* What a purge or an erasure deletes takes every credential along
\* (PurgeSeesAll), under the exclusive lock.
LEMMA DeletesLand ==
    ASSUME IInv, VInv, NEW p \in Proc, pc[p] \in {"commit", "erase_commit"}, Publish(p),
           NEW u \in UserId, u = User(p)
    PROVE  /\ tx'[p] = NoTx /\ \A q \in Proc : q # p => tx'[q] = tx[q]
           /\ sess' \subseteq sess /\ codes' \subseteq codes
           /\ \A k \in tx[p].gone : Home(k, u)
           /\ tx[p].gone # {} => excl[u] = p /\ CredsOf(u)' = {}
<1>1. /\ tx'[p] = NoTx /\ \A q \in Proc : q # p => tx'[q] = tx[q]
      /\ sess' = sess \ tx[p].dead /\ codes' = codes \ tx[p].dead
  BY DEF Publish, IInv, TypeOK, StoreTypeOK
<1>2. Known(p) /\ (tx[p].gone # {} => Purging(p))
  BY DEF VInv, Known
<1>3. \A k \in tx[p].gone : Home(k, u)
  BY <1>2 DEF Known
<1>4. ASSUME Purging(p) PROVE excl[u] = p /\ CredsOf(u)' = {}
  <2>1. excl[u] = p /\ CredsOf(u) \subseteq tx[p].dead
    BY <1>4 DEF IInv, LockInv, PurgeSeesAll, Purging, NeedsExcl
  <2> QED
    BY <1>1, <2>1 DEF CredsOf
<1> QED
  BY <1>1, <1>2, <1>3, <1>4

\* UpsertFromOIDC's COMMIT.
LEMMA CommitLoginKeeps ==
    ASSUME IInv, IInv', VInv, Steady, job' = job, NEW p \in Proc, CommitLogin(p)
    PROVE  VInv' /\ Stays
<1>1. /\ pc[p] = "commit" /\ pc' = [pc EXCEPT ![p] = "save_lock"] /\ Publish(p)
      /\ loc' = [loc EXCEPT ![p].key = Claim(p)] /\ Token(p)'
  BY NotMint, IsNotMint DEF CommitLogin, At, Goto
<1>2. PICK u \in UserId, key \in Key : u = User(p) /\ key = Claim(p)
  BY <1>1, JobFacts DEF IInv, Shape, NeedsUser, Label
<1>3. /\ tx[p].row = u /\ tx[p].data.email = Address(p) /\ tx[p].key = key /\ tx[p].to = u
      /\ Pending(p) /\ Waits(p)
  <2>1. tx[p].row = u /\ tx[p].data.email = Address(p) /\ tx[p].key = key /\ tx[p].to = u
    BY <1>1, <1>2 DEF VInv, Known
  <2>2. Pending(p)
    BY <1>2, <2>1, StoreAssumption DEF Pending, UserId, NoUser
  <2> QED
    BY <2>1, <2>2 DEF VInv, Emails
<1>4. PICK gone : gone = tx[p].gone
  OBVIOUS
<1>5. /\ users' = [users EXCEPT ![u] = tx[p].data] /\ tx'[p] = NoTx
      /\ \A k \in Key : ident'[k] = IF k = key THEN u ELSE IF k \in gone THEN NoUser ELSE ident[k]
      /\ sess' \subseteq sess /\ codes' \subseteq codes /\ \A q \in Proc : q # p => tx'[q] = tx[q]
      /\ \A k \in gone : Home(k, u)
      /\ gone # {} => excl[u] = p /\ CredsOf(u)' = {}
  BY <1>1, <1>2, <1>3, <1>4, DeletesLand DEF Publish, Pending
<1>6. /\ User(p)' = u /\ loc'[p].key = key /\ pc'[p] = "save_lock"
      /\ \A q \in Proc : q # p => pc'[q] = pc[q] /\ loc'[q] = loc[q]
  BY <1>1, <1>2 DEF IInv, TypeOK, Local_, User
<1>7. /\ \A v \in UserId : users[v].email = Address(p) => v = u
      /\ Exists(u) => users[u].email = Address(p)
      /\ \A q \in Proc \ {p} : Pending(q) => (tx[q].row = u <=> tx[q].data.email = Address(p))
  BY <1>3 DEF Waits, VInv, Emails
<1>8. EmailsStay /\ Emails'
  <2>1. PICK d : d = tx[p].data
    OBVIOUS
  <2>2. users' = [users EXCEPT ![u] = d] /\ d.email = Address(p) /\ tx'[p].row = NoUser
    BY <1>3, <1>5, <2>1 DEF NoTx
  <2>3. \A q \in Proc : q # p => pc'[q] = pc[q] /\ tx'[q] = tx[q]
    BY <1>5, <1>6
  <2> QED
    BY <1>7, <2>2, <2>3, RowLands
<1>9. \A v \in UserId : Home(key, v) => v = u
  BY <1>2, <1>7, JobFacts DEF Home
<1>10. users'[u].email = Address(p) /\ Address(p)' = Address(p) /\ Claim(p)' = key
  BY <1>2, <1>3, <1>5 DEF IInv, TypeOK, StoreTypeOK, Address, Claim
<1>11. Home(key, u)'
  BY <1>10 DEF Home
<1>12. Known(p)'
  BY <1>5, <1>6, <1>10 DEF Known, Resolved, Erasing, Minting, NoTx
<1> QED
  BY <1>1, <1>5, <1>6, <1>8, <1>9, <1>11, <1>12, LinkStep

\* EraseIdentity's COMMIT.
LEMMA CommitEraseKeeps ==
    ASSUME IInv, IInv', VInv, Steady, job' = job, NEW p \in Proc, CommitErase(p)
    PROVE  VInv' /\ Stays
<1>1. /\ pc[p] = "erase_commit" /\ pc' = [pc EXCEPT ![p] = "done"] /\ Publish(p)
      /\ loc' = loc /\ Token(p)'
  BY NotMint, IsNotMint DEF CommitErase, At, Goto
<1>2. PICK u \in UserId : u = User(p)
  BY <1>1 DEF IInv, Shape, NeedsUser, Label
<1>3. tx[p].row = NoUser /\ tx[p].key = NoKey
  BY <1>1 DEF VInv, Known, Emails, Waits, Pending
<1>4. NoKey \notin Key /\ \A v \in UserId : ~Home(NoKey, v)
  BY JobFacts DEF NoKey, Key, SsoKey, Sso, Local, Home, Claim
<1>5. PICK key, gone : key = NoKey /\ gone = tx[p].gone
  OBVIOUS
<1>6. /\ users' = users /\ tx'[p] = NoTx
      /\ \A k \in Key : ident'[k] = IF k = key THEN u ELSE IF k \in gone THEN NoUser ELSE ident[k]
      /\ sess' \subseteq sess /\ codes' \subseteq codes /\ \A q \in Proc : q # p => tx'[q] = tx[q]
      /\ \A k \in gone : Home(k, u)
      /\ gone # {} => excl[u] = p /\ CredsOf(u)' = {}
  BY <1>1, <1>2, <1>3, <1>4, <1>5, DeletesLand DEF Publish
<1>7. pc'[p] = "done" /\ \A q \in Proc : q # p => pc'[q] = pc[q] /\ loc'[q] = loc[q]
  BY <1>1 DEF IInv, TypeOK
<1>8. EmailsStay /\ Emails'
  <2>1. \A q \in Proc : Pending(q)' => q # p /\ Pending(q) /\ tx'[q] = tx[q] /\ pc'[q] = pc[q]
    BY <1>6, <1>7 DEF Pending, NoTx
  <2>2. \A q \in Proc : Pending(q)' => Waits(q)'
    BY <1>6, <2>1 DEF VInv, Emails, Waits, Exists
  <2> QED
    BY <1>6, <2>1, <2>2 DEF VInv, Emails, EmailsStay, Exists
<1>9. \A v \in UserId : ~Home(key, v)
  BY <1>4, <1>5
<1>10. key \notin Key
  BY <1>4, <1>5
<1>11. Known(p)'
  BY <1>6, <1>7 DEF Known, Resolved, Erasing, Minting, NoTx
<1> QED
  BY <1>1, <1>6, <1>7, <1>8, <1>9, <1>10, <1>11, LinkStep

\* The bound insert: the credential's identity was vouched for, and the lock
\* has kept it since.
LEMMA InsertKeeps ==
    ASSUME IInv, IInv', VInv, Steady, job' = job, NEW p \in Proc, InsertCred(p)
    PROVE  VInv'
<1> DEFINE new == [id |-> p, user |-> User(p), key |-> loc[p].key, from |-> loc[p].from]
<1>1. /\ pc[p] = "cred" /\ pc' = [pc EXCEPT ![p] = "done"] /\ UNCHANGED <<users, ident, tx, loc>>
      /\ sess' \subseteq sess \cup {new} /\ codes' \subseteq codes \cup {new}
  BY DEF InsertCred, At, Goto
<1>2. pc'[p] = "done" /\ \A q \in Proc : q # p => pc'[q] = pc[q] /\ tx'[q] = tx[q] /\ loc'[q] = loc[q]
  BY <1>1 DEF IInv, TypeOK
<1>3. tx[p].row = NoUser /\ tx[p].key = NoKey /\ tx[p].gone = {}
  BY <1>1, NoWrites
<1>4. EmailsStay /\ Emails'
  BY <1>1, <1>2, <1>3, SameRows
<1>5. AtHome'
  BY <1>1 DEF VInv, AtHome, Home, Claim, Address
<1>6. \A q \in Proc : Known(q)'
  <2>1. Known(p)'
    BY <1>1, <1>2, <1>3 DEF Known, Resolved, Erasing, Minting
  <2>2. ASSUME NEW q \in Proc, q # p PROVE Known(q)'
    BY <1>1, <1>2, <1>4, <2>2, OthersKnow
  <2> QED
    BY <2>1, <2>2
<1>7. VouchedCredentials'
  <2>1. ident[new.key] = new.user
    BY <1>1 DEF VInv, Known
  <2> QED
    BY <1>1, <2>1 DEF VInv, VouchedCredentials
<1>8. \A c \in sess \cup codes : c.id \in Proc /\ c.id # p /\ pc'[c.id] = "done"
  BY <1>1, <1>2, CredFacts
<1>9. Named'
  <2>1. \A c \in sess' \cup codes' : pc'[c.id] = "done"
    BY <1>1, <1>2, <1>8
  <2>2. \A c, d \in sess' : c.id = d.id => c.key = d.key
    BY <1>1, <1>8 DEF VInv, Named
  <2> QED
    BY <2>1, <2>2 DEF Named
<1>10. ASSUME NEW q \in Proc PROVE Token(q)'
  <2>1. CASE q = p
    BY <1>2, <2>1 DEF Token, Minting
  <2>2. CASE q # p
    <3>1. Token(q) /\ pc'[q] = pc[q] /\ loc'[q] = loc[q] /\ Kind(q)' = Kind(q)
      BY <1>2, <2>2 DEF VInv, Kind
    <3>2. \A r \in Proc : pc[r] = "done" => r # p /\ pc'[r] = "done"
      BY <1>1, <1>2
    <3>3. \A c \in sess' : c.id # p => c \in sess
      BY <1>1
    <3> QED
      BY <3>1, <3>2, <3>3 DEF Token
  <2> QED
    BY <2>1, <2>2
<1> QED
  BY <1>4, <1>5, <1>6, <1>7, <1>9, <1>10 DEF VInv

-----------------------------------------------------------------------------
(* Every step. *)

LEMMA NextVouching ==
    ASSUME IInv, VInv, Steady, [Next]_vars
    PROVE  VInv' /\ Steady' /\ Stays
<1>1. job' = job
  BY DEF Next, Step, Abort, EndSession, Finished, vars
<1>2. Steady'
  BY <1>1 DEF Steady, JobOK, KeepsAddress
<1>3. IInv'
  BY NextIInv DEF Steady
<1>4. ASSUME NEW p \in Proc, UpsertStep(p) \/ SaveStep(p)
      PROVE  VInv'
  BY <1>1, <1>3, <1>4, ResolveKeeps, LockKeeps, InsertUserKeeps, SnapshotKeeps, PurgeKeeps,
     UpdateUserKeeps, LinkKeeps, CommitLoginKeeps, SaveKeeps, RegisterKeeps
  DEF UpsertStep, SaveStep
<1>5. ASSUME NEW p \in Proc, CreateStep(p)
      PROVE  VInv'
  BY <1>1, <1>3, <1>5, LockKeeps, VouchKeeps, InsertKeeps, BindKeeps DEF CreateStep
<1>6. ASSUME NEW p \in Proc, EraseStep(p) \/ LogoutStep(p)
      PROVE  VInv'
  BY <1>1, <1>3, <1>6, FindKeeps, LockKeeps, EraseCheckKeeps, EraseDeleteKeeps, CommitEraseKeeps,
     RevokeKeeps
  DEF EraseStep, LogoutStep
<1>7. ASSUME NEW p \in Proc, Abort(p)
      PROVE  VInv'
  BY <1>1, <1>3, <1>7, FailKeeps DEF Abort
<1>8. VInv'
  BY <1>4, <1>5, <1>6, <1>7, EndKeeps DEF Next, Step, Finished
<1>9. Stays
  <2>1. CASE ident' = ident
    BY <2>1 DEF Stays
  <2>2. ASSUME NEW p \in Proc,
               CommitLogin(p) \/ SaveLocal(p) \/ SaveFederated(p) \/ CommitErase(p)
        PROVE  Stays
    BY <1>1, <1>3, <2>2, CommitLoginKeeps, SaveKeeps, CommitEraseKeeps
  <2>3. ASSUME NEW p \in Proc, Fail(p) PROVE ident' = ident
    BY <2>3 DEF Fail, Rollback, tables
  <2>4. ASSUME NEW p \in Proc, UpsertStep(p), ~CommitLogin(p) PROVE ident' = ident
    BY <2>3, <2>4
    DEF UpsertStep, ResolveBySubject, ResolveByEmail, LockAccount, Recheck, InsertUser,
        PurgeSnapshot, Purge, UpdateUser, LinkIdentity, LockExclusive, Unmatched, storeVars, tables
  <2>5. ASSUME NEW p \in Proc, SaveLock(p) \/ Register(p) PROVE ident' = ident
    BY <2>3, <2>5 DEF SaveLock, LockExclusive, Register
  <2>6. ASSUME NEW p \in Proc, CreateStep(p) PROVE ident' = ident
    BY <2>3, <2>6
    DEF CreateStep, LockForCreate, LockShared, Vouch, InsertCred, MintToken, ExchangeCode,
        DeviceExchange, Unauthenticated, storeVars
  <2>7. ASSUME NEW p \in Proc, EraseStep(p) \/ LogoutStep(p), ~CommitErase(p) PROVE ident' = ident
    BY <2>3, <2>7
    DEF EraseStep, LogoutStep, EraseFind, EraseLock, EraseCheck, EraseDelete, LogoutFind,
        RevokeUser, LockExclusive, Rollback, storeVars, tables
  <2>8. CASE EndSession \/ UNCHANGED vars
    BY <2>1, <2>8 DEF EndSession, vars
  <2>9. ASSUME NEW p \in Proc, Step(p) \/ Abort(p) PROVE Stays
    BY <2>1, <2>2, <2>3, <2>4, <2>5, <2>6, <2>7, <2>9 DEF Step, Abort, SaveStep
  <2> QED
    BY <2>8, <2>9 DEF Next, Finished
<1> QED
  BY <1>2, <1>8, <1>9

\* What the requests know, and where every key is at home, along any run.
LEMMA VouchingInductive == SubjectsKeepAddress => (Spec => [](IInv /\ Steady /\ VInv))
<1> SUFFICES ASSUME SubjectsKeepAddress PROVE Spec => [](IInv /\ Steady /\ VInv)
  OBVIOUS
<1>1. Init => IInv /\ Steady /\ VInv
  BY InitIInv, VouchingInit DEF Init, Steady, JobOK, KeepsAddress, SubjectsKeepAddress
<1>2. IInv /\ Steady /\ VInv /\ [Next]_vars => (IInv /\ Steady /\ VInv)'
  BY NextVouching, NextIInv DEF Steady
<1> QED
  BY <1>1, <1>2, PTL DEF Spec

\* As long as each subject keeps its address: no session and no pending login
\* code outlives the identity it was minted under, however logins, purges,
\* erasures, exchanges and named tokens interleave.  vouched, under
\* whileBound's shared lock, is enough.
THEOREM Vouching == SubjectsKeepAddress => (Spec => []VouchedCredentials)
<1>1. VInv => VouchedCredentials
  BY DEF VInv
<1> QED
  BY <1>1, VouchingInductive, PTL

\* As long as each subject keeps its address: linkIdentity's and Save's ON
\* CONFLICT DO UPDATE never take an identity from one account to another.
THEOREM IdentityStays == SubjectsKeepAddress => (Spec => IdentityNeverMoves)
<1> SUFFICES ASSUME SubjectsKeepAddress PROVE Spec => IdentityNeverMoves
  OBVIOUS
<1>1. IInv /\ Steady /\ VInv /\ [Next]_vars
      => [\A k \in Key : ident[k] # NoUser => ident'[k] \in {NoUser, ident[k]}]_vars
  BY NextVouching DEF Stays
<1> QED
  BY <1>1, VouchingInductive, PTL DEF Spec, IdentityNeverMoves
=============================================================================
