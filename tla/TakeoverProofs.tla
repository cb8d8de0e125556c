--------------------------- MODULE TakeoverProofs ---------------------------
(***************************************************************************)
(* What a login may do to the account it resolves: OneSubjectPerAccount,   *)
(* VerifiedNeverPurged, TakenOverIsClean and NoDeadlock.  Each holds for   *)
(* the workloads a hypothesis describes, and pg breaks it for some others: *)
(* existingUser matches a login that comes back by its subject, without    *)
(* the account's lock and whatever happens to the identity before its      *)
(* UPDATE, and a late Save takes an account whose owner was erased.        *)
(*                                                                         *)
(* A login writes an account it inserts, or one it found by a verified     *)
(* address and has locked, or one it came back to (Way).  Of the first two *)
(* an account has one at a time; the third is what the hypotheses are      *)
(* about.  An identity row tells of the login that linked it (LinkedBy),   *)
(* and a proof of the address stays with the account (Wrote), so whoever   *)
(* comes back to a proved account meets no purge there (Unproved).         *)
(***************************************************************************)
EXTENDS AccountsProofs

Proven == \A w \in Workload : ReturnsProven(w)
Alike == \A w \in Workload : ProvesAlike(w)
Spared == \A w \in Workload : NoneErased(w)

-----------------------------------------------------------------------------
(* The inductive invariant. *)

\* Where a login has linked its subject, or has given up.
Past == {"save_lock", "save", "cred_lock", "vouch", "cred", "done"}
Signing == {"subject", "email", "lock", "recheck", "insert", "snapshot", "purge", "update",
            "link", "commit", "save_lock", "save"}
ByEmail == {"email", "lock", "recheck", "snapshot", "purge"}

\* What a label says of the request at it.
Role(p) ==
    /\ pc[p] \in Signing => IsLogin(p)
    /\ pc[p] = "save_local" => Kind(p) = "register" /\ users[User(p)].email = Address(p)
    /\ pc[p] \in Erasing \cup {"erase_find"} => Kind(p) = "erase"
    /\ pc[p] \in ByEmail => job[p].verified
    /\ IsLogin(p) => \A u \in UserId : excl[u] = p => users[u].email = Address(p)

\* How a login came to the account it writes: by its verified address, and it
\* has the account's lock; or by its subject, which another login has linked;
\* or it is inserting the account.
ByAddress(p) == excl[User(p)] = p /\ Exists(User(p)) /\ job[p].verified
Back(p) ==
    /\ \E r \in Proc : /\ Again(job, p, r) /\ pc[r] \in Past
                       /\ job[r].verified => users[User(p)].verified
    /\ Contested(job, Address(p)) => ident[Claim(p)] = User(p)
Way(p) ==
    /\ pc[p] = "update" => ByAddress(p) \/ Back(p)
    /\ pc[p] \in {"link", "commit"} => ByAddress(p) \/ ~Exists(User(p)) \/ Back(p)
    /\ tx[p].purged => ByAddress(p)

\* A linked subject was linked by a login of its own, which left the account
\* proved if it proved the address.
LinkedBy ==
    \A k \in SsoKey : ident[k] # NoUser =>
        \E r \in Proc : /\ IsLogin(r) /\ Claim(r) = k /\ pc[r] \in Past
                        /\ job[r].verified => users[ident[k]].verified

\* An account row has one writer at a time, and none takes a proof back.
OneWriter == \A p, q \in Proc : Pending(p) /\ Pending(q) /\ tx[p].row = tx[q].row => p = q
Wrote(p) ==
    /\ Pending(p) /\ job[p].verified => tx[p].data.verified
    /\ Pending(p) /\ Exists(tx[p].row) =>
          tx[p].data.verified = (users[tx[p].row].verified \/ job[p].verified)
    /\ pc[p] \in {"save_lock", "save"} /\ job[p].verified => users[User(p)].verified

\* A takeover is of an account nobody has proved.
Evicting(p) == pc[p] \in {"snapshot", "purge"} \/ tx[p].purged
Unproved(p) ==
    Evicting(p) /\ (Contested(job, Address(p)) \/ ProvesAlike(job)) => ~users[User(p)].verified

Reach(p) == Role(p) /\ Way(p) /\ Wrote(p) /\ Unproved(p)
FInv == LinkedBy /\ OneWriter /\ \A p \in Proc : Reach(p)

-----------------------------------------------------------------------------
(* Subjects and addresses. *)

LEMMA SameClaim ==
    ASSUME NEW p \in Proc, NEW q \in Proc
    PROVE  Claim(p) = Claim(q) <=> job[p].subj = job[q].subj
  BY DEF Claim, Sso

\* An address nobody contests has one subject.
LEMMA OneSubject ==
    ASSUME NEW p \in Proc, NEW q \in Proc, IsLogin(p), IsLogin(q), Address(p) = Address(q),
           ~Contested(job, Address(p))
    PROVE  Claim(p) = Claim(q)
  BY SameClaim DEF Contested, SignsIn, IsLogin, Kind, Address

\* A linked subject is some login's, with the account's address.
LEMMA Linker ==
    ASSUME IInv, VInv, Steady, LinkedBy, NEW k \in SsoKey, NEW u \in UserId, ident[k] = u
    PROVE  \E r \in Proc : /\ IsLogin(r) /\ Claim(r) = k /\ pc[r] \in Past
                           /\ users[u].email = Address(r)
<1>1. k \in Key /\ ident[k] # NoUser
  BY StoreAssumption DEF Key, UserId, NoUser
<1>2. PICK r \in Proc : IsLogin(r) /\ Claim(r) = k /\ pc[r] \in Past
  BY <1>1 DEF LinkedBy
<1>3. Home(k, u)
  BY <1>1 DEF VInv, AtHome
<1>4. users[u].email = Address(r)
  BY <1>2, <1>3, JobFacts DEF Home
<1> QED
  BY <1>2, <1>4

\* Nobody is linked to an account that has no row.
LEMMA NobodysRow ==
    ASSUME IInv, VInv, Steady, NEW u \in UserId, ~Exists(u), NEW k \in SsoKey
    PROVE  ident[k] # u
<1> SUFFICES ASSUME ident[k] = u PROVE FALSE
  OBVIOUS
<1>1. Home(k, u)
  BY StoreAssumption DEF VInv, AtHome, Key, UserId, NoUser
<1>2. k # Local(u)
  BY DEF SsoKey, Sso, Local
<1> QED
  BY <1>1, <1>2, JobFacts DEF Home, Exists

-----------------------------------------------------------------------------
(* What a step of one request leaves of the others. *)

Spares(p) ==
    /\ \A q \in Proc \ {p} : /\ pc'[q] = pc[q] /\ tx'[q] = tx[q] /\ loc'[q] = loc[q]
                             /\ \A u \in UserId : excl'[u] = q <=> excl[u] = q
    /\ pc[p] \in Past => pc'[p] \in Past
    /\ \A u \in UserId : excl'[u] = p =>
          excl[u] = p \/ (pc[p] \in {"lock", "save_lock", "erase_lock"} /\ u = User(p))

LEMMA ReleaseSpares ==
    ASSUME NEW p \in Proc, ReleaseLocks(p)
    PROVE  /\ \A q \in Proc \ {p} : \A u \in UserId : excl'[u] = q <=> excl[u] = q
           /\ \A u \in UserId : excl'[u] # p
  BY StoreAssumption DEF ReleaseLocks

LEMMA FailSpares ==
    ASSUME IInv, NEW p \in Proc, Fail(p)
    PROVE  Spares(p) /\ pc'[p] = "done" /\ UNCHANGED tables
  BY ReleaseSpares DEF Fail, Rollback, Goto, Spares, Past, IInv, TypeOK, StoreTypeOK

LEMMA ExclusiveSpares ==
    ASSUME IInv, NEW p \in Proc, LockAccount(p) \/ SaveLock(p) \/ EraseLock(p)
    PROVE  Spares(p) /\ UNCHANGED tables
<1>1. /\ pc[p] \in {"lock", "save_lock", "erase_lock"} /\ WaitsFor(p) = {}
      /\ LockExclusive(p, User(p)) /\ loc' = loc
  BY DEF LockAccount, SaveLock, EraseLock, At
<1>2. excl[User(p)] \in {p, NoProc}
  BY <1>1 DEF WaitsFor, Start, AdvisoryHolders
<1>3. User(p) \in UserId
  BY <1>1 DEF IInv, Shape, NeedsUser, Label
<1>4. \A q \in Proc \ {p} : pc'[q] = pc[q]
  BY DEF LockAccount, SaveLock, EraseLock, Goto, IInv, TypeOK
<1>5. pc[p] \in Past => pc'[p] \in Past
  BY DEF LockAccount, SaveLock, EraseLock, Goto, At, IInv, TypeOK, Past
<1> QED
  BY <1>1, <1>2, <1>3, <1>4, <1>5, StoreAssumption
  DEF Spares, LockExclusive, tables, IInv, TypeOK, StoreTypeOK

\* A step that reads, or writes in its own transaction.
LEMMA PlainSpares ==
    ASSUME IInv, NEW p \in Proc, NEW label,
           pc' = [pc EXCEPT ![p] = label], pc[p] \in Past => label \in Past,
           tx' = tx \/ \E t : tx' = [tx EXCEPT ![p] = t],
           loc' = loc \/ \E l : loc' = [loc EXCEPT ![p] = l],
           excl' = excl \/ ReleaseLocks(p)
    PROVE  Spares(p) /\ pc'[p] = label
  BY ReleaseSpares DEF Spares, IInv, TypeOK, StoreTypeOK

LEMMA UpsertSpares ==
    ASSUME IInv, NEW p \in Proc, UpsertStep(p)
    PROVE  Spares(p)
<1>1. CASE Fail(p)
  BY <1>1, FailSpares
<1>2. CASE LockAccount(p)
  BY <1>2, ExclusiveSpares
<1>3. CASE (ResolveBySubject(p) \/ ResolveByEmail(p) \/ Recheck(p)) /\ ~Fail(p)
  <2>1. /\ pc[p] \in {"start", "subject", "email", "recheck"}
        /\ \E label : pc' = [pc EXCEPT ![p] = label]
        /\ excl' = excl /\ tx' = tx
        /\ loc' = loc \/ \E l : loc' = [loc EXCEPT ![p] = l]
    BY <1>3 DEF ResolveBySubject, ResolveByEmail, Recheck, Unmatched, Goto, Start, At, storeVars
  <2> QED
    BY <2>1, PlainSpares DEF Past
<1>4. CASE (InsertUser(p) \/ PurgeSnapshot(p) \/ Purge(p) \/ LinkIdentity(p)) /\ ~Fail(p)
  <2>1. /\ pc[p] \in {"insert", "snapshot", "purge", "link"}
        /\ \E label : pc' = [pc EXCEPT ![p] = label]
        /\ excl' = excl
        /\ tx' = tx \/ \E t : tx' = [tx EXCEPT ![p] = t]
        /\ loc' = loc \/ \E l : loc' = [loc EXCEPT ![p] = l]
    BY <1>4 DEF InsertUser, PurgeSnapshot, Purge, LinkIdentity, Goto, At, storeVars
  <2> QED
    BY <2>1, PlainSpares DEF Past
<1>5. CASE UpdateUser(p) /\ ~Fail(p)
  <2>1. /\ pc[p] = "update" /\ \E label : pc' = [pc EXCEPT ![p] = label]
        /\ excl' = excl /\ loc' = loc /\ \E t : tx' = [tx EXCEPT ![p] = t]
    BY <1>5 DEF UpdateUser, Goto, At
  <2> QED
    BY <2>1, PlainSpares DEF Past
<1>6. CASE CommitLogin(p)
  <2>1. /\ pc[p] = "commit" /\ \E label : pc' = [pc EXCEPT ![p] = label]
        /\ ReleaseLocks(p) /\ \E t : tx' = [tx EXCEPT ![p] = t]
        /\ \E l : loc' = [loc EXCEPT ![p] = l]
    BY <1>6 DEF CommitLogin, Publish, Goto, At
  <2> QED
    BY <2>1, PlainSpares DEF Past
<1> QED
  BY <1>1, <1>2, <1>3, <1>4, <1>5, <1>6 DEF UpsertStep

LEMMA SaveSpares ==
    ASSUME IInv, NEW p \in Proc, SaveStep(p)
    PROVE  Spares(p)
<1>1. CASE Fail(p)
  BY <1>1, FailSpares
<1>2. CASE SaveLock(p)
  BY <1>2, ExclusiveSpares
<1>3. CASE (SaveFederated(p) \/ Register(p) \/ SaveLocal(p)) /\ ~Fail(p)
  <2>1. \/ pc[p] \notin Past /\ \E label : pc' = [pc EXCEPT ![p] = label]
        \/ pc' = [pc EXCEPT ![p] = "cred_lock"]
    BY <1>3 DEF SaveFederated, Register, SaveLocal, Goto, Start, Past
  <2>2. /\ tx' = tx /\ (excl' = excl \/ ReleaseLocks(p))
        /\ loc' = loc \/ \E l : loc' = [loc EXCEPT ![p] = l]
    BY <1>3 DEF SaveFederated, Register, SaveLocal
  <2> QED
    BY <2>1, <2>2, PlainSpares DEF Past
<1> QED
  BY <1>1, <1>2, <1>3 DEF SaveStep

LEMMA CreateSpares ==
    ASSUME IInv, NEW p \in Proc, CreateStep(p)
    PROVE  Spares(p)
<1>1. CASE Fail(p)
  BY <1>1, FailSpares
<1>2. CASE (LockForCreate(p) \/ Vouch(p) \/ InsertCred(p)) /\ ~Fail(p)
  <2>1. /\ \E label \in {"vouch", "cred", "done"} : pc' = [pc EXCEPT ![p] = label]
        /\ tx' = tx /\ loc' = loc /\ (excl' = excl \/ ReleaseLocks(p))
    BY <1>2 DEF LockForCreate, Vouch, InsertCred, LockShared, Goto, storeVars
  <2> QED
    BY <2>1, PlainSpares DEF Past
<1>3. CASE (MintToken(p) \/ ExchangeCode(p) \/ DeviceExchange(p)) /\ ~Fail(p)
  <2>1. /\ \E label : pc' = [pc EXCEPT ![p] = label]
        /\ pc[p] = "start" /\ tx' = tx /\ excl' = excl
        /\ loc' = loc \/ \E l : loc' = [loc EXCEPT ![p] = l]
    BY <1>3 DEF MintToken, ExchangeCode, DeviceExchange, Bind, Goto, Start, storeVars
  <2> QED
    BY <2>1, PlainSpares DEF Past
<1> QED
  BY <1>1, <1>2, <1>3 DEF CreateStep, Unauthenticated

LEMMA EraseSpares ==
    ASSUME IInv, NEW p \in Proc, EraseStep(p) \/ LogoutStep(p)
    PROVE  Spares(p)
<1>1. CASE Fail(p)
  BY <1>1, FailSpares
<1>2. CASE EraseLock(p)
  BY <1>2, ExclusiveSpares
<1>3. CASE (EraseFind(p) \/ EraseCheck(p) \/ LogoutFind(p)) /\ ~Fail(p)
  <2>1. /\ pc[p] \in {"start", "erase_find", "erase_check"}
        /\ \E label : pc' = [pc EXCEPT ![p] = label]
        /\ (excl' = excl /\ tx' = tx) \/ (ReleaseLocks(p) /\ \E t : tx' = [tx EXCEPT ![p] = t])
        /\ loc' = loc \/ \E l : loc' = [loc EXCEPT ![p] = l]
    BY <1>3 DEF EraseFind, EraseCheck, LogoutFind, Rollback, Goto, Start, At, storeVars
  <2> QED
    BY <2>1, PlainSpares DEF Past
<1>4. CASE EraseDelete(p) \/ CommitErase(p) \/ RevokeUser(p)
  <2>1. /\ pc[p] \in {"erase_delete", "erase_commit", "revoke"}
        /\ \E label : pc' = [pc EXCEPT ![p] = label]
        /\ excl' = excl \/ ReleaseLocks(p)
        /\ tx' = tx \/ \E t : tx' = [tx EXCEPT ![p] = t]
        /\ loc' = loc
    BY <1>4 DEF EraseDelete, CommitErase, RevokeUser, Publish, Goto, At
  <2> QED
    BY <2>1, PlainSpares DEF Past
<1> QED
  BY <1>1, <1>2, <1>3, <1>4 DEF EraseStep, LogoutStep

LEMMA StepSpares ==
    ASSUME IInv, NEW p \in Proc, Step(p) \/ Abort(p)
    PROVE  Spares(p)
  BY UpsertSpares, SaveSpares, CreateSpares, EraseSpares, FailSpares DEF Step, Abort
-----------------------------------------------------------------------------
(* What a step writes. *)

Writes(p) ==
    /\ EmailsStay
    /\ \A u \in UserId : users'[u] # users[u] =>
          \/ pc[p] = "commit" /\ pc'[p] = "save_lock" /\ tx[p].row = u /\ users'[u] = tx[p].data
          \/ pc[p] = "start" /\ Fresh(u) /\ ~users'[u].verified
    /\ \A k \in Key : ident'[k] # ident[k] =>
          \/ /\ pc[p] \in {"commit", "save"} /\ pc'[p] \in Past
             /\ k = Claim(p) /\ ident'[k] = User(p)
             /\ pc[p] = "commit" => users'[User(p)] = tx[p].data
             /\ pc[p] = "save" => SaveWrites(p)
          \/ pc[p] = "save_local" /\ k = Local(User(p)) /\ ident'[k] = User(p)
          \/ pc[p] \in {"commit", "erase_commit"} /\ k \in tx[p].gone /\ ident'[k] = NoUser

LEMMA ReadsOnly ==
    ASSUME IInv, NEW p \in Proc, Step(p) \/ Abort(p),
           ~(CommitLogin(p) \/ Register(p) \/ SaveFederated(p) \/ SaveLocal(p) \/ CommitErase(p))
    PROVE  users' = users /\ ident' = ident
<1>1. CASE Fail(p)
  BY <1>1, FailSpares DEF tables
<1>2. CASE UpsertStep(p) /\ ~Fail(p)
  BY <1>2, ExclusiveSpares
  DEF UpsertStep, ResolveBySubject, ResolveByEmail, Recheck, InsertUser, PurgeSnapshot, Purge,
      UpdateUser, LinkIdentity, Unmatched, storeVars, tables
<1>3. CASE SaveStep(p)
  BY <1>3, ExclusiveSpares DEF SaveStep, tables
<1>4. CASE CreateStep(p) /\ ~Fail(p)
  BY <1>4
  DEF CreateStep, LockForCreate, LockShared, Vouch, InsertCred, MintToken, ExchangeCode,
      DeviceExchange, Unauthenticated, storeVars
<1>5. CASE (EraseStep(p) \/ LogoutStep(p)) /\ ~Fail(p)
  BY <1>5, ExclusiveSpares
  DEF EraseStep, LogoutStep, EraseFind, EraseCheck, EraseDelete, LogoutFind, RevokeUser,
      Rollback, storeVars, tables
<1> QED
  BY <1>1, <1>2, <1>3, <1>4, <1>5 DEF Step, Abort

LEMMA CommitWrites ==
    ASSUME IInv, VInv, Steady, NEW p \in Proc, CommitLogin(p)
    PROVE  Writes(p)
<1>1. /\ pc[p] = "commit" /\ Publish(p) /\ pc'[p] = "save_lock"
      /\ User(p) \in UserId /\ Claim(p) \in Key /\ Known(p)
  BY JobFacts DEF CommitLogin, At, Goto, IInv, TypeOK, Shape, NeedsUser, Label, VInv
<1>2. /\ tx[p].row = User(p) /\ tx[p].data.email = Address(p) /\ tx[p].key = Claim(p)
      /\ tx[p].to = User(p) /\ Pending(p)
  BY <1>1, StoreAssumption DEF Known, Pending, UserId, NoUser
<1>3. Exists(User(p)) => users[User(p)].email = Address(p)
  BY <1>2 DEF VInv, Emails, Waits
<1>4. /\ users' = [users EXCEPT ![User(p)] = tx[p].data]
      /\ ident' = [k \in Key |-> IF k = Claim(p) THEN User(p)
                                 ELSE IF k \in tx[p].gone THEN NoUser ELSE ident[k]]
  BY <1>1, <1>2 DEF Publish, Pending
<1>5. EmailsStay
  BY <1>1, <1>2, <1>3, <1>4 DEF EmailsStay, IInv, TypeOK, StoreTypeOK
<1>6. /\ users'[User(p)] = tx[p].data
      /\ \A u \in UserId : users'[u] # users[u] => tx[p].row = u /\ users'[u] = tx[p].data
  BY <1>1, <1>2, <1>4 DEF IInv, TypeOK, StoreTypeOK
<1> QED
  BY <1>1, <1>4, <1>5, <1>6 DEF Writes, Past

LEMMA RegisterWrites ==
    ASSUME IInv, VInv, Steady, NEW p \in Proc, Register(p)
    PROVE  Writes(p)
<1>1. CASE Fail(p)
  BY <1>1, FailSpares DEF Writes, EmailsStay, tables
<1>2. CASE ~Fail(p)
  <2>1. PICK u \in UserId :
          Fresh(u) /\ users' = [users EXCEPT ![u] = [email |-> Address(p), verified |-> FALSE]]
    BY <1>2 DEF Register
  <2>2. pc[p] = "start" /\ ident' = ident
    BY <1>2 DEF Register, Start
  <2> QED
    BY <2>1, <2>2 DEF Writes, EmailsStay, Fresh, Exists, IInv, TypeOK, StoreTypeOK
<1> QED
  BY <1>1, <1>2

LEMMA StepWrites ==
    ASSUME IInv, VInv, Steady, NEW p \in Proc, Step(p) \/ Abort(p)
    PROVE  Writes(p)
<1>1. CASE users' = users /\ ident' = ident
  BY <1>1 DEF Writes, EmailsStay
<1>2. CASE CommitLogin(p)
  BY <1>2, CommitWrites
<1>3. CASE Register(p)
  BY <1>3, RegisterWrites
<1>4. CASE SaveFederated(p) /\ ~Fail(p)
  <2>1. /\ pc[p] = "save" /\ pc'[p] = "cred_lock" /\ users' = users /\ SaveWrites(p)
        /\ ident' = [ident EXCEPT ![Claim(p)] = User(p)]
    BY <1>4 DEF SaveFederated, At, Goto, IInv, TypeOK
  <2> QED
    BY <2>1 DEF Writes, EmailsStay, Past, IInv, TypeOK, StoreTypeOK
<1>5. CASE SaveLocal(p)
  <2>1. /\ pc[p] = "save_local" /\ users' = users
        /\ ident' = [ident EXCEPT ![Local(User(p))] = User(p)]
    BY <1>5 DEF SaveLocal, At
  <2> QED
    BY <2>1 DEF Writes, EmailsStay, IInv, TypeOK, StoreTypeOK
<1>6. CASE CommitErase(p)
  <2>1. pc[p] = "erase_commit" /\ Publish(p)
    BY <1>6 DEF CommitErase, At
  <2>2. tx[p].row = NoUser /\ tx[p].key = NoKey /\ NoKey \notin Key
    BY <2>1 DEF VInv, Known, Emails, Waits, Pending, NoKey, Key, SsoKey, Sso, Local
  <2>3. users' = users /\ \A k \in Key : ident'[k] = IF k \in tx[p].gone THEN NoUser ELSE ident[k]
    BY <2>1, <2>2 DEF Publish
  <2> QED
    BY <2>1, <2>3 DEF Writes, EmailsStay
<1>7. CASE Fail(p)
  BY <1>1, <1>7, FailSpares DEF tables
<1> QED
  BY <1>1, <1>2, <1>3, <1>4, <1>5, <1>6, <1>7, ReadsOnly
\* Nobody else touches a row that is being written.
LEMMA RowKept ==
    ASSUME IInv, FInv, NEW p \in Proc, Writes(p), NEW q \in Proc, q # p, Pending(q)
    PROVE  tx[q].row \in UserId /\ users'[tx[q].row] = users[tx[q].row]
<1>1. tx[q].row \in UserId
  BY DEF Pending, IInv, TypeOK, StoreTypeOK, Tx, MaybeUser
<1>2. PICK u \in UserId : u = tx[q].row
  BY <1>1
<1>3. ~Fresh(u)
  BY <1>2 DEF Fresh
<1>4. tx[p].row # u
  BY <1>2 DEF FInv, OneWriter, Pending
<1> QED
  BY <1>1, <1>2, <1>3, <1>4 DEF Writes

\* A proof stays with its account.
LEMMA ProofStays ==
    ASSUME IInv, FInv, NEW p \in Proc, Writes(p), NEW u \in UserId, Exists(u), users[u].verified
    PROVE  Exists(u)' /\ users'[u].verified
<1>1. Exists(u)'
  BY DEF Writes, EmailsStay, Exists
<1>2. CASE tx[p].row = u /\ users'[u] = tx[p].data
  <2>1. Pending(p)
    BY <1>2, StoreAssumption DEF Pending, UserId, NoUser
  <2> QED
    BY <1>1, <1>2, <2>1 DEF FInv, Reach, Wrote
<1> QED
  BY <1>1, <1>2 DEF Writes, Fresh

LEMMA EvictingByAddress ==
    ASSUME IInv, VInv, Steady, FInv, NEW p \in Proc, Evicting(p)
    PROVE  /\ ByAddress(p) /\ User(p) \in UserId /\ users[User(p)].email = Address(p)
           /\ pc[p] \in {"snapshot", "purge", "update", "link", "commit"}
<1>1. pc[p] \in {"snapshot", "purge", "update", "link", "commit"}
  BY DEF Evicting, IInv, LockInv
<1>2. User(p) \in UserId /\ IsLogin(p)
  BY <1>1 DEF IInv, Shape, NeedsUser, Label, FInv, Reach, Role, Signing
<1>3. CASE tx[p].purged
  BY <1>1, <1>2, <1>3 DEF FInv, Reach, Way, Role, ByAddress
<1>4. CASE pc[p] \in {"snapshot", "purge"}
  <2>1. excl[User(p)] = p
    BY <1>4 DEF IInv, LockInv, NeedsExcl
  <2>2. job[p].verified /\ users[User(p)].email = Address(p)
    BY <1>4 DEF FInv, Reach, Role, ByEmail, VInv, Known, Resolved
  <2> QED
    BY <1>1, <1>2, <2>1, <2>2, JobFacts DEF ByAddress, Exists
<1> QED
  BY <1>3, <1>4 DEF Evicting

\* Where two subjects claim the address, a proved account keeps its subject.
LEMMA LinkStays ==
    ASSUME IInv, VInv, Steady, FInv, NEW p \in Proc, Writes(p), Stays,
           NEW k \in SsoKey, NEW u \in UserId, ident[k] = u, users[u].verified,
           Contested(job, users[u].email),
           \A r \in Proc : Kind(r) = "erase" => Address(r) # users[u].email
    PROVE  ident'[k] = u
<1>1. k \in Key /\ u # NoUser /\ Home(k, u)
  BY StoreAssumption DEF Key, UserId, NoUser, VInv, AtHome
<1>2. ident'[k] \in {NoUser, u}
  BY <1>1 DEF Stays
<1> SUFFICES ASSUME ident'[k] = NoUser PROVE FALSE
  BY <1>2
<1>3. pc[p] \in {"commit", "erase_commit"} /\ k \in tx[p].gone
  BY <1>1, StoreAssumption DEF Writes, IInv, Shape, NeedsUser, Label, UserId, NoUser
<1>4. Known(p) /\ Home(k, User(p)) /\ User(p) \in UserId
  BY <1>3 DEF VInv, Known, IInv, Shape, NeedsUser, Label
<1>5. User(p) = u
  BY <1>1, <1>4, HomeUnique DEF VInv
<1>6. CASE pc[p] = "commit"
  <2>1. tx[p].purged
    BY <1>3, <1>4, <1>6 DEF Known, Purging
  <2>2. users[u].email = Address(p)
    BY <1>5, <2>1, EvictingByAddress DEF Evicting
  <2> QED
    BY <1>5, <2>1, <2>2 DEF FInv, Reach, Unproved, Evicting
<1>7. CASE pc[p] = "erase_commit"
  <2>1. Home(Claim(p), u) /\ Kind(p) = "erase"
    BY <1>4, <1>5, <1>7 DEF Known, Erasing, FInv, Reach, Role
  <2>2. users[u].email = Address(p)
    BY <2>1, JobFacts DEF Home
  <2> QED
    BY <2>1, <2>2
<1> QED
  BY <1>3, <1>6, <1>7

LEMMA BackStays ==
    ASSUME IInv, VInv, Steady, FInv, ReturnsProven(job), job' = job, NEW p \in Proc, Spares(p),
           Writes(p), Stays, NEW q \in Proc, q # p, Back(q), NEW u \in UserId, u = User(q),
           users[u].email = Address(q), loc'[q] = loc[q]
    PROVE  Back(q)'
<1>1. PICK r \in Proc : /\ Again(job, q, r) /\ pc[r] \in Past
                        /\ job[r].verified => users[u].verified
  BY DEF Back
<1>2. /\ User(q)' = u /\ Address(q)' = Address(q) /\ Claim(q)' = Claim(q)
      /\ Exists(u) /\ Claim(q) \in SsoKey
  BY JobFacts DEF User, Address, Claim, Exists
<1>3. pc'[r] \in Past
  BY <1>1 DEF Spares
<1>4. job[r].verified => users'[u].verified
  BY <1>1, <1>2, ProofStays
<1>5. ASSUME Contested(job, Address(q)) PROVE ident'[Claim(q)] = u
  <2>1. /\ ident[Claim(q)] = u
        /\ \A e \in Proc : Kind(e) = "erase" => Address(e) # Address(q)
    BY <1>1, <1>5 DEF Back, ReturnsProven, Kind, Address
  <2>2. Again(job, r, q) /\ Contested(job, job[r].email)
    BY <1>1, <1>5 DEF Again, Steady, KeepsAddress, Address
  <2>3. users[u].verified
    BY <1>1, <2>2 DEF ReturnsProven
  <2> QED
    BY <1>2, <1>5, <2>1, <2>3, LinkStays
<1>6. Contested(job, Address(q))' = Contested(job, Address(q)) /\ Again(job, q, r)' = Again(job, q, r)
  BY <1>2 DEF Contested, Again, SignsIn
<1> QED
  BY <1>1, <1>2, <1>3, <1>4, <1>5, <1>6 DEF Back

\* Nobody comes back to an account that is being taken over.
LEMMA NobodyBack ==
    ASSUME IInv, VInv, Steady, FInv, ReturnsProven(job), NEW q \in Proc, Evicting(q),
           Contested(job, Address(q)) \/ ProvesAlike(job),
           NEW p \in Proc, p # q, IsLogin(p), User(p) = User(q), Address(p) = Address(q)
    PROVE  ~Back(p)
<1> SUFFICES ASSUME NEW r \in Proc, Again(job, p, r), pc[r] \in Past,
                    job[r].verified => users[User(q)].verified
             PROVE  FALSE
  BY DEF Back
<1>1. ~users[User(q)].verified /\ job[q].verified /\ IsLogin(q) /\ r # q
  BY EvictingByAddress DEF FInv, Reach, Unproved, ByAddress, Role, Signing, Past
<1>2. CASE Contested(job, Address(q))
  <2>1. Again(job, r, p) /\ Contested(job, job[r].email)
    BY <1>2 DEF Again, Steady, KeepsAddress, Address
  <2> QED
    BY <1>1, <2>1 DEF ReturnsProven
<1>3. CASE ~Contested(job, Address(q)) /\ ProvesAlike(job)
  <2>1. Claim(p) = Claim(q)
    BY <1>1, <1>3, OneSubject
  <2>2. Again(job, q, p) /\ Again(job, q, r)
    BY <1>1, <2>1, SameClaim DEF Again, SignsIn, IsLogin, Kind
  <2>3. job[r].verified
    BY <1>1, <1>3, <2>2 DEF ProvesAlike, Again
  <2> QED
    BY <1>1, <2>3
<1> QED
  BY <1>2, <1>3

LEMMA OthersUnproved ==
    ASSUME IInv, VInv, Steady, FInv, ReturnsProven(job), job' = job, NEW p \in Proc, Spares(p),
           Writes(p), NEW q \in Proc, q # p
    PROVE  Unproved(q)'
<1>1. /\ Evicting(q)' => Evicting(q)
      /\ User(q)' = User(q) /\ Address(q)' = Address(q)
      /\ Contested(job, Address(q))' = Contested(job, Address(q))
      /\ ProvesAlike(job)' = ProvesAlike(job)
  BY DEF Spares, Evicting, User, Address, Contested, ProvesAlike, Again, SignsIn
<1> SUFFICES ASSUME Evicting(q), Contested(job, Address(q)) \/ ProvesAlike(job),
                    users'[User(q)].verified
             PROVE  FALSE
  BY <1>1 DEF Unproved
<1>2. PICK u \in UserId : u = User(q)
  BY EvictingByAddress
<1>3. ~users[u].verified /\ ByAddress(q) /\ Exists(u) /\ users[u].email = Address(q)
  BY <1>2, EvictingByAddress DEF FInv, Reach, Unproved, ByAddress
<1>4. pc[p] = "commit" /\ tx[p].row = u
  BY <1>2, <1>3 DEF Writes, Fresh
<1>5. Pending(p) /\ User(p) = u /\ tx[p].data.email = Address(p) /\ IsLogin(p)
  BY <1>4, StoreAssumption DEF Pending, UserId, NoUser, VInv, Known, FInv, Reach, Role, Signing
<1>6. Address(p) = Address(q)
  BY <1>3, <1>4, <1>5 DEF VInv, Emails, Waits
<1>7. Back(p)
  BY <1>2, <1>3, <1>4, <1>5 DEF FInv, Reach, Way, ByAddress
<1> QED
  BY <1>2, <1>5, <1>6, <1>7, NobodyBack

LEMMA OthersReach ==
    ASSUME IInv, VInv, Steady, FInv, ReturnsProven(job), job' = job, NEW p \in Proc, Spares(p),
           Writes(p), Stays, NEW q \in Proc, q # p
    PROVE  Reach(q)'
<1>1. /\ pc'[q] = pc[q] /\ tx'[q] = tx[q] /\ loc'[q] = loc[q] /\ User(q)' = User(q)
      /\ Address(q)' = Address(q) /\ IsLogin(q)' = IsLogin(q) /\ Kind(q)' = Kind(q)
      /\ \A u \in UserId : excl'[u] = q <=> excl[u] = q
  BY DEF Spares, User, Address, IsLogin, Kind
<1>2. Role(q) /\ Way(q) /\ Wrote(q) /\ Known(q) /\ Address(q) # NoEmail
  BY JobFacts DEF FInv, Reach, VInv
<1>3. \A u \in UserId : users[u].email = Address(q) => users'[u].email = Address(q)
  BY <1>2 DEF Writes, EmailsStay, Exists
<1>4. Role(q)'
  <2>1. pc[q] = "save_local" => User(q) \in UserId
    BY DEF IInv, Shape, NeedsUser, Label
  <2> QED
    BY <1>1, <1>2, <1>3, <2>1 DEF Role
<1>5. pc[q] \in {"update", "link", "commit", "save_lock", "save"} => User(q) \in UserId
  BY DEF IInv, Shape, NeedsUser, Label
<1>6. User(q) \in UserId /\ ByAddress(q) => ByAddress(q)'
  <2>1. PICK u : u = User(q)
    OBVIOUS
  <2>2. u \in UserId /\ Exists(u) => users'[u].email # NoEmail
    BY DEF Writes, EmailsStay, Exists
  <2> QED
    BY <1>1, <2>1, <2>2 DEF ByAddress, Exists
<1>7. pc[q] \in {"link", "commit"} => tx[q].row = User(q) /\ Pending(q)
  BY <1>2, <1>5, StoreAssumption DEF Known, Pending, UserId, NoUser
<1>8. ASSUME pc[q] \in {"update", "link", "commit"}, Back(q), Exists(User(q)) PROVE Back(q)'
  <2>1. PICK u \in UserId : u = User(q)
    BY <1>5, <1>8
  <2>2. users[u].email = Address(q)
    BY <1>2, <1>7, <1>8, <2>1 DEF Known, Resolved, VInv, Emails, Waits
  <2> QED
    BY <1>1, <1>8, <2>1, <2>2, BackStays
<1>9. pc[q] = "update" => Exists(User(q))
  BY <1>2 DEF Known, Resolved, Exists
<1>10. ASSUME pc[q] \in {"link", "commit"}, ~Exists(User(q)) PROVE ~Exists(User(q))'
  <2>1. users'[User(q)] = users[User(q)]
    BY <1>7, <1>10, RowKept
  <2> QED
    BY <1>1, <1>10, <2>1 DEF Exists
<1>11. Way(q)'
  <2>1. tx[q].purged => User(q) \in UserId
    BY <1>5 DEF IInv, LockInv
  <2> QED
    BY <1>1, <1>2, <1>5, <1>6, <1>8, <1>9, <1>10, <2>1 DEF Way
<1>12. Wrote(q)'
  <2>1. CASE pc[q] \in {"save_lock", "save"}
    <3>1. PICK u \in UserId : u = User(q)
      BY <1>5, <2>1
    <3>2. users[u].email = Address(q) /\ ~Pending(q)
      BY <1>2, <2>1, <3>1 DEF Known, Resolved, VInv, Emails, Waits
    <3>3. users[u].verified => users'[u].verified
      BY <1>2, <3>2, ProofStays DEF Exists
    <3> QED
      BY <1>1, <1>2, <2>1, <3>1, <3>2, <3>3 DEF Wrote, Pending
  <2>2. CASE pc[q] \notin {"save_lock", "save"}
    BY <1>1, <1>2, <2>2, RowKept DEF Wrote, Pending, Exists
  <2> QED
    BY <2>1, <2>2
<1>13. Unproved(q)'
  BY OthersUnproved
<1> QED
  BY <1>4, <1>11, <1>12, <1>13 DEF Reach

\* A linked subject's login is past its link, and stays so.
LEMMA LinkedByStays ==
    ASSUME IInv, VInv, Steady, FInv, job' = job, NEW p \in Proc, Spares(p), Writes(p)
    PROVE  LinkedBy'
<1>1. \A r \in Proc : pc[r] \in Past => pc'[r] \in Past
  BY DEF Spares
<1>2. \A r \in Proc : IsLogin(r)' = IsLogin(r) /\ Claim(r)' = Claim(r)
  BY DEF IsLogin, Kind, Claim
<1> SUFFICES ASSUME NEW k \in SsoKey, ident'[k] # NoUser
             PROVE  \E r \in Proc : /\ IsLogin(r) /\ Claim(r) = k /\ pc'[r] \in Past
                                    /\ job[r].verified => users'[ident'[k]].verified
  BY <1>2 DEF LinkedBy
<1>3. k \in Key
  BY DEF Key
<1>4. CASE ident'[k] = ident[k]
  <2>1. PICK u \in UserId : u = ident[k]
    BY <1>3, <1>4 DEF IInv, TypeOK, StoreTypeOK, MaybeUser
  <2>2. Exists(u)
    BY <2>1, NobodysRow
  <2>3. users[u].verified => users'[u].verified
    BY <2>2, ProofStays
  <2> QED
    BY <1>1, <1>4, <2>1, <2>3 DEF FInv, LinkedBy
<1>5. CASE ident'[k] # ident[k]
  <2>1. \A u : k # Local(u)
    BY DEF SsoKey, Sso, Local
  <2>2. /\ pc[p] \in {"commit", "save"} /\ pc'[p] \in Past /\ k = Claim(p)
        /\ ident'[k] = User(p) /\ (pc[p] = "commit" => users'[User(p)] = tx[p].data)
    BY <1>3, <1>5, <2>1 DEF Writes
  <2>3. IsLogin(p) /\ Wrote(p) /\ Known(p) /\ User(p) \in UserId
    BY <2>2 DEF FInv, Reach, Role, Signing, VInv, IInv, Shape, NeedsUser, Label
  <2>4. CASE pc[p] = "commit"
    <3>1. Pending(p)
      BY <2>3, <2>4, StoreAssumption DEF Known, Pending, UserId, NoUser
    <3> QED
      BY <2>2, <2>3, <2>4, <3>1 DEF Wrote
  <2>5. CASE pc[p] = "save"
    <3>1. PICK u \in UserId : u = User(p)
      BY <2>3
    <3>2. Exists(u)
      BY <2>3, <2>5, <3>1, JobFacts DEF Known, Resolved, Exists
    <3>3. job[p].verified => users'[u].verified
      BY <2>3, <2>5, <3>1, <3>2, ProofStays DEF Wrote
    <3> QED
      BY <2>2, <2>3, <3>1, <3>3
  <2> QED
    BY <2>2, <2>4, <2>5
<1> QED
  BY <1>4, <1>5

-----------------------------------------------------------------------------
(* How a request comes to where it is. *)

LEMMA OwnRole ==
    ASSUME IInv, VInv, Steady, FInv, job' = job, NEW p \in Proc, Spares(p), Writes(p),
           pc'[p] \in Signing => IsLogin(p),
           pc'[p] = "save_local" => Kind(p) = "register" /\ users'[User(p)'].email = Address(p),
           pc'[p] \in Erasing \cup {"erase_find"} => Kind(p) = "erase",
           pc'[p] \in ByEmail => job[p].verified
    PROVE  Role(p)'
<1>1. /\ User(p)' = loc'[p].user /\ Address(p)' = Address(p)
      /\ IsLogin(p)' = IsLogin(p) /\ Kind(p)' = Kind(p)
  BY DEF User, Address, IsLogin, Kind
<1>2. ASSUME IsLogin(p), NEW u \in UserId, excl'[u] = p PROVE users'[u].email = Address(p)
  <2>1. Role(p) /\ Known(p) /\ Address(p) # NoEmail
    BY JobFacts DEF FInv, Reach, VInv
  <2>2. users[u].email = Address(p)
    <3>1. CASE excl[u] = p
      BY <1>2, <2>1, <3>1 DEF Role
    <3>2. CASE pc[p] \in {"lock", "save_lock", "erase_lock"} /\ u = User(p)
      <4>1. pc[p] # "erase_lock"
        BY <1>2, <2>1 DEF Role, Erasing, IsLogin
      <4> QED
        BY <2>1, <3>2, <4>1 DEF Known, Resolved
    <3> QED
      BY <1>2, <3>1, <3>2 DEF Spares
  <2> QED
    BY <2>1, <2>2 DEF Writes, EmailsStay, Exists
<1> QED
  BY <1>1, <1>2 DEF Role, User

LEMMA StepRole ==
    ASSUME IInv, VInv, Steady, FInv, job' = job, NEW p \in Proc, Step(p) \/ Abort(p)
    PROVE  Role(p)'
<1> USE DEF Goto, IInv, TypeOK, Signing, Erasing, ByEmail
<1>1. Spares(p) /\ Writes(p) /\ Role(p)
  BY StepSpares, StepWrites DEF FInv, Reach
<1>2. CASE pc'[p] \notin Signing \cup Erasing \cup {"erase_find", "save_local"}
  BY <1>1, <1>2, OwnRole
<1>3. CASE Fail(p)
  BY <1>2, <1>3, FailSpares
<1>4. CASE ResolveBySubject(p) /\ ~Fail(p)
  <2>1. IsLogin(p) /\ pc'[p] \in {"update", "email", "insert"}
        /\ (pc'[p] = "email" => job[p].verified)
    BY <1>1, <1>4 DEF ResolveBySubject, Unmatched, Start, At, IsLogin, Role
  <2> QED
    BY <1>1, <2>1, OwnRole
<1>5. CASE (ResolveByEmail(p) \/ LockAccount(p) \/ Recheck(p) \/ PurgeSnapshot(p) \/ Purge(p)) /\ ~Fail(p)
  <2>1. pc[p] \in ByEmail
        /\ pc'[p] \in {"insert", "lock", "recheck", "update", "snapshot", "purge"}
    BY <1>5 DEF ResolveByEmail, Unmatched, LockAccount, Recheck, PurgeSnapshot, Purge, At
  <2> QED
    BY <1>1, <2>1, OwnRole DEF Role
<1>6. CASE (InsertUser(p) \/ UpdateUser(p) \/ LinkIdentity(p) \/ CommitLogin(p) \/ SaveLock(p)) /\ ~Fail(p)
  <2>1. pc[p] \in Signing /\ pc'[p] \in {"subject", "link", "commit", "save_lock", "save"}
    BY <1>6 DEF InsertUser, UpdateUser, LinkIdentity, CommitLogin, SaveLock, At
  <2> QED
    BY <1>1, <2>1, OwnRole DEF Role
<1>7. CASE (SaveFederated(p) \/ SaveLocal(p) \/ CreateStep(p) \/ LogoutStep(p)) /\ ~Fail(p)
  <2>1. pc'[p] \in {"cred_lock", "vouch", "cred", "done", "revoke"}
    BY <1>7 DEF SaveFederated, SaveLocal, CreateStep, LockForCreate, Vouch, InsertCred, MintToken,
       ExchangeCode, DeviceExchange, Unauthenticated, Bind, LogoutStep, LogoutFind, RevokeUser,
       Start
  <2> QED
    BY <1>2, <2>1
<1>8. CASE Register(p) /\ ~Fail(p)
  <2>1. PICK u \in UserId :
          /\ users' = [users EXCEPT ![u] = [email |-> Address(p), verified |-> FALSE]]
          /\ loc' = [loc EXCEPT ![p].user = u, ![p].key = Local(u)]
    BY <1>8 DEF Register
  <2>2. pc'[p] = "save_local" /\ Kind(p) = "register"
    BY <1>8 DEF Register, Start
  <2>3. loc[p] \in Local_
    OBVIOUS
  <2>4. User(p)' = u
    BY <2>1, <2>3 DEF User, Local_
  <2>5. users'[u].email = Address(p)
    BY <2>1 DEF StoreTypeOK
  <2> QED
    BY <1>1, <2>2, <2>4, <2>5, OwnRole DEF User
<1>9. CASE EraseStep(p) /\ ~Fail(p)
  <2>1. Kind(p) = "erase" /\ pc'[p] \in Erasing \cup {"erase_find", "done"}
    BY <1>1, <1>9 DEF EraseStep, EraseFind, EraseLock, EraseCheck, EraseDelete, CommitErase, Start,
       At, Role
  <2> QED
    BY <1>1, <2>1, OwnRole
<1> QED
  BY <1>3, <1>4, <1>5, <1>6, <1>7, <1>8, <1>9
  DEF Step, Abort, UpsertStep, SaveStep

LEMMA Elsewhere ==
    ASSUME IInv', VInv', NEW p \in Proc, pc'[p] \notin {"link", "commit"}
    PROVE  /\ pc'[p] \notin {"save_lock", "save"} => Wrote(p)'
           /\ pc'[p] # "update" => Way(p)'
<1>1. ~Pending(p)'
  BY DEF VInv, Emails, Waits
<1>2. pc'[p] # "update" => ~tx'[p].purged
  BY DEF IInv, LockInv
<1> QED
  BY <1>1, <1>2 DEF Wrote, Way

\* To its UPDATE: by the subject, by an address proved, or after the purge.
LEMMA ToUpdate ==
    ASSUME IInv, VInv, Steady, FInv, job' = job, NEW p \in Proc,
           ResolveBySubject(p) \/ Recheck(p) \/ Purge(p), pc'[p] = "update"
    PROVE  Way(p)'
<1> USE DEF Goto, At, IInv, TypeOK
<1>1. ~Fail(p)
  BY FailSpares
<1>2. CASE ResolveBySubject(p)
  <2>1. /\ ident[Claim(p)] # NoUser /\ tx' = tx /\ IsLogin(p)
        /\ pc[p] \in {"start", "subject"}
    BY <1>1, <1>2
    DEF ResolveBySubject, Unmatched, Start, storeVars, FInv, Reach, Role, Signing, IsLogin
  <2>2. PICK r \in Proc : /\ IsLogin(r) /\ Claim(r) = Claim(p) /\ pc[r] \in Past
                          /\ job[r].verified => users[ident[Claim(p)]].verified
    BY <2>1, JobFacts DEF FInv, LinkedBy
  <2>3. Again(job, p, r) /\ pc'[r] \in Past
    BY <1>2, <2>1, <2>2, SameClaim, StepSpares
    DEF Again, SignsIn, IsLogin, Kind, Past, Spares, Step, UpsertStep
  <2>4. ~tx'[p].purged
    BY <2>1 DEF LockInv
  <2>5. /\ UNCHANGED <<users, ident>> /\ loc' = [loc EXCEPT ![p].user = ident[Claim(p)]]
    BY <1>1, <1>2, <2>1 DEF ResolveBySubject, Unmatched, storeVars
  <2>6. User(p)' = ident[Claim(p)]
    BY <2>5 DEF User, Local_
  <2>7. Back(p)'
    BY <2>2, <2>3, <2>5, <2>6 DEF Back, Claim, Address
  <2> QED
    BY <2>4, <2>7 DEF Way
<1>3. CASE Recheck(p) \/ Purge(p)
  <2>1. /\ pc[p] \in {"recheck", "purge"} /\ UNCHANGED <<users, excl, loc>>
    BY <1>1, <1>3 DEF Recheck, Purge, Unmatched, storeVars, tables
  <2>2. excl[User(p)] = p
    BY <2>1 DEF LockInv, NeedsExcl
  <2>3. job[p].verified
    BY <2>1 DEF FInv, Reach, Role, ByEmail
  <2>4. users[User(p)].email = Address(p)
    BY <2>1 DEF VInv, Known, Resolved
  <2>5. ByAddress(p)'
    BY <2>1, <2>2, <2>3, <2>4, JobFacts DEF ByAddress, Exists, User
  <2> QED
    BY <2>5 DEF Way
<1> QED
  BY <1>2, <1>3

\* insertUser: the row is nobody's.
LEMMA ToLinkNew ==
    ASSUME IInv, VInv, Steady, job' = job, NEW p \in Proc, InsertUser(p), pc'[p] = "link"
    PROVE  /\ Way(p)' /\ Wrote(p)' /\ User(p)' \in UserId /\ tx'[p].row = User(p)'
           /\ Fresh(User(p)') /\ users' = users
<1>1. /\ pc[p] = "insert" /\ users' = users
      /\ \E u \in UserId :
            /\ Fresh(u) /\ loc' = [loc EXCEPT ![p].user = u]
            /\ tx' = [tx EXCEPT ![p].row = u,
                           ![p].data = [email |-> Address(p), verified |-> job[p].verified]]
  BY DEF InsertUser, At, Goto, tables, IInv, TypeOK
<1>2. PICK u \in UserId :
            /\ Fresh(u) /\ loc' = [loc EXCEPT ![p].user = u]
            /\ tx' = [tx EXCEPT ![p].row = u,
                           ![p].data = [email |-> Address(p), verified |-> job[p].verified]]
  BY <1>1
<1>3. User(p)' = u
  BY <1>2, LocUser DEF Steady
<1>4. tx'[p].row = u /\ tx'[p].purged = tx[p].purged /\ tx'[p].data.verified = job[p].verified
  BY <1>2 DEF IInv, TypeOK, StoreTypeOK, Tx
<1>5. ~tx'[p].purged
  BY <1>1, <1>4 DEF IInv, LockInv
<1>6. ~Exists(u)'
  BY <1>1, <1>2 DEF Fresh, Exists
<1> QED
  BY <1>1, <1>2, <1>3, <1>4, <1>5, <1>6 DEF Way, Wrote, Fresh, Exists

\* updateUser and linkIdentity go on with the row resolved.
LEMMA ToLink ==
    ASSUME IInv, VInv, Steady, FInv, job' = job, NEW p \in Proc,
           UpdateUser(p) \/ LinkIdentity(p), pc'[p] \in {"link", "commit"}
    PROVE  /\ Way(p)' /\ Wrote(p)' /\ UNCHANGED <<users, ident, excl, loc>>
           /\ tx'[p].row = User(p) /\ tx'[p].gone = tx[p].gone /\ tx'[p].purged = tx[p].purged
<1> USE DEF Goto, At, IInv, TypeOK, StoreTypeOK
<1>1. ~Fail(p) /\ pc[p] \in {"update", "link"}
  BY FailSpares DEF UpdateUser, LinkIdentity
<1>2. UNCHANGED <<users, ident, excl, loc>>
  BY <1>1 DEF UpdateUser, LinkIdentity, tables
<1>3. \A r \in Proc : pc[r] \in Past => r # p /\ pc'[r] = pc[r]
  BY <1>1, StepSpares DEF Spares, Step, UpsertStep, Past
<1>4. Back(p) => Back(p)'
  BY <1>2, <1>3 DEF Back, User, Claim, Address
<1>5. /\ ByAddress(p) => ByAddress(p)'
      /\ ~Exists(User(p)) => ~Exists(User(p))'
  BY <1>2 DEF ByAddress, Exists, User
<1>6. tx'[p].purged = tx[p].purged /\ tx'[p].gone = tx[p].gone
  BY <1>1 DEF UpdateUser, LinkIdentity, Tx
<1>7. Way(p)'
  BY <1>1, <1>4, <1>5, <1>6 DEF FInv, Reach, Way
<1>8. CASE UpdateUser(p)
  <2>1. /\ tx'[p].row = User(p)
        /\ tx'[p].data.verified = (users[User(p)].verified \/ job[p].verified)
    BY <1>1, <1>8 DEF UpdateUser, Tx
  <2>2. Wrote(p)'
    BY <1>2, <1>8, <2>1 DEF Wrote
  <2> QED
    BY <1>2, <1>6, <1>7, <2>1, <2>2
<1>9. CASE LinkIdentity(p)
  <2>1. pc[p] = "link" /\ tx'[p].row = tx[p].row /\ tx'[p].data = tx[p].data
    BY <1>9 DEF LinkIdentity, Tx
  <2>2. tx[p].row = User(p)
    BY <2>1 DEF VInv, Known
  <2>3. Wrote(p)'
    BY <1>2, <1>9, <2>1 DEF FInv, Reach, Wrote, Pending, Exists
  <2> QED
    BY <1>2, <1>6, <1>7, <2>1, <2>2, <2>3
<1> QED
  BY <1>8, <1>9

LEMMA Arrivals ==
    ASSUME IInv, NEW p \in Proc, Step(p) \/ Abort(p)
    PROVE  /\ pc'[p] = "update" => ResolveBySubject(p) \/ Recheck(p) \/ Purge(p)
           /\ pc'[p] = "purge" => PurgeSnapshot(p)
           /\ pc'[p] = "snapshot" => Recheck(p)
           /\ pc'[p] = "link" => InsertUser(p) \/ UpdateUser(p)
           /\ pc'[p] = "commit" => LinkIdentity(p)
           /\ pc'[p] = "save_lock" => CommitLogin(p)
           /\ pc'[p] = "save" => SaveLock(p)
<1> USE DEF Goto, IInv, TypeOK
<1>1. CASE Fail(p)
  BY <1>1, FailSpares
<1>2. CASE UpsertStep(p) /\ ~Fail(p)
  BY <1>2 DEF UpsertStep, ResolveBySubject, ResolveByEmail, LockAccount, Recheck, InsertUser,
     PurgeSnapshot, Purge, UpdateUser, LinkIdentity, CommitLogin, Unmatched
<1>3. CASE SaveStep(p) /\ ~Fail(p)
  BY <1>3 DEF SaveStep, SaveLock, SaveFederated, Register, SaveLocal
<1>4. CASE CreateStep(p) /\ ~Fail(p)
  BY <1>4 DEF CreateStep, LockForCreate, Vouch, InsertCred, MintToken, ExchangeCode,
     DeviceExchange, Unauthenticated, Bind
<1>5. CASE (EraseStep(p) \/ LogoutStep(p)) /\ ~Fail(p)
  BY <1>5 DEF EraseStep, EraseFind, EraseLock, EraseCheck, EraseDelete, CommitErase, LogoutStep,
     LogoutFind, RevokeUser
<1> QED
  BY <1>1, <1>2, <1>3, <1>4, <1>5 DEF Step, Abort

\* A login that goes on to Save has committed its proof.
LEMMA ToSave ==
    ASSUME IInv, IInv', VInv, VInv', Steady, FInv, job' = job, NEW p \in Proc,
           Step(p) \/ Abort(p), pc'[p] \in {"save_lock", "save"}
    PROVE  Wrote(p)'
<1> USE DEF Goto, At, IInv, TypeOK, StoreTypeOK
<1>1. ~Pending(p)'
  BY DEF VInv, Emails, Waits
<1>2. CASE CommitLogin(p)
  <2>1. /\ pc[p] = "commit" /\ Publish(p) /\ User(p) \in UserId
        /\ loc' = [loc EXCEPT ![p].key = Claim(p)]
    BY <1>2 DEF CommitLogin, Shape, NeedsUser, Label
  <2>2. tx[p].row = User(p) /\ Pending(p)
    BY <2>1, StoreAssumption DEF VInv, Known, Pending, UserId, NoUser
  <2>3. users'[User(p)] = tx[p].data
    BY <2>1, <2>2 DEF Publish, Pending
  <2>4. User(p)' = User(p)
    BY <2>1 DEF User, Local_
  <2>5. Wrote(p)
    BY DEF FInv, Reach
  <2> QED
    BY <1>1, <2>2, <2>3, <2>4, <2>5 DEF Wrote
<1>3. CASE SaveLock(p)
  <2>1. pc[p] = "save_lock" /\ users' = users /\ loc' = loc
    BY <1>3 DEF SaveLock, LockExclusive
  <2> QED
    BY <1>1, <2>1 DEF Wrote, User, FInv, Reach
<1> QED
  BY <1>2, <1>3, Arrivals

LEMMA NewIsNoTakeover ==
    ASSUME IInv, NEW p \in Proc, InsertUser(p)
    PROVE  ~tx'[p].purged
<1>1. pc[p] = "insert" /\ \E u, d : tx' = [tx EXCEPT ![p].row = u, ![p].data = d] \/ tx' = tx
  BY DEF InsertUser, At, storeVars
<1>2. tx'[p].purged = tx[p].purged
  BY <1>1 DEF IInv, TypeOK, StoreTypeOK, Tx
<1> QED
  BY <1>1, <1>2 DEF IInv, LockInv

LEMMA StepUnproved ==
    ASSUME IInv, IInv', VInv, Steady, FInv, job' = job, NEW p \in Proc, Step(p) \/ Abort(p)
    PROVE  Unproved(p)'
<1> USE DEF Goto, At, IInv, TypeOK, StoreTypeOK
<1>0. /\ Contested(job, Address(p))' = Contested(job, Address(p))
      /\ ProvesAlike(job)' = ProvesAlike(job) /\ Unproved(p)
  BY DEF Contested, Address, ProvesAlike, Again, SignsIn, FInv, Reach
<1> SUFFICES ASSUME Evicting(p)', Contested(job, Address(p)) \/ ProvesAlike(job)
             PROVE  ~users'[User(p)'].verified
  BY <1>0 DEF Unproved, User
<1>1. pc'[p] \in {"snapshot", "purge", "update", "link", "commit"}
      /\ (pc'[p] \in {"snapshot", "purge"} \/ tx'[p].purged)
  BY DEF Evicting, LockInv
<1>2. CASE Recheck(p)
  <2>1. /\ pc[p] = "recheck" /\ UNCHANGED <<users, tx, loc>>
        /\ pc'[p] \in {"insert", "update", "snapshot"}
        /\ pc'[p] = "snapshot" => ~users[User(p)].verified
    BY <1>1, <1>2, FailSpares DEF Recheck, Unmatched, storeVars
  <2>2. ~tx[p].purged
    BY <2>1 DEF LockInv
  <2> QED
    BY <1>1, <2>1, <2>2 DEF User
<1>3. CASE PurgeSnapshot(p)
  <2>1. /\ pc[p] = "snapshot" /\ users' = users
        /\ loc' = [loc EXCEPT ![p].snap = IdentitiesOf(User(p))]
    BY <1>3 DEF PurgeSnapshot, storeVars
  <2>2. User(p)' = User(p)
    BY <2>1 DEF User, Local_
  <2> QED
    BY <1>0, <2>1, <2>2 DEF Unproved, Evicting, User
<1>4. CASE Purge(p)
  <2>1. pc[p] = "purge" /\ users' = users /\ loc' = loc
    BY <1>4 DEF Purge, tables
  <2> QED
    BY <1>0, <2>1 DEF Unproved, Evicting, User
<1>5. CASE ResolveBySubject(p) /\ pc'[p] = "update"
  <2>1. pc[p] \in {"start", "subject"} /\ tx'[p].purged = tx[p].purged
    BY <1>5, FailSpares DEF ResolveBySubject, Unmatched, Start, storeVars
  <2>2. ~tx[p].purged
    BY <2>1 DEF LockInv
  <2> QED
    BY <1>1, <1>5, <2>1, <2>2
<1>6. CASE InsertUser(p) /\ pc'[p] = "link"
  BY <1>1, <1>6, NewIsNoTakeover
<1>7. CASE (UpdateUser(p) \/ LinkIdentity(p)) /\ pc'[p] \in {"link", "commit"}
  <2>1. UNCHANGED <<users, loc>> /\ tx'[p].purged = tx[p].purged
    BY <1>7, ToLink
  <2> QED
    BY <1>0, <1>1, <1>7, <2>1 DEF Unproved, Evicting, User
<1> QED
  BY <1>1, <1>2, <1>3, <1>4, <1>5, <1>6, <1>7, Arrivals

LEMMA StepReach ==
    ASSUME IInv, IInv', VInv, VInv', Steady, FInv, job' = job, NEW p \in Proc,
           Step(p) \/ Abort(p)
    PROVE  Reach(p)'
<1>1. Role(p)' /\ Unproved(p)'
  BY StepRole, StepUnproved
<1>2. CASE pc'[p] \notin {"update", "link", "commit"}
  BY <1>1, <1>2, Elsewhere, ToSave DEF Reach
<1>3. CASE pc'[p] = "update"
  BY <1>1, <1>3, Arrivals, Elsewhere, ToUpdate DEF Reach
<1>4. CASE pc'[p] \in {"link", "commit"}
  BY <1>1, <1>4, Arrivals, ToLinkNew, ToLink DEF Reach
<1> QED
  BY <1>2, <1>3, <1>4

\* An insert has a row of its own, and an UPDATE waits for the row's writer.
LEMMA OneWriterStays ==
    ASSUME IInv, IInv', VInv, VInv', Steady, FInv, job' = job, NEW p \in Proc,
           Step(p) \/ Abort(p)
    PROVE  OneWriter'
<1>1. \A q \in Proc \ {p} : tx'[q] = tx[q]
  BY StepSpares DEF Spares
<1> SUFFICES ASSUME NEW q \in Proc, q # p, Pending(q), Pending(p)', tx'[p].row = tx[q].row
             PROVE  FALSE
  BY <1>1 DEF FInv, OneWriter, Pending
<1>2. pc'[p] \in {"link", "commit"}
  BY DEF VInv, Emails, Waits
<1>3. CASE InsertUser(p)
  <2>1. pc'[p] = "link"
    BY <1>2, <1>3 DEF InsertUser, Goto, IInv, TypeOK
  <2>2. tx'[p].row = User(p)' /\ Fresh(User(p)')
    BY <1>3, <2>1, ToLinkNew
  <2> QED
    BY <2>2 DEF Fresh
<1>4. CASE UpdateUser(p)
  <2>1. tx'[p].row = User(p) /\ pc[p] = "update" /\ WaitsFor(p) = {}
    BY <1>2, <1>4, ToLink DEF UpdateUser, At
  <2>2. RowHolders(p, User(p)) = {}
    BY <2>1 DEF WaitsFor
  <2> QED
    BY <2>1, <2>2 DEF RowHolders
<1>5. CASE LinkIdentity(p)
  <2>1. tx'[p].row = tx[p].row
    BY <1>5 DEF LinkIdentity, IInv, TypeOK, StoreTypeOK, Tx
  <2> QED
    BY <2>1 DEF FInv, OneWriter, Pending
<1> QED
  BY <1>2, <1>3, <1>4, <1>5, Arrivals

\* The steps of no request.
LEMMA IdleSteps ==
    ASSUME [Next]_vars, ~\E p \in Proc : Step(p) \/ Abort(p)
    PROVE  UNCHANGED <<users, ident, excl, tx, job, pc, loc, evictor>>
  BY DEF Next, EndSession, Finished, vars

LEMMA StepKeepsJob ==
    ASSUME NEW p \in Proc, Step(p) \/ Abort(p)
    PROVE  job' = job /\ [Next]_vars
  BY DEF Step, Abort, Next

LEMMA FInvInit == ASSUME Init, Steady PROVE FInv
<1>1. \A p \in Proc : pc[p] \in {"start", "done"} /\ tx[p] = NoTx
  BY DEF Init, StoreInit
<1>2. \A u \in UserId : excl[u] \notin Proc
  BY StoreAssumption DEF Init, StoreInit
<1>3. LinkedBy
  BY DEF LinkedBy, Init, StoreInit, Key
<1>4. OneWriter /\ \A p \in Proc : Wrote(p)
  BY <1>1 DEF OneWriter, Wrote, Pending, NoTx
<1>5. \A p \in Proc : Role(p) /\ Way(p) /\ Unproved(p)
  BY <1>1, <1>2 DEF Role, Way, Unproved, Evicting, Signing, Erasing, ByEmail, NoTx
<1> QED
  BY <1>3, <1>4, <1>5 DEF FInv, Reach

LEMMA FInvNext ==
    ASSUME IInv, VInv, Steady, FInv, ReturnsProven(job), [Next]_vars
    PROVE  FInv'
<1>1. CASE \E p \in Proc : Step(p) \/ Abort(p)
  <2>1. PICK p \in Proc : Step(p) \/ Abort(p)
    BY <1>1
  <2>2. job' = job /\ IInv' /\ VInv' /\ Stays /\ Spares(p) /\ Writes(p)
    BY <2>1, StepKeepsJob, NextIInv, NextVouching, StepSpares, StepWrites DEF Steady
  <2>3. \A q \in Proc : Reach(q)'
    <3> SUFFICES ASSUME NEW q \in Proc PROVE Reach(q)'
      OBVIOUS
    <3> QED
      BY <2>1, <2>2, StepReach, OthersReach
  <2> QED
    BY <2>1, <2>2, <2>3, LinkedByStays, OneWriterStays DEF FInv
<1>2. CASE ~\E p \in Proc : Step(p) \/ Abort(p)
  <2>1. UNCHANGED <<users, ident, excl, tx, job, pc, loc, evictor>>
    BY <1>2, IdleSteps
  <2>2. LinkedBy' /\ OneWriter'
    BY <2>1 DEF FInv, LinkedBy, OneWriter, Pending, IsLogin, Kind, Claim
  <2>3. ASSUME NEW p \in Proc PROVE Reach(p)'
    <3>1. Reach(p)
      BY DEF FInv
    <3>2. Role(p)'
      BY <2>1, <3>1 DEF Reach, Role, IsLogin, Kind, User, Address
    <3>3. Way(p)'
      BY <2>1, <3>1 DEF Reach, Way, ByAddress, Back, Exists, User, Claim, Address
    <3>4. Wrote(p)'
      BY <2>1, <3>1 DEF Reach, Wrote, Pending, Exists, User
    <3>5. Unproved(p)'
      BY <2>1, <3>1 DEF Reach, Unproved, Evicting, User, Address
    <3> QED
      BY <3>2, <3>3, <3>4, <3>5 DEF Reach
  <2> QED
    BY <2>2, <2>3 DEF FInv
<1> QED
  BY <1>1, <1>2

LEMMA ReachInductive ==
    SubjectsKeepAddress /\ Proven
        => (Spec => [](IInv /\ Steady /\ VInv /\ FInv /\ ReturnsProven(job)))
<1> SUFFICES ASSUME SubjectsKeepAddress, Proven
             PROVE  Spec => [](IInv /\ Steady /\ VInv /\ FInv /\ ReturnsProven(job))
  OBVIOUS
<1>1. Init => IInv /\ Steady /\ VInv /\ FInv /\ ReturnsProven(job)
  BY InitIInv, VouchingInit, FInvInit
  DEF Init, Steady, JobOK, KeepsAddress, SubjectsKeepAddress, Proven
<1>2. IInv /\ Steady /\ VInv /\ FInv /\ ReturnsProven(job) /\ [Next]_vars
      => (IInv /\ Steady /\ VInv /\ FInv /\ ReturnsProven(job))'
  <2> SUFFICES ASSUME IInv, Steady, VInv, FInv, ReturnsProven(job), [Next]_vars
               PROVE  (IInv /\ Steady /\ VInv /\ FInv /\ ReturnsProven(job))'
    OBVIOUS
  <2>1. job' = job
    BY StepKeepsJob, IdleSteps
  <2>2. ReturnsProven(job)'
    BY <2>1 DEF ReturnsProven, Again, Contested, SignsIn
  <2> QED
    BY <2>2, NextVouching, NextIInv, FInvNext DEF Steady
<1> QED
  BY <1>1, <1>2, PTL DEF Spec
-----------------------------------------------------------------------------
(* One subject to an account. *)

\* What is at the account when a login links its own subject to it is gone by
\* its purge, or its subject's already.
Cleared(p) ==
    /\ pc[p] = "purge" =>
          \A k \in SsoKey : ident[k] = User(p) => k \in loc[p].snap \/ k = Claim(p)
    /\ pc[p] \in {"update", "link", "commit"} =>
          \A k \in SsoKey : ident[k] = User(p) => k \in tx[p].gone \/ k = Claim(p)

OInv == OneSubjectPerAccount /\ \A p \in Proc : Cleared(p)

\* The identity a login comes back to keeps other subjects off the account.
LEMMA BackKeepsOff ==
    ASSUME IInv, VInv, Steady, FInv, ReturnsProven(job), OInv,
           NEW b \in Proc, Back(b), Contested(job, Address(b)), IsLogin(b),
           NEW a \in Proc, a # b, IsLogin(a), User(a) = User(b), Address(a) = Address(b),
           \/ pc[a] \in {"purge", "update", "link", "commit"}
           \/ pc[a] = "save" /\ SaveWrites(a)
    PROVE  Claim(a) = Claim(b)
<1>1. PICK u \in UserId : u = User(a)
  BY DEF IInv, Shape, NeedsUser, Label
<1>2. ident[Claim(b)] = u /\ Claim(b) \in SsoKey /\ Claim(a) \in SsoKey /\ u # NoUser
  BY <1>1, JobFacts, StoreAssumption DEF Back, UserId, NoUser
<1>3. ~Evicting(a)
  BY NobodyBack
<1>4. CASE pc[a] = "save" /\ SaveWrites(a)
  <2>1. ident[Claim(a)] = u
    BY <1>1, <1>2, <1>4 DEF SaveWrites, Linked
  <2> QED
    BY <1>2, <2>1 DEF OInv, OneSubjectPerAccount
<1>5. CASE pc[a] \in {"update", "link", "commit"}
  <2>1. tx[a].gone = {}
    BY <1>3, <1>5 DEF Evicting, VInv, Known, Purging
  <2> QED
    BY <1>1, <1>2, <1>5, <2>1 DEF OInv, Cleared
<1> QED
  BY <1>3, <1>4, <1>5 DEF Evicting

\* While a login is between its purge and its commit, nobody links another
\* subject to its account: by the account's lock, by the unique row, by the
\* identity there, or because the address is its subject's alone.
LEMMA SameSubject ==
    ASSUME IInv, VInv, Steady, FInv, ReturnsProven(job), OInv, NEW p \in Proc, NEW q \in Proc,
           p # q, pc[p] \in {"purge", "update", "link", "commit"},
           pc[q] \in {"commit", "save"}, pc[q] = "save" => SaveWrites(q), User(p) = User(q)
    PROVE  Claim(p) = Claim(q)
<1>1. PICK u \in UserId : u = User(p)
  BY DEF IInv, Shape, NeedsUser, Label
<1>2. /\ Known(p) /\ Known(q) /\ Role(p) /\ Role(q) /\ Way(p) /\ Way(q)
      /\ IsLogin(p) /\ IsLogin(q)
  BY DEF VInv, FInv, Reach, Role, Signing
<1>3. pc[p] = "purge" => ByAddress(p)
  BY <1>2, JobFacts DEF IInv, LockInv, NeedsExcl, Role, ByEmail, ByAddress, Known, Resolved, Exists
<1>4. pc[q] = "save" => excl[u] = q /\ users[u].email = Address(q)
  BY <1>1, <1>2 DEF IInv, LockInv, NeedsExcl, Known, Resolved
<1>5. \A r \in Proc : pc[r] \in {"link", "commit"} /\ User(r) = u =>
          /\ Pending(r) /\ tx[r].row = u
          /\ Exists(u) => users[u].email = Address(r)
  <2> SUFFICES ASSUME NEW r \in Proc, pc[r] \in {"link", "commit"}, User(r) = u
               PROVE  /\ Pending(r) /\ tx[r].row = u
                      /\ Exists(u) => users[u].email = Address(r)
    OBVIOUS
  <2>1. tx[r].row = u /\ tx[r].data.email = Address(r)
    BY DEF VInv, Known
  <2>2. Pending(r)
    BY <2>1, StoreAssumption DEF Pending, UserId, NoUser
  <2> QED
    BY <2>1, <2>2 DEF VInv, Emails, Waits
<1>6. ~(pc[p] \in {"link", "commit"} /\ pc[q] = "commit")
  BY <1>1, <1>5 DEF FInv, OneWriter
<1>7. Exists(u) /\ users[u].email = Address(p) /\ users[u].email = Address(q)
  <2>1. CASE pc[p] \in {"link", "commit"}
    <3>1. pc[q] = "save"
      BY <1>6, <2>1
    <3>2. Exists(u)
      BY <1>4, <3>1, JobFacts DEF Exists
    <3> QED
      BY <1>1, <1>4, <1>5, <2>1, <3>1, <3>2
  <2>2. CASE pc[p] \in {"purge", "update"}
    <3>1. users[u].email = Address(p)
      BY <1>1, <1>2, <2>2 DEF Known, Resolved
    <3>2. Exists(u)
      BY <3>1, JobFacts DEF Exists
    <3> QED
      BY <1>1, <1>4, <1>5, <3>1, <3>2
  <2> QED
    BY <2>1, <2>2
<1>8. Back(p) \/ Back(q)
  <2>1. ~(ByAddress(p) /\ (ByAddress(q) \/ pc[q] = "save"))
    BY <1>1, <1>4 DEF ByAddress
  <2> QED
    BY <1>1, <1>2, <1>3, <1>7, <2>1 DEF Way
<1>9. CASE ~Contested(job, Address(p))
  BY <1>2, <1>7, <1>9, OneSubject
<1>10. CASE Contested(job, Address(p))
  BY <1>2, <1>7, <1>8, <1>10, BackKeepsOff
<1> QED
  BY <1>9, <1>10

\* A step links no subject but the stepping login's own.
LEMMA Links ==
    ASSUME IInv, NEW p \in Proc, Writes(p), NEW k \in SsoKey, ident'[k] # ident[k]
    PROVE  \/ ident'[k] = NoUser
           \/ /\ pc[p] \in {"commit", "save"} /\ k = Claim(p) /\ ident'[k] = User(p)
              /\ User(p) \in UserId
              /\ pc[p] = "save" => SaveWrites(p)
  BY DEF Writes, IInv, Shape, NeedsUser, Label, Key, SsoKey, Sso, Local

LEMMA OthersCleared ==
    ASSUME IInv, VInv, Steady, FInv, ReturnsProven(job), OInv, job' = job, NEW p \in Proc,
           Spares(p), Writes(p), NEW q \in Proc, q # p
    PROVE  Cleared(q)'
<1>1. /\ pc'[q] = pc[q] /\ tx'[q] = tx[q] /\ loc'[q] = loc[q] /\ User(q)' = User(q)
      /\ Claim(q)' = Claim(q) /\ Cleared(q)
  BY DEF Spares, User, Claim, OInv
<1>2. ASSUME NEW k \in SsoKey, ident'[k] = User(q),
             pc[q] \in {"purge", "update", "link", "commit"}
      PROVE  ident[k] = User(q) \/ k = Claim(q)
  <2>1. User(q) \in UserId /\ User(q) # NoUser
    BY <1>2, StoreAssumption DEF IInv, Shape, NeedsUser, Label, UserId, NoUser
  <2>2. CASE ident'[k] # ident[k]
    <3>1. /\ pc[p] \in {"commit", "save"} /\ k = Claim(p) /\ User(p) = User(q)
          /\ pc[p] = "save" => SaveWrites(p)
      BY <1>2, <2>1, <2>2, Links
    <3>2. Claim(q) = Claim(p)
      BY <1>2, <3>1, SameSubject
    <3> QED
      BY <3>1, <3>2
  <2> QED
    BY <1>2, <2>2
<1> QED
  BY <1>1, <1>2 DEF Cleared

LEMMA StepCleared ==
    ASSUME IInv, VInv, Steady, FInv, OInv, job' = job, NEW p \in Proc, Step(p) \/ Abort(p)
    PROVE  Cleared(p)'
<1> USE DEF Goto, At, IInv, TypeOK, StoreTypeOK
<1>1. Cleared(p) /\ Claim(p)' = Claim(p)
  BY DEF OInv, Claim
<1>2. CASE pc'[p] \notin {"purge", "update", "link", "commit"}
  BY <1>2 DEF Cleared
<1>3. CASE PurgeSnapshot(p)
  <2>1. /\ pc'[p] = "purge" /\ UNCHANGED <<ident, tx>>
        /\ loc' = [loc EXCEPT ![p].snap = IdentitiesOf(User(p))]
    BY <1>3 DEF PurgeSnapshot, storeVars
  <2>2. User(p)' = User(p) /\ loc'[p].snap = IdentitiesOf(User(p))
    BY <2>1 DEF User, Local_
  <2> QED
    BY <1>1, <2>1, <2>2 DEF Cleared, IdentitiesOf, Key
<1>4. CASE Purge(p)
  <2>1. /\ pc[p] = "purge" /\ pc'[p] = "update" /\ UNCHANGED <<ident, loc>>
        /\ tx'[p].gone = loc[p].snap \cap IdentitiesOf(User(p))
    BY <1>4 DEF Purge, tables, Tx
  <2> QED
    BY <1>1, <2>1 DEF Cleared, IdentitiesOf, Key, User
<1>5. CASE ResolveBySubject(p) /\ pc'[p] = "update"
  <2>1. /\ ident[Claim(p)] # NoUser /\ UNCHANGED <<ident, tx>>
        /\ loc' = [loc EXCEPT ![p].user = ident[Claim(p)]]
    BY <1>5, FailSpares DEF ResolveBySubject, Unmatched, storeVars
  <2>2. User(p)' = ident[Claim(p)]
    BY <2>1 DEF User, Local_
  <2>3. \A k \in SsoKey : ident[k] = ident[Claim(p)] => k = Claim(p)
    BY <2>1, JobFacts DEF OInv, OneSubjectPerAccount
  <2> QED
    BY <1>1, <1>5, <2>1, <2>2, <2>3 DEF Cleared
<1>6. CASE Recheck(p) /\ pc'[p] = "update"
  <2>1. ~Linked(User(p)) /\ UNCHANGED <<ident, tx, loc>>
    BY <1>6, FailSpares DEF Recheck, Unmatched, storeVars
  <2> QED
    BY <1>6, <2>1 DEF Cleared, Linked, User
<1>7. CASE InsertUser(p) /\ pc'[p] = "link"
  <2>1. PICK u : u = User(p)'
    OBVIOUS
  <2>2. u \in UserId /\ Fresh(u) /\ ident' = ident
    BY <1>7, <2>1, ToLinkNew DEF InsertUser, tables, storeVars
  <2>3. \A k \in SsoKey : ident[k] # u
    BY <2>2, NobodysRow DEF Fresh
  <2> QED
    BY <1>7, <2>1, <2>2, <2>3 DEF Cleared
<1>8. CASE (UpdateUser(p) \/ LinkIdentity(p)) /\ pc'[p] \in {"link", "commit"}
  <2>1. UNCHANGED <<ident, loc>> /\ tx'[p].gone = tx[p].gone
    BY <1>8, ToLink
  <2>2. pc[p] \in {"update", "link"}
    BY <1>8 DEF UpdateUser, LinkIdentity
  <2> QED
    BY <1>1, <1>8, <2>1, <2>2 DEF Cleared, User
<1> QED
  BY <1>2, <1>3, <1>4, <1>5, <1>6, <1>7, <1>8, Arrivals

LEMMA OneSubjectStays ==
    ASSUME IInv, VInv, Steady, FInv, OInv, job' = job, NEW p \in Proc, Step(p) \/ Abort(p)
    PROVE  OneSubjectPerAccount'
<1>1. Writes(p) /\ OneSubjectPerAccount /\ Cleared(p)
  BY StepWrites DEF OInv
<1> SUFFICES ASSUME NEW j \in SsoKey, NEW k \in SsoKey, ident'[j] # NoUser, ident'[j] = ident'[k]
             PROVE  j = k
  BY DEF OneSubjectPerAccount
\* One of them is linked by this step.
<1>2. ASSUME NEW i \in SsoKey, NEW m \in SsoKey, ident'[i] # ident[i], ident'[i] # NoUser,
             ident'[m] = ident'[i]
      PROVE  m = i
  <2>1. /\ pc[p] \in {"commit", "save"} /\ i = Claim(p) /\ ident'[i] = User(p)
        /\ User(p) \in UserId /\ (pc[p] = "save" => SaveWrites(p))
    BY <1>1, <1>2, Links
  <2>2. CASE ident'[m] # ident[m]
    BY <1>1, <1>2, <2>1, <2>2, Links
  <2>3. CASE ident'[m] = ident[m] /\ pc[p] = "save"
    <3>1. ident[Claim(p)] = User(p) \/ ident[m] # User(p)
      BY <2>1, <2>3 DEF SaveWrites, Linked
    <3> QED
      BY <1>2, <2>1, <2>3, <3>1
  <2>4. CASE ident'[m] = ident[m] /\ pc[p] = "commit" /\ m # i
    <3>1. m \in tx[p].gone
      BY <1>1, <1>2, <2>1, <2>4 DEF Cleared
    <3>2. CommitLogin(p) /\ Publish(p)
      <4>1. pc'[p] = "save_lock" \/ ident' = ident
        BY <2>4, ReadsOnly DEF CommitLogin, Register, SaveFederated, SaveLocal, CommitErase, At,
           Start, Goto, IInv, TypeOK
      <4> QED
        BY <1>2, <4>1, Arrivals DEF CommitLogin
    <3>3. tx[p].key = Claim(p) /\ m \in Key
      BY <2>4 DEF VInv, Known, Key
    <3>4. ident'[m] = NoUser
      BY <2>1, <2>4, <3>1, <3>2, <3>3 DEF Publish
    <3> QED
      BY <1>2, <3>4
  <2> QED
    BY <2>1, <2>2, <2>3, <2>4
<1>3. CASE ident'[j] = ident[j] /\ ident'[k] = ident[k]
  BY <1>1, <1>3 DEF OneSubjectPerAccount
<1> QED
  BY <1>2, <1>3

LEMMA OInvInit == ASSUME Init PROVE OInv
  BY DEF OInv, OneSubjectPerAccount, Cleared, Init, StoreInit, Key

LEMMA OInvNext ==
    ASSUME IInv, VInv, Steady, FInv, ReturnsProven(job), OInv, [Next]_vars
    PROVE  OInv'
<1>1. CASE \E p \in Proc : Step(p) \/ Abort(p)
  <2>1. PICK p \in Proc : Step(p) \/ Abort(p)
    BY <1>1
  <2>2. job' = job /\ Spares(p) /\ Writes(p)
    BY <2>1, StepKeepsJob, StepSpares, StepWrites
  <2>3. \A q \in Proc : Cleared(q)'
    <3> SUFFICES ASSUME NEW q \in Proc PROVE Cleared(q)'
      OBVIOUS
    <3> QED
      BY <2>1, <2>2, StepCleared, OthersCleared
  <2> QED
    BY <2>1, <2>2, <2>3, OneSubjectStays DEF OInv
<1>2. CASE ~\E p \in Proc : Step(p) \/ Abort(p)
  <2>1. UNCHANGED <<users, ident, excl, tx, job, pc, loc, evictor>>
    BY <1>2, IdleSteps
  <2> QED
    BY <2>1 DEF OInv, OneSubjectPerAccount, Cleared, User, Claim
<1> QED
  BY <1>1, <1>2

LEMMA OInvInductive ==
    SubjectsKeepAddress /\ Proven
        => (Spec => [](IInv /\ Steady /\ VInv /\ FInv /\ ReturnsProven(job) /\ OInv))
<1> SUFFICES ASSUME SubjectsKeepAddress, Proven
             PROVE  Spec => [](IInv /\ Steady /\ VInv /\ FInv /\ ReturnsProven(job) /\ OInv)
  OBVIOUS
<1>1. Init => OInv
  BY OInvInit
<1>2. (IInv /\ Steady /\ VInv /\ FInv /\ ReturnsProven(job)) /\ OInv /\ [Next]_vars => OInv'
  BY OInvNext
<1> QED
  BY <1>1, <1>2, ReachInductive, PTL DEF Spec

\* Two subjects of the issuer never share an account (byVerifiedEmail's
\* re-read under the lock, saveFederated's condition), as long as each keeps
\* its address and, where two claim one, none signs in again without proving
\* it and nobody there is erased.
THEOREM OneSubjectToAnAccount ==
    SubjectsKeepAddress /\ Proven => (Spec => []OneSubjectPerAccount)
<1>1. OInv => OneSubjectPerAccount
  BY DEF OInv
<1> QED
  BY <1>1, OInvInductive, PTL
-----------------------------------------------------------------------------
(* Who waits for whom. *)

\* An identity row is held by a purge's, an erasure's or a link's transaction.
LEMMA KeyWriters ==
    ASSUME IInv, VInv, NEW p \in Proc, NEW keys \in SUBSET Key, NEW q \in KeyHolders(p, keys)
    PROVE  /\ q \in Proc /\ q # p /\ pc[q] \in {"update", "link", "commit", "erase_commit"}
           /\ pc[q] \in {"update", "link"} => tx[q].purged /\ tx[q].gone \cap keys # {}
<1>1. q \in Proc /\ q # p /\ (tx[q].gone \cup {tx[q].key}) \cap keys # {}
  BY DEF KeyHolders
<1>2. NoKey \notin keys
  BY DEF NoKey, Key, SsoKey, Sso, Local
<1>3. Known(q)
  BY <1>1 DEF VInv
<1>4. CASE tx[q].key \in keys
  BY <1>1, <1>2, <1>3, <1>4 DEF Known
<1>5. CASE tx[q].gone \cap keys # {}
  BY <1>1, <1>3, <1>5 DEF Known, Purging, IInv, LockInv
<1> QED
  BY <1>1, <1>4, <1>5

\* An account row, or its address, by an insert's or an UPDATE's.
LEMMA RowWriters ==
    ASSUME IInv, VInv, NEW p \in Proc, NEW u \in UserId, NEW e,
           NEW q \in RowHolders(p, u) \cup EmailHolders(p, e)
    PROVE  q \in Proc /\ pc[q] \in {"link", "commit"}
<1>1. q \in Proc /\ tx[q].row # NoUser
  BY StoreAssumption DEF RowHolders, EmailHolders, UserId, NoUser
<1> QED
  BY <1>1 DEF VInv, Emails, Pending, Waits

\* No login changes the address of an account that has one.
LEMMA NoKeyChangers ==
    ASSUME IInv, VInv, NEW p \in Proc, NEW u \in UserId
    PROVE  KeyChangers(p, u) = {}
<1> SUFFICES ASSUME NEW q \in Proc, tx[q].row = u, users[u].email # NoEmail
             PROVE  users[u].email = tx[q].data.email
  BY DEF KeyChangers
<1>1. Pending(q)
  BY StoreAssumption DEF Pending, UserId, NoUser
<1> QED
  BY <1>1 DEF VInv, Emails, Waits, Exists

Locking == {"lock", "save_lock", "erase_lock", "cred_lock"}

LEMMA WhoWaits ==
    ASSUME IInv, VInv, Steady, NEW p \in Proc, NEW q \in WaitsFor(p)
    PROVE  \/ pc[p] \in Locking /\ q \in Proc /\ q # p
              /\ \E u \in UserId : excl[u] = q \/ q \in shared[u]
           \/ pc[p] = "link" /\ q \in KeyHolders(p, {Claim(p)})
           \/ pc[p] = "update" /\ q \in Proc /\ pc[q] \in {"link", "commit"}
           \/ pc[p] \notin {"link", "update", "commit", "erase_commit"} \cup Locking /\ q \in Proc
              /\ pc[q] \in {"update", "link", "commit", "erase_commit"}
<1> USE DEF Locking
<1>1. pc[p] \in Label
  BY DEF IInv, TypeOK
<1>2. pc[p] \in NeedsUser => User(p) \in UserId
  BY DEF IInv, Shape
<1>3. CASE pc[p] \in Locking
  <2>1. User(p) \in UserId
    BY <1>2, <1>3 DEF NeedsUser, Label
  <2>2. q \in ({excl[User(p)]} \cup shared[User(p)]) \ {p, NoProc}
    BY <1>3 DEF WaitsFor, AdvisoryHolders, Start
  <2>3. excl[User(p)] \in Proc \cup {NoProc} /\ shared[User(p)] \subseteq Proc
    BY <2>1 DEF IInv, TypeOK, StoreTypeOK
  <2> QED
    BY <1>3, <2>1, <2>2, <2>3
<1>4. CASE pc[p] = "link"
  BY <1>2, <1>4, NoKeyChangers DEF WaitsFor, Start, NeedsUser, Label
<1>5. CASE pc[p] = "update"
  <2>1. User(p) \in UserId /\ users[User(p)].email = Address(p)
    BY <1>2, <1>5 DEF NeedsUser, Label, VInv, Known, Resolved
  <2>2. q \in RowHolders(p, User(p))
    BY <1>5, <2>1 DEF WaitsFor, Start, MovesEmail
  <2> QED
    BY <1>5, <2>1, <2>2, RowWriters
<1>6. CASE pc[p] = "insert" \/ Start(p, {"register"})
  <2>1. q \in EmailHolders(p, Address(p))
    BY <1>6 DEF WaitsFor, Start
  <2>2. q \in Proc /\ tx[q].row # NoUser
    BY <2>1 DEF EmailHolders
  <2> QED
    BY <1>6, <2>2 DEF Start, VInv, Emails, Pending, Waits
<1>7. CASE pc[p] = "purge"
  <2>1. q \in KeyHolders(p, loc[p].snap) /\ loc[p].snap \in SUBSET Key
    BY <1>7 DEF WaitsFor, Start, IInv, TypeOK, Local_
  <2> QED
    BY <1>7, <2>1, KeyWriters
<1>8. CASE pc[p] \in {"save", "erase_delete"}
  <2>1. q \in KeyHolders(p, {Claim(p)}) /\ {Claim(p)} \in SUBSET Key
    BY <1>2, <1>8, JobFacts, NoKeyChangers DEF WaitsFor, Start, NeedsUser, Label
  <2> QED
    BY <1>8, <2>1, KeyWriters
<1>9. CASE pc[p] = "save_local"
  <2>1. User(p) \in UserId
    BY <1>2, <1>9 DEF NeedsUser, Label
  <2>2. q \in KeyHolders(p, {Local(User(p))}) /\ {Local(User(p))} \in SUBSET Key
    BY <1>9, <2>1, NoKeyChangers DEF WaitsFor, Start, Key
  <2> QED
    BY <1>9, <2>2, KeyWriters
<1>10. CASE pc[p] = "cred"
  BY <1>2, <1>10, NoKeyChangers DEF WaitsFor, Start, NeedsUser, Label
<1>11. CASE /\ pc[p] \notin Locking
            /\ pc[p] \notin {"link", "update", "insert", "purge", "save", "erase_delete", "save_local", "cred"}
            /\ ~Start(p, {"register"})
  BY <1>11 DEF WaitsFor
<1> QED
  BY <1>3, <1>4, <1>5, <1>6, <1>7, <1>8, <1>9, <1>10, <1>11

\* A login that waits at its link waits for a COMMIT: a purger of the account
\* would be at work on one the login holds, inserts, or has come back to.
LEMMA LinkWaits ==
    ASSUME IInv, VInv, Steady, FInv, ReturnsProven(job), ProvesAlike(job),
           NEW p \in Proc, pc[p] = "link", NEW q \in WaitsFor(p)
    PROVE  q \in Proc /\ pc[q] \in {"commit", "erase_commit"}
<1>1. q \in KeyHolders(p, {Claim(p)}) /\ Claim(p) \in Key /\ Known(p) /\ Way(p) /\ IsLogin(p)
  BY WhoWaits, JobFacts DEF Locking, VInv, FInv, Reach, Role, Signing
<1>2. /\ q \in Proc /\ q # p /\ pc[q] \in {"update", "link", "commit", "erase_commit"}
      /\ pc[q] \in {"update", "link"} => tx[q].purged /\ Claim(p) \in tx[q].gone
  BY <1>1, KeyWriters
<1> SUFFICES ASSUME pc[q] \in {"update", "link"} PROVE FALSE
  BY <1>2
<1>3. /\ ByAddress(q) /\ User(q) \in UserId /\ users[User(q)].email = Address(q) /\ Evicting(q)
      /\ Home(Claim(p), User(q)) /\ User(p) \in UserId
  BY <1>1, <1>2, EvictingByAddress
  DEF Evicting, VInv, Known, IInv, Shape, NeedsUser, Label
<1>4. Address(q) = Address(p)
  BY <1>3, JobFacts DEF Home
<1>5. tx[p].row = User(p) /\ tx[p].data.email = Address(p) /\ Pending(p)
  BY <1>1, <1>3, StoreAssumption DEF Known, Pending, UserId, NoUser
<1>6. User(q) = User(p)
  BY <1>3, <1>4, <1>5 DEF VInv, Emails, Waits
<1>7. Back(p)
  BY <1>1, <1>2, <1>3, <1>6 DEF Way, ByAddress
<1> QED
  BY <1>1, <1>2, <1>3, <1>4, <1>6, <1>7, NobodyBack

\* A request that waits for an advisory lock holds none it could be waited for.
LEMMA LockWaiter ==
    ASSUME IInv, VInv, Steady, FInv, NEW q \in Proc, pc[q] \in Locking,
           NEW u \in UserId, excl[u] = q \/ q \in shared[u]
    PROVE  WaitsFor(q) = {}
<1>1. q \notin shared[u]
  BY DEF IInv, LockInv, Locking
<1>2. excl[u] = q
  BY <1>1
<1>3. pc[q] = "lock"
  BY <1>2 DEF IInv, TypeOK, Outside, Locking
<1>4. /\ IsLogin(q) /\ users[u].email = Address(q) /\ users[User(q)].email = Address(q)
      /\ User(q) \in UserId
  BY <1>2, <1>3 DEF FInv, Reach, Role, Signing, VInv, Known, Resolved, IInv, Shape, NeedsUser, Label
<1>5. User(q) = u
  BY <1>4, JobFacts DEF VInv, Emails, Exists
<1>6. excl[User(q)] = q /\ shared[User(q)] = {}
  BY <1>2, <1>5, StoreAssumption DEF IInv, LockInv
<1> QED
  BY <1>3, <1>6 DEF WaitsFor, AdvisoryHolders, Start

LEMMA NobodyDeadlocks ==
    ASSUME IInv, VInv, Steady, FInv, ReturnsProven(job), ProvesAlike(job)
    PROVE  NoDeadlock
<1> SUFFICES ASSUME NEW S \in SUBSET Waiting, S # {}, \A p \in S : WaitsFor(p) \cap S # {}
             PROVE  FALSE
  BY DEF NoDeadlock, DeadlockAmong
<1>1. \A p \in S : p \in Proc /\ WaitsFor(p) # {}
  BY DEF Waiting
<1>2. \A p \in S : \E q \in S : q \in WaitsFor(p)
  OBVIOUS
<1>3. ASSUME NEW p \in S PROVE pc[p] \notin {"commit", "erase_commit"}
  BY <1>1, <1>2, WhoWaits DEF Locking
<1>4. ASSUME NEW p \in S PROVE pc[p] # "link"
  BY <1>1, <1>2, <1>3, LinkWaits
<1>5. ASSUME NEW p \in S PROVE pc[p] # "update"
  BY <1>1, <1>2, <1>3, <1>4, WhoWaits DEF Locking
<1>6. ASSUME NEW p \in S PROVE pc[p] \in Locking
  BY <1>1, <1>2, <1>3, <1>4, <1>5, WhoWaits
<1>7. PICK p \in S, q \in S : q \in WaitsFor(p)
  BY <1>2
<1>8. PICK u \in UserId : excl[u] = q \/ q \in shared[u]
  BY <1>1, <1>6, <1>7, WhoWaits DEF Locking
<1>9. WaitsFor(q) = {}
  BY <1>1, <1>6, <1>7, <1>8, LockWaiter
<1> QED
  BY <1>1, <1>7, <1>9

LEMMA AlikeInductive ==
    SubjectsKeepAddress /\ Proven /\ Alike
        => (Spec => [](IInv /\ Steady /\ VInv /\ FInv /\ ReturnsProven(job) /\ ProvesAlike(job)))
<1> SUFFICES ASSUME SubjectsKeepAddress, Proven, Alike
             PROVE  Spec =>
                      [](IInv /\ Steady /\ VInv /\ FInv /\ ReturnsProven(job) /\ ProvesAlike(job))
  OBVIOUS
<1>1. Init => ProvesAlike(job)
  BY DEF Init, Alike
<1>2. ProvesAlike(job) /\ [Next]_vars => ProvesAlike(job)'
  <2> SUFFICES ASSUME ProvesAlike(job), [Next]_vars PROVE ProvesAlike(job)'
    OBVIOUS
  <2>1. job' = job
    BY StepKeepsJob, IdleSteps
  <2> QED
    BY <2>1 DEF ProvesAlike, Again, SignsIn
<1> QED
  BY <1>1, <1>2, ReachInductive, PTL DEF Spec

\* No set of requests waits for each other in Postgres (pg/bound.go: every
\* writer takes the account's lock before it touches a row), as long as each
\* subject keeps its address, one that comes back where another claims the
\* address always proves it, and one that signs in three times proves it
\* each time or never.
THEOREM WritersNeverDeadlock ==
    SubjectsKeepAddress /\ Proven /\ Alike => (Spec => []NoDeadlock)
<1>1. IInv /\ Steady /\ VInv /\ FInv /\ ReturnsProven(job) /\ ProvesAlike(job) => NoDeadlock
  BY NobodyDeadlocks
<1> QED
  BY <1>1, AlikeInductive, PTL

\* A purge never commits on an account whose address somebody has proved
\* meanwhile (byVerifiedEmail's re-read), under the same conditions.
THEOREM ProvedIsNotPurged ==
    SubjectsKeepAddress /\ Proven /\ Alike => (Spec => VerifiedNeverPurged)
<1> SUFFICES ASSUME SubjectsKeepAddress, Proven, Alike PROVE Spec => VerifiedNeverPurged
  OBVIOUS
<1>1. FInv /\ ProvesAlike(job) /\ [Next]_vars
      => [\A p \in Proc : pc[p] = "commit" /\ pc'[p] = "save_lock" /\ tx[p].purged
             => ~users[User(p)].verified]_vars
  BY DEF FInv, Reach, Unproved, Evicting
<1> QED
  BY <1>1, AlikeInductive, PTL DEF Spec, VerifiedNeverPurged
-----------------------------------------------------------------------------
(* What a takeover leaves at the account. *)

\* No registration has its password still to save at an account that is being
\* taken over, or has been.
Settled ==
    \A p \in Proc : pc[p] = "save_local" =>
        /\ evictor[User(p)] = NoKey
        /\ \A q \in Proc : Evicting(q) => User(q) # User(p)

\* The last evictor proved the account's address, and is linked to it where
\* another subject claims the address.
Owner(u) ==
    evictor[u] # NoKey =>
        /\ users[u].verified
        /\ \E p \in Proc : /\ IsLogin(p) /\ job[p].verified
                           /\ Claim(p) = evictor[u] /\ Address(p) = users[u].email
        /\ Contested(job, users[u].email) => ident[evictor[u]] = u

\* A takeover deletes the password it finds, and none comes back.
PasswordGoes(p) ==
    ident[Local(User(p))] = User(p) =>
        /\ pc[p] = "purge" => Local(User(p)) \in loc[p].snap
        /\ tx[p].purged => Local(User(p)) \in tx[p].gone
NoPassword(u) == evictor[u] # NoKey => ident[Local(u)] # u

EInv ==
    /\ \A u \in UserId : Owner(u) /\ NoPassword(u)
    /\ \A p \in Proc : PasswordGoes(p)

LEMMA OwnedIsClean ==
    ASSUME IInv, VInv, Steady, FInv, OInv, EInv
    PROVE  TakenOverIsClean
<1> SUFFICES ASSUME NEW u \in UserId, evictor[u] # NoKey
             PROVE  /\ IdentitiesOf(u) \subseteq {evictor[u]}
                    /\ \A c \in CredsOf(u) : c.key = evictor[u]
  BY DEF TakenOverIsClean
<1>1. PICK p \in Proc : /\ IsLogin(p) /\ job[p].verified
                        /\ Claim(p) = evictor[u] /\ Address(p) = users[u].email
  BY DEF EInv, Owner
<1>2. ASSUME NEW k \in Key, ident[k] = u PROVE k = evictor[u]
  <2>1. u # NoUser
    BY StoreAssumption DEF UserId, NoUser
  <2>2. CASE k \in SsoKey
    <3>1. CASE Contested(job, users[u].email)
      <4>1. ident[evictor[u]] = u /\ evictor[u] \in SsoKey
        BY <1>1, <3>1, JobFacts DEF EInv, Owner
      <4> QED
        BY <1>2, <2>1, <2>2, <4>1 DEF OInv, OneSubjectPerAccount
    <3>2. CASE ~Contested(job, users[u].email)
      <4>1. PICK r \in Proc : IsLogin(r) /\ Claim(r) = k /\ users[u].email = Address(r)
        BY <1>2, <2>2, Linker DEF FInv
      <4> QED
        BY <1>1, <3>2, <4>1, OneSubject
    <3> QED
      BY <3>1, <3>2
  <2>3. CASE k \notin SsoKey
    <3>1. PICK v \in UserId : k = Local(v)
      BY <2>3 DEF Key
    <3>2. Home(k, u)
      BY <1>2, <2>1 DEF VInv, AtHome
    <3>3. k = Local(u)
      BY <3>1, <3>2, JobFacts DEF Home
    <3> QED
      BY <1>2, <3>3 DEF EInv, NoPassword
  <2> QED
    BY <2>2, <2>3
<1>3. IdentitiesOf(u) \subseteq {evictor[u]}
  BY <1>2 DEF IdentitiesOf
<1>4. \A c \in CredsOf(u) : c.key = evictor[u]
  <2> SUFFICES ASSUME NEW c \in CredsOf(u) PROVE c.key = evictor[u]
    OBVIOUS
  <2>1. c \in sess \cup codes /\ c.user = u
    BY DEF CredsOf
  <2> QED
    BY <1>2, <2>1, CredFacts
<1> QED
  BY <1>3, <1>4
\* Only the COMMIT of a takeover makes an evictor.
LEMMA Evictors ==
    ASSUME NEW p \in Proc, Step(p) \/ Abort(p)
    PROVE  \/ evictor' = evictor
           \/ /\ CommitLogin(p) /\ tx[p].purged
              /\ evictor' = [evictor EXCEPT ![User(p)] = Claim(p)]
<1>1. CASE Fail(p)
  BY <1>1 DEF Fail
<1>2. CASE UpsertStep(p) /\ ~Fail(p)
  BY <1>2 DEF UpsertStep, ResolveBySubject, ResolveByEmail, LockAccount, Recheck, InsertUser,
     PurgeSnapshot, Purge, UpdateUser, LinkIdentity, CommitLogin, Unmatched
<1>3. CASE SaveStep(p) /\ ~Fail(p)
  BY <1>3 DEF SaveStep, SaveLock, SaveFederated, Register, SaveLocal
<1>4. CASE CreateStep(p) /\ ~Fail(p)
  BY <1>4 DEF CreateStep, LockForCreate, Vouch, InsertCred, MintToken, ExchangeCode,
     DeviceExchange, Unauthenticated, Bind
<1>5. CASE (EraseStep(p) \/ LogoutStep(p)) /\ ~Fail(p)
  BY <1>5 DEF EraseStep, EraseFind, EraseLock, EraseCheck, EraseDelete, CommitErase, LogoutStep,
     LogoutFind, RevokeUser
<1> QED
  BY <1>1, <1>2, <1>3, <1>4, <1>5 DEF Step, Abort

\* The takeover's COMMIT: the account is proved, and its owner linked to it.
LEMMA OwnerTakesOver ==
    ASSUME IInv, VInv, Steady, FInv, job' = job, NEW p \in Proc, CommitLogin(p), tx[p].purged,
           evictor' = [evictor EXCEPT ![User(p)] = Claim(p)]
    PROVE  User(p) \in UserId /\ \A u \in UserId : u = User(p) => Owner(u)'
<1>1. /\ pc[p] = "commit" /\ Publish(p) /\ Evicting(p)
      /\ IsLogin(p) /\ Claim(p) \in Key /\ Address(p) \in Email
  BY JobFacts DEF CommitLogin, At, Evicting, FInv, Reach, Role, Signing
<1>2. User(p) \in UserId /\ Exists(User(p)) /\ job[p].verified
  BY <1>1, EvictingByAddress DEF ByAddress
<1>3. /\ tx[p].row = User(p) /\ tx[p].data.email = Address(p) /\ tx[p].key = Claim(p)
      /\ tx[p].to = User(p) /\ Pending(p)
  BY <1>1, <1>2, StoreAssumption DEF VInv, Known, Pending, UserId, NoUser
<1>4. tx[p].data.verified
  BY <1>2, <1>3 DEF FInv, Reach, Wrote
<1>5. users'[User(p)] = tx[p].data /\ ident'[Claim(p)] = User(p) /\ evictor'[User(p)] = Claim(p)
  BY <1>1, <1>2, <1>3 DEF Publish, Pending, IInv, TypeOK, StoreTypeOK
<1>6. \A q \in Proc : IsLogin(q)' = IsLogin(q) /\ Claim(q)' = Claim(q) /\ Address(q)' = Address(q)
  BY DEF IsLogin, Kind, Claim, Address
<1> QED
  BY <1>1, <1>2, <1>3, <1>4, <1>5, <1>6 DEF Owner

\* An owner stays verified, and linked where another subject might be.
LEMMA OwnerStays ==
    ASSUME IInv, VInv, Steady, FInv, NoneErased(job), job' = job, NEW p \in Proc,
           Writes(p), Stays, NEW u \in UserId, Owner(u), evictor'[u] = evictor[u]
    PROVE  Owner(u)'
<1> SUFFICES ASSUME evictor[u] # NoKey PROVE Owner(u)'
  BY DEF Owner
<1>1. /\ users[u].verified
      /\ Contested(job, users[u].email) => ident[evictor[u]] = u
  BY DEF Owner
<1>2. PICK r \in Proc : /\ IsLogin(r) /\ job[r].verified
                        /\ Claim(r) = evictor[u] /\ Address(r) = users[u].email
  BY DEF Owner
<1>3. Exists(u) /\ users'[u].email = users[u].email
  BY <1>2, JobFacts DEF Exists, Writes, EmailsStay
<1>4. users'[u].verified
  BY <1>1, <1>3, ProofStays
<1>5. ASSUME Contested(job, users[u].email) PROVE ident'[evictor[u]] = u
  <2>1. PICK k \in SsoKey : k = evictor[u]
    BY <1>2, JobFacts
  <2>2. \A q \in Proc : Kind(q) = "erase" => Address(q) # users[u].email
    BY <1>5 DEF NoneErased, Kind, Address
  <2> QED
    BY <1>1, <1>5, <2>1, <2>2, LinkStays
<1>6. IsLogin(r)' = IsLogin(r) /\ Claim(r)' = Claim(r) /\ Address(r)' = Address(r)
  BY DEF IsLogin, Kind, Claim, Address
<1> QED
  BY <1>2, <1>3, <1>4, <1>5, <1>6 DEF Owner

\* Nobody saves a password at an account that is being taken over.
LEMMA OthersPassword ==
    ASSUME IInv, VInv, Steady, Settled, NEW p \in Proc, Spares(p), Writes(p),
           NEW q \in Proc, q # p, PasswordGoes(q)
    PROVE  PasswordGoes(q)'
<1>1. pc'[q] = pc[q] /\ tx'[q] = tx[q] /\ loc'[q] = loc[q] /\ User(q)' = User(q)
  BY DEF Spares, User
<1> SUFFICES ASSUME ident'[Local(User(q))] = User(q), Evicting(q)
             PROVE  ident[Local(User(q))] = User(q)
  BY <1>1 DEF PasswordGoes, Evicting
<1>2. User(q) \in UserId /\ User(q) # NoUser /\ Local(User(q)) \in Key
  BY StoreAssumption
  DEF Evicting, IInv, LockInv, Shape, NeedsUser, Label, Key, UserId, NoUser
<1>3. Local(User(q)) # Claim(p) /\ (Local(User(q)) = Local(User(p)) => User(q) = User(p))
  BY JobFacts DEF Local
<1>4. ~(pc[p] = "save_local" /\ User(p) = User(q))
  BY DEF Settled
<1> QED
  BY <1>2, <1>3, <1>4 DEF Writes

LEMMA StepPassword ==
    ASSUME IInv, IInv', VInv, Steady, FInv, job' = job, NEW p \in Proc, Step(p) \/ Abort(p),
           PasswordGoes(p)
    PROVE  PasswordGoes(p)'
<1> USE DEF Goto, At, IInv, TypeOK, StoreTypeOK
<1>1. tx'[p].purged => pc'[p] \in {"update", "link", "commit"}
  BY DEF LockInv
<1>2. CASE pc'[p] # "purge" /\ ~tx'[p].purged
  BY <1>2 DEF PasswordGoes
<1>3. CASE PurgeSnapshot(p)
  <2>1. /\ pc[p] = "snapshot" /\ pc'[p] = "purge" /\ UNCHANGED <<ident, tx>>
        /\ loc' = [loc EXCEPT ![p].snap = IdentitiesOf(User(p))]
    BY <1>3 DEF PurgeSnapshot, storeVars
  <2>2. User(p)' = User(p) /\ loc'[p].snap = IdentitiesOf(User(p))
    BY <2>1 DEF User, Local_
  <2>3. Local(User(p)) \in Key
    BY <2>1 DEF Shape, NeedsUser, Label, Key
  <2> QED
    BY <1>1, <2>1, <2>2, <2>3 DEF PasswordGoes, IdentitiesOf, User
<1>4. CASE Purge(p)
  <2>1. /\ pc[p] = "purge" /\ pc'[p] = "update" /\ UNCHANGED <<ident, loc>>
        /\ tx'[p].gone = loc[p].snap \cap IdentitiesOf(User(p))
    BY <1>4 DEF Purge, tables, Tx
  <2>2. Local(User(p)) \in Key
    BY <2>1 DEF Shape, NeedsUser, Label, Key
  <2> QED
    BY <2>1, <2>2 DEF PasswordGoes, IdentitiesOf, User
<1>5. CASE (ResolveBySubject(p) \/ Recheck(p)) /\ pc'[p] = "update"
  <2>1. pc[p] \in {"start", "subject", "recheck"} /\ tx'[p].purged = tx[p].purged
    BY <1>5, FailSpares DEF ResolveBySubject, Recheck, Unmatched, Start, storeVars
  <2>2. ~tx[p].purged
    BY <2>1 DEF LockInv
  <2> QED
    BY <1>2, <1>5, <2>1, <2>2
<1>6. CASE InsertUser(p) /\ pc'[p] = "link"
  BY <1>2, <1>6, NewIsNoTakeover
<1>7. CASE (UpdateUser(p) \/ LinkIdentity(p)) /\ pc'[p] \in {"link", "commit"}
  <2>1. UNCHANGED <<ident, loc>> /\ tx'[p].gone = tx[p].gone /\ tx'[p].purged = tx[p].purged
    BY <1>7, ToLink
  <2> QED
    BY <1>7, <2>1 DEF PasswordGoes, User
<1> QED
  BY <1>1, <1>2, <1>3, <1>4, <1>5, <1>6, <1>7, Arrivals

LEMMA NoPasswordStays ==
    ASSUME IInv, VInv, Steady, FInv, Settled, EInv, job' = job, NEW p \in Proc,
           Step(p) \/ Abort(p), NEW u \in UserId
    PROVE  NoPassword(u)'
<1>1. Writes(p) /\ NoPassword(u) /\ PasswordGoes(p)
  BY StepWrites DEF EInv
<1>2. /\ u # NoUser /\ Local(u) \in Key /\ Local(u) # Claim(p)
      /\ (Local(u) = Local(User(p)) => u = User(p))
  BY StoreAssumption, JobFacts DEF UserId, NoUser, Key, Local
<1>3. CASE evictor'[u] = evictor[u]
  BY <1>1, <1>2, <1>3 DEF NoPassword, Writes, Settled
<1>4. CASE CommitLogin(p) /\ tx[p].purged /\ u = User(p)
  <2>1. pc[p] = "commit" /\ Publish(p)
    BY <1>4 DEF CommitLogin, At
  <2>2. tx[p].key = Claim(p)
    BY <2>1 DEF VInv, Known
  <2>3. ident'[Local(u)] = IF Local(u) \in tx[p].gone THEN NoUser ELSE ident[Local(u)]
    BY <1>2, <2>1, <2>2 DEF Publish
  <2> QED
    BY <1>1, <1>2, <1>4, <2>3 DEF PasswordGoes, NoPassword
<1> QED
  BY <1>3, <1>4, Evictors DEF IInv, TypeOK

LEMMA EInvNext ==
    ASSUME IInv, VInv, Steady, FInv, NoneErased(job), Settled, EInv, [Next]_vars
    PROVE  EInv'
<1>1. CASE \E p \in Proc : Step(p) \/ Abort(p)
  <2>1. PICK p \in Proc : Step(p) \/ Abort(p)
    BY <1>1
  <2>2. job' = job /\ IInv' /\ Spares(p) /\ Writes(p) /\ Stays
    BY <2>1, StepKeepsJob, NextIInv, NextVouching, StepSpares, StepWrites DEF Steady
  <2>3. ASSUME NEW q \in Proc PROVE PasswordGoes(q)'
    BY <2>1, <2>2, StepPassword, OthersPassword DEF EInv
  <2>4. ASSUME NEW u \in UserId PROVE Owner(u)' /\ NoPassword(u)'
    <3>1. Owner(u) /\ NoPassword(u)'
      BY <2>1, <2>2, NoPasswordStays DEF EInv
    <3>2. CASE evictor'[u] = evictor[u]
      BY <2>2, <3>1, <3>2, OwnerStays
    <3>3. CASE /\ CommitLogin(p) /\ tx[p].purged /\ u = User(p)
               /\ evictor' = [evictor EXCEPT ![User(p)] = Claim(p)]
      BY <2>2, <3>1, <3>3, OwnerTakesOver
    <3> QED
      BY <2>1, <3>2, <3>3, Evictors DEF IInv, TypeOK
  <2> QED
    BY <2>3, <2>4 DEF EInv
<1>2. CASE ~\E p \in Proc : Step(p) \/ Abort(p)
  <2>1. UNCHANGED <<users, ident, excl, tx, job, pc, loc, evictor>>
    BY <1>2, IdleSteps
  <2> QED
    BY <2>1 DEF EInv, Owner, NoPassword, PasswordGoes, IsLogin, Kind, Claim, Address, User
<1> QED
  BY <1>1, <1>2

\* Once a verified login has taken an unverified account over, nothing of the
\* former holder is left or comes back (UpsertFromOIDC's purge, and the late
\* Save, session, code or token it keeps out), as long as each subject keeps
\* its address, one that comes back where another claims the address always
\* proves it, nobody there is erased, and no registration has its password
\* still to save at an account that is taken over.
THEOREM TakeoverIsFinal ==
    SubjectsKeepAddress /\ Proven /\ Spared
        => (Spec /\ []Settled => []TakenOverIsClean)
<1> SUFFICES ASSUME SubjectsKeepAddress, Proven, Spared
             PROVE  Spec /\ []Settled => []TakenOverIsClean
  OBVIOUS
<1>1. Init => NoneErased(job) /\ EInv
  BY DEF Init, StoreInit, Spared, EInv, Owner, NoPassword, PasswordGoes, Key, NoTx
<1>2. /\ IInv /\ Steady /\ VInv /\ FInv /\ ReturnsProven(job) /\ OInv
      /\ Settled /\ NoneErased(job) /\ EInv /\ [Next]_vars
      => (NoneErased(job) /\ EInv)'
  <2> SUFFICES ASSUME IInv, Steady, VInv, FInv, Settled, NoneErased(job), EInv, [Next]_vars
               PROVE  (NoneErased(job) /\ EInv)'
    OBVIOUS
  <2>1. NoneErased(job)'
    BY StepKeepsJob, IdleSteps DEF NoneErased, Contested, SignsIn
  <2> QED
    BY <2>1, EInvNext
<1>3. IInv /\ Steady /\ VInv /\ FInv /\ ReturnsProven(job) /\ OInv /\ EInv => TakenOverIsClean
  BY OwnedIsClean
<1> QED
  BY <1>1, <1>2, <1>3, OInvInductive, PTL DEF Spec
=============================================================================
