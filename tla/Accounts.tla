------------------------------ MODULE Accounts ------------------------------
(***************************************************************************)
(* porte's operations on accounts, as concurrent requests over the tables  *)
(* of AccountStore: the OIDC login (UserStore.UpsertFromOIDC, then         *)
(* IdentityStore.Save, then a bound session or login code), local          *)
(* registration, named tokens, the code and device exchanges, back-channel *)
(* logout and EraseIdentity.  One step is one SQL statement; a COMMIT that *)
(* follows a statement with nothing in between is part of its step.        *)
(***************************************************************************)
EXTENDS AccountStore

CONSTANT Workload    \* the requests that may run together

\* What a request asks for, with the claims it comes with; a slot may stay empty.
JobKind == {"browser", "cli", "register", "mint", "exchange", "device", "erase", "logout",
            "none"}
Request == [kind : JobKind, subj : Subject, email : Email, verified : BOOLEAN]

ASSUME WorkloadAssumption == Workload \subseteq [Proc -> Request]

VARIABLES
    job,     \* what each request asks for
    pc,      \* where each request is
    loc,     \* what it read and holds in memory
    evictor  \* history: the verified login that last took an account over

vars == <<users, ident, sess, codes, excl, shared, tx, job, pc, loc, evictor>>

Label == {"start", "subject", "email", "lock", "recheck", "insert", "snapshot",
          "purge", "update", "link", "commit", "save_lock", "save", "save_local",
          "cred_lock", "vouch", "cred", "erase_find", "erase_lock", "erase_check",
          "erase_delete", "erase_commit", "revoke", "done"}

\* Where a request has no transaction open.
Outside == {"start", "save_lock", "save_local", "cred_lock", "erase_find",
            "erase_lock", "revoke", "done"}

(* user: the account resolved; second: the insert lost a race and the      *)
(* claims are being resolved again; snap: the identities the purge's       *)
(* DELETE saw; tries: EraseIdentity's retries; key, from: the binding of   *)
(* the credential to mint.                                                 *)
Local_ == [user : MaybeUser, second : BOOLEAN, snap : SUBSET Key, tries : 0..2,
           key : Key \cup {NoKey}, from : Proc \cup {NoProc}]
NoLocal == [user |-> NoUser, second |-> FALSE, snap |-> {}, tries |-> 0,
            key |-> NoKey, from |-> NoProc]

Init ==
    /\ StoreInit
    /\ job \in Workload
    /\ pc = [p \in Proc |-> IF job[p].kind = "none" THEN "done" ELSE "start"]
    /\ loc = [p \in Proc |-> NoLocal]
    /\ evictor = [u \in UserId |-> NoKey]

Kind(p) == job[p].kind
Claim(p) == Sso(job[p].subj)
Address(p) == job[p].email
User(p) == loc[p].user
IsLogin(p) == Kind(p) \in {"browser", "cli"}

Goto(p, label) == pc' = [pc EXCEPT ![p] = label]
Start(p, kinds) == pc[p] = "start" /\ Kind(p) \in kinds

\* Does the login's UPDATE move the account to another address?
MovesEmail(p) == job[p].verified /\ users[User(p)].email # Address(p)

\* The requests whose locks p's next statement has to wait for.
WaitsFor(p) ==
    CASE pc[p] \in {"lock", "save_lock", "erase_lock"} ->
            AdvisoryHolders(p, User(p), "exclusive")
      [] pc[p] = "cred_lock" -> AdvisoryHolders(p, User(p), "shared")
      [] pc[p] = "insert" \/ Start(p, {"register"}) -> EmailHolders(p, Address(p))
      [] pc[p] = "purge" -> KeyHolders(p, loc[p].snap)
      [] pc[p] = "update" ->
            RowHolders(p, User(p)) \cup
            (IF MovesEmail(p)
             THEN EmailHolders(p, Address(p)) \cup {q \in Proc \ {p} : tx[q].to = User(p)}
             ELSE {})
      [] pc[p] \in {"link", "save"} -> KeyHolders(p, {Claim(p)}) \cup KeyChangers(p, User(p))
      [] pc[p] = "save_local" -> KeyHolders(p, {Local(User(p))}) \cup KeyChangers(p, User(p))
      [] pc[p] = "cred" -> KeyChangers(p, User(p))
      [] pc[p] = "erase_delete" -> KeyHolders(p, {Claim(p)})
      [] OTHER -> {}

At(p, label) == pc[p] = label /\ WaitsFor(p) = {}

\* The request answers an error: its transaction rolls back.
Fail(p) ==
    /\ Goto(p, "done")
    /\ Rollback(p)
    /\ UNCHANGED <<loc, evictor>>

-----------------------------------------------------------------------------
(* UpsertFromOIDC: one transaction.                                        *)

\* existingUser found nothing: insert, or refuse after a lost insert.
Unmatched(p) ==
    \/ /\ ~loc[p].second
       /\ Goto(p, "insert")
       /\ UNCHANGED <<storeVars, loc, evictor>>
    \/ loc[p].second /\ Fail(p)

\* existingUser: by (provider, subject) first, without any lock.
ResolveBySubject(p) ==
    /\ Start(p, {"browser", "cli"}) \/ At(p, "subject")
    /\ \/ /\ ident[Claim(p)] # NoUser
          /\ loc' = [loc EXCEPT ![p].user = ident[Claim(p)]]
          /\ Goto(p, "update")
          /\ UNCHANGED <<storeVars, evictor>>
       \/ /\ ident[Claim(p)] = NoUser
          /\ job[p].verified
          /\ Goto(p, "email")
          /\ UNCHANGED <<storeVars, loc, evictor>>
       \/ ident[Claim(p)] = NoUser /\ ~job[p].verified /\ Unmatched(p)

\* byVerifiedEmail: the row holding the address, read before its lock.
ResolveByEmail(p) ==
    /\ At(p, "email")
    /\ \/ Holders(Address(p)) = {} /\ Unmatched(p)
       \/ \E u \in Holders(Address(p)) :
            /\ loc' = [loc EXCEPT ![p].user = u]
            /\ Goto(p, "lock")
            /\ UNCHANGED <<storeVars, evictor>>

\* Mutant: the account is not locked before it is read again.
LockAccount_None(p) ==
    /\ pc[p] = "lock"
    /\ Goto(p, "recheck")
    /\ UNCHANGED <<storeVars, loc, evictor>>

LockAccount(p) ==
    /\ At(p, "lock")
    /\ LockExclusive(p, User(p))
    /\ Goto(p, "recheck")
    /\ UNCHANGED <<loc, evictor>>

\* byVerifiedEmail's second read, in a fresh statement under the lock.
Recheck(p) ==
    LET row == users[User(p)] IN
    /\ At(p, "recheck")
    /\ \/ (row.email # Address(p) \/ (row.verified /\ Linked(User(p)))) /\ Unmatched(p)
       \/ /\ row.email = Address(p)
          /\ ~row.verified \/ ~Linked(User(p))
          /\ Goto(p, IF row.verified THEN "update" ELSE "snapshot")
          /\ UNCHANGED <<storeVars, loc, evictor>>

\* An id no row has and no transaction is inserting.
Fresh(u) == ~Exists(u) /\ \A q \in Proc : tx[q].row # u

\* insertUser: ON CONFLICT (email) DO NOTHING.
InsertUser(p) ==
    /\ At(p, "insert")
    /\ \/ /\ Holders(Address(p)) # {}
          /\ loc' = [loc EXCEPT ![p].second = TRUE]
          /\ Goto(p, "subject")
          /\ UNCHANGED <<storeVars, evictor>>
       \/ /\ Holders(Address(p)) = {}
          /\ \E u \in UserId :
                /\ Fresh(u) /\ \A v \in UserId : Fresh(v) => u <= v
                /\ loc' = [loc EXCEPT ![p].user = u]
                /\ tx' = [tx EXCEPT ![p].row = u,
                            ![p].data = [email |-> Address(p), verified |-> job[p].verified]]
          /\ Goto(p, "link")
          /\ UNCHANGED <<tables, excl, shared, evictor>>

\* purge's DELETE FROM porte_identities takes its snapshot ...
PurgeSnapshot(p) ==
    /\ At(p, "snapshot")
    /\ loc' = [loc EXCEPT ![p].snap = IdentitiesOf(User(p))]
    /\ Goto(p, "purge")
    /\ UNCHANGED <<storeVars, evictor>>

\* ... then deletes what is still the account's, and the other tables' rows.
Purge(p) ==
    /\ At(p, "purge")
    /\ tx' = [tx EXCEPT ![p].gone = loc[p].snap \cap IdentitiesOf(User(p)),
                        ![p].dead = CredsOf(User(p)),
                        ![p].purged = TRUE]
    /\ Goto(p, "update")
    /\ UNCHANGED <<tables, excl, shared, loc, evictor>>

\* updateUser; a unique violation on email fails the login.
UpdateUser(p) ==
    LET row == users[User(p)] IN
    /\ At(p, "update")
    /\ \/ MovesEmail(p) /\ Holders(Address(p)) # {} /\ Fail(p)
       \/ /\ ~MovesEmail(p) \/ Holders(Address(p)) = {}
          /\ tx' = [tx EXCEPT ![p].row = User(p),
                      ![p].data = [email |-> IF job[p].verified THEN Address(p) ELSE row.email,
                                   verified |-> row.verified \/ job[p].verified]]
          /\ Goto(p, "link")
          /\ UNCHANGED <<tables, excl, shared, loc, evictor>>

\* INSERT INTO porte_identities ... ON CONFLICT DO UPDATE SET user_id.
\* Mutant: Save, and its lock, inside the transaction that wrote the rows.
LinkIdentity_SavesInside(p) ==
    /\ At(p, "link")
    /\ tx' = [tx EXCEPT ![p].key = Claim(p), ![p].to = User(p)]
    /\ loc' = [loc EXCEPT ![p].key = Claim(p)]
    /\ Goto(p, "save_lock")
    /\ UNCHANGED <<tables, excl, shared, evictor>>

LinkIdentity(p) ==
    /\ At(p, "link")
    /\ tx' = [tx EXCEPT ![p].key = Claim(p), ![p].to = User(p)]
    /\ Goto(p, "commit")
    /\ UNCHANGED <<tables, excl, shared, loc, evictor>>

CommitLogin(p) ==
    /\ At(p, "commit")
    /\ Publish(p)
    /\ loc' = [loc EXCEPT ![p].key = Claim(p)]
    /\ evictor' = IF tx[p].purged THEN [evictor EXCEPT ![User(p)] = Claim(p)] ELSE evictor
    /\ Goto(p, "save_lock")

-----------------------------------------------------------------------------
(* IdentityStore.Save.                                                     *)

SaveLock(p) ==
    /\ At(p, "save_lock")
    /\ LockExclusive(p, User(p))
    /\ Goto(p, "save")
    /\ UNCHANGED <<loc, evictor>>

\* saveFederated's one statement, and its commit.
\* Mutant: the plain upsert Save was before it refused to resurrect.
SaveWrites_Upsert(p) == ident[Claim(p)] \in {NoUser, User(p)}

SaveWrites(p) ==
    /\ ident[Claim(p)] = User(p) \/ ~Linked(User(p))
    /\ ident[Claim(p)] \in {NoUser, User(p)}

SaveFederated(p) ==
    /\ At(p, "save")
    /\ \/ ~SaveWrites(p) /\ Fail(p)
       \/ /\ SaveWrites(p)
          /\ ident' = [ident EXCEPT ![Claim(p)] = User(p)]
          /\ ReleaseLocks(p)
          /\ Goto(p, "cred_lock")
          /\ UNCHANGED <<users, sess, codes, tx, loc, evictor>>

\* local.Kit.Register up to CreateFromPassword, which commits by itself.
Register(p) ==
    /\ Start(p, {"register"})
    /\ WaitsFor(p) = {}
    /\ \/ Holders(Address(p)) # {} /\ Fail(p)
       \/ /\ Holders(Address(p)) = {}
          /\ \E u \in UserId :
                /\ Fresh(u) /\ \A v \in UserId : Fresh(v) => u <= v
                /\ users' = [users EXCEPT ![u] = [email |-> Address(p), verified |-> FALSE]]
                /\ loc' = [loc EXCEPT ![p].user = u, ![p].key = Local(u)]
          /\ Goto(p, "save_local")
          /\ UNCHANGED <<ident, sess, codes, excl, shared, tx, evictor>>

\* Save of a password identity: an upsert with no lock and no check.
SaveLocal(p) ==
    /\ At(p, "save_local")
    /\ ident' = [ident EXCEPT ![Local(User(p))] = User(p)]
    /\ Goto(p, "cred_lock")
    /\ UNCHANGED <<users, sess, codes, excl, shared, tx, loc, evictor>>

-----------------------------------------------------------------------------
(* SessionStore.Create and LoginCodeStore.Create, bound (pg/bound.go).     *)

LockForCreate(p) ==
    /\ At(p, "cred_lock")
    /\ LockShared(p, User(p))
    /\ Goto(p, "vouch")
    /\ UNCHANGED <<loc, evictor>>

\* vouched: a named token's parent session, else the identity.
Vouched(p) ==
    IF Kind(p) = "mint"
    THEN \E s \in sess : s.id = loc[p].from /\ s.user = User(p)
    ELSE ident[loc[p].key] = User(p)

Vouch(p) ==
    /\ At(p, "vouch")
    /\ \/ ~Vouched(p) /\ Fail(p)
       \/ /\ Vouched(p)
          /\ Goto(p, "cred")
          /\ UNCHANGED <<storeVars, loc, evictor>>

InsertCred(p) ==
    LET new == [id |-> p, user |-> User(p), key |-> loc[p].key, from |-> loc[p].from] IN
    /\ At(p, "cred")
    /\ sess' = IF Kind(p) = "cli" THEN sess ELSE sess \cup {new}
    /\ codes' = IF Kind(p) = "cli" THEN codes \cup {new} ELSE codes
    /\ ReleaseLocks(p)
    /\ Goto(p, "done")
    /\ UNCHANGED <<users, ident, tx, loc, evictor>>

\* The binding of the credential p goes on to mint.
Bind(p, u, k, f) ==
    /\ loc' = [loc EXCEPT ![p].user = u, ![p].key = k, ![p].from = f]
    /\ Goto(p, "cred_lock")

\* session.Manager.IssueFor with a label, from a request a session signed in.
MintToken(p) ==
    /\ Start(p, {"mint"})
    /\ \E s \in sess : Bind(p, s.user, s.key, s.id)
    /\ UNCHANGED <<storeVars, evictor>>

\* handleExchange: Consume is one UPDATE; an expired code is spent all the same.
ExchangeCode(p) ==
    /\ Start(p, {"exchange"})
    /\ \E c \in codes :
          /\ CredHolders(p, c) = {}
          /\ codes' = codes \ {c}
          /\ \/ Bind(p, c.user, c.key, c.id)
             \/ Goto(p, "done") /\ UNCHANGED loc
    /\ UNCHANGED <<users, ident, sess, excl, shared, tx, evictor>>

\* handleDeviceExchange, once the access token is verified.
DeviceExchange(p) ==
    /\ Start(p, {"device"})
    /\ \/ ident[Claim(p)] = NoUser /\ Fail(p)
       \/ /\ ident[Claim(p)] # NoUser
          /\ Bind(p, ident[Claim(p)], Claim(p), NoProc)
          /\ UNCHANGED <<storeVars, evictor>>

\* A session or a code the store does not hold (any more) answers 401.
Unauthenticated(p) ==
    /\ Start(p, {"mint", "exchange"})
    /\ Fail(p)

-----------------------------------------------------------------------------
(* EraseIdentity (pg/erase.go).                                            *)

EraseFind(p) ==
    /\ Start(p, {"erase"}) \/ At(p, "erase_find")
    /\ \/ ident[Claim(p)] = NoUser /\ Fail(p)
       \/ /\ ident[Claim(p)] # NoUser
          /\ loc' = [loc EXCEPT ![p].user = ident[Claim(p)]]
          /\ Goto(p, "erase_lock")
          /\ UNCHANGED <<storeVars, evictor>>

EraseLock(p) ==
    /\ At(p, "erase_lock")
    /\ LockExclusive(p, User(p))
    /\ Goto(p, "erase_check")
    /\ UNCHANGED <<loc, evictor>>

\* eraseLocked's first statement; errMoved starts over, three times at most.
EraseCheck(p) ==
    LET owner == ident[Claim(p)] IN
    /\ At(p, "erase_check")
    /\ \/ owner = NoUser /\ Fail(p)
       \/ owner \notin {NoUser, User(p)} /\ loc[p].tries = 2 /\ Fail(p)
       \/ /\ owner \notin {NoUser, User(p)}
          /\ loc[p].tries < 2
          /\ loc' = [loc EXCEPT ![p].tries = @ + 1]
          /\ Goto(p, "erase_find")
          /\ Rollback(p)
          /\ UNCHANGED evictor
       \/ /\ owner = User(p)
          /\ Goto(p, "erase_delete")
          /\ UNCHANGED <<storeVars, loc, evictor>>

EraseDelete(p) ==
    /\ At(p, "erase_delete")
    /\ tx' = [tx EXCEPT ![p].gone = {Claim(p)}, ![p].dead = CredsOf(User(p))]
    /\ Goto(p, "erase_commit")
    /\ UNCHANGED <<tables, excl, shared, loc, evictor>>

CommitErase(p) ==
    /\ At(p, "erase_commit")
    /\ Publish(p)
    /\ Goto(p, "done")
    /\ UNCHANGED <<loc, evictor>>

-----------------------------------------------------------------------------
(* handleBackchannelLogout: find the account, then RevokeUser.             *)

LogoutFind(p) ==
    /\ Start(p, {"logout"})
    /\ \/ ident[Claim(p)] = NoUser /\ Fail(p)
       \/ /\ ident[Claim(p)] # NoUser
          /\ loc' = [loc EXCEPT ![p].user = ident[Claim(p)]]
          /\ Goto(p, "revoke")
          /\ UNCHANGED <<storeVars, evictor>>

RevokeUser(p) ==
    /\ At(p, "revoke")
    /\ sess' = {s \in sess : s.user # User(p)}
    /\ Goto(p, "done")
    /\ UNCHANGED <<users, ident, codes, excl, shared, tx, loc, evictor>>

-----------------------------------------------------------------------------

\* A session ends by logout, Revoke, expiry or the sweep: one unlocked DELETE.
EndSession ==
    /\ \E s \in sess : sess' = sess \ {s}
    /\ UNCHANGED <<users, ident, codes, excl, shared, tx, job, pc, loc, evictor>>

\* The request's context ends or a statement fails between two statements.
Abort(p) ==
    /\ pc[p] \notin {"start", "done"}
    /\ Fail(p)
    /\ UNCHANGED job

\* Some requests wait for each other: Postgres aborts one of them.
Waiting == {p \in Proc : WaitsFor(p) # {}}
DeadlockAmong(S) == S # {} /\ \A p \in S : WaitsFor(p) \cap S # {}
Victim(p) == (\E S \in SUBSET Waiting : p \in S /\ DeadlockAmong(S)) /\ Abort(p)

UpsertStep(p) ==
    \/ ResolveBySubject(p) \/ ResolveByEmail(p) \/ LockAccount(p) \/ Recheck(p)
    \/ InsertUser(p) \/ PurgeSnapshot(p) \/ Purge(p) \/ UpdateUser(p)
    \/ LinkIdentity(p) \/ CommitLogin(p)
SaveStep(p) == SaveLock(p) \/ SaveFederated(p) \/ Register(p) \/ SaveLocal(p)
CreateStep(p) ==
    \/ LockForCreate(p) \/ Vouch(p) \/ InsertCred(p)
    \/ MintToken(p) \/ ExchangeCode(p) \/ DeviceExchange(p) \/ Unauthenticated(p)
EraseStep(p) ==
    \/ EraseFind(p) \/ EraseLock(p) \/ EraseCheck(p) \/ EraseDelete(p) \/ CommitErase(p)
LogoutStep(p) == LogoutFind(p) \/ RevokeUser(p)

Step(p) ==
    /\ UpsertStep(p) \/ SaveStep(p) \/ CreateStep(p) \/ EraseStep(p) \/ LogoutStep(p)
    /\ UNCHANGED job

Finished == (\A p \in Proc : pc[p] = "done") /\ UNCHANGED vars

Next == (\E p \in Proc : Step(p) \/ Abort(p)) \/ EndSession \/ Finished

(* A goroutine runs its next statement when Postgres lets it, and          *)
(* Postgres's deadlock detector aborts a member of a cycle.                *)
Fairness == \A p \in Proc : WF_vars(Step(p)) /\ WF_vars(Victim(p))

Spec == Init /\ [][Next]_vars /\ Fairness
-----------------------------------------------------------------------------
(* Workloads w that some properties are about: pg breaks them for others,  *)
(* where a login comes back to its account or an owner is erased.          *)

SignsIn(w, p) == w[p].kind \in {"browser", "cli"}

\* Two subjects sign in with the one address.
Contested(w, e) ==
    \E p, q \in Proc : /\ SignsIn(w, p) /\ w[p].email = e
                       /\ SignsIn(w, q) /\ w[q].email = e /\ w[p].subj # w[q].subj

\* Two logins of one subject.
Again(w, p, q) == p # q /\ SignsIn(w, p) /\ SignsIn(w, q) /\ w[p].subj = w[q].subj

\* A subject that signs in twice where another claims its address proves it
\* each time, and nobody at that address is erased.
ReturnsProven(w) ==
    \A p, q \in Proc : Again(w, p, q) /\ Contested(w, w[p].email) =>
        /\ w[p].verified
        /\ \A r \in Proc : w[r].kind = "erase" => w[r].email # w[p].email

\* One that signs in three times proves its address each time or never.
ProvesAlike(w) ==
    \A p, q, r \in Proc : Again(w, p, q) /\ Again(w, p, r) /\ q # r => w[p].verified = w[q].verified

\* Nobody is erased whose address another subject claims.
NoneErased(w) == \A p \in Proc : w[p].kind = "erase" => ~Contested(w, w[p].email)

-----------------------------------------------------------------------------
(* Properties.                                                             *)

\* Every table row, lock and request record has the shape the schema and the
\* Go types give it (pg/pg.go Schema, pg/bound.go), and a request outside a
\* transaction holds no lock and has nothing uncommitted (withUserLock's and
\* UpsertFromOIDC's deferred rollback).
TypeOK ==
    /\ StoreTypeOK
    /\ pc \in [Proc -> Label]
    /\ loc \in [Proc -> Local_]
    /\ evictor \in [UserId -> SsoKey \cup {NoKey}]
    /\ \A p \in Proc : pc[p] \in Outside =>
          tx[p] = NoTx /\ \A u \in UserId : excl[u] # p /\ p \notin shared[u]

\* No session and no pending login code is left on an account that no longer
\* holds the identity it was minted under: whileBound's check, under the
\* shared lock, against the purge and EraseIdentity under the exclusive one.
VouchedCredentials == \A c \in sess \cup codes : ident[c.key] = c.user

\* A takeover or an erasure about to commit deletes every session and code
\* of the account that exists by then: no bound insert slips in behind its
\* DELETE ("a purge either sees the inserted row and deletes it or commits
\* first and makes the check fail").
Purging(p) == tx[p].purged \/ pc[p] = "erase_commit"
PurgeSeesAll ==
    \A p \in Proc : Purging(p) => CredsOf(User(p)) \subseteq tx[p].dead

\* Once a verified login has taken an unverified account over, nothing of the
\* former holder is left or comes back: the account's identities and
\* credentials are the owner's (UpsertFromOIDC's purge, a late Save, a late
\* session, code or token).
TakenOverIsClean ==
    \A u \in UserId : evictor[u] # NoKey =>
        /\ IdentitiesOf(u) \subseteq {evictor[u]}
        /\ \A c \in CredsOf(u) : c.key = evictor[u]

\* Two subjects of the issuer never share an account: the email fallback
\* locks the account before it looks for an identity.
OneSubjectPerAccount ==
    \A j, k \in SsoKey : ident[j] # NoUser /\ ident[j] = ident[k] => j = k

\* An identity is never re-pointed from one account to another: racing first
\* logins of one subject resolve to one account (insertUser's ON CONFLICT).
IdentityNeverMoves ==
    [][\A k \in Key : ident[k] # NoUser => ident'[k] \in {NoUser, ident[k]}]_vars

\* A purge never commits on an account whose address somebody has proved
\* meanwhile (byVerifiedEmail's re-read under the lock).
VerifiedNeverPurged ==
    [][\A p \in Proc : pc[p] = "commit" /\ pc'[p] = "save_lock" /\ tx[p].purged
          => ~users[User(p)].verified]_vars

\* No set of requests waits for each other in Postgres: "every writer takes
\* it before touching a row, so the writers cannot deadlock on each other".
NoDeadlock == \A S \in SUBSET Waiting : ~DeadlockAmong(S)

\* Every request ends, whatever it waited for.
EveryRequestEnds == <>(\A p \in Proc : pc[p] = "done")

\* A named token is stored only if the session that issued it still exists,
\* atomically with the check (the contract of SessionStore.Create).
TokenOfALiveSession ==
    [][\A c \in sess' \ sess :
          Kind(c.id) = "mint" => \E s \in sess : s.id = c.from]_vars
=============================================================================
