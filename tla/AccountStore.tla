---------------------------- MODULE AccountStore ----------------------------
(***************************************************************************)
(* The account tables of porte/pg as Postgres keeps them for concurrent    *)
(* READ COMMITTED transactions: porte_users, porte_identities,             *)
(* porte_sessions and porte_login_codes, the advisory lock porte keys on   *)
(* one account (pg/bound.go), and the row locks an uncommitted write       *)
(* holds.  A statement reads the committed tables; what it writes stays in *)
(* tx[p] until p commits.  Accounts.tla runs porte's operations on top.    *)
(***************************************************************************)
EXTENDS Naturals, FiniteSets

CONSTANTS Proc,      \* the requests, each running in a goroutine of its own
          Subject,   \* subjects of the one OIDC issuer
          Email,     \* normalised addresses
          MaxUser,   \* bound on the account ids bigserial hands out
          NoEmail,   \* the address of an account id that has no row
          NoProc     \* nobody: an advisory lock that is free, no parent

ASSUME StoreAssumption ==
    /\ MaxUser \in Nat
    /\ NoEmail \notin Email
    /\ NoProc \notin Proc

NoUser == 0
UserId == 1..MaxUser
MaybeUser == UserId \cup {NoUser}

(* The primary key of porte_identities, (provider, subject): the issuer's  *)
(* subjects, and "local" with the account id (porte.LocalSubject).         *)
Sso(s) == <<"sso", s>>
Local(u) == <<"local", u>>
SsoKey == {Sso(s) : s \in Subject}
Key == SsoKey \cup {Local(u) : u \in UserId}
NoKey == <<"none", NoUser>>

(* A stored credential: the row's id, its account, the identity whose      *)
(* holder minted it (what the insert was bound to; the tables do not store *)
(* it for a session), and the session or code it was minted from.          *)
Cred == [id : Proc, user : UserId, key : Key, from : Proc \cup {NoProc}]
NoCred == [id |-> NoProc, user |-> NoUser, key |-> NoKey, from |-> NoProc]

VARIABLES
    users,   \* porte_users: id -> [email, verified]
    ident,   \* porte_identities: key -> account, NoUser when there is no row
    sess,    \* porte_sessions
    codes,   \* porte_login_codes not consumed yet
    excl,    \* who holds an account's advisory lock exclusively
    shared,  \* who holds it shared
    tx       \* the uncommitted writes of each request's transaction

storeVars == <<users, ident, sess, codes, excl, shared, tx>>
tables == <<users, ident, sess, codes>>

NoRow == [email |-> NoEmail, verified |-> FALSE]
UserRow == [email : Email \cup {NoEmail}, verified : BOOLEAN]

(* row/data: the account row inserted or updated; key/to: the identity     *)
(* linked; gone, dead: the identity and credential rows deleted; purged:   *)
(* whether those deletes are a takeover's purge.                           *)
Tx == [row : MaybeUser, data : UserRow, key : Key \cup {NoKey}, to : MaybeUser,
       gone : SUBSET Key, dead : SUBSET Cred, purged : BOOLEAN]
NoTx == [row |-> NoUser, data |-> NoRow, key |-> NoKey, to |-> NoUser,
         gone |-> {}, dead |-> {}, purged |-> FALSE]

StoreTypeOK ==
    /\ users \in [UserId -> UserRow]
    /\ ident \in [Key -> MaybeUser]
    /\ sess \subseteq Cred
    /\ codes \subseteq Cred
    /\ excl \in [UserId -> Proc \cup {NoProc}]
    /\ shared \in [UserId -> SUBSET Proc]
    /\ tx \in [Proc -> Tx]

StoreInit ==
    /\ users = [u \in UserId |-> NoRow]
    /\ ident = [k \in Key |-> NoUser]
    /\ sess = {}
    /\ codes = {}
    /\ excl = [u \in UserId |-> NoProc]
    /\ shared = [u \in UserId |-> {}]
    /\ tx = [p \in Proc |-> NoTx]

-----------------------------------------------------------------------------
(* Committed reads.                                                        *)

Exists(u) == users[u].email # NoEmail

\* SELECT id FROM porte_users WHERE email = e; email is unique.
Holders(e) == {u \in UserId : users[u].email = e}

\* Mutant: the check for another identity of the issuer is dropped.
Linked_Never(u) == FALSE

\* Does account u hold an identity of the issuer?
Linked(u) == \E k \in SsoKey : ident[k] = u

IdentitiesOf(u) == {k \in Key : ident[k] = u}

\* Mutant: a purge that forgets the login codes.
CredsOf_Sessions(u) == {c \in sess : c.user = u}

CredsOf(u) == {c \in sess \cup codes : c.user = u}

-----------------------------------------------------------------------------
(* Who a statement of p has to wait for.  An advisory request waits for    *)
(* the conflicting holders; a write waits for an uncommitted write of the  *)
(* same row; an insert or an update of a unique email waits for any        *)
(* uncommitted row version, old or new, that carries the address.          *)

\* Mutant: the exclusive lock is not excluded by the shared one.
AdvisoryHolders_IgnoresShared(p, u, mode) == {excl[u]} \ {p, NoProc}

AdvisoryHolders(p, u, mode) ==
    ({excl[u]} \cup (IF mode = "exclusive" THEN shared[u] ELSE {})) \ {p, NoProc}

KeyHolders(p, keys) == {q \in Proc \ {p} : (tx[q].gone \cup {tx[q].key}) \cap keys # {}}

RowHolders(p, u) == {q \in Proc \ {p} : tx[q].row = u}

\* Mutant: an insert that does not wait for a racing insert of the address.
EmailHolders_None(p, e) == {}

EmailHolders(p, e) ==
    {q \in Proc \ {p} : tx[q].row # NoUser /\ e \in {tx[q].data.email, users[tx[q].row].email}}

\* The foreign key's KEY SHARE lock waits for an uncommitted change of the
\* unique email of an existing row, and for nothing else.
KeyChangers(p, u) ==
    {q \in Proc \ {p} : tx[q].row = u /\ users[u].email \notin {NoEmail, tx[q].data.email}}

CredHolders(p, c) == {q \in Proc \ {p} : c \in tx[q].dead}

-----------------------------------------------------------------------------
(* Transaction ends.  Both release every lock p took.                      *)

ReleaseLocks(p) ==
    /\ excl' = [u \in UserId |-> IF excl[u] = p THEN NoProc ELSE excl[u]]
    /\ shared' = [u \in UserId |-> shared[u] \ {p}]

Publish(p) ==
    /\ users' = IF tx[p].row = NoUser THEN users
                ELSE [users EXCEPT ![tx[p].row] = tx[p].data]
    /\ ident' = [k \in Key |-> IF k = tx[p].key THEN tx[p].to
                               ELSE IF k \in tx[p].gone THEN NoUser ELSE ident[k]]
    /\ sess' = sess \ tx[p].dead
    /\ codes' = codes \ tx[p].dead
    /\ tx' = [tx EXCEPT ![p] = NoTx]
    /\ ReleaseLocks(p)

\* Mutant: the deferred rollback is missing on an error path.
Rollback_KeepsLocks(p) ==
    /\ tx' = [tx EXCEPT ![p] = NoTx]
    /\ UNCHANGED <<users, ident, sess, codes, excl, shared>>

Rollback(p) ==
    /\ tx' = [tx EXCEPT ![p] = NoTx]
    /\ ReleaseLocks(p)
    /\ UNCHANGED tables

LockExclusive(p, u) ==
    /\ excl' = [excl EXCEPT ![u] = p]
    /\ UNCHANGED <<users, ident, sess, codes, shared, tx>>

LockShared(p, u) ==
    /\ shared' = [shared EXCEPT ![u] = @ \cup {p}]
    /\ UNCHANGED <<users, ident, sess, codes, excl, tx>>
=============================================================================
