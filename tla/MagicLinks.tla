----------------------------- MODULE MagicLinks -----------------------------
(***************************************************************************)
(* Passwordless sign-in: porte/magiclink's Request and Consume over        *)
(* pg.MagicLinkStore.  A request looks the account up, counts the links of *)
(* the rate window, stores a link in one transaction under two advisory    *)
(* locks, and mails it from a goroutine; a consumer spends a mailed link   *)
(* and signs in; an eraser is a purge or EraseIdentity deleting the        *)
(* account's links; the sweeper is DeleteExpired with the cutoff the       *)
(* contract names.  One step is one SQL statement.                         *)
(*                                                                         *)
(* The advisory locks a request or an eraser holds follow from its pc.     *)
(***************************************************************************)
EXTENDS Naturals, FiniteSets

CONSTANTS Link,         \* the requests; each makes at most the link of its name
          Consumer,     \* requests that present a token
          Eraser,       \* purges and erasures
          Account,      \* the account behind each request's address
          Source,       \* the address each request came from
          Erased,       \* the account each eraser works on
          NoUser,       \* no eligible account: Deps.FindUser's ErrNotFound
          NoIP,         \* a request whose address nobody could tell
          MaxPerEmail, MaxPerIP,    \* Config's caps
          TTL, Window,  \* how long a link lives; MagicLinkRateWindow
          MaxTime       \* bound on the clock

ASSUME LinkAssumption ==
    /\ TTL \in Nat /\ Window \in Nat /\ MaxTime \in Nat
    /\ MaxPerEmail \in Nat /\ MaxPerIP \in Nat
    /\ Link \cap Consumer = {} /\ Link \cap Eraser = {} /\ Consumer \cap Eraser = {}

VARIABLES
    rows,      \* porte_magic_links as committed
    created,   \* created_at; expires_at is TTL later
    pc,        \* where each request, consumer and eraser is
    now,       \* the clock as it read it (Kit.now)
    over,      \* a request's answer from withinLimits so far
    pending,   \* a transaction's uncommitted update or delete of these rows
    token,     \* the link a consumer presents
    mailed,    \* the links Send delivered
    sessions,  \* sessions issued: the consumer and the link it spent
    clock,
    swept,     \* history: the rows DeleteExpired removed
    begun      \* history: the links issued in the window when a request began

tables == <<rows, created>>
history == <<swept, begun>>
vars == <<rows, created, pc, now, over, pending, token, mailed, sessions, clock, swept, begun>>

Proc == Link \cup Consumer \cup Eraser
Time == 0..MaxTime
NoLink == "no link"

Label == {"start", "count_user", "count_ip", "lock_user", "lock_link", "supersede",
          "insert", "send", "consume", "allow", "delete", "commit", "done"}

Init ==
    /\ rows = [l \in Link |-> "none"]
    /\ created = [l \in Link |-> 0]
    /\ pc = [p \in Proc |-> "start"]
    /\ now = [p \in Proc |-> 0]
    /\ over = [l \in Link |-> FALSE]
    /\ pending = [p \in Link \cup Eraser |-> {}]
    /\ token = [c \in Consumer |-> NoLink]
    /\ mailed = {}
    /\ sessions = {}
    /\ clock = 0
    /\ swept = {}
    /\ begun = [l \in Link |-> {}]

At(p, label) == pc[p] = label
Goto(p, label) == pc' = [pc EXCEPT ![p] = label]

Stored == {l \in Link : rows[l] \in {"live", "ended"}}
StoredFor(u) == {l \in Stored : Account[l] = u}

\* Rows some uncommitted statement holds locked.
Locked == UNION {pending[p] : p \in Link \cup Eraser}

-----------------------------------------------------------------------------
(* Request.                                                                *)

\* lookup, and the clock withinLimits and the link use.
Lookup(r) ==
    /\ At(r, "start")
    /\ now' = [now EXCEPT ![r] = clock]
    /\ begun' = [begun EXCEPT ![r] =
                   {l \in Stored \cup swept : Account[l] = Account[r]
                                              /\ created[l] + Window >= clock}]
    /\ Goto(r, "count_user")
    /\ UNCHANGED <<tables, over, pending, token, mailed, sessions, clock, swept>>

\* CountSince: rows created at or after since, spent or not.
CountSince(S, r) == Cardinality({l \in S : created[l] + Window >= now[r]})

\* A zero key matches nothing.
CountUser(r) ==
    /\ At(r, "count_user")
    /\ over' = [over EXCEPT ![r] =
                  /\ Account[r] # NoUser
                  /\ CountSince(StoredFor(Account[r]), r) >= MaxPerEmail]
    /\ Goto(r, "count_ip")
    /\ UNCHANGED <<tables, now, pending, token, mailed, sessions, clock, history>>

\* An unknown address and a request over a limit end here, without a word.
CountIP(r) ==
    LET same == {l \in Stored : Source[l] = Source[r] /\ Source[r] # NoIP}
        full == over[r] \/ CountSince(same, r) >= MaxPerIP IN
    /\ At(r, "count_ip")
    /\ Goto(r, IF full \/ Account[r] = NoUser THEN "done" ELSE "lock_user")
    /\ UNCHANGED <<tables, now, over, pending, token, mailed, sessions, clock, history>>

-----------------------------------------------------------------------------
(* MagicLinkStore.Create: one transaction.                                 *)

UserLocked(u) == \E e \in Eraser : Erased[e] = u /\ pc[e] \in {"delete", "commit"}

\* Mutant: the magic-link lock taken in shared mode.
LinkLocked_Shared(u) == FALSE

LinkLocked(u) == \E r \in Link : Account[r] = u /\ pc[r] \in {"supersede", "insert"}

LockUser(r) ==
    /\ At(r, "lock_user")
    /\ ~UserLocked(Account[r])
    /\ Goto(r, "lock_link")
    /\ UNCHANGED <<tables, now, over, pending, token, mailed, sessions, clock, history>>

LockLink(r) ==
    /\ At(r, "lock_link")
    /\ ~LinkLocked(Account[r])
    /\ Goto(r, "supersede")
    /\ UNCHANGED <<tables, now, over, pending, token, mailed, sessions, clock, history>>

\* The UPDATE that ends the account's live links.
Supersede(r) ==
    LET live == {l \in Link : Account[l] = Account[r] /\ rows[l] = "live"} IN
    /\ At(r, "supersede")
    /\ live \cap Locked = {}
    /\ pending' = [pending EXCEPT ![r] = live]
    /\ Goto(r, "insert")
    /\ UNCHANGED <<tables, now, over, token, mailed, sessions, clock, history>>

\* INSERT and COMMIT.
InsertLink(r) ==
    /\ At(r, "insert")
    /\ rows' = [l \in Link |-> IF l = r THEN "live"
                               ELSE IF l \in pending[r] THEN "ended" ELSE rows[l]]
    /\ created' = [created EXCEPT ![r] = now[r]]
    /\ pending' = [pending EXCEPT ![r] = {}]
    /\ Goto(r, "send")
    /\ UNCHANGED <<now, over, token, mailed, sessions, clock, history>>

\* deliver's goroutine: Send delivers, or fails, times out or panics.
Deliver(r) ==
    /\ At(r, "send")
    /\ mailed' \in {mailed, mailed \cup {r}}
    /\ Goto(r, "done")
    /\ UNCHANGED <<tables, now, over, pending, token, sessions, clock, history>>

-----------------------------------------------------------------------------
(* Consume.                                                                *)

Present(c) ==
    /\ At(c, "start")
    /\ \E l \in mailed : token' = [token EXCEPT ![c] = l]
    /\ now' = [now EXCEPT ![c] = clock]
    /\ Goto(c, "consume")
    /\ UNCHANGED <<tables, over, pending, mailed, sessions, clock, history>>

\* Mutant: the UPDATE without consumed_at IS NULL.
Usable_Spent(l, c) == rows[l] \in {"live", "ended"} /\ created[l] + TTL > now[c]

Usable(l, c) == rows[l] = "live" /\ created[l] + TTL > now[c]

\* One conditional UPDATE, which waits for a row that is being written.
Consume(c) ==
    LET l == token[c] IN
    /\ At(c, "consume")
    /\ l \notin Locked
    /\ \/ ~Usable(l, c) /\ Goto(c, "done") /\ UNCHANGED rows
       \/ /\ Usable(l, c)
          /\ rows' = [rows EXCEPT ![l] = "ended"]
          /\ Goto(c, "allow")
    /\ UNCHANGED <<created, now, over, pending, token, mailed, sessions, clock, history>>

\* Deps.Allow refuses, or IssueCookie stores the session, or it fails.
SignIn(c) ==
    /\ At(c, "allow")
    /\ sessions' \in {sessions, sessions \cup {<<c, token[c]>>}}
    /\ Goto(c, "done")
    /\ UNCHANGED <<tables, now, over, pending, token, mailed, clock, history>>

-----------------------------------------------------------------------------
(* A purge or EraseIdentity, for the account's links.                      *)

\* Mutant: the eraser does not wait for requests that hold the lock shared.
CreatingFor_None(u) == {}

CreatingFor(u) ==
    {r \in Link : Account[r] = u /\ pc[r] \in {"lock_link", "supersede", "insert"}}

EraserLock(e) ==
    /\ At(e, "start")
    /\ CreatingFor(Erased[e]) = {} /\ ~UserLocked(Erased[e])
    /\ Goto(e, "delete")
    /\ UNCHANGED <<tables, now, over, pending, token, mailed, sessions, clock, history>>

EraserDelete(e) ==
    /\ At(e, "delete")
    /\ StoredFor(Erased[e]) \cap Locked = {}
    /\ pending' = [pending EXCEPT ![e] = StoredFor(Erased[e])]
    /\ Goto(e, "commit")
    /\ UNCHANGED <<tables, now, over, token, mailed, sessions, clock, history>>

EraserCommit(e) ==
    /\ At(e, "commit")
    /\ rows' = [l \in Link |-> IF l \in pending[e] THEN "deleted" ELSE rows[l]]
    /\ pending' = [pending EXCEPT ![e] = {}]
    /\ Goto(e, "done")
    /\ UNCHANGED <<created, now, over, token, mailed, sessions, clock, history>>

-----------------------------------------------------------------------------

\* Mutant: sweeping every expired link, not the ones older than the window.
Sweepable_Expired == {l \in Stored : created[l] + TTL < clock}

\* DeleteExpired(now - MagicLinkRateWindow).
Sweepable == {l \in Stored : created[l] + TTL + Window < clock}

Sweep ==
    /\ Sweepable # {} /\ Sweepable \cap Locked = {}
    /\ rows' = [l \in Link |-> IF l \in Sweepable THEN "deleted" ELSE rows[l]]
    /\ swept' = swept \cup Sweepable
    /\ UNCHANGED <<created, pc, now, over, pending, token, mailed, sessions, clock, begun>>

\* Mutant: the deferred rollback is missing, so the rows stay locked.
Abort_KeepsRows(p) ==
    /\ pc[p] \in {"lock_user", "lock_link", "supersede", "insert", "delete", "commit"}
    /\ Goto(p, "done")
    /\ UNCHANGED <<tables, now, over, pending, token, mailed, sessions, clock, history>>

\* A transaction fails: its rollback leaves nothing.
Abort(p) ==
    /\ pc[p] \in {"lock_user", "lock_link", "supersede", "insert", "delete", "commit"}
    /\ pending' = [pending EXCEPT ![p] = {}]
    /\ Goto(p, "done")
    /\ UNCHANGED <<tables, now, over, token, mailed, sessions, clock, history>>

\* Time passes; a request does not take a link's lifetime to count.
Tick ==
    /\ clock < MaxTime
    /\ \A r \in Link : pc[r] \in {"count_user", "count_ip"} => clock < now[r] + TTL
    /\ clock' = clock + 1
    /\ UNCHANGED <<tables, pc, now, over, pending, token, mailed, sessions, history>>

RequestStep(r) ==
    \/ Lookup(r) \/ CountUser(r) \/ CountIP(r) \/ LockUser(r) \/ LockLink(r)
    \/ Supersede(r) \/ InsertLink(r) \/ Deliver(r)
ConsumerStep(c) == Present(c) \/ Consume(c) \/ SignIn(c)
EraserStep(e) == EraserLock(e) \/ EraserDelete(e) \/ EraserCommit(e)

\* A consumer that never presents a token is never there.
Finished ==
    /\ \A p \in Link \cup Eraser : At(p, "done")
    /\ \A c \in Consumer : At(c, "done") \/ At(c, "start")
    /\ UNCHANGED vars

Next ==
    \/ \E r \in Link : RequestStep(r)
    \/ \E c \in Consumer : ConsumerStep(c)
    \/ \E e \in Eraser : EraserStep(e)
    \/ \E p \in Link \cup Eraser : Abort(p)
    \/ Sweep \/ Tick \/ Finished

(* The server runs each request to its end; nobody has to use a link.      *)
Fairness ==
    /\ \A r \in Link : WF_vars(RequestStep(r))
    /\ \A c \in Consumer : WF_vars(Consume(c) \/ SignIn(c))
    /\ \A e \in Eraser : WF_vars(EraserStep(e))

Spec == Init /\ [][Next]_vars /\ Fairness
-----------------------------------------------------------------------------
(* Properties.                                                             *)

\* Each variable has the shape the table and the Go types give it, and only
\* a transaction past its first write has rows pending (MagicLinkStore.Create's
\* deferred rollback).
TypeOK ==
    /\ rows \in [Link -> {"none", "live", "ended", "deleted"}]
    /\ created \in [Link -> Time]
    /\ pc \in [Proc -> Label]
    /\ now \in [Proc -> Time]
    /\ over \in [Link -> BOOLEAN]
    /\ pending \in [Link \cup Eraser -> SUBSET Link]
    /\ token \in [Consumer -> Link \cup {NoLink}]
    /\ mailed \subseteq Link
    /\ sessions \subseteq Consumer \X Link
    /\ clock \in Time
    /\ swept \subseteq Link
    /\ begun \in [Link -> SUBSET Link]
    /\ \A p \in Link \cup Eraser : pc[p] \notin {"insert", "commit"} => pending[p] = {}

\* An account never has two live links: Create's supersede and insert, under
\* the magic-link lock ("two live links where the contract promises one").
OneLiveLink ==
    \A j, k \in Link :
        rows[j] = "live" /\ rows[k] = "live" /\ Account[j] = Account[k] => j = k

\* The transaction of pg.MagicLinkStore.Create, its conditional UPDATE and the
\* deletes implement the store contract of magiclink.go, step by step.
Contract == INSTANCE MagicLinkStore WITH Link <- Link, Account <- Account, rows <- rows
KeepsContract == Contract!StoreSpec

\* A link signs in once, however many requests present it at once: Consume
\* is one conditional UPDATE.
SpentOnce ==
    \A s, t \in sessions : s[2] = t[2] => s = t

\* A purge or an erasure about to commit deletes every link of the account
\* stored by then: "a purge either deletes the link or commits first".
EraserSeesAll ==
    \A e \in Eraser : At(e, "commit") => StoredFor(Erased[e]) \subseteq pending[e]

\* A request that begins when its account is at the cap issues nothing: a
\* sweep with the contract's cutoff "keeps everything the limits still need",
\* and a superseded or spent link still counts.  An erased link does not.
FullWindowIssuesNothing ==
    \A r \in Stored : Cardinality(begun[r] \cap (Stored \cup swept)) < MaxPerEmail

\* Every request and every erasure comes to its end, and so does a consumer
\* that has presented a token, whatever locks they had to wait for.
AllEnd ==
    /\ \A p \in Link \cup Eraser : <>(At(p, "done"))
    /\ \A c \in Consumer : At(c, "consume") ~> At(c, "done")
=============================================================================
