# porte: a TLA+ verification project

porte is a Go authentication kit: an application mounts its kits (OIDC, passwords, magic links, API
keys), hands them stores, usually those of `porte/pg` over PostgreSQL, and gets sign-in, sessions,
account linking and erasure. Most of what can go wrong in it is not in one function but between two:
requests that interleave statement by statement in Postgres, a row read before its lock and used
after it, a poller and a push that handle the same person, a process that stops between a callback
and a save. This directory models those parts, checks them with TLC on small instances and proves
the main results with TLAPS for every value of the constants.

## Inventory

Each component with its state, its operations, what is hard about it, and what makes it correct.

| Component | State | Operations | Hard part | Correct when |
|---|---|---|---|---|
| Account store (`pg`: linking, takeover, bound, erase, pg) | `porte_users`, `porte_identities`, `porte_sessions`, `porte_login_codes`, advisory locks per account | UpsertFromOIDC, Save, bound Create, Consume, EraseIdentity, session deletes | READ COMMITTED interleavings, row locks against advisory locks, an unlocked by-subject match, retries | a credential lives only on an account that still holds the identity it was minted under; a takeover leaves nothing of the former holder; two subjects never share an account; nobody waits in a cycle |
| Magic links (`magiclink`, `pg.MagicLinkStore`) | `porte_magic_links`, two advisory locks | Request, deliver, Consume, DeleteExpired, purge | racing requests and consumers, rate limit counted in another statement, sweeper deleting what is counted | one live link per account, a link signs in once, an erasure deletes all of them |
| Session manager (`session`) | session rows, the browser's cookie | IssueFor, bindToCaller, Authenticate, Touch, Clear, Revoke, RevokeLogins, RevokeUser, Sweep | a use recorded after a revocation, an idle window that depends on the transport and on a lagging stamp, logout behind Optional | a session that ended authenticates nobody again; the idle window is the configured one, on cookies only; another site's request ends nothing |
| OIDC kit (`oidc`) | flow cookie, login codes, identity tokens and roles | login, callback, exchange, device exchange, back-channel logout, SyncProfile, role refresh | replays and reloads; one browser's callback in another; rows read before a network call and saved after it | one sign-in yields one session, where it began; the refresh token kept is one the provider still takes |
| Password kit (`local`) | password identity | Register, Login, Verify, SetPassword, ChangePassword | statements of two calls interleave, a write fails after an earlier one | a change that answers success has ended the logins it found |
| API keys (`keys`, `pg.KeyStore`) | keys, usage per day | create, revoke, Authenticate, quota | check and record in two statements, across midnight | the quota is passed by the requests in flight at most |
| Deletion receiver (`directory.Deletions`) | cursor and handled subjects, in memory and stored | Poll, Run, Handler | late commits, pages, partial failure, failed saves, crashes, push and poll | nobody listed is skipped; nobody stored as handled is called again |
| Directory syncer (`directory.Syncer`) | nudge channel, last applied version | Nudge, Run, Sync | collapsing nudges, overlapping pulls, failures, restarts | what is shown follows Registre forwards only, and catches up |
| Entitlements (`forfait`) | version, revision, values per scope | Apply, Import, Export, Reset, Check | reordered snapshots, a restore, import at boot, ends of int64 | saved entitlements never go back except by Reset; the current ones arrive; Check is exact |
| Key caches (`oidc/jwt`, `directory/keys`) | keys by kid, time of last fetch, refetch slot | lookup, refetch | refetch limits against rotation, outages | a new key is refused for a gap at most; a retired one not for longer than a lifetime |
| CLI sign-in (`loopback`, `devicelogin`) | one-slot channel, polling schedule | Listen, LoginURL, WaitForCode; Poll, Exchange | a port taken over, second callbacks, cumulative slow_down, lost answers | a terminal gets the code of its own login; polls keep the distance asked for |
| Spaces (`spaces`) | the application's memberships | Resolve, CanLeave, AssignableBy, AssignableOver | a Scope older than the row it is used on; check and delete | nobody below the top changes who is there; whoever leaves leaves somebody there |
| Sealing (`pg/sealer`, `pg/reseal`) | the key each token is sealed with | Seal, Open, ResealIdentities, a rotation of the key | a Save beside a reseal, a reseal that fails halfway | a concurrent Save wins; no token becomes unreadable |
| Avatars, handoff pages, shared types | files, none, none | I/O, rendering, normalisation | none shared between requests | out of scope |

Who talks to whom: the OIDC and password kits write accounts through the account store and mint
sessions through the session manager, which stores them through the bound `Create` of the account
store; magic links share the account's advisory lock with takeovers and erasures; the deletion
receiver calls `EraseIdentity`. The OIDC kit's `Attach` runs behind the session manager's
`Authenticate` and saves tokens and roles through the same `Save` that logins, profile syncs and the
sealer's reseal race for. A terminal starts a login with `loopback`, whose code the OIDC kit's
callback redirects to it, or with `devicelogin`, whose token the OIDC kit's device exchange trades.
Registre nudges the syncer, whose pull calls the application's `Apply`, which feeds `forfait.Store`.
Notices, nudges and bearer tokens are verified with the key caches.

## Modules

| Module | What it is |
|---|---|
| `AccountStore` | The tables, the advisory lock and the row locks as concurrent transactions see them: what is committed, what each open transaction `tx[p]` has written, what a statement waits for, commit and rollback. |
| `Accounts` | porte's operations over it: one request per process, `pc` names the next SQL statement, `loc` is what the Go code holds in memory. |
| `AccountsProofs` | Type correctness and completeness of purges, for any workload; no credential outlives its identity and no identity moves, while subjects keep their addresses. |
| `TakeoverProofs` | What a login may do to the account it resolves: takeovers, shared accounts and deadlocks, extending `AccountsProofs`. |
| `MCAccounts` | The mixes of requests that the runs put together. |
| `MagicLinkStore` | Abstract specification: the contract of `magiclink.go` as atomic operations. |
| `MagicLinks` | `magiclink.Kit` over `pg.MagicLinkStore`, one SQL statement a step. |
| `MagicLinksProofs` | One live link, complete erasure, the refinement of `MagicLinkStore`, links spent once, the caps. |
| `MCMagicLinks` | Accounts, sources and requests for its runs. |
| `Deletions` | `directory.Deletions` with Registre, the state store and the clock around it. |
| `DeletionsProofs` | Nobody is skipped and nobody is called again, when polls are short. |
| `MCDeletions` | The people of its runs. |
| `Sessions` | Authenticate and the handlers behind it, over the session rows and one browser's cookie. |
| `Passwords` | `local.Kit`'s calls, extending `Sessions`. |
| `SessionsProofs` | Ended sessions, the idle window, forged requests and password changes, for the two modules above. |
| `OidcFlow` | The login flow on the server: flow cookie, callback, login codes, exchange. |
| `Loopback` | Terminals that wait on a loopback port, extending `OidcFlow`. |
| `OidcFlowProofs` | One session per sign-in, where it began, for the two modules above. |
| `MCSignIn` | The four models above, composed, with their workloads. |
| `Tokens` | Provider tokens and roles: refresh, profile sync, login, reseals, key rotation. |
| `Entitlements` | What `forfait.Store` does with a snapshot, a document and a question, as operators. |
| `Mirror` | Abstract specification: what an application may show of the directory. |
| `Syncer` | `directory.Syncer`, the application's Apply and the Store it feeds, extending `Entitlements`; implements `Mirror`. |
| `SyncerProofs` | What is shown and what is saved move forwards only, no nudge is lost, values survive. |
| `DeviceLogin` | The device grant, from the CLI's probe to the application's device exchange. |
| `ApiKeys` | Look-up, quota check and usage record of API keys. |
| `KeyCaches` | Both caches of signing keys, and the provider that rotates them. |
| `Spaces` | The ladder and the guard, and an application that uses them as guard.go asks. |
| `ServicesProofs` | Theorems about device polls, quotas, key caches, spaces and tokens, each module's own. |
| `MCServices` | The models from `Tokens` on, composed, with their workloads. |

### Accounts and AccountStore

A login is `ResolveBySubject`, `ResolveByEmail`, `LockAccount`, `Recheck`, then `InsertUser`, or
`PurgeSnapshot` and `Purge`, then `UpdateUser`, `LinkIdentity`, `CommitLogin` (one transaction, as in
`UpsertFromOIDC`), then Save's own transaction (`SaveLock`, `SaveFederated`), then the bound insert of
a session or a login code (`LockForCreate`, `Vouch`, `InsertCred`). A registration inserts a user and
saves a password identity; `MintToken`, `ExchangeCode` and `DeviceExchange` start from a session, a code
or a provider's answer; `Erase*` is `EraseIdentity` with its two retries; `Logout*` and `EndSession`
are the deletes that take no lock. `Abort` is a dropped connection or a failed statement anywhere.

A statement reads the committed tables and its own transaction's writes, and waits while another open
transaction holds what it needs (`WaitsFor`); `Victim` is Postgres's deadlock detector. A purge is two
steps, its DELETE's snapshot and its effect, since that gap is where an insert could slip in.

Abstracted: token, role and profile columns; passwords and token hashes (a credential is named by the
request that minted it); expiry of sessions and codes (`EndSession` may remove any session at any time);
the order of Postgres's lock queues; waits of the unlocked session deletes for session rows; FOR KEY
SHARE locks of the foreign keys, kept only where an address changes; several issuers (one); a kit's
`Wait` for background work. Magic-link rows live in `MagicLinks` alone, where an eraser stands for
purges and erasures. A subject is never a local key, and `MaxUser` bounds the ids handed out.

### MagicLinks

A request looks its account up, counts the links of the window per account and per address, then in one
transaction takes the user's lock shared and the link lock exclusively, ends live links and inserts its
own, and mails it afterwards. A consumer spends a mailed link by one conditional UPDATE, then signs in.
The sweeper deletes what is older than the later of expiry and window. The clock is capped by `MaxTime`
and a request reads it when it counts. Tokens are the links' names. Address normalisation and the HTTP
answers are left out: the answer is the same on every path.

### Deletions

`d.mu` is held for a whole poll or push, so the receiver is one process: `BeginPoll`, `ListPage`, one
`Handle` per person, `SavePage`, `MoveCursor`, `SaveCursor`; `Push`, `SavePush`. Every call can fail
(`Fault`), a failed save may have been stored all the same, and `Crash` happens anywhere. Because the
receiver is the only writer of its state ("run exactly one replica's Run"), dropping the copy in memory
is modelled as `mem' = disk'`. Registre is the environment: `Stamp` gives an erasure its time, `List`
shows it up to `CommitDelay` later. One instant is a microsecond, the step of `nextPage`. Registre never
stamps `Limit` people in one instant, the case `errSameInstant` and the documentation exclude. A push is
a notice that verified; cryptography is left out, and an unverified notice changes nothing.

### Sessions and Passwords

A request is `Present`, `Find`, `Check`, then `Drop` or `Touch`, as in `Authenticate`; `Refuse` is what
`RequireAuth` or `Optional` makes of a refusal; `Serve` runs the handler it was for: `Mint`, `Revoke`,
`RevokeLogins`, `RevokeUser`, `Logout`. Each statement may fail where the code goes on after an error.
The cookie (`jar`) and a bearer are told apart, since the CSRF check and the idle window apply to one of
them. A call of the password kit is `Begin`, `Read`, `Save`, `EndLogins`, `Rotate`, `IssueLogin`.
A token, its hash and its id are one name, a password and its hash too; the clock counts in units of the
touch interval. The bound insert of a session appears only as its check (`Mint` and `IssueLogin` store
only while the parent or the identity is there), since `Accounts` has its two statements.

### OidcFlow and Loopback

A flow stands for its state, nonce and verifier, the authorization code the provider grants it and the
login code it may end in. `Callback`, `CompleteFlow`, `Persist` and `IssueCookie` or `IssueCode` are
`handleCallback` between its calls; `Exchange`, `Consume` and `Issue` are `handleExchange`. A response
reaches the browser when the handler ends, so `Answer` clears whatever flow cookie the browser has by
then. Terminals share one port, the worst case of a kernel that hands out a port again: `Listen` needs it
closed, and `Arrive` brings a redirect to whoever listens, `TakeCode` and `GiveUp` race as the `select`
lets them. `MCSignIn` composes these four modules; they meet only where a sign-in issues a session, so a
behaviour is about the sessions or about the flows, chosen at first.

### Tokens

A token set is a number in the order the provider made them, its refresh token good until traded in.
`Load` reads the row, with tokens that no key of the ring opens read as absent; `Reuse` and `Trade` are
what oauth2's token source does; then come `Claims` (`refreshRoles`), or `UserInfo`, `Upsert` and `Clear`
(`SyncProfile`), and `Save` of the whole row, or `Mark` of one column. `ResealRead` and `ResealRow` are
`ResealIdentities` batch by batch; `Deploy` restarts the process with the next ring of keys, in the order
`sealer.go` prescribes, and only a finished reseal lets a key be dropped.

### Entitlements, Syncer and Mirror

`Entitlements` has what `forfait.Store` computes as operators: `Accepts`, `Import`, `Index`, `Encode`,
`Resolve`, `Check` with its wrap-around; a run of its own delivers values to one scope. `Syncer` runs them:
`Boot`, `Tick`, `Woken` and `Drain` are the loop, `Lock` to `Stamp` are `Sync` under its mutex, with the
application's `Apply` in the middle, and `Crash` empties what is in memory. Registre is the environment:
it changes, fails, or is restored from a backup, after which the operator may call `Reset`.
`Promise == INSTANCE Mirror WITH truth <- registre.id, shown <- tables, ...` is the refinement: what the
application shows never goes back and catches up with everything published.

### DeviceLogin, ApiKeys, KeyCaches and Spaces

`DeviceLogin` is one login from the probe through the schedule of polls to the device exchange, the
person and the provider answering at any time or not at all. `ApiKeys` has the look-up, the quota check
and the usage record as the three statements they are, across midnight. `KeyCaches` has both caches, each
with its lock around the fetch; what a fetch returns is read, and stamped, when it ends. `Spaces` evaluates the ladder
that `NewLadder` makes of a list with an empty and a repeated role, and lets members leave, assign and
invite with a Scope resolved earlier; the transactions are the application's, of the form that `guard.go`
asks for. `MCServices` composes these with `Tokens` and `Syncer`: no state is shared, so a behaviour is
about one part and the others wait in one fixed state.

## Runs

Passing runs:

| Run | Instance | What it shows |
|---|---|---|
| `mixed` | every 3 requests out of 9 kinds, and three mixes of 4 or 5; 2 addresses, 3 subjects | `TypeOK`; `VouchedCredentials`: no session or code outlives the identity it was minted under; `PurgeSeesAll`: a purge or erasure about to commit deletes every credential; `IdentityNeverMoves`; `EveryRequestEnds` |
| `first_logins` | every 3 requests out of 8 kinds that the theorems' hypotheses admit (`Admitted`: logins of three subjects for one address, a token, a code, an erasure), and four mixes of 3 to 5 with a device and a moving address | `TakenOverIsClean`: nothing of the former holder is left on an account or comes back; `OneSubjectPerAccount`; `VerifiedNeverPurged`; `NoDeadlock` |
| `links` | a race: 2 requests for one account, 2 consumers, an erasure, clock to 1; the limit: cap 1 per account and 2 per source, 2 requests for one account and one for an unknown address, a consumer, clock to 4; sweeper and aborts in both | `OneLiveLink`, `SpentOnce`, `EraserSeesAll`, `FullWindowIssuesNothing`, `AllEnd`, and `KeepsContract`: the transactions refine `MagicLinkStore` |
| `deletions` | 3 people, pages of 2, instants 1, 2, 4, 5 and 12, one fault | `TypeOK`, `NobodySkipped`, `HandledOnce`, `EveryoneErased` |
| `sign_in` | sessions: 2 requests or 2 calls of the password kit, or one of each; flows: 2 of them, with 2 callbacks, 2 exchanges or 2 terminals | `EndedStaysEnded`: a request that begins after its session ended is never served; `IdleWindowHolds`; `ForgedHarmless`: another site's request ends nothing; `OldLoginsEnd`: a successful change of password has ended the logins it found; `OneSessionPerLogin`, `EndsWhereItBegan` |
| `services` | one part at a time, bounds below | tokens: `ReadableThroughRotation`, `ConcurrentSaveWins`, `RotationSurvives`; feed: `NudgesCovered`, `SavedNeverOlder`, `MirrorsRegistre`, `PlanArrives`; values: `CheckExact`, `RoundTrip`; `PollsSpaced`; `QuotaOvershoot`; `RetiredRefused`, `NewKeyWithinGap`; `TopRulesTop`, `DepartureKeepsTop` |

Runs that end in a violation, each against a sentence of the repository (PROJECT.json quotes it):

| Run | What happens |
|---|---|
| `returning` | A squatter who holds an identity signs in again; the by-subject match takes no lock, so the login can resolve the account, be overtaken by the owner's purge, and link its identity again afterwards. |
| `revoked_parent` | A named token's parent session is checked in one statement and the token inserted in the next; a revocation, which takes no lock, commits in between. |
| `stale_login` | A login verifies the old password, `ChangePassword` stores the new one and ends the other logins, and the login then stores its session. The session was issued for the old password and survives. |
| `lost_rotation` | `SyncProfile` reads the row, a refresh of the same account rotates the refresh token and saves it, and `SyncProfile` saves the row it read, with the spent token. |
| `stale_roles` | The roles are stale but the access token has not expired: the token source returns it as it is, without an id_token, the attempt is stamped as made, and a revoked role is served for as long as the access token lives. |
| `reset_skipped` | Registre is restored, the operator calls `Reset`, and the pull of the version applied last is skipped by the Syncer's own memory: the Store stays empty until the directory changes or the process restarts. |

### Other behaviours met

These were found in the code or in the models while building them; no run is about them.

* In `returning` too, a login that comes back, which takes no advisory lock, can hold the user row and wait for
  the identity row a purge has deleted, while the purge waits for the user row: Postgres aborts one
  (`pg/bound.go:20-21` says the writers cannot deadlock).
* Three logins of one subject, some proving the address and some not: one can come back to the account
  the first linked and wait in a cycle with the third, which purges it, or prove the address just before
  that purge commits (`Alike` excludes both).
* A login that resolved its account before an erasure links its identity again behind it, and the next
  subject of the address may have taken the account by then (`Proven`).
* Two first logins of one subject with different addresses re-point the identity to the second's account
  (`pg/linking.go:57`), so in `mixed` a subject keeps one address.
* A registration's unlocked Save that lands after a takeover (`pg/pg.go:299`) puts a password identity
  back on the taken account, so registrations run only in `mixed`, whose properties do not speak of takeovers.
* After an owner who took an account over is erased, the former holder's late Save finds nobody linked and
  links its own identity to the verified account (`pg/pg.go:333`; `Spared`).
* Concurrent requests for magic links all count before any inserts, and exceed the cap per window;
  `FullWindowIssuesNothing` is what remains true.
* A poll for deletions that outlasts the overlap can store a cursor past a notice that committed
  meanwhile behind a page's last time; a push, where configured, still delivers it. The theorems below
  assume short polls for this reason.
* `SetPassword` checks that there is none and saves in a later statement, so of two calls the later
  overwrites the earlier without being asked for it; two `ChangePassword` calls can both succeed from one old password.
* `ChangePassword` called with a named API token revokes that token, as the caller's session.
* A request that read its session just before the idle boundary deletes it although another has just
  used it, and clears the browser's cookie, which may be a newer one; a callback that ends late clears a
  newer tab's flow cookie likewise.
* A login code issued before a back-channel logout still mints a session after it, within its lifetime.
* After a restore of Registre a different snapshot with an equal version is skipped.
* A refresh whose id_token is missing or does not verify drops the token set the provider rotated.
* The loopback page says "Signed in" before the code is parked, so a second callback is told so too.
* A device login may send one poll up to an interval after its deadline; a token answer lost after
  approval ends the login in failure.
* The directory's key cache has no lifetime: a retired key is trusted until an unknown kid makes it fetch.

### Bounds, and why they are enough

*Accounts.* A race needs two requests on one account, the third is what minted or erases: three
arbitrary requests cover every pair in every order with a witness, and the named mixes of four and five
are the longest stories the comments in `pg` tell (squatter, token, owner, second owner). Two addresses
are needed by moves only. `MaxUser` 3 leaves an id for every first login of a mix.
*Magic links.* Two requests on one account race with each other, with consumers and an erasure; a third
for an unknown address shares a source and its cap; cap 1 and window 2 let a window fill, pass and fill again within 4 ticks.
*Deletions.* Three people fill a page of two and leave a second page. The instants leave room for a
late commit (1 to 2, 4 to 5), a cursor past the overlap (4 - 3), and a pause after which the record is
pruned (12). That short polls never skip anybody is a theorem, for every number of people.
*Sessions.* Lifetime 3, idle window 2 and touch interval 1, with the clock to 5, let a session be used,
touched, idle out, expire and be swept. Every single request runs over that whole time with a login and a
named token (requests, calls, flows and terminals are symmetric); what two actors do to each other needs no clock, but two requests on one token also run until 3.
Password calls come in pairs, with and without a password, and one next to a request. The kit is open
(`Issuer` FALSE); with an issuer fewer calls are possible.
*Flows.* Every race is of two: two flows, browsers, callbacks, exchanges and terminals. A code lives no
longer than the instant it was issued in, so that one tick lets it expire and be swept.
*Tokens.* Two refreshes and a login on one row, two refreshes over two lifetimes, a profile sync under
reseals of both rows, and either under a rotation of the key in four deployments (no key, one, two, the new
one) in which any call may fail. `MaxTokens` 5 lets every caller trade once with one to spare.
*Feed.* Two changes, of either version, with one fault, crash and second call of `Sync`; the same with a
restore and a reset. A snapshot can be stale by two changes, which covers equal, older and newer versions on either side.
*Values.* Integers of 3 bits: -4 to 3, so sums wrap; three keys, one undeclared, and at most two per scope.
*Device.* Two slow_downs over 7 beats and a lifetime of 4, so the poll after the second falls past the deadline.
*Keys and caches.* Three requests at a quota of 1 over two days; two kids, a lifetime of 3 and a gap of 2
over four moments, with every order of publication, retirement and two verifications.
*Spaces.* Three members, each with any of three roles or none at first, one of them at the top: grantor, subject and bystander.

### Fairness

`Accounts` and `MagicLinks`: weak fairness of every request's next statement, since Go runs each request
in a goroutine and Postgres grants a lock once its holders have ended, and of the deadlock detector; no fairness of aborts,
revocations, sweeps, the clock, or of a visitor presenting a link. `Deletions`: weak fairness of
each step of a poll or push once begun, strong fairness of `BeginPoll`, because the ticker fires
forever and a Go mutex does not starve a waiter; failures and crashes are bounded by `MaxFaults`, so
`EveryoneErased` reads: once calls stop failing. `Syncer` (`SyncerFairness`): weak fairness of `Wake`,
since the ticker fires for as long as the process runs and a sleep ends, and of each caller's `Pull`, since goroutines are
scheduled and a request to Registre ends within the client's timeout. Nothing is assumed of Registre,
nudges, crashes or operators; a workload bounds how often calls fail. Neither the sign-in models nor the
other services state fairness, and no liveness is claimed of them.

Deadlock is checked where every behaviour can go on; `sign_in` and `services` reach a clock at its bound
with everything done, and so turn it off.

## Proofs

| Theorem | Statement | Argument |
|---|---|---|
| `AccountsProofs!TypeCorrect` | `Spec => []TypeOK` | part of `IInv` |
| `AccountsProofs!PurgeComplete` | `Spec => []PurgeSeesAll` | `PurgeSeesAll` alone is not inductive: an insert could land behind the DELETE. `IInv` adds `LockInv`, what the advisory lock excludes (a purging or erasing transaction holds its account's lock alone, a request between check and insert holds it shared), and `Shape`, which locals are set where. |
| `AccountsProofs!Vouching`, `IdentityStays` | `SubjectsKeepAddress => (Spec => []VouchedCredentials)`, same for `IdentityNeverMoves` | Each identity key has one account it may belong to, its home: the one with the subject's address, or the one whose password it is. Whatever a request has read or is writing is about a key at home (`Known`), so an identity can go but not move; it goes only under the exclusive lock, which a request between `Vouch` and its insert excludes. |
| `TakeoverProofs!OneSubjectToAnAccount` | `SubjectsKeepAddress /\ Proven => (Spec => []OneSubjectPerAccount)` | `Way`: a login writes an account it inserts, or one it found by a proved address and holds the lock of, or one it came back to. `LinkedBy` and `Wrote`: an identity row tells of a login that linked it, and a proof of the address stays. `Cleared`: from its re-read or purge to its commit nobody else is linked to the account. |
| `TakeoverProofs!WritersNeverDeadlock` | `SubjectsKeepAddress /\ Proven /\ Alike => (Spec => []NoDeadlock)` | in a cycle nobody could be at `commit`, so nobody waits for an uncommitted identity, so nobody for a row: all would wait for advisory locks, each held by another that waits for one too, and whoever holds a lock already never waits for a second (`LockWaiter`). A returning login alone takes rows without the lock, and `Unproved` says that no purge runs where it writes. |
| `TakeoverProofs!ProvedIsNotPurged` | same hypotheses, `Spec => VerifiedNeverPurged` | `Unproved`: from the re-read under the lock to the commit, only a login that proves the address could have changed the row, and it would have had to hold the lock or to come back |
| `TakeoverProofs!TakeoverIsFinal` | `SubjectsKeepAddress /\ Proven /\ Spared => (Spec /\ []Settled => []TakenOverIsClean)` | `Owner`: the last owner proved the address and is linked wherever another subject claims it; `NoPassword` and `PasswordGoes`: the purge deletes the password and none comes back; credentials follow from `VouchedCredentials` |
| `MagicLinksProofs!AtMostOneLiveLink`, `ErasureComplete` | `[]OneLiveLink`, `[]EraserSeesAll` | `IInv` says that only the holder of the link lock is between ending and inserting, and what its transaction has pending |
| `MagicLinksProofs!ImplementsContract` | `Spec => KeepsContract` | initial states map to initial states and each statement is one operation of `MagicLinkStore` or a stutter |
| `MagicLinksProofs!LinksSpentOnce` | `Spec => []SpentOnce` | `SpentLinks`: a consumer past its UPDATE holds a row that has ended, no statement makes one live again, and no two hold the same |
| `MagicLinksProofs!CapsHold` | `Spec => []FullWindowIssuesNothing` | `Counted`: what was swept is older than any window of a request still counting, so the count sees all that was in the window at its start; afterwards that set can only shrink. It rests on `Tick`'s guard: no request takes a link's lifetime to count. |
| `DeletionsProofs!TypeCorrect` | `Spec => []TypeOK` | with `Clocks`, how the kept times are ordered |
| `DeletionsProofs!NobodyIsSkipped`, `NobodyIsCalledAgain` | `PollIsShort => (Spec => []NobodySkipped)`, same for `HandledOnce` | `Drained`: everybody the poll has gone past is recorded, still to do on this page, not before the earliest failure, younger than `begun - CommitDelay`, or no longer listed. `PollIsShort` is `CommitDelay + MaxPoll < Overlap` (a slower poll can skip somebody, see above). |
| `SessionsProofs!EndedIsForGood` | `SessionSpec => []EndedStaysEnded` | the property speaks of a request about to be served; `Stopped` follows it from its first step: its row is gone, no statement brings a row back, so it gets no further than its SELECT |
| `SessionsProofs!IdleWindowKept` | `SessionSpec => []IdleWindowHolds` | `Within`: a row's time is never after the last recorded use and lags by `TouchInterval` at most, and each request carries what its SELECT said of that from label to label |
| `SessionsProofs!ForgedDoesNothing` | `SessionSpec => ForgedHarmless` | the same invariant: a forged logout is nobody's from its first step, and only `LogoutNobody` moves it |
| `SessionsProofs!ChangeEndsLogins` | `PasswordSpec => []OldLoginsEnd` | `Replaces`: of the logins an account had when the hash was stored, only the caller's is left once the others were ended, none once it was rotated, and no row comes back |
| `SessionsProofs!SessionsBesidePasswords`, `ForgedBesidePasswords` | `PasswordSpec => [](EndedStaysEnded /\ IdleWindowHolds)`, `PasswordSpec => ForgedHarmless` | a call of the kit moves no request and keeps `Onward`: a live row stays or goes, one that went stays away |
| `OidcFlowProofs!OneSessionEach` | `LoopbackSpec => []OneSessionPerLogin` | `OnePlace`: what a sign-in is worth is the provider's code, or in one callback, or a live login code, or in one exchange, or a session, and in one of these only |
| `OidcFlowProofs!LoginsEndAtHome` | `LoopbackSpec => []EndsWhereItBegan` | `AtHome`: a flow keeps its kind, home and caller from its start, and each place a sign-in passes through agrees with them: the browser's cookie, the callback, the exchange once its verifier was checked, the redirect, the terminal. With `OnePlace`, a session is issued on an empty record. |
| `ServicesProofs!PollsKeepTheirDistance` | `DeviceSpec => []PollsSpaced` | `Schedule`: the interval kept is the one asked for, and the timer is set that long after the last poll |
| `ServicesProofs!OvershootIsBounded` | `ApiKeysSpec => []QuotaOvershoot` | `Granted`: what is recorded today and the requests between check and record together stay below the quota plus the number of requests |
| `ServicesProofs!RetiredKeysRefused`, `NewKeysAccepted` | `KeyCachesSpec => []RetiredRefused`, same for `NewKeyWithinGap` | `Outlived`: what a cache holds was retired no sooner than its last fetch. `Missed`: what it lacks was published no sooner than that fetch, unless an outage came between. `SlotSpent`: the one fetch an unknown kid is allowed in a gap is taken by whoever then fetches. |
| `ServicesProofs!TopIsOutOfReach`, `SomebodyStays` | `SpacesSpec => []TopRulesTop`, `SpacesSpec => DepartureKeepsTop` | `Below`: while nobody at the top acts, whoever acts was resolved below it and still is. `HasCounted`: whoever is about to delete has held the lock since its count, and somebody else is at the top if it is the one leaving it. |
| `ServicesProofs!RotationIsSafe` | `KeysOverlap => (TokensSpec => []ReadableThroughRotation)` | `Sweeping` and `BatchInOrder`: behind a reseal's cursor every row is under the newest key, a batch is the lowest rows left, and only a short one that moved nothing ends it. `KeysOverlap` is the order `pg/sealer.go` gives: a deployment's newest key is still in the next one's ring. |
| `ServicesProofs!RotationIsKept` | `SyncAlone => (TokensSpec => []RotationSurvives)` | `Takes` and `Apart`: a call on its way to its save holds a set that the provider still takes and nobody else can trade in; `Awaited`: a row whose set was traded in has such a call under way |
| `ServicesProofs!SavesWin` | `TokensSpec => ConcurrentSaveWins` | a reseal's UPDATE takes effect only on the value it read |
| `SyncerProofs!DocumentMovesOn` | `SyncerSpec => SavedNeverOlder` | `Ahead`: except before boot has imported it, the document is never newer than the Store that an export would write |
| `SyncerProofs!TablesMirror` | `SyncerSpec => Promise!MirrorSafety` | `Exclusive` and `Newer`: snapshots are fetched and applied under one hold of the mutex, so none is older than the tables when it is applied; every step is then one of `Mirror`'s or a stutter |
| `SyncerProofs!NoNudgeIsLost` | `SyncerSpec => []NudgesCovered` | `Owing` and `Underway`: a nudge the channel no longer holds has `Run` on its way to a fetch (boot, debounce, or a pull waiting for the mutex) or behind a fetch that began after it |
| `SyncerProofs!CeilingsAreExact`, `DocumentsKeepAnswers` | `EntitlementsSpec => []CheckExact`, same for `RoundTrip` | arithmetic on the operators of `Entitlements` for any width: the subtraction `Check` makes is the one that cannot wrap; each kind of value is its own encoding's inverse |

All hold for any sets of requests, sessions, subjects, links, people, keys and callers and any bounds, from
the named assumptions on the constants (`StoreAssumption`, `WorkloadAssumption`, `LinkAssumption`,
`ConstantsAssumption`, `SessionAssumption`, `PasswordAssumption`, `FlowAssumption`, `TokensAssumption`,
`EntitlementsAssumption`, `DeviceAssumption`, `ApiKeysAssumption`, `KeyCachesAssumption`,
`SpacesAssumption`, `SyncerAssumption`), which TLC evaluates in the runs. Each theorem is about its own
module's specification. Ten carry hypotheses on the workload or the configuration, because the code breaks
the property without them:

| Hypothesis | Says | Without it |
|---|---|---|
| `PollIsShort` | a poll ends within the overlap | a slower poll can skip somebody |
| `KeysOverlap` | the order of deployments `pg/sealer.go` gives | tokens nobody can open |
| `SyncAlone` | no refresh and no other sync on the accounts a profile sync works on | run `lost_rotation` |
| `SubjectsKeepAddress` | the requests of one subject carry one address | a second first login re-points the identity |
| `Proven` | a subject that signs in twice where another claims its address proves it each time, and nobody there is erased | run `returning`; the deadlock above; a login links behind an erasure |
| `Alike` | a subject that signs in three times proves its address each time or never | two of its logins deadlock, or a proved account is purged |
| `Spared` | nobody is erased whose address another subject claims | the owner of a taken account is erased and the former holder's late Save finds it free again |
| `Settled` | no registration has its password still to save at an account that is taken over | `Register`'s late Save puts a password back |

All but `Settled` are about the constants; `Settled` is about states, since whether a registration is late
is not a matter of which requests run, and `TakeoverIsFinal` assumes that it always holds. Nothing is said about
how many requests there are, of which other kinds, or how they interleave, abort and retry, and all but
`TakeoverIsFinal` cover everything that runs without a login that comes back: squatters, owners, second
owners, tokens, codes, devices, erasures and logouts of any number. The hypotheses are stated in `Accounts` as `ReturnsProven`,
`ProvesAlike` and `NoneErased`, and the run `first_logins` picks its workloads by them.

Only model-checked, of safety: the four properties of `first_logins` for its mix `Movers`, where a subject
moves to another address, which `SubjectsKeepAddress` excludes from the theorems.

All liveness is left to TLC too, with it the half of `MirrorsRegistre` that says the tables catch up: liveness
under fairness and `ENABLED` are out of the prover's reach, as is induction over data. No module with a
theorem uses a RECURSIVE operator.

## Plan

What is left:

1. **A composition of `Deletions` with `EraseIdentity`** from `Accounts`: the callback as a transaction
   that retries, instead of one step.

### Not modelled

Ciphers, signatures and password hashing (names that match or do not); the claims' checks of `VerifyJWT`
and bearer JWTs, which keep no state; avatar files and fetches; HTML pages; boot-time migrations; the
normalisation of addresses and locales; profile columns; `directory.Client.Import`, a one-time upload.
An exchange presents a login code as it was issued, with any verifier: how code and challenge are joined
before hashing is left out, as are all other encodings.
