------------------------------- MODULE Tokens -------------------------------
(***************************************************************************)
(* The provider tokens and roles an identity row keeps: what a login       *)
(* saves, what Attach refreshes when the roles are stale, what             *)
(* SyncProfile writes back, and ResealIdentities running under them        *)
(* through a rotation of PORTE_TOKEN_KEY.                                  *)
(*                                                                         *)
(* The provider rotates refresh tokens: trading one in makes another and   *)
(* ends it.  A token set is a number, in the order they were made; 0 is    *)
(* none.  A call holds the row it read across its calls to the provider.   *)
(***************************************************************************)
EXTENDS Naturals, Sequences, SequencesExt, FiniteSets

CONSTANTS Accounts,        \* identity rows, 1..Accounts, in key order
          Caller,          \* requests in flight
          Rings,           \* the sealer's keys, newest first, of each deployment in turn
          ResealBatch,
          ClaimsTTL, SyncInterval,
          MaxTokens, TokenTime,     \* bounds on sets made and on the clock
          Work             \* workloads: kind of each caller, the rows they touch, lifetime of an
                           \* access token, whether a reseal runs, whether calls fail, for how long

ASSUME TokensAssumption ==
    /\ Accounts \in Nat \ {0} /\ ResealBatch \in Nat \ {0}
    /\ ClaimsTTL \in Nat \ {0} /\ SyncInterval \in Nat \ {0}
    /\ MaxTokens \in Nat /\ TokenTime \in Nat \ {0}
    /\ Rings \in Seq(Seq(STRING)) /\ Rings # <<>> /\ Rings[1] = <<>>
    /\ \A w \in Work : /\ w.kind \in [Caller -> {"attach", "sync", "login", "none"}]
                       /\ w.rows \subseteq 1..Accounts /\ w.lifetime \in Nat \ {0}
                       /\ w.reseal \in BOOLEAN /\ w.faults \in BOOLEAN /\ w.until <= TokenTime

VARIABLES
    stored,     \* porte_identities: token set, the key it is sealed with, roles, stamps
    made,       \* token sets the provider made: when the access token expires
    valid,      \* those whose refresh token it still takes
    granted,    \* the roles it would say now: 0, then 1 once one is revoked at `revoked`
    revoked,
    call,       \* what each request holds
    stage,      \* the deployment running
    reseal,     \* the reseal running in it
    resealed,   \* whether one has finished there
    time,
    work

tvars == <<stored, made, valid, granted, revoked, call, stage, reseal, resealed, time, work>>

Row == 1..Accounts
Ring == Rings[stage]
NoRead == [set |-> 0, roles |-> 0, rolesAt |-> 0, syncedAt |-> 0]
NoCall == [pc |-> "start", row |-> 1, read |-> 0, held |-> NoRead, roles |-> 0, began |-> 0]
NoReseal == [after |-> 0, batch |-> {}, last |-> FALSE]

TokensInit ==
    /\ work \in Work
    /\ stored = [a \in Row |-> [set |-> a, key |-> "clear", roles |-> 0, rolesAt |-> 1, syncedAt |-> 1]]
    /\ made = [a \in Row |-> 1 + work.lifetime]
    /\ valid = Row
    /\ granted = 0 /\ revoked = 0
    /\ call = [p \in Caller |-> NoCall]
    /\ stage = 1 /\ reseal = NoReseal /\ resealed = FALSE
    /\ time = 1

\* TokenSealer.open: no prefix is plaintext, else any key of the ring may open it.
Opens(key) == key = "clear" \/ \E i \in DOMAIN Ring : Ring[i] = key

\* Seal: the first key; none leaves the token in the clear.
SealKey == IF Ring = <<>> THEN "clear" ELSE Ring[1]

\* A token no key opens reads as absent.
Read(a) == [set |-> IF Opens(stored[a].key) THEN stored[a].set ELSE 0, roles |-> stored[a].roles,
            rolesAt |-> stored[a].rolesAt, syncedAt |-> stored[a].syncedAt]

In(p, label) == call[p].pc = label
To(p, label) == call' = [call EXCEPT ![p].pc = label]
Done(p) == call' = [call EXCEPT ![p] = NoCall]
ProviderStays == UNCHANGED <<made, valid>>
RestStays == UNCHANGED <<granted, revoked, stage, reseal, resealed, time, work>>

RolesStale(row) == row.rolesAt = 0 \/ time - row.rolesAt >= ClaimsTTL
Due(row) == row.set # 0 /\ (row.syncedAt = 0 \/ time - row.syncedAt >= SyncInterval)
Spent(set) == time >= made[set]

-----------------------------------------------------------------------------
(* Attach, SyncProfile and a login, up to what they save. *)

\* identityFor: not found and an error end the call; a row is kept.
Load(p) ==
    /\ In(p, "start")
    /\ \E a \in work.rows :
        LET row == Read(a) IN
        \/ work.kind[p] = "attach" /\ call' = [call EXCEPT ![p] =
             [NoCall EXCEPT !.pc = IF ~RolesStale(row) THEN "serve"
                                   ELSE IF row.set = 0 THEN "mark" ELSE "refresh",
                            !.row = a, !.read = row.set, !.held = row, !.roles = row.roles, !.began = time]]
        \/ work.kind[p] = "sync" /\ Due(row) /\ call' = [call EXCEPT ![p] =
             [NoCall EXCEPT !.pc = "userinfo", !.row = a, !.read = row.set, !.held = row]]
    /\ UNCHANGED stored /\ ProviderStays /\ RestStays

\* Where a call goes when the token source gives it a token, old or new, or none.
Reused(pc) == CASE pc = "refresh" -> "mark" [] pc = "userinfo" -> "asked" [] pc = "token" -> "upsert"
Given(pc) == CASE pc = "refresh" -> "claims" [] pc = "userinfo" -> "asked" [] pc = "token" -> "upsert"
Denied(pc) == CASE pc = "refresh" -> "mark" [] pc = "userinfo" -> "clear" [] pc = "token" -> "upsert"

\* oauth2's token source returns an access token that has not expired as it
\* is.  It carries no id_token then, which refreshRoles takes for a failure.
Reuse(p) ==
    /\ call[p].pc \in {"refresh", "userinfo", "token"} /\ ~Spent(call[p].held.set)
    /\ To(p, Reused(call[p].pc))
    /\ UNCHANGED stored /\ ProviderStays /\ RestStays

Make(old) ==
    /\ Len(made) < MaxTokens
    /\ made' = Append(made, time + work.lifetime)
    /\ valid' = (valid \ old) \cup {Len(made) + 1}

\* It trades the refresh token in for another; the answer may be lost.
Trade(p) ==
    LET pc == call[p].pc
        set == call[p].held.set IN
    /\ pc \in {"refresh", "userinfo", "token"} /\ Spent(set)
    /\ \/ set \in valid /\ Make({set})
          /\ call' = [call EXCEPT ![p].held.set = Len(made) + 1, ![p].pc = Given(pc)]
       \/ set \in valid /\ work.faults /\ Make({set}) /\ To(p, Denied(pc))
       \/ (set \notin valid \/ work.faults) /\ ProviderStays /\ To(p, Denied(pc))
    /\ UNCHANGED stored /\ RestStays

\* The id_token's roles, stamped now; one that is missing or does not verify fails.
Claims(p) ==
    /\ In(p, "claims")
    /\ \/ call' = [call EXCEPT ![p].pc = "save", ![p].held.roles = granted, ![p].held.rolesAt = time]
       \/ work.faults /\ To(p, "mark")
    /\ UNCHANGED stored /\ ProviderStays /\ RestStays

\* UserInfo answers, fails, or is about another subject.
UserInfo(p) ==
    /\ In(p, "asked")
    /\ \/ To(p, "token")
       \/ work.faults /\ To(p, "clear")
       \/ work.faults /\ Done(p)
    /\ UNCHANGED stored /\ ProviderStays /\ RestStays

\* UpsertFromOIDC, which may refuse.  It writes no token.
Upsert(p) ==
    /\ In(p, "upsert")
    /\ \/ call' = [call EXCEPT ![p].pc = "save", ![p].held.syncedAt = time]
       \/ work.faults /\ Done(p)
    /\ UNCHANGED stored /\ ProviderStays /\ RestStays

\* A failed profile sync drops the tokens from the row it read.
Clear(p) ==
    /\ In(p, "clear")
    /\ call' = [call EXCEPT ![p].pc = "save", ![p].held.set = 0, ![p].held.syncedAt = time]
    /\ UNCHANGED stored /\ ProviderStays /\ RestStays

\* The code exchange of a login: a new grant, its ID token and its roles.
Exchange(p) ==
    /\ In(p, "start") /\ work.kind[p] = "login"
    /\ Make({})
    /\ \E a \in work.rows : call' = [call EXCEPT ![p] =
         [NoCall EXCEPT !.pc = "save", !.row = a,
            !.held = [set |-> Len(made) + 1, roles |-> granted, rolesAt |-> time, syncedAt |-> time]]]
    /\ UNCHANGED stored /\ RestStays

\* Identities.Save: the whole row as this call holds it, sealed now.
Save(p) ==
    LET attach == work.kind[p] = "attach" IN
    /\ In(p, "save")
    /\ \/ /\ stored' = [stored EXCEPT ![call[p].row] =
                [set |-> call[p].held.set, key |-> SealKey, roles |-> call[p].held.roles,
                 rolesAt |-> call[p].held.rolesAt, syncedAt |-> call[p].held.syncedAt]]
          /\ IF attach THEN call' = [call EXCEPT ![p].pc = "serve", ![p].roles = call[p].held.roles]
                       ELSE Done(p)
       \/ work.faults /\ UNCHANGED stored /\ IF attach THEN To(p, "mark") ELSE Done(p)
    /\ ProviderStays /\ RestStays

\* Mutant: the attempt is recorded through Save.
Marked_Save(p) ==
    [set |-> call[p].read, key |-> SealKey, roles |-> call[p].roles,
     rolesAt |-> time, syncedAt |-> call[p].held.syncedAt]

\* MarkRolesSynced: one column, so that the rest of the row is nobody's older copy.
Marked(p) == [stored[call[p].row] EXCEPT !.rolesAt = time]

Mark(p) ==
    /\ In(p, "mark")
    /\ \/ stored' = [stored EXCEPT ![call[p].row] = Marked(p)]
       \/ work.faults /\ UNCHANGED stored
    /\ To(p, "serve")
    /\ ProviderStays /\ RestStays

Serve(p) == In(p, "serve") /\ Done(p) /\ UNCHANGED stored /\ ProviderStays /\ RestStays

-----------------------------------------------------------------------------
(* ResealIdentities and the deployments it is run in. *)

\* The next ResealBatch rows with tokens after the last one seen, in key order.
Batch(after) ==
    LET left == {a \in Row : a > after /\ stored[a].set # 0}
        next == {a \in left : Cardinality({b \in left : b < a}) < ResealBatch} IN
    {[row |-> a, set |-> stored[a].set, key |-> stored[a].key] : a \in next}

\* A batch that is not full is the last.
LastBatch(batch) == Cardinality(batch) < ResealBatch

ResealRead ==
    /\ work.reseal /\ Ring # <<>> /\ reseal.batch = {}
    /\ LET batch == Batch(reseal.after) IN
       /\ reseal' = IF batch = {} THEN NoReseal ELSE [reseal EXCEPT !.batch = batch, !.last = LastBatch(batch)]
       /\ resealed' = (resealed \/ batch = {})
    /\ UNCHANGED <<stored, made, valid, granted, revoked, call, stage, time, work>>

\* Mutant: every value a key of the ring opens counts as current.
Old_None(read) == read.key = "clear" /\ SealKey # "clear"

\* A value that opens, and not with the first key.
Old(read) == Opens(read.key) /\ read.key # SealKey

\* Mutant: the UPDATE names the row alone.
Unmoved_Any(read) == stored[read.row].set # 0

\* The UPDATE is guarded on the two values that were read.
Unmoved(read) == stored[read.row].set = read.set /\ stored[read.row].key = read.key

Resealed(read) ==
    IF Old(read) /\ Unmoved(read)
    THEN [stored EXCEPT ![read.row].set = read.set, ![read.row].key = SealKey] ELSE stored

\* Rows are rewritten in key order.  An error ends it: what was rewritten stays.
ResealRow ==
    /\ reseal.batch # {}
    /\ LET read == CHOOSE r \in reseal.batch : \A s \in reseal.batch : r.row <= s.row
           rest == reseal.batch \ {read}
           end == rest = {} /\ reseal.last IN
       \/ /\ stored' = Resealed(read)
          /\ reseal' = IF end THEN NoReseal ELSE [reseal EXCEPT !.batch = rest, !.after = read.row]
          /\ resealed' = (resealed \/ end)
       \/ work.faults /\ UNCHANGED <<stored, resealed>> /\ reseal' = NoReseal
    /\ UNCHANGED <<made, valid, granted, revoked, call, stage, time, work>>

\* A restart with the next ring.  The operator drops a key only once a reseal
\* has finished with the new one first.  What was in flight is gone.
Deploy ==
    /\ work.faults /\ stage < Len(Rings)
    /\ ToSet(Rings[stage]) \subseteq ToSet(Rings[stage + 1]) \/ resealed
    /\ stage' = stage + 1
    /\ call' = [p \in Caller |-> NoCall]
    /\ reseal' = NoReseal /\ resealed' = FALSE
    /\ UNCHANGED <<stored, made, valid, granted, revoked, time, work>>

\* An operator takes a role away at the provider.
RevokeRole ==
    /\ granted = 0
    /\ granted' = 1 /\ revoked' = time
    /\ UNCHANGED <<stored, made, valid, call, stage, reseal, resealed, time, work>>

TokensTick ==
    /\ time < work.until /\ time' = time + 1
    /\ UNCHANGED <<stored, made, valid, granted, revoked, call, stage, reseal, resealed, work>>

TokenStep(p) ==
    \/ Load(p) \/ Reuse(p) \/ Trade(p) \/ Claims(p) \/ UserInfo(p) \/ Upsert(p) \/ Clear(p)
    \/ Exchange(p) \/ Save(p) \/ Mark(p) \/ Serve(p)

TokensNext ==
    \/ \E p \in Caller : TokenStep(p)
    \/ ResealRead \/ ResealRow \/ Deploy \/ RevokeRole \/ TokensTick

TokensSpec == TokensInit /\ [][TokensNext]_tvars

-----------------------------------------------------------------------------
(* Properties. *)

\* A rotation of PORTE_TOKEN_KEY done in the order sealer.go gives, new key
\* first, reseal, then drop the old one, leaves no token unreadable, whatever
\* was saved meanwhile and wherever a reseal failed (reseal.go resealRow).
ReadableThroughRotation == \A a \in Row : stored[a].set # 0 => Opens(stored[a].key)

\* A reseal changes how a token is stored and never which one: a concurrent
\* Save wins (reseal.go ResealIdentities).
ConcurrentSaveWins ==
    [][reseal' # reseal => \A a \in Row : stored'[a].set = stored[a].set]_tvars

\* With no call failing, once the calls on an account are done its row holds a
\* refresh token the provider still takes, or none (middleware.go
\* refreshRoles, pg.go MarkRolesSynced: "a lost rotation means every later
\* refresh for that user fails").
RotationSurvives ==
    ~work.faults =>
        \A a \in Row : (\A p \in Caller : In(p, "start") \/ call[p].row # a) =>
            stored[a].set \in valid \cup {0}

\* "A role revoked in the IdP stops mattering within five minutes"
\* (porte.go DefaultClaimsTTL), as long as nothing fails.
RevokedInTime ==
    ~work.faults =>
        \A p \in Caller : In(p, "serve") /\ revoked # 0 /\ call[p].began >= revoked + ClaimsTTL =>
            call[p].roles = granted
=============================================================================
