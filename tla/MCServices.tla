----------------------------- MODULE MCServices -----------------------------
(***************************************************************************)
(* Provider tokens, the directory feed, the device grant, API keys, the    *)
(* caches of signing keys and spaces, model-checked together.  No state is *)
(* shared between them, so a behaviour is about one part, chosen at first; *)
(* the feed is the one whose behaviours are fair, and the liveness         *)
(* properties are about it.                                                *)
(***************************************************************************)
EXTENDS Tokens, Syncer, DeviceLogin, ApiKeys, KeyCaches, Spaces

CONSTANTS p1, p2, p3

VARIABLE part

services == <<tvars, scope, yvars, dvars, kvars, cvars, gvars, part>>

\* No key, the first key, its successor in front of it, the successor alone.
MCRings == << <<>>, <<"k1">>, <<"k2", "k1">>, <<"k2">> >>

Calls(one, two, three) == [p \in Caller |-> IF p = p1 THEN one ELSE IF p = p2 THEN two ELSE three]

Mix(calls, touched, lasts, sealing, failing, until) ==
    [kind |-> calls, rows |-> touched, lifetime |-> lasts, reseal |-> sealing, faults |-> failing, until |-> until]

\* Two refreshes and a login of one account; two refreshes for longer; a profile
\* sync under reseals; a refresh or a profile sync under a rotation of the key
\* in which anything may fail.
MCWork ==
    {Mix(Calls("attach", "attach", "login"), {1}, 1, FALSE, FALSE, 2),
     Mix(Calls("attach", "attach", "none"), {1}, 1, FALSE, FALSE, 3),
     Mix(Calls("sync", "none", "none"), Row, 1, TRUE, FALSE, 3),
     Mix(Calls("attach", "none", "none"), Row, 1, TRUE, TRUE, 2),
     Mix(Calls("sync", "none", "none"), Row, 1, TRUE, TRUE, 2)}

\* A refresh and a profile sync of one account.
RefreshAndSync == {Mix(Calls("attach", "sync", "none"), {1}, 1, FALSE, FALSE, 3)}

\* An access token that outlives the claims.
LongLived == {Mix(Calls("attach", "none", "none"), Row, 3, FALSE, FALSE, 3)}

MCDefault == [k \in Declared |-> IF k = "access" THEN Bool(FALSE) ELSE Number(1)]

Fed(changes, faults, crashes, restores, resets, syncs) ==
    [changes |-> changes, faults |-> faults, crashes |-> crashes, restores |-> restores,
     resets |-> resets, syncs |-> syncs]

MCFeed == {Fed(2, 1, 1, 0, 0, 1), Fed(2, 0, 1, 1, 1, 0), Fed(1, 1, 1, 1, 1, 0)}
OneReset == {Fed(2, 0, 0, 1, 1, 0)}

MCQuota == [k \in ApiKey |-> IF k = "metered" THEN 1 ELSE 0]
MCListed == <<"admin", "owner", "admin", "">>

Parts == {"tokens", "entitlements", "feed", "device", "keys", "caches", "spaces"}

\* Everything else waits where one fixed initial state leaves it.
Waits ==
    /\ part # "tokens" => work = CHOOSE w \in Work : TRUE
    /\ part # "feed" => left = CHOOSE f \in Feed : TRUE
    /\ part # "device" => app.mounted /\ app.linked
    /\ part # "caches" => cache = "jwt"
    /\ part # "spaces" => members = [m \in Member |-> Top]

AllInit ==
    /\ TokensInit /\ EntitlementsInit /\ SyncerInit /\ DeviceInit
    /\ ApiKeysInit /\ KeyCachesInit /\ SpacesInit
    /\ Waits

ServicesInit == part \in Parts /\ AllInit
TokensOnlyInit == part = "tokens" /\ AllInit
FeedOnlyInit == part = "feed" /\ AllInit

ServicesNext ==
    /\ \/ part = "tokens" /\ TokensNext /\ UNCHANGED <<scope, yvars, dvars, kvars, cvars, gvars>>
       \/ part = "entitlements" /\ EntitlementsNext /\ UNCHANGED <<tvars, yvars, dvars, kvars, cvars, gvars>>
       \/ part = "feed" /\ SyncerNext /\ UNCHANGED <<tvars, scope, dvars, kvars, cvars, gvars>>
       \/ part = "device" /\ DeviceNext /\ UNCHANGED <<tvars, scope, yvars, kvars, cvars, gvars>>
       \/ part = "keys" /\ ApiKeysNext /\ UNCHANGED <<tvars, scope, yvars, dvars, cvars, gvars>>
       \/ part = "caches" /\ KeyCachesNext /\ UNCHANGED <<tvars, scope, yvars, dvars, kvars, gvars>>
       \/ part = "spaces" /\ SpacesNext /\ UNCHANGED <<tvars, scope, yvars, dvars, kvars, cvars>>
    /\ UNCHANGED part

ServicesSpec == ServicesInit /\ [][ServicesNext]_services /\ SyncerFairness
TokensAlone == TokensOnlyInit /\ [][ServicesNext]_services
FeedAlone == FeedOnlyInit /\ [][ServicesNext]_services /\ SyncerFairness
=============================================================================
