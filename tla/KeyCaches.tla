----------------------------- MODULE KeyCaches -----------------------------
(***************************************************************************)
(* The two caches of Registre's signing keys: oidc/jwt's, with a lifetime  *)
(* and a slot for unknown kids, one mutex held across the fetch; and       *)
(* porte/directory's, with no lifetime, a gap between fetches and a read   *)
(* lock beside the one that fetches.  The provider publishes and retires   *)
(* keys; a kid is published once.  A fetch takes time and may fail.  The   *)
(* caches never meet: a behaviour is about one of them.                    *)
(***************************************************************************)
EXTENDS Naturals

CONSTANTS Kid, FirstKid,
          Lookup,            \* verifications in flight
          CacheTTL, Gap,     \* the lifetime, and both floors between fetches
          LastMoment

ASSUME KeyCachesAssumption ==
    /\ FirstKid \in Kid
    /\ CacheTTL \in Nat \ {0} /\ Gap \in Nat \ {0} /\ LastMoment \in Nat

VARIABLES
    published,  \* when each kid came and went, 0 for not yet
    jwks,       \* the jwt cache: kids, when fetched, when the slot was taken
    keyset,     \* the directory's: kids, when last fetched, or tried
    cache,      \* the one in use
    look,       \* what each verification holds
    outage,     \* history: a fetch has failed
    moment

cvars == <<published, jwks, keyset, cache, look, outage, moment>>

Cache == {"jwt", "directory"}
NoLook == [pc |-> "start", kid |-> FirstKid]
Now == {k \in Kid : published[k].from # 0 /\ published[k].till = 0}

KeyCachesInit ==
    /\ published = [k \in Kid |-> [from |-> IF k = FirstKid THEN 1 ELSE 0, till |-> 0]]
    /\ jwks = [kids |-> {}, at |-> 0, slot |-> 0]
    /\ keyset = [kids |-> {}, at |-> 0]
    /\ look = [p \in Lookup |-> NoLook]
    /\ cache \in Cache
    /\ outage = FALSE
    /\ moment = 1

Publish(k) ==
    /\ published[k].from = 0
    /\ published' = [published EXCEPT ![k].from = moment]
    /\ UNCHANGED <<jwks, keyset, cache, look, outage, moment>>

Retire(k) ==
    /\ k \in Now
    /\ published' = [published EXCEPT ![k].till = moment]
    /\ UNCHANGED <<jwks, keyset, cache, look, outage, moment>>

Fetching == \E p \in Lookup : look[p].pc = "fetch"

Goes(p, kid, to) == look' = [look EXCEPT ![p] = [pc |-> to, kid |-> kid]]

\* An answer, which the next step of the verification forgets.
Answered(p) ==
    /\ look[p].pc \in {"accepted", "refused"}
    /\ look' = [look EXCEPT ![p] = NoLook]
    /\ UNCHANGED <<published, jwks, keyset, cache, outage, moment>>

-----------------------------------------------------------------------------
(* oidc/jwt. *)

Stale == jwks.at = 0 \/ moment - jwks.at >= CacheTTL

\* Mutant: every unknown kid renews the slot.
Slot_Sliding(taken) == moment

Slot(taken) == IF taken THEN moment ELSE jwks.slot

\* key, up to the fetch, under the mutex.
KeyFor(p, kid) ==
    LET free == jwks.slot = 0 \/ moment - jwks.slot >= Gap IN
    /\ cache = "jwt" /\ look[p].pc = "start" /\ ~Fetching
    /\ \/ Stale /\ Goes(p, kid, "fetch") /\ UNCHANGED jwks
       \/ ~Stale /\ kid \in jwks.kids /\ Goes(p, kid, "accepted") /\ UNCHANGED jwks
       \/ /\ ~Stale /\ kid \notin jwks.kids
          /\ jwks' = [jwks EXCEPT !.slot = Slot(free)]
          /\ Goes(p, kid, IF free THEN "fetch" ELSE "refused")
    /\ UNCHANGED <<published, keyset, cache, outage, moment>>

AnswerFrom(p, kids) ==
    Goes(p, look[p].kid, IF look[p].kid \in kids THEN "accepted" ELSE "refused")

\* Mutant: when the provider is down the old keys answer.
OnError_ServeStale(p) == AnswerFrom(p, jwks.kids)

\* A failed fetch fails the verification.
OnError(p) == look' = [look EXCEPT ![p] = NoLook]

FetchJWKS(p) ==
    /\ cache = "jwt" /\ look[p].pc = "fetch"
    /\ \/ /\ jwks' = [jwks EXCEPT !.kids = Now, !.at = moment]
          /\ AnswerFrom(p, Now) /\ UNCHANGED outage
       \/ OnError(p) /\ outage' = TRUE /\ UNCHANGED jwks
    /\ UNCHANGED <<published, keyset, cache, moment>>

-----------------------------------------------------------------------------
(* porte/directory. *)

\* A cached kid is answered beside a fetch; an unknown one waits for it.
Cached(p, kid) ==
    /\ cache = "directory" /\ look[p].pc = "start"
    /\ Goes(p, kid, IF kid \in keyset.kids THEN "accepted" ELSE "wait")
    /\ UNCHANGED <<published, jwks, keyset, cache, outage, moment>>

\* lookup again under the fetch lock.
FetchLock(p) ==
    LET kid == look[p].kid
        early == keyset.at # 0 /\ moment - keyset.at < Gap IN
    /\ look[p].pc = "wait" /\ ~Fetching
    /\ Goes(p, kid, IF kid \in keyset.kids THEN "accepted" ELSE IF early THEN "refused" ELSE "fetch")
    /\ UNCHANGED <<published, jwks, keyset, cache, outage, moment>>

FetchKeys(p) ==
    /\ cache = "directory" /\ look[p].pc = "fetch"
    /\ \/ keyset' = [kids |-> Now, at |-> moment] /\ AnswerFrom(p, Now) /\ UNCHANGED outage
       \/ keyset' = [keyset EXCEPT !.at = moment] /\ look' = [look EXCEPT ![p] = NoLook] /\ outage' = TRUE
    /\ UNCHANGED <<published, jwks, cache, moment>>

Moment ==
    /\ moment < LastMoment /\ moment' = moment + 1
    /\ \A p \in Lookup : look[p].pc \notin {"accepted", "refused"}
    /\ UNCHANGED <<published, jwks, keyset, cache, look, outage>>

KeyCachesNext ==
    \/ \E k \in Kid : Publish(k) \/ Retire(k)
    \/ \E p \in Lookup : \/ \E kid \in Kid : KeyFor(p, kid) \/ Cached(p, kid)
                         \/ FetchJWKS(p) \/ FetchLock(p) \/ FetchKeys(p) \/ Answered(p)
    \/ Moment

KeyCachesSpec == KeyCachesInit /\ [][KeyCachesNext]_cvars

-----------------------------------------------------------------------------
(* Properties. *)

\* The jwt cache accepts no key that was retired a lifetime ago, though the
\* provider has been down since: "never a fallback to stale keys" (cache.go key).
RetiredRefused ==
    \A p \in Lookup : look[p].pc = "accepted" /\ cache = "jwt" =>
        LET till == published[look[p].kid].till IN till = 0 \/ moment < till + CacheTTL

\* With the provider up, a key it published is refused for a gap at most, by
\* either cache, whatever other kids are asked for (cache.go key, keys.go lookup).
NewKeyWithinGap ==
    ~outage => \A p \in Lookup : look[p].pc = "refused" /\ look[p].kid \in Now =>
        moment < published[look[p].kid].from + Gap
=============================================================================
