---------------------------- MODULE Entitlements ----------------------------
(***************************************************************************)
(* porte/forfait: what a Store does with a snapshot, a saved document and  *)
(* a question, as operators.  Syncer runs them; here their arithmetic and  *)
(* the round trip through Export and Import are compared, over every small *)
(* input, with what they should say.                                       *)
(*                                                                         *)
(* A snapshot is its two versions and an id for its contents.  One scope's *)
(* contents are a function from keys to raw JSON values.                   *)
(***************************************************************************)
EXTENDS Integers, FiniteSets

CONSTANTS Key,           \* entitlement keys a scope may carry
          BoolKey, LimitKey,   \* those this app declares
          MaxKeys,       \* the most keys one scope may carry
          MaxInt,        \* the largest integer, 2^63 - 1 in the code
          Default        \* the raw default of each declared key

Int64 == (-MaxInt - 1)..MaxInt

\* A JSON value: a bool, an integer, anything else, or none.
Bool(b) == [kind |-> "bool", n |-> IF b THEN 1 ELSE 0]
Number(n) == [kind |-> "int", n |-> n]
Junk == [kind |-> "junk", n |-> 0]
Absent == [kind |-> "absent", n |-> 0]
Raw == {Bool(b) : b \in BOOLEAN} \cup {Number(n) : n \in Int64} \cup {Junk, Absent}
Declared == BoolKey \cup LimitKey

ASSUME EntitlementsAssumption ==
    /\ BoolKey \subseteq Key /\ LimitKey \subseteq Key /\ BoolKey \cap LimitKey = {}
    /\ IsFiniteSet(Key) /\ MaxInt \in Nat /\ MaxKeys \in Nat
    /\ Default \in [Declared -> Raw]

VARIABLE scope    \* the contents the last snapshot gave one scope

Empty == [version |-> 0, revision |-> 0, id |-> 0]

\* Mutant: only a push of entitlements is applied.
Accepts_Pushed(held, snap) == snap.revision > held.revision

\* Mutant: the directory's version alone is compared.
Accepts_Version(held, snap) == snap.version >= held.version

Accepts(held, snap) ==
    /\ snap.revision > 0
    /\ \/ snap.revision > held.revision
       \/ snap.revision = held.revision /\ (snap.version = 0 \/ snap.version >= held.version)

StoreApply(held, snap) == IF Accepts(held, snap) THEN snap ELSE held

\* A document saved while failing open imports as failing open, and so does
\* none; one that does not parse changes nothing.
Import(held, document) ==
    IF held.revision > 0 \/ document.revision = 0 THEN held ELSE document

-----------------------------------------------------------------------------
(* One scope's values. *)

Closed == [enabled |-> FALSE, limit |-> 0]
Open == [enabled |-> TRUE, limit |-> -1]

WellFormed(key, raw) ==
    \/ key \in BoolKey /\ raw.kind = "bool"
    \/ key \in LimitKey /\ raw.kind = "int" /\ raw.n >= -1

Decode(key, raw) ==
    IF ~WellFormed(key, raw) THEN Closed
    ELSE IF key \in BoolKey THEN [enabled |-> raw.n = 1, limit |-> 0]
    ELSE [enabled |-> FALSE, limit |-> raw.n]

\* The declared, well-formed keys of a scope that is not oversized.
Index(contents) ==
    LET present == {k \in DOMAIN contents : contents[k] # Absent} IN
    IF Cardinality(present) > MaxKeys THEN {}
    ELSE {k \in present \cap Declared : WellFormed(k, contents[k])}

Values(contents) == [k \in Index(contents) |-> Decode(k, contents[k])]

\* Mutant: unlimited is written as no value.
Encode_Unlimited(key, value) ==
    IF key \in BoolKey THEN Bool(value.enabled)
    ELSE IF value.limit = -1 THEN Absent ELSE Number(value.limit)

Encode(key, value) == IF key \in BoolKey THEN Bool(value.enabled) ELSE Number(value.limit)

\* Export's document for the scope.
Document(values) == [k \in DOMAIN values |-> Encode(k, values[k])]

\* Before the first snapshot all is allowed; a key that is not declared denies.
Resolve(synced, values, key) ==
    IF key \notin Declared THEN Closed
    ELSE IF ~synced THEN Open
    ELSE IF key \in DOMAIN values THEN values[key] ELSE Decode(key, Default[key])

\* Two's complement.
Wrap(n) == ((n + MaxInt + 1) % (2 * (MaxInt + 1))) - (MaxInt + 1)

\* Mutant: the sum is compared, and wraps.
Fits_Sum(limit, n, more) == Wrap(n + more) <= limit

Fits(limit, n, more) == n <= Wrap(limit - more)

Check(limit, n, more) ==
    IF n < 0 \/ more < 0 THEN "invalid"
    ELSE IF more = 0 \/ limit = -1 \/ Fits(limit, n, more) THEN "allowed" ELSE "refused"

EntitlementsInit == scope = [k \in Key |-> Absent]

\* A snapshot gives the scope a value for a key, or takes it away.
Deliver(key, raw) == scope' = [scope EXCEPT ![key] = raw]

EntitlementsNext == \E key \in Key, raw \in Raw : Deliver(key, raw)

EntitlementsSpec == EntitlementsInit /\ [][EntitlementsNext]_scope

-----------------------------------------------------------------------------
(* Properties. *)

\* Check refuses exactly what would pass the ceiling in unbounded arithmetic,
\* and never a scope that adds nothing, though it may be over (store.go Check).
CheckExact ==
    \A key \in LimitKey, used, adding \in Int64 \cap Nat :
        LET limit == Resolve(TRUE, Values(scope), key).limit IN
        Check(limit, used, adding) = "refused" <=> limit >= 0 /\ adding > 0 /\ used + adding > limit

\* A Store answers the same before a restart and after importing what it had
\* exported, and never a limit below unlimited (persist.go Export, Import).
RoundTrip ==
    \A key \in Key :
        LET before == Resolve(TRUE, Values(scope), key) IN
        /\ Resolve(TRUE, Values(Document(Values(scope))), key) = before
        /\ before.limit >= -1
=============================================================================
