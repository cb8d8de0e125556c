--------------------------- MODULE MagicLinkStore ---------------------------
(***************************************************************************)
(* What porte.MagicLinkStore promises (magiclink.go): a link is stored and *)
(* the account's older links end in one atomic step, and a link is spent   *)
(* at most once.  The in-memory store of magiclinktest, whose mutex makes  *)
(* every call atomic, is this specification; MagicLinks.tla shows that     *)
(* porte/pg's transactions implement it.                                   *)
(***************************************************************************)
EXTENDS Naturals

CONSTANTS Link,     \* the links, each named by the hash of its token
          Account   \* the account each link is for

VARIABLE rows       \* the state of each link's row

Status == {"none", "live", "ended", "deleted"}

StoreInit == rows = [l \in Link |-> "none"]

\* The rows once link l is created and its account's live ones have ended.
Superseded(l) ==
    [k \in Link |-> IF k = l THEN "live"
                    ELSE IF Account[k] = Account[l] /\ rows[k] = "live" THEN "ended"
                    ELSE rows[k]]

Create(l) == rows[l] = "none" /\ rows' = Superseded(l)

Consume(l) == rows[l] = "live" /\ rows' = [rows EXCEPT ![l] = "ended"]

\* DeleteExpired, a purge or an erasure removes stored rows.
Delete(S) ==
    /\ \A l \in S : rows[l] \in {"live", "ended"}
    /\ rows' = [l \in Link |-> IF l \in S THEN "deleted" ELSE rows[l]]

StoreNext ==
    \/ \E l \in Link : Create(l) \/ Consume(l)
    \/ \E S \in SUBSET Link : Delete(S)

StoreSpec == StoreInit /\ [][StoreNext]_rows
=============================================================================
