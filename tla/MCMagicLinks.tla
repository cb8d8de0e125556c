---------------------------- MODULE MCMagicLinks ----------------------------
(***************************************************************************)
(* Two workloads for MagicLinks, over one set of requests.  In a race two  *)
(* requests for one account, two consumers and an erasure overlap within a *)
(* moment.  At the limit two requests for one account, one for an unknown  *)
(* address and a consumer meet the caps and the sweep as time passes.      *)
(***************************************************************************)
EXTENDS MagicLinks, TLC

CONSTANTS r1, r2, r3, c1, c2, x1, u1, ip1, ip2

VARIABLE load

MCAccount == r1 :> u1 @@ r2 :> u1 @@ r3 :> NoUser
MCSource == r1 :> ip1 @@ r2 :> ip2 @@ r3 :> ip1
MCErased == x1 :> u1

\* Who takes part; the others are done from the start.
TakesPart(w) == IF w = "race" THEN {r1, r2, c1, c2, x1} ELSE {r1, r2, r3, c1}
LastTime(w) == IF w = "race" THEN 1 ELSE MaxTime

LoadInit ==
    /\ load \in {"race", "limit"}
    /\ rows = [l \in Link |-> "none"] /\ created = [l \in Link |-> 0]
    /\ pc = [p \in Proc |-> IF p \in TakesPart(load) THEN "start" ELSE "done"]
    /\ now = [p \in Proc |-> 0] /\ over = [l \in Link |-> FALSE]
    /\ pending = [p \in Link \cup Eraser |-> {}]
    /\ token = [c \in Consumer |-> NoLink]
    /\ mailed = {} /\ sessions = {} /\ clock = 0 /\ swept = {}
    /\ begun = [l \in Link |-> {}]

LoadNext == Next /\ UNCHANGED load /\ clock' <= LastTime(load)

LoadSpec == LoadInit /\ [][LoadNext]_<<vars, load>> /\ Fairness
=============================================================================
