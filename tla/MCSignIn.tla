------------------------------ MODULE MCSignIn ------------------------------
(***************************************************************************)
(* Sessions, passwords, the OIDC login flow and the terminals behind it,   *)
(* model-checked together.  They meet in the session rows only where a     *)
(* sign-in issues one, so a behaviour is about one part, chosen at first.  *)
(***************************************************************************)
EXTENDS Passwords, Loopback, TLC

CONSTANTS s1, s2, s3, n1, o1, r1, r2, a1, a2, w0, w1,
          b1, b2, f1, f2, c1, c2, v1, v2, x1, x2

VARIABLE part

MCOwner == [s \in Session |-> IF s = o1 THEN "v" ELSE "u"]
Has(w) == [u \in {"u", "v"} |-> IF u = "u" THEN w ELSE NoPassword]

Work(requests, tokens, acts, until, w) ==
    [requests |-> requests, tokens |-> tokens, acts |-> acts, until |-> until, hash |-> Has(w)]

Nobody == Work({}, {}, {}, 0, NoPassword)

\* One request over a whole lifetime; two of one user, and of two; calls of
\* the password kit with and without a password, and next to a request.
MCLoad ==
    {Nobody} \cup
    UNION {{Work({r}, {s1, n1}, {}, 5, NoPassword),
            Work({r}, {s1, s2, n1}, {a}, 0, w0)} : r \in Request, a \in Act} \cup
    {Work(Request, {s1}, {}, 3, NoPassword),
     Work(Request, {s1, n1, o1}, {}, 0, NoPassword),
     Work({}, {s1, s2, n1}, Act, 0, w0),
     Work({}, {s1, s2}, Act, 0, NoPassword)}

\* The race of one login with one change.
OneChange == {Work({}, {s1, s2}, Act, 0, w0)}

Flows(kinds, flows, visits, swaps) ==
    [kinds |-> kinds, flows |-> flows, visits |-> visits, swaps |-> swaps]

Quiet == Flows({}, {}, {}, {})

\* Callbacks that race, exchanges that race, and terminals that share a port.
MCFlows ==
    {Quiet,
     Flows({"browser", "paste"}, Flow, Visit, {x1}),
     Flows({"paste", "mobile"}, Flow, {v1}, Swap),
     Flows({"cli"}, Flow, {v1}, {x1})}

Symmetric == UNION {Permutations(S) : S \in {Request, Act, Flow, Cli}}

SignInInit ==
    /\ PasswordInit /\ LoopbackInit
    /\ \/ part = "sessions" /\ traffic = Quiet /\ load # Nobody
       \/ part = "flows" /\ load = Nobody /\ traffic # Quiet

SignInNext ==
    /\ \/ part = "sessions" /\ PasswordNext /\ UNCHANGED lvars
       \/ part = "flows" /\ LoopbackNext /\ UNCHANGED pvars
    /\ UNCHANGED part

SignInSpec == SignInInit /\ [][SignInNext]_<<pvars, lvars, part>>
=============================================================================
