----------------------------- MODULE Passwords -----------------------------
(***************************************************************************)
(* porte/local over the sessions: Login, Verify, SetPassword and           *)
(* ChangePassword.  Each call reads the account's password identity,       *)
(* decides, and writes in later statements, so two calls on one account    *)
(* interleave; any write may fail, and what was written before it stays.   *)
(*                                                                         *)
(* A password and its hash are one name.  Register is in Accounts.         *)
(***************************************************************************)
EXTENDS Sessions

CONSTANTS Act,          \* calls of the kit
          Password, NoPassword,
          Issuer,       \* whether Config has one: the kit is federated
          AllowProtocolPasswords

ASSUME PasswordAssumption ==
    /\ NoPassword \notin Password
    /\ Issuer \in BOOLEAN /\ AllowProtocolPasswords \in BOOLEAN
    /\ \A l \in Load : l.acts \subseteq Act /\ l.hash \in [{Owner[s] : s \in Session} -> Password \cup {NoPassword}]

VARIABLES
    hash,    \* the password identity of each account
    act,     \* what each call holds
    vouch    \* history: the password each token was issued for

pvars == <<rows, jar, req, clock, load, used, hash, act, vouch>>

Users == {Owner[s] : s \in Session}
Call == {"login", "verify", "set", "change"}
NoAct == [pc |-> "start", kind |-> "login", user |-> "", given |-> NoPassword,
          next |-> NoPassword, caller |-> NoSession, before |-> {}]

PasswordInit ==
    /\ SessionInit
    /\ hash = load.hash
    /\ act = [a \in Act |-> NoAct]
    /\ vouch = [s \in Session |-> NoPassword]

On(a, label) == act[a].pc = label
Move(a, label) == act' = [act EXCEPT ![a].pc = label]
SessionsStay == UNCHANGED <<rows, jar, used, vouch>>
KitStays == UNCHANGED <<hash, act, vouch>>

\* With an issuer the routes are not mounted and the methods answer 404.
Open(kind) ==
    \/ kind \in {"set", "change"} \/ ~Issuer
    \/ kind = "verify" /\ AllowProtocolPasswords

\* A change or a first password comes from a signed-in request, by session or
\* by a JWT that has none.
Begin(a) ==
    /\ On(a, "start") /\ a \in load.acts
    /\ \E kind \in Call, u \in Users, given, next \in Password, caller \in Live \cup {NoSession} :
        /\ Open(kind)
        /\ kind \in {"login", "verify"} => next = given /\ caller = NoSession
        /\ kind = "set" => given = next /\ caller = NoSession
        /\ kind = "change" => given # next /\ (caller # NoSession => Owner[caller] = u)
        /\ act' = [act EXCEPT ![a] = [NoAct EXCEPT !.pc = "read", !.kind = kind, !.user = u,
                                                   !.given = given, !.next = next, !.caller = caller]]
    /\ SessionsStay /\ UNCHANGED <<req, clock, load, hash>>

Right(a) == hash[act[a].user] = act[a].given

\* Identities.Find and the comparison, by kind.  A wrong password, an account
\* without one, and for a first password an account with one, end here.
Read(a) ==
    LET kind == act[a].kind
        ok == IF kind = "set" THEN hash[act[a].user] = NoPassword ELSE Right(a) IN
    /\ On(a, "read")
    /\ \/ /\ ok
          /\ Move(a, IF kind = "verify" THEN "ok" ELSE IF kind = "login" THEN "issue" ELSE "save")
       \/ Move(a, "failed")
    /\ SessionsStay /\ UNCHANGED <<req, clock, load, hash>>

\* Save writes the row it read with the new hash, whatever it holds now.
Save(a) ==
    LET u == act[a].user IN
    /\ On(a, "save")
    /\ \/ /\ hash' = [hash EXCEPT ![u] = act[a].next]
          /\ act' = [act EXCEPT ![a].pc = IF act[a].kind = "set" THEN "ok" ELSE "logins",
                                ![a].before = Logins(u)]
       \/ Move(a, "failed") /\ UNCHANGED hash
    /\ SessionsStay /\ UNCHANGED <<req, clock, load>>

\* RevokeLogins with the caller's session as except.
EndLogins(a) ==
    /\ On(a, "logins")
    /\ \/ /\ rows' = Ended(Logins(act[a].user) \ {act[a].caller})
          /\ Move(a, IF act[a].caller = NoSession THEN "issue" ELSE "rotate")
       \/ Move(a, "failed") /\ UNCHANGED rows
    /\ UNCHANGED <<jar, req, clock, load, used, hash, vouch>>

\* Mutant: the caller keeps the session it had.
Rotated_None(a) == {}

Rotated(a) == Revocable(act[a].user, act[a].caller)

\* Revoke of the caller's session; a row that is gone is as good.
Rotate(a) ==
    /\ On(a, "rotate")
    /\ \/ rows' = Ended(Rotated(a)) /\ Move(a, "issue")
       \/ Move(a, "failed") /\ UNCHANGED rows
    /\ UNCHANGED <<jar, req, clock, load, used, hash, vouch>>

\* IssueCookieFor(localSession): stored while the password identity is there.
IssueLogin(a) ==
    /\ On(a, "issue")
    /\ \/ \E s \in Session \ Named :
            /\ Owner[s] = act[a].user /\ hash[act[a].user] # NoPassword
            /\ Stored(s)
            /\ jar' \in {jar, s}
            /\ vouch' = [vouch EXCEPT ![s] = act[a].next]
            /\ Move(a, "ok")
       \/ Move(a, "failed") /\ SessionsStay
    /\ UNCHANGED <<req, clock, load, hash>>

ActStep(a) == Begin(a) \/ Read(a) \/ Save(a) \/ EndLogins(a) \/ Rotate(a) \/ IssueLogin(a)

PasswordNext ==
    \/ SessionNext /\ KitStays
    \/ \E a \in Act : ActStep(a)

PasswordSpec == PasswordInit /\ [][PasswordNext]_pvars

-----------------------------------------------------------------------------
(* Properties. *)

\* A change that answers success has ended every login its account had when
\* the new hash was stored, the caller's own included, whatever logins,
\* changes and revocations ran meanwhile (local.go ChangePassword).
OldLoginsEnd ==
    \A a \in Act : On(a, "ok") /\ act[a].kind = "change" => act[a].before \cap Live = {}

\* "A password's replacement should not leave credentials minted by the old
\* one alive" (local.go ChangePassword).
OldPasswordLeavesNothing ==
    \A a \in Act : On(a, "ok") /\ act[a].kind = "change" =>
        \A s \in Logins(act[a].user) : vouch[s] # act[a].given
=============================================================================
