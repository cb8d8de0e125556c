----------------------------- MODULE MCAccounts -----------------------------
(* Workloads for Accounts: which requests run together, with which claims. *)
EXTENDS Accounts, Sequences

CONSTANTS s1, s2, s3, e1, e2

Ask(kind, subj, email, verified) ==
    [kind |-> kind, subj |-> subj, email |-> email, verified |-> verified]

Slots == 1..5
Together(asked) ==
    [p \in Slots |-> IF p <= Len(asked) THEN asked[p] ELSE Ask("none", s1, e1, FALSE)]

Squatter == Ask("browser", s1, e1, FALSE)
Owner    == Ask("browser", s2, e1, TRUE)
Token    == Ask("mint", s1, e1, FALSE)
Erase    == Ask("erase", s1, e1, FALSE)

\* A squatter's unverified first login, a token loop, the owner's verified
\* first login, and a second verified subject of the same address.
Takeover == <<Squatter, Token, Owner, Ask("browser", s3, e1, TRUE)>>

\* Two first logins of one subject, a token minted by what they issued, and
\* the person's erasure.
Twins == <<Ask("browser", s1, e1, TRUE), Ask("cli", s1, e1, FALSE), Token, Erase>>

\* One subject from several places at once: CLI, code, device, logout.
Devices ==
    <<Ask("cli", s1, e1, TRUE), Ask("exchange", s1, e1, TRUE),
      Ask("device", s1, e1, TRUE), Erase, Ask("logout", s1, e1, TRUE)>>

\* The squatter has an account and signs in again while the owner does.
Returning == <<Squatter, Squatter, Owner>>

\* A subject whose address moves at the provider, while another subject
\* takes the new address and then the old one.
Movers ==
    <<Ask("browser", s1, e1, TRUE), Ask("browser", s1, e2, TRUE), Ask("cli", s2, e2, TRUE)>>

\* Every three requests out of a menu, whatever they do to each other.
ThreeOf(menu) ==
    LET N == 1..Len(menu) IN
    {<<menu[t[1]], menu[t[2]], menu[t[3]]>> :
        t \in {x \in N \X N \X N : x[1] <= x[2] /\ x[2] <= x[3]}}

\* A subject keeps its address.
Menu ==
    <<Squatter, Owner, Token, Erase, Ask("cli", s1, e1, TRUE), Ask("register", s1, e1, FALSE),
      Ask("exchange", s1, e1, TRUE), Ask("device", s1, e1, TRUE), Ask("logout", s1, e1, TRUE)>>

MixedWorkload == {Together(w) : w \in ThreeOf(Menu) \cup {Takeover, Twins, Devices}}
ReturningWorkload == {Together(Returning)}

\* Three logins of up to three subjects for one address, proved or not, or
\* two with a token, a code or an erasure beside them, if all the properties
\* of takeovers are to hold; and four mixes that go beyond.
LoginMenu ==
    <<Squatter, Owner, Token, Erase, Ask("cli", s1, e1, TRUE), Ask("browser", s3, e1, TRUE),
      Ask("cli", s3, e1, FALSE), Ask("exchange", s1, e1, TRUE)>>
Admitted(w) == ReturnsProven(w) /\ ProvesAlike(w) /\ NoneErased(w)
LoginWorkload ==
    {w \in {Together(m) : m \in ThreeOf(LoginMenu)} : Admitted(w)}
        \cup {Together(m) : m \in {Takeover, Twins, Devices, Movers}}
TwinsWorkload == {Together(Twins)}
=============================================================================
