------------------------------ MODULE OidcFlow ------------------------------
(***************************************************************************)
(* porte/oidc: the login flow on the server.  /auth/oidc leaves a flow     *)
(* cookie in the browser, the provider sends a browser back with a state   *)
(* and an authorization code, and the callback ends in a session cookie or *)
(* in a one-time login code, which /auth/cli/exchange trades for a token.  *)
(*                                                                         *)
(* A flow stands for what it drew: its state, nonce and PKCE verifier, the *)
(* authorization code granted to it, and the login code it may end in.     *)
(* Codes are presented as they were issued.  Callbacks and exchanges       *)
(* interleave; a response, with its Set-Cookie, leaves when a handler ends.*)
(***************************************************************************)
EXTENDS Naturals, Sequences

CONSTANTS Browser, NoBrowser,
          Flow, NoFlow,
          Cli, NoCli,        \* terminals that wait for a code; cli_state names one
          Visit,             \* callbacks in flight
          Swap,              \* exchanges in flight
          CodeTTL,           \* Config.LoginCodeTTL
          FlowTime,          \* bound on the clock
          FlowLoad           \* workloads: kinds of flow, flows, visits and swaps

ASSUME FlowAssumption ==
    /\ NoBrowser \notin Browser /\ NoFlow \notin Flow /\ NoCli \notin Cli
    /\ CodeTTL \in Nat /\ FlowTime \in Nat
    /\ \A l \in FlowLoad : l.flows \subseteq Flow /\ l.visits \subseteq Visit /\ l.swaps \subseteq Swap

VARIABLES
    flow,      \* the logins started, and what the provider granted each
    cookie,    \* the flow cookie of each browser
    visit,     \* what each callback holds
    codes,     \* porte_login_codes
    swap,      \* what each exchange holds
    minted,    \* history: the sessions issued for each flow
    hour,
    traffic

fvars == <<flow, cookie, visit, codes, swap, minted, hour, traffic>>

FlowKind == {"browser", "cli", "paste", "mobile"}
NoLogin == [kind |-> "none", home |-> NoBrowser, caller |-> NoCli, grant |-> "none"]
NoVisit == [pc |-> "start", browser |-> NoBrowser, pending |-> NoFlow, authz |-> NoFlow]
NoSwap == [pc |-> "start", code |-> NoFlow, verifier |-> NoFlow]
NoCode == [state |-> "none", expires |-> 0]

FlowInit ==
    /\ flow = [f \in Flow |-> NoLogin]
    /\ cookie = [b \in Browser |-> NoFlow]
    /\ visit = [v \in Visit |-> NoVisit]
    /\ codes = [f \in Flow |-> NoCode]
    /\ swap = [w \in Swap |-> NoSwap]
    /\ minted = [f \in Flow |-> << >>]
    /\ hour = 0
    /\ traffic \in FlowLoad

Issued(f, to, verifier) ==
    minted' = [minted EXCEPT ![f] = Append(@, [to |-> to, verifier |-> verifier])]

\* handleLogin.  A mobile login without a valid challenge is not started.
BeginLogin(b, kind, caller) ==
    \E f \in traffic.flows :
        /\ flow[f].kind = "none" /\ kind \in traffic.kinds
        /\ flow' = [flow EXCEPT ![f] = [kind |-> kind, home |-> b, caller |-> caller, grant |-> "none"]]
        /\ cookie' = [cookie EXCEPT ![b] = f]
        /\ UNCHANGED <<visit, codes, swap, minted, hour, traffic>>

\* The provider: somebody signs in at the authorization URL.
Grant(f) ==
    /\ flow[f].kind # "none" /\ flow[f].grant = "none"
    /\ flow' = [flow EXCEPT ![f].grant = "open"]
    /\ UNCHANGED <<cookie, visit, codes, swap, minted, hour, traffic>>

-----------------------------------------------------------------------------
(* handleCallback. *)

\* The pending flow rides in the browser's own cookie.
Pending(b, state) == cookie[b]

\* The response, which clears the cookie the browser has by then.
Answer(v) ==
    /\ visit' = [visit EXCEPT ![v] = NoVisit]
    /\ cookie' = [cookie EXCEPT ![visit[v].browser] = NoFlow]

\* Without a cookie, or with another flow's, the callback ends here.
Callback(v) ==
    /\ visit[v].pc = "start" /\ v \in traffic.visits
    /\ \E b \in Browser, state \in Flow, authz \in {f \in Flow : flow[f].grant # "none"} :
        /\ Pending(b, state) # NoFlow
        /\ IF Pending(b, state) = state
           THEN visit' = [visit EXCEPT ![v] = [pc |-> "exchange", browser |-> b, authz |-> authz,
                                               pending |-> state]] /\ UNCHANGED cookie
           ELSE cookie' = [cookie EXCEPT ![b] = NoFlow] /\ UNCHANGED visit
    /\ UNCHANGED <<flow, codes, swap, minted, hour, traffic>>

\* completeFlow: the provider takes a code once, with the verifier of its own
\* flow, and may burn it on a wrong one; the nonce is in what it returns.
CompleteFlow(v) ==
    LET f == visit[v].authz IN
    /\ visit[v].pc = "exchange"
    /\ \/ /\ flow[f].grant = "open" /\ visit[v].pending = f
          /\ flow' = [flow EXCEPT ![f].grant = "spent"]
          /\ visit' = [visit EXCEPT ![v].pc = "persist"]
          /\ UNCHANGED cookie
       \/ flow' \in {flow, [flow EXCEPT ![f].grant = "spent"]} /\ Answer(v)
    /\ UNCHANGED <<codes, swap, minted, hour, traffic>>

\* The app's upsert and the identity row; either may refuse.
Persist(v) ==
    /\ visit[v].pc = "persist"
    /\ \/ visit' = [visit EXCEPT ![v].pc = "issue"] /\ UNCHANGED cookie
       \/ Answer(v)
    /\ UNCHANGED <<flow, codes, swap, minted, hour, traffic>>

\* IssueCookieFor in the browser's own flow, a row in porte_login_codes and a
\* redirect or a page in the others.
IssueCookie(v) ==
    LET f == visit[v].pending IN
    /\ visit[v].pc = "issue" /\ flow[f].kind = "browser"
    /\ \/ Issued(f, visit[v].browser, NoFlow)
       \/ UNCHANGED minted
    /\ Answer(v)
    /\ UNCHANGED <<flow, codes, swap, hour, traffic>>

IssueCode(v) ==
    LET f == visit[v].pending IN
    /\ visit[v].pc = "issue" /\ flow[f].kind # "browser"
    /\ \/ codes' = [codes EXCEPT ![f] = [state |-> "live", expires |-> hour + CodeTTL]]
       \/ UNCHANGED codes
    /\ Answer(v)
    /\ UNCHANGED <<flow, swap, minted, hour, traffic>>

-----------------------------------------------------------------------------
(* handleExchange. *)

\* The hash a code is stored under covers a mobile flow's challenge.
Challenge(f) == IF flow[f].kind = "mobile" THEN f ELSE NoFlow

\* Mutant: the verifier is checked for shape and left out of the lookup.
Names_Bare(f, verifier) == TRUE

\* The hash looked up covers the verifier's challenge when one is given.
Names(f, verifier) == verifier = Challenge(f)

Exchange(w) ==
    /\ swap[w].pc = "start" /\ w \in traffic.swaps
    /\ \E f \in {f \in Flow : codes[f].state # "none"}, verifier \in Flow \cup {NoFlow} :
          swap' = [swap EXCEPT ![w] = [pc |-> "consume", code |-> f, verifier |-> verifier]]
    /\ UNCHANGED <<flow, cookie, visit, codes, minted, hour, traffic>>

\* Mutant: the stamp is written over an earlier one.
Unspent_Any(f) == codes[f].state \in {"live", "consumed"}

Unspent(f) == codes[f].state = "live"

\* Consume: one UPDATE, which stamps the row.  A replay and an unknown code
\* both end in a refusal.
Consume(w) ==
    LET f == swap[w].code IN
    /\ swap[w].pc = "consume"
    /\ \/ /\ Unspent(f) /\ Names(f, swap[w].verifier)
          /\ codes' = [codes EXCEPT ![f].state = "consumed"]
          /\ swap' = [swap EXCEPT ![w].pc = "issue"]
       \/ swap' = [swap EXCEPT ![w] = NoSwap] /\ UNCHANGED codes
    /\ UNCHANGED <<flow, cookie, visit, minted, hour, traffic>>

\* The clock is read after the row is claimed; IssueFor may refuse.
Issue(w) ==
    LET f == swap[w].code IN
    /\ swap[w].pc = "issue"
    /\ \/ hour <= codes[f].expires /\ Issued(f, NoBrowser, swap[w].verifier)
       \/ UNCHANGED minted
    /\ swap' = [swap EXCEPT ![w] = NoSwap]
    /\ UNCHANGED <<flow, cookie, visit, codes, hour, traffic>>

\* The sweeper deletes a spent row with an unused one.
SweepCodes ==
    /\ codes' = [f \in Flow |-> IF codes[f].state # "none" /\ codes[f].expires < hour
                                THEN [codes[f] EXCEPT !.state = "gone"] ELSE codes[f]]
    /\ UNCHANGED <<flow, cookie, visit, swap, minted, hour, traffic>>

FlowTick ==
    /\ hour < FlowTime
    /\ hour' = hour + 1
    /\ UNCHANGED <<flow, cookie, visit, codes, swap, minted, traffic>>

\* Every step but those that concern a terminal, which Loopback adds.
ServerNext ==
    \/ \E b \in Browser, kind \in FlowKind \ {"cli"} : BeginLogin(b, kind, NoCli)
    \/ \E f \in Flow : Grant(f)
    \/ \E v \in Visit : Callback(v) \/ CompleteFlow(v) \/ Persist(v) \/ IssueCookie(v)
    \/ \E w \in Swap : Exchange(w) \/ Consume(w) \/ Issue(w)
    \/ SweepCodes \/ FlowTick

-----------------------------------------------------------------------------
(* Properties. *)

\* However often a callback is reloaded and a code presented, raced or swept,
\* one sign-in at the provider yields one session (oidc/handlers.go
\* handleCallback, handleExchange, pg.go Consume, DeleteExpired).
OneSessionPerLogin == \A f \in Flow : Len(minted[f]) <= 1
=============================================================================
