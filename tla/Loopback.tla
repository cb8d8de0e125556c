------------------------------ MODULE Loopback ------------------------------
(***************************************************************************)
(* porte/loopback over the login flow: a terminal binds a loopback port,   *)
(* opens the login URL with its port and a nonce, and waits for the        *)
(* redirect that ends the flow.  The kernel picks the port, so one that a  *)
(* terminal has closed may be the next one's: here there is one port.      *)
(*                                                                         *)
(* The nonce is the terminal's name.  Each terminal waits once.            *)
(***************************************************************************)
EXTENDS OidcFlow

VARIABLES
    wait,        \* what WaitForCode of each terminal holds
    redirected   \* the flows whose redirect a browser has, and may reload

lvars == <<flow, cookie, visit, codes, swap, minted, hour, traffic, wait, redirected>>

NoWait == [pc |-> "none", open |-> FALSE, parked |-> NoFlow, result |-> NoFlow]

LoopbackInit ==
    /\ FlowInit
    /\ wait = [c \in Cli |-> NoWait]
    /\ redirected = {}

Listen(c) ==
    /\ wait[c].pc = "none" /\ "cli" \in traffic.kinds
    /\ \A d \in Cli : ~wait[d].open
    /\ wait' = [wait EXCEPT ![c] = [NoWait EXCEPT !.pc = "waiting", !.open = TRUE]]
    /\ UNCHANGED <<fvars, redirected>>

\* A browser opens LoginURL, perhaps late, perhaps twice.
OpenURL(c, b) ==
    /\ wait[c].pc # "none"
    /\ BeginLogin(b, "cli", c)
    /\ UNCHANGED <<wait, redirected>>

\* The callback's redirect names the port and echoes cli_state.
Redirected(v) ==
    LET f == visit[v].pending IN
    /\ IssueCode(v)
    /\ redirected' = IF flow[f].kind = "cli" /\ codes' # codes THEN redirected \cup {f} ELSE redirected
    /\ UNCHANGED wait

Echoes(f, c) == flow[f].caller = c

\* callback: a redirect reaches whoever listens.  The first code is parked,
\* anything else is answered and dropped.
Arrive(f, c) ==
    /\ f \in redirected /\ wait[c].open
    /\ Echoes(f, c) /\ wait[c].parked = NoFlow
    /\ wait' = [wait EXCEPT ![c].parked = f]
    /\ UNCHANGED <<fvars, redirected>>

\* The select takes a parked code, or ends by timeout or Ctrl-C even so.
TakeCode(c) ==
    /\ wait[c].pc = "waiting" /\ wait[c].parked # NoFlow
    /\ wait' = [wait EXCEPT ![c].pc = "done", ![c].result = wait[c].parked]
    /\ UNCHANGED <<fvars, redirected>>

GiveUp(c) ==
    /\ wait[c].pc = "waiting"
    /\ wait' = [wait EXCEPT ![c].pc = "failed"]
    /\ UNCHANGED <<fvars, redirected>>

\* Shutdown, and the port is free.
CloseListener(c) ==
    /\ wait[c].pc \in {"done", "failed"} /\ wait[c].open
    /\ wait' = [wait EXCEPT ![c].open = FALSE]
    /\ UNCHANGED <<fvars, redirected>>

CliStep(c) ==
    \/ Listen(c) \/ TakeCode(c) \/ GiveUp(c) \/ CloseListener(c)
    \/ \E b \in Browser : OpenURL(c, b)
    \/ \E f \in Flow : Arrive(f, c)

LoopbackNext ==
    \/ \E v \in Visit : Redirected(v)
    \/ \E c \in Cli : CliStep(c)
    \/ ServerNext /\ UNCHANGED <<wait, redirected>>

LoopbackSpec == LoopbackInit /\ [][LoopbackNext]_lvars

-----------------------------------------------------------------------------
(* Properties. *)

\* A browser is signed in only by a login it started itself, whichever
\* callback URL it is given (oidc/handlers.go handleCallback, completeFlow).
OwnLogin ==
    \A f \in Flow : \A i \in DOMAIN minted[f] :
        minted[f][i].to \in {flow[f].home, NoBrowser}

\* A mobile login's code yields a session only with that login's verifier,
\* and no other code yields one with any (oidc/handlers.go issueMobileCode,
\* handleExchange).
MobileBound ==
    \A f \in Flow : \A i \in DOMAIN minted[f] : minted[f][i].verifier = Challenge(f)

\* The code a terminal returns ends a login its own URL started, even when it
\* has taken over the port of a terminal whose login was still under way
\* (loopback/wait.go callback, loopback.go Listen).
LoopbackOwn ==
    \A c \in Cli : wait[c].result # NoFlow => flow[wait[c].result].caller = c

\* A login ends where it began: in the browser that started it, the app that
\* holds its verifier, or the terminal whose URL it was, though callbacks,
\* exchanges and terminals race (oidc/handlers.go handleCallback,
\* handleExchange; loopback/wait.go callback).
EndsWhereItBegan == OwnLogin /\ MobileBound /\ LoopbackOwn
=============================================================================
