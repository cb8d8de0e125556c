---------------------------- MODULE DeviceLogin ----------------------------
(***************************************************************************)
(* porte/devicelogin: a CLI signs in by the provider's device grant and    *)
(* trades the token it gets for the app's session at the device exchange,  *)
(* whose handler is here too.  The provider, the person who approves and   *)
(* the network are the environment; an answer may be lost.                 *)
(***************************************************************************)
EXTENDS Naturals

CONSTANTS Interval,      \* seconds between polls the provider asks for
          SlowDownStep,  \* what a slow_down adds
          ExpiresIn,     \* how long its codes last
          LastBeat,      \* bound on the clock
          MaxSlow        \* bound on the slow_downs

ASSUME DeviceAssumption ==
    Interval \in Nat \ {0} /\ SlowDownStep \in Nat \ {0} /\ ExpiresIn \in Nat /\ LastBeat \in Nat /\ MaxSlow \in Nat

VARIABLES
    terminal,   \* what Login holds: step, schedule, outcome
    approval,   \* what the person answered the provider
    asked,      \* history: the interval the answers received so far ask for
    polled,     \* history: when the provider last saw a request of this login
    app,        \* whether the route is mounted, the identity known, and sessions minted
    beat

dvars == <<terminal, approval, asked, polled, app, beat>>

Outcome == {"none", "failed", "not_mounted", "no_grant", "denied", "expired", "not_linked", "signed_in"}
Begins == [pc |-> "probe", interval |-> 0, deadline |-> 0, wake |-> 0, outcome |-> "none"]

DeviceInit ==
    /\ terminal = Begins
    /\ approval = "pending"
    /\ asked = 0 /\ polled = 0
    /\ app \in [mounted : BOOLEAN, linked : BOOLEAN, minted : {0}]
    /\ beat = 0

Ends(outcome) == terminal' = [terminal EXCEPT !.pc = "end", !.outcome = outcome]
Forward(label) == terminal' = [terminal EXCEPT !.pc = label]
TerminalAt(label) == terminal.pc = label

\* Mounted: only a 404 says no.
Probe ==
    /\ TerminalAt("probe")
    /\ \/ app.mounted /\ Forward("discover")
       \/ ~app.mounted /\ Ends("not_mounted")
       \/ Ends("failed")
    /\ UNCHANGED <<approval, asked, polled, app, beat>>

Discover ==
    /\ TerminalAt("discover")
    /\ Forward("authorize") \/ Ends("no_grant") \/ Ends("failed")
    /\ UNCHANGED <<approval, asked, polled, app, beat>>

\* A usable answer is announced, and the schedule starts.
Authorize ==
    /\ TerminalAt("authorize")
    /\ \/ /\ terminal' = [terminal EXCEPT !.pc = "wait", !.interval = Interval, !.deadline = beat + ExpiresIn]
          /\ asked' = Interval /\ polled' = beat
       \/ Ends("failed") /\ UNCHANGED <<asked, polled>>
    /\ UNCHANGED <<approval, app, beat>>

\* The person, once the link is on the screen.
Approve ==
    /\ approval = "pending" /\ terminal.interval > 0
    /\ approval' \in {"approved", "denied"}
    /\ UNCHANGED <<terminal, asked, polled, app, beat>>

\* wait: the deadline is looked at before the sleep and not after.
Wait ==
    /\ TerminalAt("wait")
    /\ IF beat >= terminal.deadline THEN Ends("expired")
       ELSE terminal' = [terminal EXCEPT !.pc = "sleep", !.wake = beat + terminal.interval]
    /\ UNCHANGED <<approval, asked, polled, app, beat>>

\* The timer, which may be late.
Wakes ==
    /\ TerminalAt("sleep") /\ beat >= terminal.wake
    /\ Forward("poll")
    /\ UNCHANGED <<approval, asked, polled, app, beat>>

Interrupt ==
    /\ terminal.pc \in {"wait", "sleep"}
    /\ Ends("failed")
    /\ UNCHANGED <<approval, asked, polled, app, beat>>

\* Mutant: a slow_down adds to what the provider first named.
Slower_Once == Interval + SlowDownStep

Slower == terminal.interval + SlowDownStep

\* One poll and its answer, as read takes it.  A transport error waits like
\* authorization_pending.
Poll ==
    /\ TerminalAt("poll")
    /\ polled' = beat
    /\ \/ Forward("wait") /\ UNCHANGED asked
       \/ /\ asked < Interval + MaxSlow * SlowDownStep
          /\ terminal' = [terminal EXCEPT !.pc = "wait", !.interval = Slower]
          /\ asked' = asked + SlowDownStep
       \/ approval = "denied" /\ Ends("denied") /\ UNCHANGED asked
       \/ beat >= terminal.deadline /\ Ends("expired") /\ UNCHANGED asked
       \/ approval = "approved" /\ Forward("exchange") /\ UNCHANGED asked
       \/ Ends("failed") /\ UNCHANGED asked
    /\ UNCHANGED <<approval, app, beat>>

\* handleDeviceExchange: a verified token of a known identity is issued a
\* session, and any other is refused with one answer.  IssueFor may fail.
HandleDeviceExchange ==
    /\ TerminalAt("exchange")
    /\ \/ app.mounted /\ app.linked /\ app' = [app EXCEPT !.minted = @ + 1] /\ (Ends("signed_in") \/ Ends("failed"))
       \/ ~app.linked /\ Ends("not_linked") /\ UNCHANGED app
       \/ Ends("failed") /\ UNCHANGED app
    /\ UNCHANGED <<approval, asked, polled, beat>>

Beat ==
    /\ beat < LastBeat /\ beat' = beat + 1
    /\ UNCHANGED <<terminal, approval, asked, polled, app>>

DeviceNext ==
    \/ Probe \/ Discover \/ Authorize \/ Approve \/ Wait \/ Wakes \/ Interrupt \/ Poll
    \/ HandleDeviceExchange \/ Beat

DeviceSpec == DeviceInit /\ [][DeviceNext]_dvars

-----------------------------------------------------------------------------
(* Properties. *)

\* A poll is never sent sooner than the answers received ask for: every
\* slow_down counts, for good, and a lost answer earns no retry before its
\* time (poll.go schedule, poll).
PollsSpaced == TerminalAt("poll") => beat >= polled + asked
=============================================================================
