------------------------------ MODULE Sessions ------------------------------
(***************************************************************************)
(* porte/session: one opaque token, two transports.  A request presents a  *)
(* token, Authenticate reads its row, checks expiry and the idle window,   *)
(* drops a dead row or records the use, and the handler then reads, logs   *)
(* out, mints a named token or revokes.  One step is one statement of      *)
(* pg.SessionStore; other requests run in between.                         *)
(*                                                                         *)
(* A token is known by its name, so an id, a hash and a token are one.     *)
(* One browser holds one cookie: jar.  A load says which requests and      *)
(* tokens take part in a behaviour, and for how long.                      *)
(***************************************************************************)
EXTENDS Naturals, FiniteSets

CONSTANTS Session,        \* tokens that may be issued, each once
          Named,          \* those that carry a label: API tokens
          Owner,          \* the account of each
          Request,        \* requests in flight; a finished one starts over
          NoSession,
          SessionTTL, IdleTTL,   \* Config's lifetime and idle window
          TouchInterval,  \* how far last_used_at may lag
          MaxTime,        \* bound on the clock
          Load            \* workloads: requests, tokens, until; Passwords adds acts and hash

ASSUME SessionAssumption ==
    /\ Named \subseteq Session /\ NoSession \notin Session
    /\ SessionTTL \in Nat \ {0} /\ IdleTTL \in Nat \ {0}
    /\ TouchInterval \in Nat /\ MaxTime \in Nat
    /\ \A l \in Load : l.requests \subseteq Request /\ l.tokens \subseteq Session /\ l.until <= MaxTime

VARIABLES
    rows,   \* porte_sessions
    jar,    \* the cookie in the browser
    req,    \* what each request holds
    clock,
    load,
    used    \* history: when a use of each token was last recorded

svars == <<rows, jar, req, clock, load, used>>

Time == 0..MaxTime
Kind == {"read", "write", "logout"}
Handler == {"mint", "revoke", "revoke_logins", "revoke_user"}
Idle == [pc |-> "start", token |-> NoSession, cookie |-> FALSE, forged |-> FALSE,
         kind |-> "read", row |-> [used |-> 0, expires |-> 0],
         now |-> 0, dead |-> FALSE, seen |-> 0]

Live == {s \in Session : rows[s].state = "live"}
Logins(u) == {s \in Live \ Named : Owner[s] = u}
Of(u) == {s \in Live : Owner[s] = u}

NoRow(state) == [state |-> state, used |-> 0, expires |-> 0]

\* A DELETE of these rows.
Ended(S) == [s \in Session |-> IF s \in S THEN NoRow("gone") ELSE rows[s]]

\* IssueFor's row.  A zero expires_at is none.
Fresh(s, time) ==
    [state |-> "live", used |-> time, expires |-> IF s \in Named THEN 0 ELSE time + SessionTTL]

SessionInit ==
    /\ rows = [s \in Session |-> NoRow("none")]
    /\ jar = NoSession
    /\ req = [r \in Request |-> Idle]
    /\ clock = 0
    /\ load \in Load
    /\ used = [s \in Session |-> 0]

At(r, label) == req[r].pc = label
Goto(r, label) == req' = [req EXCEPT ![r].pc = label]
Finish(r) == req' = [req EXCEPT ![r] = Idle]

Stored(s) ==
    /\ s \in load.tokens /\ rows[s].state = "none"
    /\ rows' = [rows EXCEPT ![s] = Fresh(s, clock)]
    /\ used' = [used EXCEPT ![s] = clock]

\* IssueCookieFor after a sign-in: to a browser, or to a CLI that reads the body.
SignIn(s) ==
    /\ s \notin Named
    /\ Stored(s)
    /\ jar' \in {jar, s}
    /\ UNCHANGED <<req, clock, load>>

-----------------------------------------------------------------------------
(* Authenticate. *)

Mutating(kind) == kind # "read"

\* The cookie wins over a bearer.  A request another site makes carries the
\* cookie and cannot set the CSRF header, nor a bearer.
Present(r) ==
    /\ At(r, "start") /\ r \in load.requests
    /\ \E s \in Session, kind \in Kind, cookie, forged \in BOOLEAN :
        /\ rows[s].state # "none"
        /\ cookie => s = jar
        /\ forged => cookie
        /\ req' = [req EXCEPT ![r] =
             [Idle EXCEPT !.token = s, !.cookie = cookie, !.kind = kind,
                          !.forged = forged /\ kind = "logout", !.dead = rows[s].state # "live",
                          !.pc = IF ~(forged /\ Mutating(kind)) THEN "find"
                                 ELSE IF kind = "logout" THEN "anonymous" ELSE "start"]]
    /\ UNCHANGED <<rows, jar, clock, load, used>>

\* Optional serves a refused request as nobody's; RequireAuth answers it.
Refuse(r) ==
    IF req[r].kind # "logout" THEN Finish(r)
    ELSE req' = [req EXCEPT ![r] = [Idle EXCEPT !.pc = "anonymous", !.token = req[r].token,
                                                !.cookie = req[r].cookie]]

ClearCookie(r) == jar' = IF req[r].cookie THEN NoSession ELSE jar

\* SELECT by hash, which may fail, and does not filter on expiry.
Find(r) ==
    LET s == req[r].token IN
    /\ At(r, "find")
    /\ \/ /\ rows[s].state = "live"
          /\ req' = [req EXCEPT ![r].pc = "check", ![r].seen = IF req[r].cookie THEN used[s] ELSE 0,
                     ![r].row = [used |-> rows[s].used, expires |-> rows[s].expires]]
          /\ UNCHANGED jar
       \/ rows[s].state # "live" /\ ClearCookie(r) /\ Refuse(r)
       \/ Refuse(r) /\ UNCHANGED jar
    /\ UNCHANGED <<rows, clock, load, used>>

Expired(row, time) == row.expires # 0 /\ time > row.expires

\* A use counts for as long as the row is there.
Recorded(r, time) ==
    LET s == req[r].token IN
    [used EXCEPT ![s] = IF s \in Live /\ @ < time THEN time ELSE @]

\* Mutant: the idle window measured from a second use that is still allowed.
IdledOut_Late(r, time) == req[r].cookie /\ time - req[r].row.used > IdleTTL

\* Only the cookie transport idles out.
IdledOut(r, time) == req[r].cookie /\ time - req[r].row.used >= IdleTTL

\* m.now() and what it says of the row that was read.
Check(r) ==
    LET dead == Expired(req[r].row, clock) \/ IdledOut(r, clock)
        recent == clock - req[r].row.used < TouchInterval IN
    /\ At(r, "check")
    /\ req' = [req EXCEPT ![r].now = clock,
                          ![r].row = IF dead THEN @ ELSE Idle.row,
                          ![r].pc = IF dead THEN "drop" ELSE IF recent THEN "serve" ELSE "touch"]
    /\ used' = IF ~dead /\ recent THEN Recorded(r, clock) ELSE used
    /\ UNCHANGED <<rows, jar, clock, load>>

\* DELETE by hash.  A failure is logged; the answer is the same.
Drop(r) ==
    /\ At(r, "drop")
    /\ rows' \in {rows, Ended({req[r].token} \cap Live)}
    /\ ClearCookie(r) /\ Refuse(r)
    /\ UNCHANGED <<clock, load, used>>

\* Mutant: the use is saved with the row that was read, as an upsert.
Touched_Upsert(r) == [rows EXCEPT ![req[r].token].state = "live", ![req[r].token].used = req[r].now]

\* The UPDATE that records a use, unless the row has a recent one.
Touched(r) ==
    LET s == req[r].token IN
    IF rows[s].state = "live" /\ rows[s].used + TouchInterval < req[r].now
    THEN [rows EXCEPT ![s].used = req[r].now] ELSE rows

\* A failure to touch is logged and the request served.
Touch(r) ==
    /\ At(r, "touch")
    /\ \/ rows' = Touched(r) /\ used' = Recorded(r, req[r].now)
       \/ UNCHANGED <<rows, used>>
    /\ Goto(r, "serve")
    /\ UNCHANGED <<jar, clock, load>>

-----------------------------------------------------------------------------
(* The handlers behind it. *)

User(r) == Owner[req[r].token]

\* The handler the request was for runs as the user it was authenticated as.
Serve(r) ==
    /\ At(r, "serve")
    /\ \/ req[r].kind = "read" /\ Finish(r)
       \/ \E label \in IF req[r].kind = "write" THEN Handler
                      ELSE IF req[r].kind = "logout" THEN {"logout"} ELSE {} :
             req' = [req EXCEPT ![r] = [Idle EXCEPT !.pc = label, !.token = req[r].token]]
    /\ UNCHANGED <<rows, jar, clock, load, used>>

\* A named token bound to the caller's session: stored only while that exists.
Mint(r) ==
    /\ At(r, "mint")
    /\ \/ \E s \in Named : Owner[s] = User(r) /\ req[r].token \in Live /\ Stored(s)
       \/ UNCHANGED <<rows, used>>
    /\ Finish(r)
    /\ UNCHANGED <<jar, clock, load>>

\* DeleteByID's WHERE id = $1 AND user_id = $2.
Revocable(u, s) == {s} \cap Of(u)

\* Any integer may be given for an id.
Revoke(r) ==
    /\ At(r, "revoke")
    /\ \E s \in Session : rows' \in {rows, Ended(Revocable(User(r), s))}
    /\ Finish(r)
    /\ UNCHANGED <<jar, clock, load, used>>

\* DeleteLogins spares the labelled rows and one id.
RevokeLogins(r) ==
    /\ At(r, "revoke_logins")
    /\ \E except \in {NoSession, req[r].token} :
          rows' \in {rows, Ended(Logins(User(r)) \ {except})}
    /\ Finish(r)
    /\ UNCHANGED <<jar, clock, load, used>>

RevokeUser(r) ==
    /\ At(r, "revoke_user")
    /\ rows' \in {rows, Ended(Of(User(r)))}
    /\ Finish(r)
    /\ UNCHANGED <<jar, clock, load, used>>

\* handleBackchannelLogout resolves the token's subject and ends everything.
BackchannelLogout(r) ==
    /\ At(r, "start") /\ r \in load.requests
    /\ \E s \in Session : /\ rows[s].state # "none"
                          /\ req' = [req EXCEPT ![r] = [Idle EXCEPT !.pc = "revoke_user", !.token = s]]
    /\ UNCHANGED <<rows, jar, clock, load, used>>

\* Clear: the caller's row, then the cookie.  When the DELETE fails both stay.
Logout(r) ==
    /\ At(r, "logout")
    /\ \/ rows' = Ended(Revocable(User(r), req[r].token)) /\ jar' = NoSession
       \/ UNCHANGED <<rows, jar>>
    /\ Finish(r)
    /\ UNCHANGED <<clock, load, used>>

\* Mutant: the handler leaves the header to Authenticate.
MayClear_Always(r) == TRUE

\* handleLogout's own check, since Optional swallowed Authenticate's.
MayClear(r) == req[r].cookie => ~req[r].forged

LogoutNobody(r) ==
    /\ At(r, "anonymous")
    /\ jar' = IF MayClear(r) THEN NoSession ELSE jar
    /\ Finish(r)
    /\ UNCHANGED <<rows, clock, load, used>>

Sweep ==
    /\ rows' = Ended({s \in Live : Expired(rows[s], clock)})
    /\ UNCHANGED <<jar, req, clock, load, used>>

SessionTick ==
    /\ clock < load.until
    /\ clock' = clock + 1
    /\ UNCHANGED <<rows, jar, req, load, used>>

Step(r) ==
    \/ Present(r) \/ Find(r) \/ Check(r) \/ Drop(r) \/ Touch(r)
    \/ Serve(r) \/ Mint(r) \/ Revoke(r) \/ RevokeLogins(r) \/ RevokeUser(r)
    \/ Logout(r) \/ LogoutNobody(r) \/ BackchannelLogout(r)

SessionNext ==
    \/ \E s \in Session : SignIn(s)
    \/ \E r \in Request : Step(r)
    \/ Sweep \/ SessionTick

SessionSpec == SessionInit /\ [][SessionNext]_svars

-----------------------------------------------------------------------------
(* Properties. *)

\* A request that begins after its session ended, by whatever revocation,
\* logout, sweep or drop, is never served: Touch only updates
\* (pg.go Touch, session.go Authenticate).
EndedStaysEnded == \A r \in Request : At(r, "serve") => ~req[r].dead

\* A cookie is served only within the idle window of the last recorded use,
\* and refused as idle only that long after a use, less the minute by which
\* last_used_at lags; uses later than the read are not seen
\* (session.go idledOut, touchInterval, pg.go Touch).
IdleWindowHolds ==
    \A r \in Request :
        /\ At(r, "serve") /\ req[r].cookie => req[r].now < req[r].seen + IdleTTL
        /\ At(r, "drop") /\ ~Expired(req[r].row, req[r].now) =>
              req[r].now + TouchInterval >= req[r].seen + IdleTTL

\* A request another site makes ends no session and takes no cookie from the
\* browser, unless it only reads and the session was dead
\* (session.go handleLogout, Authenticate).
ForgedHarmless ==
    [][\A r \in Request : req[r].forged /\ Mutating(req[r].kind) /\ req'[r] # req[r] =>
          UNCHANGED <<rows, jar>>]_svars
=============================================================================
