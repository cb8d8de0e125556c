--------------------------- MODULE SessionsProofs ---------------------------
(***************************************************************************)
(* A session that ended stays ended, the idle window holds, a forged       *)
(* request does nothing and a password change ends every login, for any    *)
(* number of tokens, requests and calls and any lifetimes.                 *)
(*                                                                         *)
(* EndedStaysEnded speaks of the request that is about to be served; the   *)
(* invariant follows it from its first step: the row it asks for is gone,  *)
(* no statement brings a row back, and so it gets no further than its      *)
(* SELECT.                                                                 *)
(***************************************************************************)
EXTENDS Passwords, TLAPS

Labels == {"start", "find", "check", "drop", "touch", "serve", "anonymous", "logout"} \cup Handler

SType ==
    /\ rows \in [Session -> [state : {"none", "live", "gone"}, used : Nat, expires : Nat]]
    /\ req \in [Request -> [pc : Labels, token : Session \cup {NoSession}, cookie : BOOLEAN,
                            forged : BOOLEAN, kind : Kind, row : [used : Nat, expires : Nat],
                            now : Nat, dead : BOOLEAN, seen : Nat]]
    /\ jar \in Session \cup {NoSession}
    /\ clock \in Nat
    /\ used \in [Session -> Nat]
    /\ load \in Load

\* A request that began on an ended session has got no further than its SELECT.
Stopped ==
    \A r \in Request : req[r].dead =>
        /\ req[r].pc \in {"start", "find", "anonymous"}
        /\ req[r].token \in Session /\ rows[req[r].token].state = "gone"

\* Past its first step, a request names a token.
Names == \A r \in Request : req[r].pc # "start" => req[r].token \in Session

SInv == SType /\ Stopped /\ Names

LEMMA StoppedInit == SessionInit => SInv
  BY SessionAssumption DEF SessionInit, SInv, SType, Stopped, Names, NoRow, Idle, Kind, Labels

\* What a statement may do to the rows.
Forwards ==
    \A s \in Session : rows[s].state = "gone" => rows'[s].state = "gone"

RowType == [Session -> [state : {"none", "live", "gone"}, used : Nat, expires : Nat]]

LEMMA EndedForwards ==
    ASSUME SType, NEW S, rows' = Ended(S)
    PROVE  rows' \in RowType /\ Forwards
  BY DEF SType, Ended, NoRow, RowType, Forwards

LEMMA StoredForwards ==
    ASSUME SType, NEW s \in Session, Stored(s)
    PROVE  rows' \in RowType /\ Forwards /\ used' \in [Session -> Nat]
  BY SessionAssumption DEF SType, Stored, Fresh, RowType, Forwards

LEMMA TouchedForwards ==
    ASSUME SType, NEW r \in Request, rows' = Touched(r), req[r].token \in Session
    PROVE  rows' \in RowType /\ Forwards
  BY DEF SType, Touched, RowType, Forwards

LEMMA RecordedType ==
    ASSUME SType, NEW r \in Request, NEW time \in Nat, req[r].token \in Session
    PROVE  Recorded(r, time) \in [Session -> Nat]
  BY DEF SType, Recorded

\* What a step leaves of the rest, in every action.
RestMoves ==
    /\ rows' \in RowType /\ Forwards
    /\ jar' \in Session \cup {NoSession} /\ clock' \in Nat
    /\ used' \in [Session -> Nat] /\ load' = load

RestStays == UNCHANGED <<rows, jar, clock, used, load>>

LEMMA StaysMoves == ASSUME SType, RestStays PROVE RestMoves
  BY DEF SType, RestStays, RestMoves, RowType, Forwards

\* Requests that stay where they are stay stopped.
LEMMA OthersStop == ASSUME SInv, RestMoves, req' = req PROVE SInv'
  BY DEF SInv, SType, Stopped, Names, RestMoves, RowType, Forwards

ReqType == [pc : Labels, token : Session \cup {NoSession}, cookie : BOOLEAN,
            forged : BOOLEAN, kind : Kind, row : [used : Nat, expires : Nat],
            now : Nat, dead : BOOLEAN, seen : Nat]

\* One request moves to a state that is not dead, or stopped.
LEMMA OneMoves ==
    ASSUME SInv, RestMoves,
           NEW r \in Request, NEW q \in ReqType, req' = [req EXCEPT ![r] = q],
           q.pc # "start" => q.token \in Session,
           q.dead => /\ q.pc \in {"start", "find", "anonymous"}
                     /\ q.token \in Session /\ rows'[q.token].state = "gone"
    PROVE  SInv'
<1>1. /\ \A p \in Request : req'[p] = IF p = r THEN q ELSE req[p]
      /\ req' \in [Request -> ReqType]
  BY DEF SInv, SType, ReqType
<1>2. SType'
  BY <1>1 DEF SInv, SType, RestMoves, RowType, ReqType
<1>3. Stopped' /\ Names'
  BY <1>1 DEF SInv, SType, Stopped, Names, RestMoves, Forwards, ReqType
<1> QED
  BY <1>2, <1>3 DEF SInv

LEMMA IdleType == Idle \in ReqType /\ Idle.pc = "start" /\ ~Idle.dead
  BY DEF Idle, ReqType, Labels, Kind

LEMMA FinishMoves == ASSUME SInv, RestMoves, NEW r \in Request, Finish(r) PROVE SInv'
  BY IdleType, OneMoves DEF Finish

\* A request that is past its SELECT goes on to any label.
LEMMA GotoMoves ==
    ASSUME SInv, RestMoves, NEW r \in Request, NEW label \in Labels, Goto(r, label),
           req[r].pc \notin {"start", "find", "anonymous"}
    PROVE  SInv'
<1> DEFINE q == [req[r] EXCEPT !.pc = label]
<1>1. req[r] \in ReqType
  BY DEF SInv, SType, ReqType
<1>2. q \in ReqType /\ q.token = req[r].token /\ q.dead = req[r].dead
  BY <1>1 DEF ReqType
<1>3. req' = [req EXCEPT ![r] = q]
  BY DEF Goto
<1>4. ~req[r].dead /\ req[r].token \in Session
  BY DEF SInv, Stopped, Names
<1> HIDE DEF q
<1> QED
  BY <1>2, <1>3, <1>4, OneMoves

\* A refused request ends, or goes on as nobody's.
LEMMA RefuseMoves ==
    ASSUME SInv, RestMoves, NEW r \in Request, Refuse(r), req[r].pc # "start"
    PROVE  SInv'
<1>1. CASE req[r].kind # "logout"
  BY <1>1, FinishMoves DEF Refuse
<1>2. CASE req[r].kind = "logout"
  <2> DEFINE q == [Idle EXCEPT !.pc = "anonymous", !.token = req[r].token, !.cookie = req[r].cookie]
  <2>1. req[r] \in ReqType /\ req[r].token \in Session
    BY DEF SInv, SType, Names, ReqType
  <2>2. q \in ReqType /\ ~q.dead /\ q.token \in Session
    BY <2>1 DEF Idle, ReqType, Labels, Kind
  <2>3. req' = [req EXCEPT ![r] = q]
    BY <1>2 DEF Refuse
  <2> HIDE DEF q
  <2> QED
    BY <2>2, <2>3, OneMoves
<1> QED
  BY <1>1, <1>2

LEMMA ClearedJar ==
    ASSUME SType, NEW r \in Request, ClearCookie(r)
    PROVE  jar' \in Session \cup {NoSession}
  BY DEF SType, ClearCookie

-----------------------------------------------------------------------------
(* The steps of Authenticate. *)

LEMMA PresentStops == ASSUME SInv, NEW r \in Request, Present(r) PROVE SInv'
<1>1. PICK s \in Session, kind \in Kind, cookie, forged \in BOOLEAN :
        /\ rows[s].state # "none"
        /\ cookie => s = jar
        /\ forged => cookie
        /\ req' = [req EXCEPT ![r] =
             [Idle EXCEPT !.token = s, !.cookie = cookie, !.kind = kind,
                          !.forged = forged /\ kind = "logout", !.dead = rows[s].state # "live",
                          !.pc = IF ~(forged /\ Mutating(kind)) THEN "find"
                                 ELSE IF kind = "logout" THEN "anonymous" ELSE "start"]]
  BY Zenon DEF Present
<1> DEFINE label == IF ~(forged /\ Mutating(kind)) THEN "find"
                    ELSE IF kind = "logout" THEN "anonymous" ELSE "start"
           asked == forged /\ kind = "logout"
           dead == rows[s].state # "live"
           q == [Idle EXCEPT !.token = s, !.cookie = cookie, !.kind = kind,
                             !.forged = asked, !.dead = dead, !.pc = label]
<1>2. label \in {"start", "find", "anonymous"} /\ asked \in BOOLEAN /\ dead \in BOOLEAN
  OBVIOUS
<1>3. dead => rows[s].state = "gone"
  BY <1>1 DEF SInv, SType
<1>4. req' = [req EXCEPT ![r] = q]
  BY <1>1
<1>5. RestMoves
  BY StaysMoves DEF Present, RestStays, SInv
<1> HIDE DEF label, asked, dead
<1>6. q \in ReqType /\ q.token = s /\ q.pc = label /\ q.dead = dead
  BY <1>2 DEF Idle, ReqType, Labels
<1> HIDE DEF q
<1>7. rows' = rows
  BY DEF Present
<1> QED
  BY <1>2, <1>3, <1>4, <1>5, <1>6, <1>7, OneMoves

LEMMA FindStops == ASSUME SInv, NEW r \in Request, Find(r) PROVE SInv'
<1> DEFINE s == req[r].token
<1>1. SType /\ req[r].pc = "find" /\ s \in Session /\ req[r] \in ReqType
  BY DEF SInv, SType, ReqType, Find, At, Names
<1>2. RestMoves
  <2>1. rows' = rows /\ clock' = clock /\ load' = load /\ used' = used /\ (jar' = jar \/ ClearCookie(r))
    BY DEF Find
  <2>2. jar' \in Session \cup {NoSession}
    BY <1>1, <2>1, ClearedJar DEF SType
  <2> QED
    BY <1>1, <2>1, <2>2 DEF RestMoves, SType, RowType, Forwards
<1>3. CASE rows[s].state = "live" /\ ~Refuse(r)
  <2> DEFINE row == [used |-> rows[s].used, expires |-> rows[s].expires]
             seen == IF req[r].cookie THEN used[s] ELSE 0
             q == [req[r] EXCEPT !.pc = "check", !.seen = seen, !.row = row]
  <2>1. row \in [used : Nat, expires : Nat] /\ seen \in Nat
    BY <1>1 DEF SType
  <2>2. req' = [req EXCEPT ![r] = q]
    BY <1>3 DEF Find
  <2> HIDE DEF row, seen
  <2>3. q \in ReqType /\ q.token = s /\ q.dead = req[r].dead
    BY <1>1, <2>1 DEF ReqType, Labels
  <2>4. ~req[r].dead
    BY <1>3 DEF SInv, Stopped
  <2> HIDE DEF q
  <2> QED
    BY <1>1, <1>2, <2>2, <2>3, <2>4, OneMoves
<1>4. CASE Refuse(r)
  BY <1>1, <1>2, <1>4, RefuseMoves
<1> QED
  BY <1>3, <1>4 DEF Find

LEMMA CheckStops == ASSUME SInv, NEW r \in Request, Check(r) PROVE SInv'
<1>1. SType /\ req[r].pc = "check" /\ req[r].token \in Session /\ ~req[r].dead /\ req[r] \in ReqType
  BY DEF SInv, SType, ReqType, Check, At, Names, Stopped
<1>2. RestMoves
  BY <1>1, RecordedType DEF Check, RestMoves, SType, RowType, Forwards
<1> DEFINE dead == Expired(req[r].row, clock) \/ IdledOut(r, clock)
           recent == clock - req[r].row.used < TouchInterval
           label == IF dead THEN "drop" ELSE IF recent THEN "serve" ELSE "touch"
           row == IF dead THEN req[r].row ELSE Idle.row
           q == [req[r] EXCEPT !.now = clock, !.row = row, !.pc = label]
<1>3. label \in Labels /\ row \in [used : Nat, expires : Nat] /\ clock \in Nat
  BY <1>1 DEF Labels, Idle, ReqType, SType
<1>4. req' = [req EXCEPT ![r] = q]
  BY DEF Check
<1> HIDE DEF dead, recent, label, row
<1>5. q \in ReqType /\ q.token = req[r].token /\ q.dead = req[r].dead
  BY <1>1, <1>3 DEF ReqType
<1> HIDE DEF q
<1> QED
  BY <1>1, <1>2, <1>4, <1>5, OneMoves

LEMMA DropStops == ASSUME SInv, NEW r \in Request, Drop(r) PROVE SInv'
<1>1. SType /\ req[r].pc = "drop"
  BY DEF SInv, Drop, At
<1>2. rows' \in RowType /\ Forwards
  BY <1>1, EndedForwards DEF Drop, SType, RowType, Forwards
<1>3. RestMoves
  BY <1>1, <1>2, ClearedJar DEF Drop, RestMoves, SType
<1> QED
  BY <1>1, <1>3, RefuseMoves DEF Drop

LEMMA TouchStops == ASSUME SInv, NEW r \in Request, Touch(r) PROVE SInv'
<1>1. SType /\ req[r].pc = "touch" /\ req[r].token \in Session /\ req[r].now \in Nat
  BY DEF SInv, SType, Touch, At, Names
<1>2. rows' \in RowType /\ Forwards
  BY <1>1, TouchedForwards DEF Touch, SType, RowType, Forwards
<1>3. RestMoves
  BY <1>1, <1>2, RecordedType DEF Touch, RestMoves, SType
<1> QED
  BY <1>1, <1>3, GotoMoves DEF Touch, Labels

-----------------------------------------------------------------------------
(* The handlers, and what is not a request's step. *)

LEMMA ServeStops == ASSUME SInv, NEW r \in Request, Serve(r) PROVE SInv'
<1>1. RestMoves
  BY StaysMoves DEF Serve, RestStays, SInv
<1>2. CASE Finish(r)
  BY <1>1, <1>2, FinishMoves
<1>3. CASE \E label \in Handler \cup {"logout"} :
              req' = [req EXCEPT ![r] = [Idle EXCEPT !.pc = label, !.token = req[r].token]]
  <2>1. PICK label \in Handler \cup {"logout"} :
              req' = [req EXCEPT ![r] = [Idle EXCEPT !.pc = label, !.token = req[r].token]]
    BY <1>3
  <2> DEFINE q == [Idle EXCEPT !.pc = label, !.token = req[r].token]
  <2>2. req[r].token \in Session
    BY DEF Serve, At, SInv, Names
  <2>3. q \in ReqType /\ ~q.dead /\ q.token \in Session
    BY <2>2 DEF Idle, ReqType, Labels, Kind
  <2>4. req' = [req EXCEPT ![r] = q]
    BY <2>1
  <2> HIDE DEF q
  <2> QED
    BY <1>1, <2>3, <2>4, OneMoves
<1> QED
  BY <1>2, <1>3 DEF Serve

\* A handler that may delete rows, or insert one, and ends.
LEMMA HandlerStops ==
    ASSUME SInv, NEW r \in Request,
           Mint(r) \/ Revoke(r) \/ RevokeLogins(r) \/ RevokeUser(r) \/ Logout(r) \/ LogoutNobody(r)
    PROVE  SInv'
<1>1. SType
  BY DEF SInv
<1>2. CASE Mint(r)
  <2>1. rows' \in RowType /\ Forwards /\ used' \in [Session -> Nat]
    <3>1. CASE UNCHANGED <<rows, used>>
      BY <3>1, <1>1 DEF SType, RowType, Forwards
    <3>2. CASE \E s \in Named : Stored(s)
      BY <3>2, <1>1, StoredForwards, SessionAssumption
    <3> QED
      BY <1>2, <3>1, <3>2 DEF Mint
  <2> QED
    BY <1>1, <1>2, <2>1, FinishMoves DEF Mint, RestMoves, SType
<1>3. ASSUME Finish(r), UNCHANGED <<clock, load, used>>, jar' \in {jar, NoSession},
             rows' = rows \/ \E S \in SUBSET Session : rows' = Ended(S)
      PROVE  SInv'
  <2>1. rows' \in RowType /\ Forwards
    BY <1>1, <1>3, EndedForwards DEF SType, RowType, Forwards
  <2> QED
    BY <1>1, <1>3, <2>1, FinishMoves DEF RestMoves, SType
<1>4. \A u, s : /\ Revocable(u, s) \in SUBSET Session
                /\ Logins(u) \in SUBSET Session /\ Of(u) \in SUBSET Session
                /\ Logins(u) \ {s} \in SUBSET Session
  BY DEF Revocable, Logins, Of, Live
<1>5. CASE Revoke(r)
  BY <1>3, <1>4, <1>5 DEF Revoke
<1>6. CASE RevokeLogins(r)
  BY <1>3, <1>4, <1>6 DEF RevokeLogins
<1>7. CASE RevokeUser(r)
  BY <1>3, <1>4, <1>7 DEF RevokeUser
<1>8. CASE Logout(r)
  BY <1>3, <1>4, <1>8 DEF Logout
<1>9. CASE LogoutNobody(r)
  BY <1>3, <1>9 DEF LogoutNobody
<1> QED
  BY <1>2, <1>5, <1>6, <1>7, <1>8, <1>9

LEMMA BackchannelStops == ASSUME SInv, NEW r \in Request, BackchannelLogout(r) PROVE SInv'
<1>1. PICK s \in Session : req' = [req EXCEPT ![r] = [Idle EXCEPT !.pc = "revoke_user", !.token = s]]
  BY DEF BackchannelLogout
<1> DEFINE q == [Idle EXCEPT !.pc = "revoke_user", !.token = s]
<1>2. q \in ReqType /\ ~q.dead /\ q.token \in Session
  BY DEF Idle, ReqType, Labels, Handler, Kind
<1>3. req' = [req EXCEPT ![r] = q]
  BY <1>1
<1>4. RestMoves
  BY StaysMoves DEF BackchannelLogout, RestStays, SInv
<1> HIDE DEF q
<1> QED
  BY <1>2, <1>3, <1>4, OneMoves

LEMMA ElsewhereStops ==
    ASSUME SInv, (\E s \in Session : SignIn(s)) \/ Sweep \/ SessionTick
    PROVE  SInv'
<1>1. SType
  BY DEF SInv
<1>2. CASE \E s \in Session : SignIn(s)
  <2>1. PICK s \in Session : SignIn(s)
    BY <1>2
  <2> QED
    BY <1>1, <2>1, StoredForwards, OthersStop DEF SignIn, RestMoves, SType
<1>3. CASE Sweep
  <2>1. rows' \in RowType /\ Forwards
    BY <1>1, <1>3, EndedForwards DEF Sweep
  <2> QED
    BY <1>1, <1>3, <2>1, OthersStop DEF Sweep, RestMoves, SType
<1>4. CASE SessionTick
  BY <1>1, <1>4, OthersStop DEF SessionTick, RestMoves, SType, RowType, Forwards
<1> QED
  BY <1>2, <1>3, <1>4

LEMMA StoppedStep == SInv /\ [SessionNext]_svars => SInv'
<1> SUFFICES ASSUME SInv, [SessionNext]_svars PROVE SInv'
  OBVIOUS
<1>1. ASSUME NEW r \in Request, Step(r) PROVE SInv'
  BY <1>1, PresentStops, FindStops, CheckStops, DropStops, TouchStops, ServeStops,
     HandlerStops, BackchannelStops DEF Step
<1>2. CASE (\E s \in Session : SignIn(s)) \/ Sweep \/ SessionTick
  BY <1>2, ElsewhereStops
<1>3. CASE UNCHANGED svars
  <2>1. RestMoves
    BY <1>3, StaysMoves DEF svars, RestStays, SInv
  <2> QED
    BY <1>3, <2>1, OthersStop DEF svars
<1> QED
  BY <1>1, <1>2, <1>3 DEF SessionNext

\* Whatever ended a session, a request that begins afterwards is never served,
\* for any number of sessions and of requests that read, touch, drop, mint and
\* revoke beside it (session.go Authenticate, pg.go Touch).
THEOREM EndedIsForGood == SessionSpec => []EndedStaysEnded
<1>1. SessionInit => SInv
  BY StoppedInit
<1>2. SInv /\ [SessionNext]_svars => SInv'
  BY StoppedStep
<1>3. SInv => EndedStaysEnded
  BY DEF SInv, Stopped, EndedStaysEnded, At
<1> QED
  BY <1>1, <1>2, <1>3, PTL DEF SessionSpec

-----------------------------------------------------------------------------
(* The idle window and the forged request.  last_used_at lags behind the   *)
(* last recorded use by TouchInterval at most; a request carries what its  *)
(* read says of that use from its SELECT to its answer.                    *)

\* The row's time and the recorded use.
Lag == \A s \in Live : rows[s].used <= used[s] /\ used[s] <= rows[s].used + TouchInterval

\* What holds of a request with these fields.
Fits(q) ==
    /\ q.forged => q.pc = "anonymous" /\ q.cookie /\ q.kind = "logout"
    /\ q.pc = "check" =>
          /\ rows[q.token].state \in {"live", "gone"}
          /\ rows[q.token].state = "live" => q.row.used <= rows[q.token].used
          /\ q.cookie => q.row.used <= q.seen /\ q.seen <= q.row.used + TouchInterval
    /\ q.pc \in {"touch", "serve"} /\ q.cookie => q.now < q.seen + IdleTTL
    /\ q.pc = "drop" /\ ~Expired(q.row, q.now) => q.now + TouchInterval >= q.seen + IdleTTL

Within == Lag /\ \A r \in Request : Fits(req[r])

LEMMA WithinInit == SessionInit => Within
<1> SUFFICES ASSUME SessionInit PROVE Within
  OBVIOUS
<1>1. Live = {}
  BY DEF SessionInit, Live, NoRow
<1>2. \A r \in Request : Fits(req[r])
  BY DEF SessionInit, Fits, Idle
<1> QED
  BY <1>1, <1>2 DEF Within, Lag

\* What a statement may do to the rows: a live row stays or goes, and its time
\* only moves on.
Onward ==
    /\ \A s \in Session : rows[s].state = "gone" => rows'[s].state = "gone"
    /\ \A s \in Session : rows[s].state = "live" =>
          /\ rows'[s].state \in {"live", "gone"}
          /\ rows'[s].state = "live" => rows[s].used <= rows'[s].used
    /\ Lag'

LEMMA SameOnward == ASSUME SType, Lag, UNCHANGED <<rows, used>> PROVE Onward
  BY DEF SType, Lag, Live, Onward

LEMMA EndedOnward == ASSUME SType, Lag, NEW S, rows' = Ended(S), UNCHANGED used PROVE Onward
<1>1. \A s \in Session : rows'[s] = IF s \in S THEN NoRow("gone") ELSE rows[s]
  BY DEF Ended
<1>2. \A s \in Session : rows[s].used \in Nat
  BY DEF SType
<1> QED
  BY <1>1, <1>2 DEF Lag, Live, Onward, NoRow

LEMMA StoredOnward == ASSUME SType, Lag, NEW s \in Session, Stored(s) PROVE Onward
<1>1. /\ rows[s].state = "none" /\ clock \in Nat /\ TouchInterval \in Nat
      /\ \A t \in Session : rows[t].used \in Nat
  BY SessionAssumption DEF Stored, SType
<1>2. /\ \A t \in Session : t # s => rows'[t] = rows[t] /\ used'[t] = used[t]
      /\ rows'[s].used = clock /\ used'[s] = clock
  BY DEF Stored, Fresh, SType
<1> QED
  BY <1>1, <1>2 DEF Lag, Live, Onward

\* One use of one token is recorded; its row may get that time.
LEMMA RecordedOnward ==
    ASSUME SType, Lag, NEW r \in Request, NEW time \in Nat, req[r].token \in Session,
           used' = Recorded(r, time),
           \/ rows' = rows /\ (rows[req[r].token].state = "live" =>
                                 time <= rows[req[r].token].used + TouchInterval)
           \/ /\ rows' = [rows EXCEPT ![req[r].token].used = time]
              /\ rows[req[r].token].state = "live"
              /\ rows[req[r].token].used + TouchInterval < time
    PROVE  Onward
<1> DEFINE s == req[r].token
<1>1. /\ TouchInterval \in Nat /\ s \in Session
      /\ \A t \in Session : rows[t].used \in Nat /\ used[t] \in Nat
  BY SessionAssumption DEF SType
<1>2. \A t \in Session : used'[t] = IF t = s /\ s \in Live /\ used[s] < time THEN time ELSE used[t]
  BY <1>1 DEF Recorded, SType
<1>3. /\ \A t \in Session : t # s => rows'[t] = rows[t]
      /\ rows'[s].state = rows[s].state
  BY <1>1 DEF SType
<1>4. CASE rows' = rows /\ (rows[s].state = "live" => time <= rows[s].used + TouchInterval)
  BY <1>1, <1>2, <1>4 DEF Lag, Live, Onward
<1>5. CASE /\ rows' = [rows EXCEPT ![s].used = time] /\ rows[s].state = "live"
           /\ rows[s].used + TouchInterval < time
  <2>1. rows'[s].used = time
    BY <1>1, <1>5 DEF SType
  <2>2. s \in Live /\ used[s] < time
    BY <1>1, <1>5 DEF Lag, Live
  <2>3. used'[s] = time
    BY <1>1, <1>2, <2>2
  <2>4. \A t \in Session : t # s => rows'[t] = rows[t] /\ used'[t] = used[t]
    BY <1>2, <1>3
  <2> QED
    BY <1>1, <1>3, <1>5, <2>1, <2>3, <2>4 DEF Lag, Live, Onward
<1> QED
  BY <1>4, <1>5

\* Requests that stay as they are still fit.
LEMMA FitsOnward ==
    ASSUME SInv, SType', Onward, NEW r \in Request, Fits(req[r]), req'[r] = req[r]
    PROVE  Fits(req[r])'
<1>1. req[r].pc = "check" =>
        /\ req[r].token \in Session /\ req[r].row.used \in Nat
        /\ rows[req[r].token].used \in Nat
  BY DEF SInv, SType, Names
<1>2. \A s \in Session : rows'[s].state = "live" /\ rows[s].state \in {"live", "gone"} =>
        rows[s].state = "live"
  BY DEF Onward
<1>3. ASSUME req[r].pc = "check"
      PROVE  /\ rows'[req[r].token].state \in {"live", "gone"}
             /\ rows'[req[r].token].state = "live" => req[r].row.used <= rows'[req[r].token].used
  <2>1. rows[req[r].token].state \in {"live", "gone"}
        /\ (rows[req[r].token].state = "live" => req[r].row.used <= rows[req[r].token].used)
    BY <1>3 DEF Fits
  <2>2. rows'[req[r].token].state = "live" => rows[req[r].token].used <= rows'[req[r].token].used
    BY <1>1, <1>2, <1>3, <2>1 DEF Onward
  <2>3. rows'[req[r].token].used \in Nat
    BY <1>1, <1>3 DEF SType
  <2>4. rows'[req[r].token].state \in {"live", "gone"}
    BY <1>1, <1>3, <2>1 DEF Onward
  <2>5. rows'[req[r].token].state = "live" => rows[req[r].token].state = "live"
    BY <1>1, <1>2, <1>3, <2>1
  <2> QED
    BY <1>1, <1>3, <2>1, <2>2, <2>3, <2>4, <2>5
<1>4. PICK q : q = req[r]
  OBVIOUS
<1>5. req'[r] = q
  BY <1>4
<1>6. q.pc = "check" =>
        /\ rows'[q.token].state \in {"live", "gone"}
        /\ rows'[q.token].state = "live" => q.row.used <= rows'[q.token].used
  BY <1>3, <1>4
<1>7. Fits(q)
  BY <1>4
<1> QED
  BY <1>5, <1>6, <1>7 DEF Fits, Expired

\* One request moves.
LEMMA WithinOne ==
    ASSUME SInv, SType', Within, Onward, NEW r \in Request,
           \A p \in Request \ {r} : req'[p] = req[p],
           Fits(req[r])'
    PROVE  Within'
  BY FitsOnward DEF Within, Onward

LEMMA WithinNone == ASSUME SInv, SType', Within, Onward, req' = req PROVE Within'
  BY FitsOnward DEF Within, Onward

\* A request with nothing read.
Calm(r) ==
    /\ \A p \in Request \ {r} : req'[p] = req[p]
    /\ req'[r].pc \notin {"check", "touch", "serve", "drop"} /\ ~req'[r].forged

LEMMA CalmFits == ASSUME SInv, SType', Within, Onward, NEW r \in Request, Calm(r) PROVE Within'
<1>1. Fits(req[r])'
  BY DEF Calm, Fits
<1> QED
  BY <1>1, WithinOne DEF Calm

LEMMA FinishCalm == ASSUME SType, NEW r \in Request, Finish(r) PROVE Calm(r)
  BY DEF SType, Finish, Calm, Idle

LEMMA RefuseCalm == ASSUME SType, NEW r \in Request, Refuse(r) PROVE Calm(r)
<1>1. PICK token, cookie : token = req[r].token /\ cookie = req[r].cookie
  OBVIOUS
<1> DEFINE q == [Idle EXCEPT !.pc = "anonymous", !.token = token, !.cookie = cookie]
<1>2. q.pc = "anonymous" /\ q.forged = FALSE
  BY DEF Idle
<1>3. CASE req' = [req EXCEPT ![r] = q]
  BY <1>2, <1>3 DEF SType, Calm
<1> HIDE DEF q
<1> QED
  BY <1>1, <1>3, FinishCalm DEF Refuse, q

LEMMA PresentWithin == ASSUME SInv, SType', Within, NEW r \in Request, Present(r) PROVE Onward /\ Within'
<1>1. PICK s \in Session, kind \in Kind, cookie, forged \in BOOLEAN :
        /\ rows[s].state # "none"
        /\ cookie => s = jar
        /\ forged => cookie
        /\ req' = [req EXCEPT ![r] =
             [Idle EXCEPT !.token = s, !.cookie = cookie, !.kind = kind,
                          !.forged = forged /\ kind = "logout", !.dead = rows[s].state # "live",
                          !.pc = IF ~(forged /\ Mutating(kind)) THEN "find"
                                 ELSE IF kind = "logout" THEN "anonymous" ELSE "start"]]
  BY Zenon DEF Present
<1>2. PICK dead : dead = (rows[s].state # "live")
  OBVIOUS
<1> DEFINE label == IF ~(forged /\ Mutating(kind)) THEN "find"
                    ELSE IF kind = "logout" THEN "anonymous" ELSE "start"
           asked == forged /\ kind = "logout"
           q == [Idle EXCEPT !.token = s, !.cookie = cookie, !.kind = kind,
                             !.forged = asked, !.dead = dead, !.pc = label]
<1>3. label \in {"find", "anonymous", "start"}
      /\ (asked => label = "anonymous" /\ cookie /\ kind = "logout")
  BY <1>1 DEF Mutating
<1>4. req' = [req EXCEPT ![r] = q]
  BY <1>1, <1>2
<1> HIDE DEF label, asked
<1>5. q.pc = label /\ q.forged = asked /\ q.cookie = cookie /\ q.kind = kind
  BY DEF Idle
<1> HIDE DEF q
<1>6. req'[r] = q /\ \A p \in Request \ {r} : req'[p] = req[p]
  BY <1>4 DEF SInv, SType
<1>7. Fits(req[r])'
  BY <1>3, <1>5, <1>6 DEF Fits
<1>8. Onward
  BY SameOnward DEF Present, SInv, Within
<1> QED
  BY <1>6, <1>7, <1>8, WithinOne

LEMMA FindWithin == ASSUME SInv, SType', Within, NEW r \in Request, Find(r) PROVE Onward /\ Within'
<1>1. /\ SType /\ Onward /\ req[r].pc = "find" /\ req[r].token \in Session /\ req[r] \in ReqType
      /\ rows' = rows
  BY SameOnward DEF SInv, SType, Within, Find, At, Names, ReqType
<1>2. CASE Refuse(r)
  BY <1>1, <1>2, RefuseCalm, CalmFits
<1>3. CASE /\ rows[req[r].token].state = "live"
           /\ req' = [req EXCEPT ![r].pc = "check",
                                 ![r].seen = IF req[r].cookie THEN used[req[r].token] ELSE 0,
                                 ![r].row = [used |-> rows[req[r].token].used,
                                             expires |-> rows[req[r].token].expires]]
  <2>1. PICK s, held, seen, used_, expires :
          /\ s = req[r].token /\ held = req[r] /\ seen = (IF held.cookie THEN used[s] ELSE 0)
          /\ used_ = rows[s].used /\ expires = rows[s].expires
    OBVIOUS
  <2> DEFINE row == [used |-> used_, expires |-> expires]
             q == [held EXCEPT !.pc = "check", !.seen = seen, !.row = row]
  <2>2. row.used = used_
    OBVIOUS
  <2>3. req' = [req EXCEPT ![r] = q]
    BY <1>3, <2>1
  <2> HIDE DEF row
  <2>4. /\ q.pc = "check" /\ q.seen = seen /\ q.row = row /\ q.token = s
        /\ q.cookie = held.cookie /\ q.forged = held.forged
    BY <1>1, <2>1 DEF ReqType
  <2> HIDE DEF q
  <2>5. req'[r] = q /\ \A p \in Request \ {r} : req'[p] = req[p]
    BY <1>1, <2>3 DEF SType
  <2>6. ~held.forged
    BY <1>1, <2>1 DEF Within, Fits
  <2>7. used_ <= used[s] /\ used[s] <= used_ + TouchInterval /\ used_ \in Nat
    BY <1>1, <1>3, <2>1 DEF Within, Lag, Live, SType
  <2>8. rows'[s].state = "live" /\ rows'[s].used = used_
    BY <1>1, <1>3, <2>1
  <2>9. q.cookie => q.row.used <= q.seen /\ q.seen <= q.row.used + TouchInterval
    BY <2>1, <2>2, <2>4, <2>7
  <2>10. q.row.used <= rows'[q.token].used
    BY <2>2, <2>4, <2>7, <2>8
  <2>11. Fits(q)'
    BY <2>4, <2>6, <2>8, <2>9, <2>10 DEF Fits
  <2>12. Fits(req[r])'
    BY <2>5, <2>11 DEF Fits
  <2> QED
    BY <1>1, <2>5, <2>12, WithinOne
<1> QED
  BY <1>2, <1>3 DEF Find

LEMMA CheckWithin == ASSUME SInv, SType', Within, NEW r \in Request, Check(r) PROVE Onward /\ Within'
<1>1. /\ SType /\ req[r].pc = "check" /\ req[r].token \in Session /\ req[r] \in ReqType
      /\ rows' = rows /\ clock \in Nat
  BY DEF SInv, SType, Check, At, Names, ReqType
<1>2. TouchInterval \in Nat /\ IdleTTL \in Nat
  BY SessionAssumption
<1>3. PICK held : held = req[r]
  OBVIOUS
<1>4. PICK time \in Nat : time = clock
  BY <1>1
<1> DEFINE idled == held.cookie /\ time - held.row.used >= IdleTTL
           dead == Expired(held.row, time) \/ idled
           recent == time - held.row.used < TouchInterval
           label == IF dead THEN "drop" ELSE IF recent THEN "serve" ELSE "touch"
           row == IF dead THEN held.row ELSE Idle.row
           q == [held EXCEPT !.now = time, !.row = row, !.pc = label]
<1>5. /\ req' = [req EXCEPT ![r] = q]
      /\ used' = IF ~dead /\ recent THEN Recorded(r, time) ELSE used
  BY <1>3, <1>4 DEF Check, IdledOut
<1>6. /\ held.row.used \in Nat /\ held.seen \in Nat /\ ~held.forged
      /\ held.cookie => held.row.used <= held.seen /\ held.seen <= held.row.used + TouchInterval
      /\ rows[held.token].state = "live" => held.row.used <= rows[held.token].used
      /\ rows[held.token].used \in Nat
  BY <1>1, <1>3 DEF Within, Fits, ReqType, SType
<1>7. Onward
  <2>1. CASE ~dead /\ recent
    <3>1. used' = Recorded(r, time)
      BY <1>5, <2>1
    <3>2. rows[held.token].state = "live" => time <= rows[held.token].used + TouchInterval
      BY <1>2, <1>6, <2>1
    <3> QED
      BY <1>1, <1>3, <3>1, <3>2, RecordedOnward DEF Within
  <2>2. CASE ~(~dead /\ recent)
    BY <1>1, <1>5, <2>2, SameOnward DEF Within
  <2> QED
    BY <2>1, <2>2
<1>8. ~dead /\ held.cookie => time < held.seen + IdleTTL
  BY <1>2, <1>6
<1>9. dead /\ ~Expired(held.row, time) => time + TouchInterval >= held.seen + IdleTTL
  BY <1>2, <1>6
<1>10. /\ label \in {"drop", "serve", "touch"} /\ (label = "drop" => dead /\ row = held.row)
       /\ (label # "drop" => ~dead)
  OBVIOUS
<1> HIDE DEF dead, recent, label, row
<1>11. /\ q.pc = label /\ q.now = time /\ q.row = row /\ q.seen = held.seen
       /\ q.cookie = held.cookie /\ q.forged = held.forged
  BY <1>1, <1>3 DEF ReqType
<1> HIDE DEF q
<1>12. req'[r] = q /\ \A p \in Request \ {r} : req'[p] = req[p]
  BY <1>1, <1>5 DEF SType
<1>13. Fits(q)'
  BY <1>6, <1>8, <1>9, <1>10, <1>11 DEF Fits
<1>14. Fits(req[r])'
  BY <1>12, <1>13 DEF Fits
<1> QED
  BY <1>7, <1>12, <1>14, WithinOne

LEMMA TouchWithin == ASSUME SInv, SType', Within, NEW r \in Request, Touch(r) PROVE Onward /\ Within'
<1>1. /\ SType /\ req[r].pc = "touch" /\ req[r].token \in Session /\ req[r] \in ReqType
  BY DEF SInv, SType, Touch, At, Names, ReqType
<1>2. PICK held, time : held = req[r] /\ time = held.now
  OBVIOUS
<1>3. time \in Nat
  BY <1>1, <1>2 DEF ReqType
<1>4. Onward
  <2>1. CASE UNCHANGED <<rows, used>>
    BY <1>1, <2>1, SameOnward DEF Within
  <2>2. CASE rows' = Touched(r) /\ used' = Recorded(r, time)
    <3>1. rows[req[r].token].used \in Nat /\ TouchInterval \in Nat
      BY <1>1, SessionAssumption DEF SType
    <3>2. CASE rows[req[r].token].state = "live" /\ rows[req[r].token].used + TouchInterval < time
      BY <1>1, <1>2, <1>3, <2>2, <3>2, RecordedOnward DEF Within, Touched
    <3>3. CASE ~(rows[req[r].token].state = "live" /\ rows[req[r].token].used + TouchInterval < time)
      <4>1. rows' = rows
        BY <1>2, <2>2, <3>3 DEF Touched
      <4>2. rows[req[r].token].state = "live" => time <= rows[req[r].token].used + TouchInterval
        BY <1>3, <3>1, <3>3
      <4> QED
        BY <1>1, <1>3, <2>2, <4>1, <4>2, RecordedOnward DEF Within
    <3> QED
      BY <3>2, <3>3
  <2> QED
    BY <1>2, <2>1, <2>2 DEF Touch
<1> DEFINE q == [held EXCEPT !.pc = "serve"]
<1>5. req' = [req EXCEPT ![r] = q]
  BY <1>2 DEF Touch, Goto
<1>6. /\ q.pc = "serve" /\ q.now = held.now /\ q.seen = held.seen
      /\ q.cookie = held.cookie /\ q.forged = held.forged
  BY <1>1, <1>2 DEF ReqType
<1> HIDE DEF q
<1>7. req'[r] = q /\ \A p \in Request \ {r} : req'[p] = req[p]
  BY <1>1, <1>5 DEF SType
<1>8. ~held.forged /\ (held.cookie => held.now < held.seen + IdleTTL)
  BY <1>1, <1>2 DEF Within, Fits
<1>9. Fits(req[r])'
  BY <1>6, <1>7, <1>8 DEF Fits
<1> QED
  BY <1>4, <1>7, <1>9, WithinOne

\* Whatever the handler, the request it was ends, with nothing read.
LEMMA HandlerWithin ==
    ASSUME SInv, SType', Within, NEW r \in Request,
           \/ Drop(r) \/ Serve(r) \/ Mint(r) \/ Revoke(r) \/ RevokeLogins(r) \/ RevokeUser(r)
           \/ Logout(r) \/ LogoutNobody(r) \/ BackchannelLogout(r)
    PROVE  Onward /\ Within'
<1>1. SType /\ Lag
  BY DEF SInv, Within
<1>2. Calm(r)
  <2>1. CASE Finish(r) \/ Refuse(r)
    BY <1>1, <2>1, FinishCalm, RefuseCalm
  <2>2. ASSUME NEW label \in Handler \cup {"logout"}, NEW s,
               req' = [req EXCEPT ![r] = [Idle EXCEPT !.pc = label, !.token = s]]
        PROVE  Calm(r)
    <3> DEFINE q == [Idle EXCEPT !.pc = label, !.token = s]
    <3>1. q.pc = label /\ q.forged = FALSE
      BY DEF Idle
    <3>2. req' = [req EXCEPT ![r] = q]
      BY <2>2
    <3> HIDE DEF q
    <3>3. req'[r] = q /\ \A p \in Request \ {r} : req'[p] = req[p]
      BY <1>1, <3>2 DEF SType
    <3> QED
      BY <3>1, <3>3 DEF Calm, Handler
  <2>3. PICK s : s = req[r].token
    OBVIOUS
  <2>4. Serve(r) \/ BackchannelLogout(r) =>
          \/ Finish(r)
          \/ \E label \in Handler \cup {"logout"} : \E t :
                req' = [req EXCEPT ![r] = [Idle EXCEPT !.pc = label, !.token = t]]
    BY DEF Serve, BackchannelLogout, Handler
  <2> QED
    BY <2>1, <2>2, <2>4 DEF Drop, Mint, Revoke, RevokeLogins, RevokeUser, Logout, LogoutNobody
<1>3. Onward
  <2>1. CASE UNCHANGED <<rows, used>>
    BY <1>1, <2>1, SameOnward
  <2>2. CASE (\E S : rows' = Ended(S)) /\ UNCHANGED used
    BY <1>1, <2>2, EndedOnward
  <2>3. CASE \E s \in Session : Stored(s)
    BY <1>1, <2>3, StoredOnward
  <2>4. Mint(r) => UNCHANGED <<rows, used>> \/ \E s \in Session : Stored(s)
    BY SessionAssumption DEF Mint
  <2>5. Drop(r) \/ Revoke(r) \/ RevokeLogins(r) \/ RevokeUser(r) \/ Logout(r) =>
          UNCHANGED used /\ (rows' = rows \/ \E S : rows' = Ended(S))
    BY DEF Drop, Revoke, RevokeLogins, RevokeUser, Logout
  <2>6. Serve(r) \/ LogoutNobody(r) \/ BackchannelLogout(r) => UNCHANGED <<rows, used>>
    BY DEF Serve, LogoutNobody, BackchannelLogout
  <2> QED
    BY <2>1, <2>2, <2>3, <2>4, <2>5, <2>6
<1> QED
  BY <1>2, <1>3, CalmFits

LEMMA WithinStep == SInv /\ Within /\ [SessionNext]_svars => Onward /\ Within'
<1> SUFFICES ASSUME SInv, Within, [SessionNext]_svars PROVE Onward /\ Within'
  OBVIOUS
<1>1. SType /\ Lag /\ SType'
  BY StoppedStep DEF SInv, Within
<1>2. ASSUME NEW r \in Request, Step(r) PROVE Onward /\ Within'
  BY <1>1, <1>2, PresentWithin, FindWithin, CheckWithin, TouchWithin, HandlerWithin DEF Step
<1>3. CASE (\E s \in Session : SignIn(s)) \/ Sweep \/ SessionTick \/ UNCHANGED svars
  <2>1. req' = req
    BY <1>3 DEF SignIn, Sweep, SessionTick, svars
  <2>2. Onward
    BY <1>1, <1>3, SameOnward, EndedOnward, StoredOnward DEF SignIn, Sweep, SessionTick, svars
  <2> QED
    BY <1>1, <2>1, <2>2, WithinNone
<1> QED
  BY <1>2, <1>3 DEF SessionNext

LEMMA SessionsWithin == SessionSpec => [](SInv /\ Within)
<1>1. SessionInit => SInv /\ Within
  BY StoppedInit, WithinInit
<1>2. SInv /\ Within /\ [SessionNext]_svars => SInv' /\ Within'
  BY StoppedStep, WithinStep
<1> QED
  BY <1>1, <1>2, PTL DEF SessionSpec

\* A cookie is served only within the idle window of its last recorded use and
\* refused as idle only that long after one, less the lag of last_used_at, for
\* any lifetimes and any number of requests on one session (session.go
\* Authenticate, idledOut, pg.go Touch).
THEOREM IdleWindowKept == SessionSpec => []IdleWindowHolds
<1>1. Within => IdleWindowHolds
  BY DEF Within, Fits, IdleWindowHolds, At
<1> QED
  BY <1>1, SessionsWithin, PTL

\* A step of one request is no step of another.
LEMMA OneRequest ==
    ASSUME SType, NEW p \in Request, Step(p), NEW r \in Request, r # p
    PROVE  req'[r] = req[r]
<1>1. Finish(p) \/ Refuse(p) => req'[r] = req[r]
  BY DEF SType, Finish, Refuse
<1>2. (\E q : req' = [req EXCEPT ![p] = q]) => req'[r] = req[r]
  BY DEF SType
<1>3. Present(p) \/ Serve(p) \/ BackchannelLogout(p) => Finish(p) \/ \E q : req' = [req EXCEPT ![p] = q]
  BY DEF Present, Serve, BackchannelLogout
<1>4. Find(p) \/ Check(p) \/ Touch(p) => Refuse(p) \/ req'[r] = req[r]
  BY DEF SType, Find, Check, Touch, Goto
<1> QED
  BY <1>1, <1>2, <1>3, <1>4
  DEF Step, Drop, Mint, Revoke, RevokeLogins, RevokeUser, Logout, LogoutNobody

LEMMA ForgedStep ==
    ASSUME SInv, Within, SessionNext,
           NEW r \in Request, req[r].forged, req'[r] # req[r]
    PROVE  UNCHANGED <<rows, jar>>
<1>1. SType /\ req[r].pc = "anonymous" /\ req[r].cookie
  BY DEF SInv, Within, Fits
<1>2. PICK p \in Request : Step(p)
  BY DEF SessionNext, SignIn, Sweep, SessionTick
<1>3. p = r
  BY <1>1, <1>2, OneRequest
<1>4. LogoutNobody(r)
  BY <1>1, <1>2, <1>3 DEF Step, Present, Find, Check, Drop, Touch, Serve, Mint, Revoke, RevokeLogins,
     RevokeUser, Logout, BackchannelLogout, At
<1> QED
  BY <1>1, <1>4 DEF LogoutNobody, MayClear

\* A request another site makes ends no session and takes no cookie away, for
\* any number of requests and sessions (session.go handleLogout, Authenticate).
THEOREM ForgedDoesNothing == SessionSpec => ForgedHarmless
<1>1. SInv /\ Within /\ [SessionNext]_svars =>
        [\A r \in Request : req[r].forged /\ Mutating(req[r].kind) /\ req'[r] # req[r] =>
            UNCHANGED <<rows, jar>>]_svars
  BY ForgedStep
<1> QED
  BY <1>1, SessionsWithin, PTL DEF SessionSpec, ForgedHarmless

-----------------------------------------------------------------------------
(* Beside the password kit.  Its calls delete and insert rows between the  *)
(* requests' statements; a change carries the logins its account had when  *)
(* the new hash was stored until none of them is left.                     *)

Acting == [pc : {"start", "read", "issue", "save", "logins", "rotate", "ok", "failed"}, kind : Call,
           user : Users \cup {""}, given : Password \cup {NoPassword}, next : Password \cup {NoPassword},
           caller : Session \cup {NoSession}, before : SUBSET Session]

\* What holds of a call with these fields.
Replaces(q) ==
    \A s \in q.before :
        /\ s \notin Named /\ Owner[s] = q.user /\ rows[s].state \in {"live", "gone"}
        /\ s \in Live /\ q.kind = "change" =>
              q.pc \in {"logins", "failed"} \/ (q.pc = "rotate" /\ s = q.caller)

Changing == act \in [Act -> Acting] /\ \A a \in Act : Replaces(act[a])

PInv == SInv /\ Within /\ Changing

LEMMA PasswordStart == PasswordInit => PInv
<1> SUFFICES ASSUME PasswordInit PROVE PInv
  OBVIOUS
<1>1. SInv /\ Within
  BY StoppedInit, WithinInit DEF PasswordInit
<1>2. NoAct \in Acting /\ NoAct.before = {}
  BY DEF NoAct, Acting, Call
<1>3. Changing
  BY <1>2 DEF PasswordInit, Changing, Replaces
<1> QED
  BY <1>1, <1>3 DEF PInv

\* No login of a call's list comes back, whatever runs beside it.
LEMMA StillReplaces ==
    ASSUME Onward, NEW a \in Act, act[a] \in Acting, Replaces(act[a]), act'[a] = act[a]
    PROVE  Replaces(act[a])'
<1>1. PICK q \in Acting : q = act[a]
  OBVIOUS
<1>2. Replaces(q) /\ act'[a] = q
  BY <1>1
<1>3. \A s \in q.before : s \in Session
  BY DEF Acting
<1>4. \A s \in q.before : rows'[s].state \in {"live", "gone"} /\ (s \in Live' => s \in Live)
  BY <1>2, <1>3 DEF Replaces, Onward, Live
<1>5. Replaces(q)'
  BY <1>2, <1>4 DEF Replaces
<1> QED
  BY <1>2, <1>5 DEF Replaces

\* One call moves on.
LEMMA OneActs ==
    ASSUME Changing, Onward, NEW a \in Act, NEW q \in Acting, act' = [act EXCEPT ![a] = q], Replaces(q)'
    PROVE  Changing'
<1>1. act' \in [Act -> Acting] /\ act'[a] = q /\ \A b \in Act \ {a} : act'[b] = act[b]
  BY DEF Changing
<1>2. \A b \in Act \ {a} : Replaces(act[b])'
  BY <1>1, StillReplaces DEF Changing
<1>3. Replaces(act[a])'
  BY <1>1 DEF Replaces
<1> QED
  BY <1>1, <1>2, <1>3 DEF Changing

\* A call that moves to another label, past a list of which nothing is left.
LEMMA ActMoves ==
    ASSUME Changing, Onward, NEW a \in Act,
           NEW pc \in {"read", "issue", "save", "logins", "rotate", "ok", "failed"}, Move(a, pc),
           \A s \in act[a].before : s \in Live' /\ act[a].kind = "change" =>
              pc \in {"logins", "failed"} \/ (pc = "rotate" /\ s = act[a].caller)
    PROVE  Changing'
<1>1. PICK held \in Acting : held = act[a]
  BY DEF Changing
<1> DEFINE q == [held EXCEPT !.pc = pc]
<1>2. act' = [act EXCEPT ![a] = q]
  BY <1>1 DEF Move
<1>3. /\ q \in Acting /\ q.pc = pc /\ q.before = held.before /\ q.user = held.user
      /\ q.kind = held.kind /\ q.caller = held.caller
  BY DEF Acting
<1> HIDE DEF q
<1>4. \A s \in held.before : s \in Session
  BY DEF Acting
<1>5. \A s \in held.before : s \notin Named /\ Owner[s] = held.user /\ rows'[s].state \in {"live", "gone"}
  BY <1>1, <1>4 DEF Changing, Replaces, Onward
<1>6. Replaces(q)'
  BY <1>1, <1>3, <1>5 DEF Replaces
<1> QED
  BY <1>2, <1>3, <1>6, OneActs

\* Of a call not past its list's end, only a change in its last steps has any left.
LEMMA NoneLeft ==
    ASSUME Changing, Onward, NEW a \in Act, act[a].pc \notin {"logins", "rotate", "failed"},
           NEW s \in act[a].before, act[a].kind = "change"
    PROVE  s \notin Live'
<1>1. s \in Session /\ rows[s].state = "gone"
  BY DEF Changing, Replaces, Acting, Live
<1> QED
  BY <1>1 DEF Onward, Live

LEMMA BeginChanges == ASSUME PInv, NEW a \in Act, Begin(a) PROVE Onward /\ Changing'
<1>1. Onward
  BY SameOnward DEF Begin, SessionsStay, PInv, SInv, Within
<1>2. PICK kind \in Call, u \in Users, given, next \in Password, caller \in Live \cup {NoSession} :
        /\ Open(kind)
        /\ kind \in {"login", "verify"} => next = given /\ caller = NoSession
        /\ kind = "set" => given = next /\ caller = NoSession
        /\ kind = "change" => given # next /\ (caller # NoSession => Owner[caller] = u)
        /\ act' = [act EXCEPT ![a] = [NoAct EXCEPT !.pc = "read", !.kind = kind, !.user = u,
                                                   !.given = given, !.next = next, !.caller = caller]]
  BY Zenon DEF Begin
<1> DEFINE q == [NoAct EXCEPT !.pc = "read", !.kind = kind, !.user = u,
                              !.given = given, !.next = next, !.caller = caller]
<1>3. q \in Acting /\ q.before = {}
  BY DEF NoAct, Acting, Live
<1>4. act' = [act EXCEPT ![a] = q]
  BY <1>2
<1> HIDE DEF q
<1>5. Replaces(q)'
  BY <1>3 DEF Replaces
<1> QED
  BY <1>1, <1>3, <1>4, <1>5, OneActs DEF PInv

LEMMA ReadChanges == ASSUME PInv, NEW a \in Act, Read(a) PROVE Onward /\ Changing'
<1>1. Onward /\ act[a].pc = "read"
  BY SameOnward DEF Read, On, SessionsStay, PInv, SInv, Within
<1>2. PICK pc \in {"ok", "issue", "save", "failed"} : Move(a, pc)
  BY DEF Read
<1>3. \A s \in act[a].before : act[a].kind = "change" => s \notin Live'
  BY <1>1, NoneLeft DEF PInv
<1> QED
  BY <1>1, <1>2, <1>3, ActMoves DEF PInv

LEMMA SaveChanges == ASSUME PInv, NEW a \in Act, Save(a) PROVE Onward /\ Changing'
<1>1. Onward /\ act[a].pc = "save" /\ rows' = rows
  BY SameOnward DEF Save, On, SessionsStay, PInv, SInv, Within
<1>2. CASE Move(a, "failed")
  BY <1>1, <1>2, ActMoves DEF PInv
<1>3. CASE act' = [act EXCEPT ![a].pc = IF act[a].kind = "set" THEN "ok" ELSE "logins",
                              ![a].before = Logins(act[a].user)]
  <2>1. PICK held \in Acting : held = act[a]
    BY DEF PInv, Changing
  <2>2. PICK list \in SUBSET Session : list = Logins(held.user)
    BY DEF Logins, Live
  <2> DEFINE pc == IF held.kind = "set" THEN "ok" ELSE "logins"
             q == [held EXCEPT !.pc = pc, !.before = list]
  <2>3. act' = [act EXCEPT ![a] = q]
    BY <1>3, <2>1, <2>2
  <2>4. pc \in {"ok", "logins"} /\ (pc # "logins" => held.kind # "change")
    OBVIOUS
  <2> HIDE DEF pc
  <2>5. q \in Acting /\ q.pc = pc /\ q.before = list /\ q.user = held.user /\ q.kind = held.kind
    BY <2>4 DEF Acting
  <2> HIDE DEF q
  <2>6. \A s \in list : s \notin Named /\ Owner[s] = held.user /\ rows'[s].state = "live"
    BY <1>1, <2>2 DEF Logins, Live
  <2>7. Replaces(q)'
    BY <2>4, <2>5, <2>6 DEF Replaces
  <2> QED
    BY <1>1, <2>3, <2>5, <2>7, OneActs DEF PInv
<1> QED
  BY <1>2, <1>3 DEF Save

\* All of the list but the caller's own session ends.
LEMMA EndLoginsChanges == ASSUME PInv, NEW a \in Act, EndLogins(a) PROVE Onward /\ Changing'
<1>1. SType /\ Lag /\ act[a].pc = "logins"
  BY DEF EndLogins, On, PInv, SInv, Within
<1>2. CASE Move(a, "failed") /\ UNCHANGED rows
  <2>1. Onward
    BY <1>1, <1>2, SameOnward DEF EndLogins
  <2> QED
    BY <1>2, <2>1, ActMoves DEF PInv
<1>3. CASE /\ rows' = Ended(Logins(act[a].user) \ {act[a].caller})
           /\ Move(a, IF act[a].caller = NoSession THEN "issue" ELSE "rotate")
  <2>1. Onward
    BY <1>1, <1>3, EndedOnward DEF EndLogins
  <2>2. PICK pc : pc = (IF act[a].caller = NoSession THEN "issue" ELSE "rotate")
    OBVIOUS
  <2>3. pc \in {"issue", "rotate"} /\ Move(a, pc)
    BY <1>3, <2>2
  <2>4. ASSUME NEW s \in act[a].before, s \in Live' PROVE pc = "rotate" /\ s = act[a].caller
    <3>1. s \in Session /\ s \notin Named /\ Owner[s] = act[a].user
      BY DEF PInv, Changing, Replaces, Acting
    <3>2. s \in Live
      BY <1>3, <2>4, <3>1 DEF Live, Ended, NoRow
    <3>3. s \in Logins(act[a].user)
      BY <3>1, <3>2 DEF Logins
    <3>4. s = act[a].caller
      BY <1>3, <2>4, <3>3 DEF Live, Ended, NoRow
    <3> QED
      BY <2>2, <3>1, <3>4, SessionAssumption
  <2> QED
    BY <2>1, <2>3, <2>4, ActMoves DEF PInv
<1> QED
  BY <1>2, <1>3 DEF EndLogins

\* And then that one.
LEMMA RotateChanges == ASSUME PInv, NEW a \in Act, Rotate(a) PROVE Onward /\ Changing'
<1>1. SType /\ Lag /\ act[a].pc = "rotate"
  BY DEF Rotate, On, PInv, SInv, Within
<1>2. CASE Move(a, "failed") /\ UNCHANGED rows
  <2>1. Onward
    BY <1>1, <1>2, SameOnward DEF Rotate
  <2> QED
    BY <1>2, <2>1, ActMoves DEF PInv
<1>3. CASE rows' = Ended(Rotated(a)) /\ Move(a, "issue")
  <2>1. Onward
    BY <1>1, <1>3, EndedOnward DEF Rotate
  <2>2. ASSUME NEW s \in act[a].before, act[a].kind = "change" PROVE s \notin Live'
    <3>1. /\ s \in Session /\ Owner[s] = act[a].user
          /\ s \in Live => s = act[a].caller
      BY <1>1, <2>2 DEF PInv, Changing, Replaces, Acting
    <3>2. s \in Live => s \in Rotated(a)
      BY <3>1 DEF Rotated, Revocable, Of
    <3> QED
      BY <1>3, <3>1, <3>2 DEF Live, Ended, NoRow
  <2> QED
    BY <1>3, <2>1, <2>2, ActMoves DEF PInv
<1> QED
  BY <1>2, <1>3 DEF Rotate

LEMMA IssueLoginChanges == ASSUME PInv, NEW a \in Act, IssueLogin(a) PROVE Onward /\ Changing'
<1>1. SType /\ Lag /\ act[a].pc = "issue"
  BY DEF IssueLogin, On, PInv, SInv, Within
<1>2. Onward
  BY <1>1, SameOnward, StoredOnward DEF IssueLogin, SessionsStay
<1>3. \A s \in act[a].before : act[a].kind = "change" => s \notin Live'
  BY <1>1, <1>2, NoneLeft DEF PInv
<1>4. Move(a, "ok") \/ Move(a, "failed")
  BY DEF IssueLogin
<1> QED
  BY <1>2, <1>3, <1>4, ActMoves DEF PInv

\* The sessions' own invariant beside a call.
LEMMA ActRest == ASSUME PInv, NEW a \in Act, ActStep(a) PROVE RestMoves /\ req' = req
<1>1. SType
  BY DEF PInv, SInv
<1>2. req' = req /\ UNCHANGED <<clock, load>>
  BY DEF ActStep, Begin, Read, Save, EndLogins, Rotate, IssueLogin
<1>3. CASE UNCHANGED <<rows, jar, used>>
  BY <1>1, <1>2, <1>3, StaysMoves DEF RestStays
<1>4. CASE (\E S : rows' = Ended(S)) /\ UNCHANGED <<jar, used>>
  BY <1>1, <1>2, <1>4, EndedForwards DEF RestMoves, SType
<1>5. CASE \E s \in Session : Stored(s) /\ jar' \in {jar, s}
  <2>1. PICK s \in Session : Stored(s) /\ jar' \in {jar, s}
    BY <1>5
  <2> QED
    BY <1>1, <1>2, <2>1, StoredForwards DEF RestMoves, SType
<1> QED
  BY <1>2, <1>3, <1>4, <1>5 DEF ActStep, Begin, Read, Save, EndLogins, Rotate, IssueLogin, SessionsStay

LEMMA PasswordStep == PInv /\ [PasswordNext]_pvars => PInv'
<1> SUFFICES ASSUME PInv, [PasswordNext]_pvars PROVE PInv'
  OBVIOUS
<1>1. SInv /\ Within /\ Changing
  BY DEF PInv
<1>2. ASSUME NEW a \in Act, ActStep(a) PROVE PInv'
  <2>1. Onward /\ Changing'
    BY <1>2, BeginChanges, ReadChanges, SaveChanges, EndLoginsChanges, RotateChanges,
       IssueLoginChanges DEF ActStep
  <2>2. RestMoves /\ req' = req
    BY <1>2, ActRest
  <2>3. SInv'
    BY <1>1, <2>2, OthersStop
  <2>4. Within'
    BY <1>1, <2>1, <2>2, <2>3, WithinNone DEF SInv
  <2> QED
    BY <2>1, <2>3, <2>4 DEF PInv
<1>3. CASE [SessionNext]_svars /\ KitStays
  <2>1. SInv' /\ Onward /\ Within'
    BY <1>1, <1>3, StoppedStep, WithinStep
  <2>2. act' = act
    BY <1>3 DEF KitStays
  <2>3. \A a \in Act : Replaces(act[a])'
    BY <1>1, <2>1, <2>2, StillReplaces DEF Changing
  <2>4. Changing'
    BY <1>1, <2>2, <2>3 DEF Changing
  <2> QED
    BY <2>1, <2>4 DEF PInv
<1>4. UNCHANGED pvars => UNCHANGED svars /\ KitStays
  BY DEF pvars, svars, KitStays
<1> QED
  BY <1>2, <1>3, <1>4 DEF PasswordNext

LEMMA PasswordsInv == PasswordSpec => []PInv
  BY PasswordStart, PasswordStep, PTL DEF PasswordSpec

\* A password change that answers success has ended every login its account
\* had when the new hash was stored, the caller's own included, whatever
\* logins, changes, requests and revocations run beside it, for any number of
\* each (local.go ChangePassword).
THEOREM ChangeEndsLogins == PasswordSpec => []OldLoginsEnd
<1>1. PInv => OldLoginsEnd
  BY DEF PInv, Changing, Replaces, OldLoginsEnd, On
<1> QED
  BY <1>1, PasswordsInv, PTL

\* What a session promises, with the password kit writing beside it: one that
\* ended is never served again, and the idle window holds (local.go
\* ChangePassword, Login; session.go Authenticate).
THEOREM SessionsBesidePasswords == PasswordSpec => [](EndedStaysEnded /\ IdleWindowHolds)
<1>1. PInv => EndedStaysEnded /\ IdleWindowHolds
  BY DEF PInv, SInv, Stopped, EndedStaysEnded, Within, Fits, IdleWindowHolds, At
<1> QED
  BY <1>1, PasswordsInv, PTL

\* And a request another site makes still does nothing, whatever the kit does
\* meanwhile (session.go handleLogout, local.go ChangePassword).
THEOREM ForgedBesidePasswords == PasswordSpec => ForgedHarmless
<1>1. PInv /\ [PasswordNext]_pvars =>
        [\A r \in Request : req[r].forged /\ Mutating(req[r].kind) /\ req'[r] # req[r] =>
            UNCHANGED <<rows, jar>>]_svars
  <2> SUFFICES ASSUME PInv, [PasswordNext]_pvars, NEW r \in Request, req[r].forged, req'[r] # req[r]
               PROVE  UNCHANGED <<rows, jar>>
    OBVIOUS
  <2>1. SInv /\ Within
    BY DEF PInv
  <2>2. SessionNext
    BY ActRest DEF PasswordNext, pvars
  <2> QED
    BY <2>1, <2>2, ForgedStep
<1> QED
  BY <1>1, PasswordsInv, PTL DEF PasswordSpec, ForgedHarmless
=============================================================================
