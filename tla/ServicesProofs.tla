---------------------------- MODULE ServicesProofs ----------------------------
(***************************************************************************)
(* The small services of porte, one part after another, each for every     *)
(* value of its own constants: the device grant's polls, the quota of API  *)
(* keys, the caches of signing keys, spaces, and provider tokens.          *)
(***************************************************************************)
EXTENDS Tokens, DeviceLogin, ApiKeys, KeyCaches, Spaces, FiniteSetTheorems,
        SequenceTheorems, WellFoundedInduction, TLAPS

-----------------------------------------------------------------------------
(* Device grant.  PollsSpaced speaks of the moment of a poll; the          *)
(* invariant follows the schedule that leads there: the terminal's         *)
(* interval is what it has been asked for, and it wakes that long after    *)
(* the last poll.                                                          *)

Step == {"probe", "discover", "authorize", "wait", "sleep", "poll", "exchange", "end"}
Scheduled == {"wait", "sleep", "poll"}

Terminal == [pc : Step, interval : Nat, deadline : Nat, wake : Nat, outcome : Outcome]

DType == terminal \in Terminal /\ asked \in Nat /\ polled \in Nat /\ beat \in Nat

Schedule ==
    /\ polled <= beat
    /\ terminal.pc \in Scheduled => terminal.interval = asked
    /\ terminal.pc \in {"sleep", "poll"} => terminal.wake >= polled + asked
    /\ terminal.pc = "poll" => beat >= terminal.wake

DInv == DType /\ Schedule

LEMMA ScheduleInit == DeviceInit => DInv
  BY DEF DeviceInit, Begins, DInv, DType, Schedule, Scheduled, Step, Terminal, Outcome

\* What the two ways to move on leave in the terminal.
LEMMA AfterEnds ==
    ASSUME terminal \in Terminal, NEW outcome \in Outcome, Ends(outcome)
    PROVE  terminal' \in Terminal /\ terminal'.pc = "end"
  BY DEF Terminal, Step, Ends

LEMMA AfterForward ==
    ASSUME terminal \in Terminal, NEW label \in Step, Forward(label)
    PROVE  /\ terminal' \in Terminal
           /\ terminal'.pc = label
           /\ terminal'.interval = terminal.interval /\ terminal'.wake = terminal.wake
  BY DEF Terminal, Forward

\* A terminal outside the schedule owes it nothing.
LEMMA OffSchedule ==
    ASSUME terminal' \in Terminal, terminal'.pc \notin Scheduled,
           asked' \in Nat, polled' \in Nat, beat' \in Nat, polled' <= beat'
    PROVE  DInv'
  BY DEF DInv, DType, Schedule, Scheduled

LEMMA ScheduleStep == DInv /\ [DeviceNext]_dvars => DInv'
<1> SUFFICES ASSUME DInv, [DeviceNext]_dvars PROVE DInv'
  OBVIOUS
<1>t. terminal \in Terminal /\ asked \in Nat /\ polled \in Nat /\ beat \in Nat /\ polled <= beat
  BY DEF DInv, DType, Schedule
<1>o. ASSUME asked' \in Nat, polled' \in Nat, beat' = beat, polled' <= beat,
             \/ \E outcome \in Outcome : Ends(outcome)
             \/ \E label \in Step \ Scheduled : Forward(label)
      PROVE  DInv'
  <2>1. terminal' \in Terminal /\ terminal'.pc \notin Scheduled
    BY <1>t, <1>o, AfterEnds, AfterForward DEF Scheduled
  <2> QED
    BY <2>1, <1>t, <1>o, OffSchedule
<1>1. CASE Probe
  BY <1>1, <1>t, <1>o DEF Probe, Step, Scheduled, Outcome
<1>2. CASE Discover
  BY <1>2, <1>t, <1>o DEF Discover, Step, Scheduled, Outcome
<1>3. CASE Authorize
  <2>1. CASE /\ terminal' = [terminal EXCEPT !.pc = "wait", !.interval = Interval, !.deadline = beat + ExpiresIn]
             /\ asked' = Interval /\ polled' = beat
    <3>1. beat' = beat
      BY <1>3 DEF Authorize
    <3>2. beat + ExpiresIn \in Nat /\ Interval \in Nat
      BY <1>t, DeviceAssumption
    <3>3. terminal' \in Terminal /\ terminal'.pc = "wait" /\ terminal'.interval = Interval
      <4> DEFINE until == beat + ExpiresIn
      <4>1. until \in Nat /\ terminal' = [terminal EXCEPT !.pc = "wait", !.interval = Interval, !.deadline = until]
        BY <2>1, <3>2
      <4> HIDE DEF until
      <4> QED
        BY <3>2, <4>1, <1>t DEF Terminal, Step
    <3> QED
      BY <2>1, <3>1, <3>3, <3>2, <1>t, DeviceAssumption DEF DInv, DType, Schedule
  <2>2. CASE Ends("failed") /\ UNCHANGED <<asked, polled>>
    BY <2>2, <1>3, <1>t, <1>o DEF Authorize, Outcome
  <2> QED
    BY <1>3, <2>1, <2>2 DEF Authorize
<1>4. CASE Approve
  BY <1>4 DEF Approve, DInv, DType, Schedule
<1>5. CASE Wait
  <2>1. CASE Ends("expired")
    BY <2>1, <1>5, <1>t, <1>o DEF Wait, Outcome
  <2>2. CASE terminal' = [terminal EXCEPT !.pc = "sleep", !.wake = beat + terminal.interval]
    <3>1. terminal.interval = asked
      BY <1>5 DEF Wait, TerminalAt, DInv, Schedule, Scheduled
    <3>2. /\ terminal' \in Terminal /\ terminal'.pc = "sleep"
          /\ terminal'.interval = terminal.interval /\ terminal'.wake = beat + terminal.interval
      <4>1. ASSUME NEW t \in Terminal, NEW w \in Nat
            PROVE  LET u == [t EXCEPT !.pc = "sleep", !.wake = w]
                   IN  u \in Terminal /\ u.pc = "sleep" /\ u.interval = t.interval /\ u.wake = w
        BY DEF Terminal, Step
      <4>2. beat + terminal.interval \in Nat
        BY <3>1, <1>t
      <4> QED
        BY <2>2, <4>1, <4>2, <1>t
    <3>3. asked' = asked /\ polled' = polled /\ beat' = beat
      BY <1>5 DEF Wait
    <3> QED
      BY <3>1, <3>2, <3>3, <1>t DEF DInv, DType, Schedule
  <2> QED
    BY <1>5, <2>1, <2>2 DEF Wait
<1>6. CASE Wakes
  <2>1. terminal.pc = "sleep" /\ beat >= terminal.wake
    BY <1>6 DEF Wakes, TerminalAt
  <2>2. /\ terminal' \in Terminal /\ terminal'.pc = "poll"
        /\ terminal'.interval = terminal.interval /\ terminal'.wake = terminal.wake
    BY <1>6, <1>t, AfterForward DEF Wakes, Step
  <2>3. asked' = asked /\ polled' = polled /\ beat' = beat
    BY <1>6 DEF Wakes
  <2> QED
    BY <2>1, <2>2, <2>3 DEF DInv, DType, Schedule, Scheduled
<1>7. CASE Interrupt
  BY <1>7, <1>t, <1>o DEF Interrupt, Outcome
<1>8. CASE Poll
  <2>1. terminal.pc = "poll" /\ polled' = beat /\ beat' = beat /\ terminal.interval = asked
    BY <1>8 DEF Poll, TerminalAt, DInv, Schedule, Scheduled
  <2>2. CASE Forward("wait") /\ asked' = asked
    <3>1. /\ terminal' \in Terminal /\ terminal'.pc = "wait"
          /\ terminal'.interval = terminal.interval
      BY <2>2, <1>t, AfterForward DEF Step
    <3> QED
      BY <2>1, <2>2, <3>1, <1>t DEF DInv, DType, Schedule
  <2>3. CASE /\ terminal' = [terminal EXCEPT !.pc = "wait", !.interval = Slower]
             /\ asked' = asked + SlowDownStep
    <3>1. Slower = asked + SlowDownStep /\ asked + SlowDownStep \in Nat
      BY <2>1, <1>t, DeviceAssumption DEF Slower
    <3>2. terminal' \in Terminal /\ terminal'.pc = "wait" /\ terminal'.interval = Slower
      BY <2>3, <3>1, <1>t DEF Terminal, Step
    <3> QED
      BY <2>1, <2>3, <3>1, <3>2, <1>t DEF DInv, DType, Schedule
  <2>4. CASE /\ asked' = asked
             /\ \/ Ends("denied") \/ Ends("expired") \/ Ends("failed")
                \/ Forward("exchange")
    BY <2>1, <2>4, <1>t, <1>o DEF Outcome, Step, Scheduled
  <2> QED
    BY <1>8, <2>2, <2>3, <2>4 DEF Poll
<1>9. CASE HandleDeviceExchange
  <2>1. \E outcome \in Outcome : Ends(outcome)
    BY <1>9 DEF HandleDeviceExchange, Outcome
  <2>2. asked' = asked /\ polled' = polled /\ beat' = beat
    BY <1>9 DEF HandleDeviceExchange
  <2> QED
    BY <2>1, <2>2, <1>t, <1>o
<1>10. CASE Beat
  <2>1. beat' = beat + 1 /\ UNCHANGED <<terminal, asked, polled>>
    BY <1>10 DEF Beat
  <2> QED
    BY <2>1, <1>t DEF DInv, DType, Schedule, Terminal
<1>11. CASE UNCHANGED dvars
  BY <1>11 DEF dvars, DInv, DType, Schedule
<1> QED
  BY <1>1, <1>2, <1>3, <1>4, <1>5, <1>6, <1>7, <1>8, <1>9, <1>10, <1>11 DEF DeviceNext

\* No poll is sent sooner than every answer received so far asks for, whatever
\* the provider's interval, however often it slows the terminal down and
\* however late the timers are (devicelogin/poll.go schedule, poll).
THEOREM PollsKeepTheirDistance == DeviceSpec => []PollsSpaced
<1>1. DeviceInit => DInv
  BY ScheduleInit
<1>2. DInv /\ [DeviceNext]_dvars => DInv'
  BY ScheduleStep
<1>3. DInv => PollsSpaced
  BY DEF DInv, DType, Schedule, Terminal, PollsSpaced, TerminalAt
<1> QED
  BY <1>1, <1>2, <1>3, PTL DEF DeviceSpec

-----------------------------------------------------------------------------
(* API keys.  QuotaOvershoot counts what was served; it holds because a    *)
(* request between its check and its record is a use already granted: what *)
(* is recorded today plus what is granted stays below the quota and one    *)
(* request more for each one in flight.                                    *)

KType ==
    /\ today \in Day
    /\ ask \in [Holder -> [pc : {"start", "quota", "record"}, key : ApiKey \cup {"none"}]]
    /\ \A h \in Holder : ask[h].pc # "start" => ask[h].key \in ApiKey
    /\ usage \in [ApiKey -> [Day -> Nat]]
    /\ served \in [ApiKey -> [Day -> Nat]]
    /\ lost \in [ApiKey -> [Day -> Nat]]

\* Requests let through whose use is not recorded yet.
InFlight(k) == {h \in Holder : ask[h].pc = "record" /\ ask[h].key = k}

\* Every request served was recorded, or its recording failed.
Accounted == \A k \in ApiKey, d \in Day : served[k][d] = usage[k][d] + lost[k][d]

\* Nothing is recorded for a day to come.
Future == \A k \in ApiKey, d \in Day : d > today => usage[k][d] = 0

Granted ==
    \A k \in ApiKey : DailyQuota[k] > 0 =>
        /\ usage[k][today] + Cardinality(InFlight(k)) < DailyQuota[k] + Cardinality(Holder)
        /\ \A d \in Day : usage[k][d] < DailyQuota[k] + Cardinality(Holder)

KInv == KType /\ Accounted /\ Future /\ Granted

LEMMA InFlightFinite ==
    \A k : /\ IsFiniteSet(InFlight(k)) /\ Cardinality(InFlight(k)) \in Nat
           /\ Cardinality(InFlight(k)) <= Cardinality(Holder)
           /\ Cardinality(Holder) \in Nat
<1> TAKE k
<1>1. InFlight(k) \subseteq Holder /\ IsFiniteSet(Holder)
  BY ApiKeysAssumption DEF InFlight
<1> QED
  BY <1>1, FS_Subset, FS_CardinalityType

LEMMA QuotaInit == ApiKeysInit => KInv
<1> SUFFICES ASSUME ApiKeysInit PROVE KInv
  OBVIOUS
<1>1. KType /\ Accounted /\ Future
  BY ApiKeysAssumption DEF ApiKeysInit, KType, NoAsk, Day, Accounted, Future
<1>2. ASSUME NEW k \in ApiKey PROVE InFlight(k) = {}
  BY DEF InFlight, ApiKeysInit, NoAsk
<1>3. Granted
  BY <1>2, InFlightFinite, FS_EmptySet, ApiKeysAssumption DEF Granted, ApiKeysInit, Day
<1> QED
  BY <1>1, <1>3 DEF KInv

\* A request that leaves "record", or stays out of it, adds to nobody's grants.
LEMMA FewerInFlight ==
    ASSUME KInv, NEW h \in Holder, NEW a \in [pc : {"start", "quota"}, key : ApiKey \cup {"none"}],
           ask' = [ask EXCEPT ![h] = a]
    PROVE  \A k \in ApiKey :
              /\ InFlight(k)' = InFlight(k) \ {h}
              /\ Cardinality(InFlight(k)') = IF h \in InFlight(k) THEN Cardinality(InFlight(k)) - 1
                                             ELSE Cardinality(InFlight(k))
<1> TAKE k \in ApiKey
<1>1. InFlight(k)' = InFlight(k) \ {h}
  BY DEF InFlight, KInv, KType
<1> QED
  BY <1>1, InFlightFinite, FS_RemoveElement

LEMMA AuthenticateKeeps == ASSUME KInv, NEW h \in Holder, Authenticate(h) PROVE KInv'
<1>1. PICK k \in ApiKey :
        ask' = [ask EXCEPT ![h] = [pc |-> IF DailyQuota[k] = 0 THEN "record" ELSE "quota", key |-> k]]
  BY DEF Authenticate
<1>2. UNCHANGED <<usage, today, served, lost>>
  BY DEF Authenticate
<1>3. KType' /\ Accounted' /\ Future'
  BY <1>1, <1>2 DEF KInv, KType, Accounted, Future
<1>4. ask[h].pc = "start"
  BY DEF Authenticate, AskAt
<1>5. ASSUME NEW j \in ApiKey, DailyQuota[j] > 0 PROVE InFlight(j)' = InFlight(j)
  BY <1>1, <1>4, <1>5, ApiKeysAssumption DEF InFlight, KInv, KType
<1>6. Granted'
  BY <1>2, <1>5 DEF Granted, KInv
<1> QED
  BY <1>3, <1>6 DEF KInv

LEMMA CheckQuotaKeeps == ASSUME KInv, NEW h \in Holder, CheckQuota(h) PROVE KInv'
<1>0. PICK k \in ApiKey : k = ask[h].key
  BY DEF CheckQuota, AskAt, KInv, KType
<1>1. ask[h].pc = "quota" /\ UNCHANGED <<usage, today, served, lost>>
  BY DEF CheckQuota, AskAt
<1>2. CASE ~Exhausted(k) /\ ask' = [ask EXCEPT ![h].pc = "record"]
  <2>1. KType' /\ Accounted' /\ Future'
    BY <1>1, <1>2 DEF KInv, KType, Accounted, Future
  <2>2. ASSUME NEW j \in ApiKey, j # k PROVE InFlight(j)' = InFlight(j)
    BY <1>0, <1>1, <1>2, <2>2 DEF InFlight, KInv, KType
  <2>3. InFlight(k)' = InFlight(k) \cup {h} /\ h \notin InFlight(k)
    BY <1>0, <1>1, <1>2 DEF InFlight, KInv, KType
  <2>4. Cardinality(InFlight(k)') = Cardinality(InFlight(k)) + 1
    BY <2>3, InFlightFinite, FS_AddElement
  <2>5. InFlight(k)' \subseteq Holder
    BY DEF InFlight
  <2>6. Cardinality(InFlight(k)') <= Cardinality(Holder) /\ Cardinality(Holder) \in Nat
    BY <2>5, ApiKeysAssumption, FS_Subset, FS_CardinalityType
  <2>7. usage[k][today] < DailyQuota[k] /\ usage[k][today] \in Nat /\ DailyQuota[k] \in Nat
    BY <1>1, <1>2, ApiKeysAssumption DEF Exhausted, KInv, KType
  <2>8. usage[k][today] + Cardinality(InFlight(k)') < DailyQuota[k] + Cardinality(Holder)
    BY <2>4, <2>6, <2>7, InFlightFinite
  <2>9. Granted'
    <3>1. ASSUME NEW j \in ApiKey, DailyQuota[j] > 0
          PROVE  usage[j][today] + Cardinality(InFlight(j)') < DailyQuota[j] + Cardinality(Holder)
      BY <2>2, <2>8, <3>1 DEF Granted, KInv
    <3> QED
      BY <1>1, <3>1 DEF Granted, KInv
  <2> QED
    BY <2>1, <2>9 DEF KInv
<1>3. CASE ask' = [ask EXCEPT ![h] = NoAsk]
  <2>1. KType' /\ Accounted' /\ Future'
    BY <1>1, <1>3 DEF KInv, KType, Accounted, Future, NoAsk
  <2>2. \A j \in ApiKey : h \notin InFlight(j) /\ InFlight(j)' = InFlight(j)
    BY <1>1, <1>3 DEF InFlight, NoAsk, KInv, KType
  <2>3. Granted'
    BY <1>1, <2>2 DEF Granted, KInv
  <2> QED
    BY <2>1, <2>3 DEF KInv
<1> QED
  BY <1>0, <1>2, <1>3 DEF CheckQuota

\* One more in one key's count of one day.
Counted(f, g, k, day) ==
    \A j \in ApiKey, d \in Day : g[j][d] = IF j = k /\ d = day THEN f[j][d] + 1 ELSE f[j][d]

LEMMA CountedOnce ==
    ASSUME NEW f \in [ApiKey -> [Day -> Nat]], NEW k \in ApiKey, NEW day \in Day,
           NEW g, g = [f EXCEPT ![k][day] = @ + 1]
    PROVE  g \in [ApiKey -> [Day -> Nat]] /\ Counted(f, g, k, day)
  BY DEF Counted

LEMMA RecordKeeps == ASSUME KInv, NEW h \in Holder, RecordUsage(h) PROVE KInv'
<1>0. PICK k \in ApiKey : k = ask[h].key
  BY DEF RecordUsage, AskAt, KInv, KType
<1>1. h \in InFlight(k) /\ today' = today /\ today \in Day
  BY <1>0 DEF RecordUsage, AskAt, KInv, KType, InFlight
<1>2. ask' = [ask EXCEPT ![h] = NoAsk] /\ served' = [served EXCEPT ![k][today] = @ + 1]
  BY <1>0 DEF RecordUsage
<1>3. \/ usage' = [usage EXCEPT ![k][today] = @ + 1] /\ lost' = lost
      \/ lost' = [lost EXCEPT ![k][today] = @ + 1] /\ usage' = usage
  BY <1>0 DEF RecordUsage
<1>p. /\ usage \in [ApiKey -> [Day -> Nat]] /\ served \in [ApiKey -> [Day -> Nat]]
      /\ lost \in [ApiKey -> [Day -> Nat]]
  BY DEF KInv, KType
<1>s. served' \in [ApiKey -> [Day -> Nat]] /\ Counted(served, served', k, today)
  BY <1>1, <1>2, <1>p, CountedOnce
<1>u. usage' = [usage EXCEPT ![k][today] = @ + 1] /\ lost' = lost =>
        usage' \in [ApiKey -> [Day -> Nat]] /\ Counted(usage, usage', k, today)
  BY <1>1, <1>p, CountedOnce
<1>l. lost' = [lost EXCEPT ![k][today] = @ + 1] /\ usage' = usage =>
        lost' \in [ApiKey -> [Day -> Nat]] /\ Counted(lost, lost', k, today)
  BY <1>1, <1>p, CountedOnce
<1>c. /\ usage' \in [ApiKey -> [Day -> Nat]] /\ lost' \in [ApiKey -> [Day -> Nat]]
      /\ \/ Counted(usage, usage', k, today) /\ lost' = lost
         \/ Counted(lost, lost', k, today) /\ usage' = usage
  BY <1>3, <1>p, <1>u, <1>l
<1>4. KType'
  <2>1. ask' \in [Holder -> [pc : {"start", "quota", "record"}, key : ApiKey \cup {"none"}]]
    BY <1>2 DEF KInv, KType, NoAsk
  <2>2. \A g \in Holder : ask'[g].pc # "start" => ask'[g].key \in ApiKey
    BY <1>2 DEF KInv, KType, NoAsk
  <2> QED
    BY <1>1, <1>s, <1>c, <2>1, <2>2 DEF KType
<1>5. Accounted' /\ Future'
  <2>1. ASSUME NEW j \in ApiKey, NEW d \in Day
        PROVE  served'[j][d] = usage'[j][d] + lost'[j][d] /\ (d > today => usage'[j][d] = 0)
    <3>1. served[j][d] = usage[j][d] + lost[j][d] /\ (d > today => usage[j][d] = 0)
      BY DEF KInv, Accounted, Future
    <3>2. usage[j][d] \in Nat /\ lost[j][d] \in Nat /\ served[j][d] \in Nat
      BY <1>p
    <3>3. today \in Nat /\ d \in Nat
      BY <1>1, ApiKeysAssumption DEF Day
    <3>4. served'[j][d] = IF j = k /\ d = today THEN served[j][d] + 1 ELSE served[j][d]
      BY <1>s DEF Counted
    <3>5. \/ /\ usage'[j][d] = IF j = k /\ d = today THEN usage[j][d] + 1 ELSE usage[j][d]
             /\ lost'[j][d] = lost[j][d]
          \/ /\ lost'[j][d] = IF j = k /\ d = today THEN lost[j][d] + 1 ELSE lost[j][d]
             /\ usage'[j][d] = usage[j][d]
      BY <1>c DEF Counted
    <3> QED
      BY <3>1, <3>2, <3>3, <3>4, <3>5
  <2> QED
    BY <1>1, <2>1 DEF Accounted, Future
<1>6. \A j \in ApiKey : j # k => h \notin InFlight(j)
  BY <1>0 DEF InFlight
<1>7. NoAsk \in [pc : {"start", "quota"}, key : ApiKey \cup {"none"}]
  BY DEF NoAsk
<1>8. \A j \in ApiKey : Cardinality(InFlight(j)') = IF j = k THEN Cardinality(InFlight(j)) - 1
                                                    ELSE Cardinality(InFlight(j))
  BY <1>1, <1>2, <1>6, <1>7, FewerInFlight
<1>9. ASSUME NEW j \in ApiKey, DailyQuota[j] > 0
      PROVE  /\ usage'[j][today] + Cardinality(InFlight(j)') < DailyQuota[j] + Cardinality(Holder)
             /\ \A d \in Day : usage'[j][d] < DailyQuota[j] + Cardinality(Holder)
  <2>1. /\ usage[j][today] + Cardinality(InFlight(j)) < DailyQuota[j] + Cardinality(Holder)
        /\ \A d \in Day : usage[j][d] \in Nat /\ usage[j][d] < DailyQuota[j] + Cardinality(Holder)
    BY <1>9 DEF KInv, KType, Granted
  <2>2. /\ Cardinality(InFlight(j)) \in Nat /\ Cardinality(InFlight(k)) \in Nat
        /\ Cardinality(Holder) \in Nat /\ DailyQuota[j] \in Nat
    BY InFlightFinite, ApiKeysAssumption
  <2>3. Cardinality(InFlight(k)) >= 1
    BY <1>1, InFlightFinite, FS_EmptySet, FS_RemoveElement, <1>8, <2>2
  <2>4. \A d \in Day : usage'[j][d] = IF usage' # usage /\ j = k /\ d = today THEN usage[j][d] + 1 ELSE usage[j][d]
    BY <1>1, <1>3 DEF KInv, KType
  <2> QED
    BY <1>1, <1>8, <2>1, <2>2, <2>3, <2>4
<1>10. Granted'
  BY <1>1, <1>9 DEF Granted
<1> QED
  BY <1>4, <1>5, <1>10 DEF KInv

LEMMA MidnightKeeps == ASSUME KInv, Midnight PROVE KInv'
<1>1. /\ today \in Nat /\ today' = today + 1 /\ today' \in Day
      /\ UNCHANGED <<usage, ask, served, lost>>
  BY ApiKeysAssumption DEF Midnight, KInv, KType, Day
<1>2. KType' /\ Accounted' /\ Future'
  BY <1>1 DEF KInv, KType, Accounted, Future, Day
<1>3. \A k \in ApiKey : usage[k][today'] = 0 /\ InFlight(k)' = InFlight(k)
  BY <1>1 DEF KInv, Future, InFlight, Day
<1>4. Granted'
  BY <1>1, <1>3, InFlightFinite, ApiKeysAssumption DEF Granted, KInv
<1> QED
  BY <1>2, <1>4 DEF KInv

LEMMA QuotaStep == KInv /\ [ApiKeysNext]_kvars => KInv'
<1> SUFFICES ASSUME KInv, [ApiKeysNext]_kvars PROVE KInv'
  OBVIOUS
<1>1. CASE UNCHANGED <<usage, ask, today, served, lost>>
  BY <1>1 DEF KInv, KType, Accounted, Future, Granted, InFlight
<1>2. CASE \E k \in ApiKey : CreateKey(k) \/ RevokeKey(k)
  BY <1>1, <1>2 DEF CreateKey, RevokeKey
<1>3. CASE UNCHANGED kvars
  BY <1>1, <1>3 DEF kvars
<1> QED
  BY <1>2, <1>3, AuthenticateKeeps, CheckQuotaKeeps, RecordKeeps, MidnightKeeps DEF ApiKeysNext

\* Requests in flight together pass a day's quota by one less than their
\* number at most, besides those whose recording failed, for any number of
\* keys, requests and days (manager.go checkQuota, pg/keys.go RecordUsage).
THEOREM OvershootIsBounded == ApiKeysSpec => []QuotaOvershoot
<1>1. ApiKeysInit => KInv
  BY QuotaInit
<1>2. KInv /\ [ApiKeysNext]_kvars => KInv'
  BY QuotaStep
<1>3. KInv => QuotaOvershoot
  BY InFlightFinite, ApiKeysAssumption DEF KInv, KType, Accounted, Granted, QuotaOvershoot
<1> QED
  BY <1>1, <1>2, <1>3, PTL DEF ApiKeysSpec

-----------------------------------------------------------------------------
(* Key caches.  What a cache lacks came, and what it holds went, no sooner *)
(* than its last fetch.                                                    *)

CType ==
    /\ published \in [Kid -> [from : Nat, till : Nat]]
    /\ jwks \in [kids : SUBSET Kid, at : Nat, slot : Nat]
    /\ keyset \in [kids : SUBSET Kid, at : Nat]
    /\ look \in [Lookup -> [pc : {"start", "fetch", "wait", "accepted", "refused"}, kid : Kid]]
    /\ moment \in Nat \ {0}
    /\ jwks.at <= moment /\ jwks.slot <= moment /\ keyset.at <= moment
    /\ \A p \in Lookup : look[p].pc = "wait" => cache = "directory"

\* Retired after the fetch, or not at all.
Outlived == \A k \in jwks.kids : published[k].till = 0 \/ jwks.at <= published[k].till

\* Published after the fetch; a failed fetch stamps the directory's cache too.
Missed ==
    /\ \A k \in Now : k \notin jwks.kids => jwks.at <= published[k].from
    /\ ~outage => \A k \in Now : k \notin keyset.kids => keyset.at <= published[k].from

\* The slot for unknown kids is taken by who then fetches.
SlotSpent == ~outage /\ ~(cache = "jwt" /\ Fetching) => jwks.slot <= jwks.at

CInv == CType /\ Outlived /\ Missed /\ SlotSpent /\ RetiredRefused /\ NewKeyWithinGap

LEMMA CachesInit == KeyCachesInit => CInv
<1> SUFFICES ASSUME KeyCachesInit PROVE CInv
  OBVIOUS
<1> USE KeyCachesAssumption DEF KeyCachesInit, NoLook
<1>1. CType
  BY DEF CType
<1>2. Outlived /\ Missed /\ SlotSpent
  BY <1>1 DEF Outlived, Missed, SlotSpent, Now, CType
<1>3. RetiredRefused /\ NewKeyWithinGap
  BY DEF RetiredRefused, NewKeyWithinGap
<1> QED
  BY <1>1, <1>2, <1>3 DEF CInv

\* An answer and what it is about.
LEMMA Answering ==
    ASSUME CType, NEW p \in Lookup, NEW kid \in Kid,
           NEW to \in {"start", "fetch", "wait", "accepted", "refused"}, Goes(p, kid, to)
    PROVE  /\ look' \in [Lookup -> [pc : {"start", "fetch", "wait", "accepted", "refused"}, kid : Kid]]
           /\ look'[p].pc = to /\ look'[p].kid = kid
           /\ \A q \in Lookup : q # p => look'[q] = look[q]
           /\ to # "wait" \/ cache = "directory" =>
                 \A q \in Lookup : look'[q].pc = "wait" => cache = "directory"
  BY DEF CType, Goes

\* An acceptance by the jwt cache, and a refusal by either, that are new are
\* what a step has to answer for.
LEMMA AnswersKept ==
    ASSUME CType, RetiredRefused, NewKeyWithinGap, NEW p \in Lookup,
           \A q \in Lookup : q # p => look'[q] = look[q],
           UNCHANGED <<published, cache, moment>>, outage => outage',
           look'[p].pc = "accepted" /\ cache = "jwt" =>
              LET till == published[look'[p].kid].till IN till = 0 \/ moment < till + CacheTTL,
           ~outage' /\ look'[p].pc = "refused" /\ look'[p].kid \in Now =>
              moment < published[look'[p].kid].from + Gap
    PROVE  RetiredRefused' /\ NewKeyWithinGap'
<1>1. RetiredRefused'
  <2> SUFFICES ASSUME NEW q \in Lookup, look'[q].pc = "accepted", cache = "jwt"
               PROVE  LET till == published[look'[q].kid].till IN till = 0 \/ moment < till + CacheTTL
    BY DEF RetiredRefused
  <2> QED
    BY DEF RetiredRefused
<1>2. NewKeyWithinGap'
  <2> SUFFICES ASSUME ~outage', NEW q \in Lookup, look'[q].pc = "refused", look'[q].kid \in Now
               PROVE  moment < published[look'[q].kid].from + Gap
    BY DEF NewKeyWithinGap, Now
  <2> QED
    BY DEF NewKeyWithinGap
<1> QED
  BY <1>1, <1>2

LEMMA PublishKeeps == ASSUME CInv, NEW k \in Kid, Publish(k) \/ Retire(k) PROVE CInv'
<1>1. /\ UNCHANGED <<jwks, keyset, cache, look, outage, moment>>
      /\ \/ published[k].from = 0 /\ published' = [published EXCEPT ![k] = [published[k] EXCEPT !.from = moment]]
         \/ k \in Now /\ published' = [published EXCEPT ![k] = [published[k] EXCEPT !.till = moment]]
  BY DEF Publish, Retire, CInv, CType
<1>2. published[k] \in [from : Nat, till : Nat] /\ moment \in Nat \ {0}
  BY DEF CInv, CType
<1>3. /\ published' \in [Kid -> [from : Nat, till : Nat]]
      /\ \A j \in Kid : j # k => published'[j] = published[j]
      /\ \/ /\ published[k].from = 0 /\ published'[k].from = moment
            /\ published'[k].till = published[k].till
         \/ /\ published'[k].from = published[k].from /\ published[k].till = 0
            /\ published'[k].till = moment
  BY <1>1, <1>2 DEF Now, CInv, CType
<1>4. CType'
  BY <1>1, <1>3 DEF CInv, CType
<1>5. Outlived'
  BY <1>1, <1>3, <1>4 DEF CInv, Outlived, CType
<1>6. \A j \in Now' : \/ published'[j].from = moment
                      \/ j \in Now /\ published'[j].from = published[j].from
  <2> TAKE j \in Now'
  <2>0. j \in Kid /\ published'[j].from # 0 /\ published'[j].till = 0
    BY DEF Now
  <2>1. CASE j = k
    BY <1>2, <1>3, <2>0, <2>1
  <2>2. CASE j # k
    BY <1>3, <2>0, <2>2 DEF Now
  <2> QED
    BY <2>1, <2>2
<1>7. Missed'
  BY <1>1, <1>4, <1>6 DEF CInv, Missed, CType
<1>8. SlotSpent'
  BY <1>1 DEF CInv, CType, SlotSpent, Fetching
<1>9. RetiredRefused'
  <2> SUFFICES ASSUME NEW q \in Lookup, look[q].pc = "accepted", cache = "jwt",
                      NEW j \in Kid, j = look[q].kid
               PROVE  published'[j].till = 0 \/ moment < published'[j].till + CacheTTL
    BY <1>1 DEF RetiredRefused, CInv, CType
  <2>1. published[j].till = 0 \/ moment < published[j].till + CacheTTL
    BY DEF CInv, RetiredRefused
  <2> QED
    BY <1>2, <1>3, <2>1, KeyCachesAssumption
<1>10. NewKeyWithinGap'
  <2> SUFFICES ASSUME ~outage, NEW q \in Lookup, look[q].pc = "refused",
                      NEW j \in Kid, j = look[q].kid, j \in Now'
               PROVE  moment < published'[j].from + Gap
    BY <1>1 DEF NewKeyWithinGap, CInv, CType
  <2>1. j \in Now => moment < published[j].from + Gap
    BY DEF CInv, NewKeyWithinGap
  <2> QED
    BY <1>2, <1>6, <2>1, KeyCachesAssumption
<1> QED
  BY <1>4, <1>5, <1>7, <1>8, <1>9, <1>10 DEF CInv

LEMMA JwtKeeps ==
    ASSUME CInv, NEW p \in Lookup, (\E kid \in Kid : KeyFor(p, kid)) \/ FetchJWKS(p)
    PROVE  CInv'
<1> USE KeyCachesAssumption
<1>t. /\ UNCHANGED <<published, keyset, cache, moment>> /\ cache = "jwt" /\ moment \in Nat \ {0}
      /\ jwks \in [kids : SUBSET Kid, at : Nat, slot : Nat] /\ jwks.at <= moment /\ jwks.slot <= moment
      /\ look[p].kid \in Kid /\ Now \subseteq Kid /\ Now' = Now
  BY DEF KeyFor, FetchJWKS, CInv, CType, Now
<1>1. ASSUME NEW kid \in Kid, KeyFor(p, kid) PROVE CInv'
  <2> DEFINE free == jwks.slot = 0 \/ moment - jwks.slot >= Gap
  <2>1. PICK to \in {"fetch", "accepted", "refused"} :
          /\ Goes(p, kid, to) /\ ~Fetching /\ UNCHANGED outage
          /\ \/ to = "fetch" /\ jwks' \in {jwks, [jwks EXCEPT !.slot = moment]}
             \/ to = "accepted" /\ ~Stale /\ kid \in jwks.kids /\ jwks' = jwks
             \/ /\ to = "refused" /\ ~Stale /\ kid \notin jwks.kids
                /\ ~free /\ jwks' = [jwks EXCEPT !.slot = jwks.slot]
    BY <1>1 DEF KeyFor, Slot
  <2>2. /\ look' \in [Lookup -> [pc : {"start", "fetch", "wait", "accepted", "refused"}, kid : Kid]]
        /\ look'[p].pc = to /\ look'[p].kid = kid
        /\ \A q \in Lookup : q # p => look'[q] = look[q]
        /\ \A q \in Lookup : look'[q].pc = "wait" => cache = "directory"
    BY <2>1, Answering DEF CInv
  <2>3. /\ jwks' \in [kids : SUBSET Kid, at : Nat, slot : Nat]
        /\ jwks'.kids = jwks.kids /\ jwks'.at = jwks.at
        /\ jwks'.slot = jwks.slot \/ (to = "fetch" /\ jwks'.slot = moment)
    BY <1>t, <2>1
  <2>4. CType'
    BY <1>t, <2>2, <2>3 DEF CInv, CType
  <2>5. Outlived' /\ Missed'
    BY <1>t, <2>1, <2>3 DEF CInv, Outlived, Missed
  <2>6. SlotSpent'
    BY <1>t, <2>1, <2>2, <2>3 DEF CInv, SlotSpent, Fetching
  <2>7. RetiredRefused' /\ NewKeyWithinGap'
    <3>1. to = "accepted" => published[kid].till = 0 \/ moment < published[kid].till + CacheTTL
      <4> SUFFICES ASSUME to = "accepted", published[kid].till # 0 PROVE moment < published[kid].till + CacheTTL
        OBVIOUS
      <4>1. jwks.at <= published[kid].till /\ published[kid].till \in Nat
        BY <2>1 DEF CInv, Outlived, CType
      <4>2. moment - jwks.at < CacheTTL
        BY <1>t, <2>1 DEF Stale
      <4> QED
        BY <1>t, <4>1, <4>2
    <3>2. ~outage /\ to = "refused" /\ kid \in Now => moment < published[kid].from + Gap
      <4> SUFFICES ASSUME ~outage, to = "refused", kid \in Now PROVE moment < published[kid].from + Gap
        OBVIOUS
      <4>1. jwks.at <= published[kid].from /\ jwks.slot <= jwks.at /\ published[kid].from \in Nat
        BY <2>1 DEF CInv, Missed, SlotSpent, CType
      <4>2. moment - jwks.slot < Gap
        BY <1>t, <2>1
      <4> QED
        BY <1>t, <4>1, <4>2
    <3> QED
      BY <1>t, <2>1, <2>2, <3>1, <3>2, AnswersKept DEF CInv
  <2> QED
    BY <2>4, <2>5, <2>6, <2>7 DEF CInv
<1>2. CASE FetchJWKS(p)
  <2>1. PICK kid \in Kid, to \in {"start", "accepted", "refused"} :
          /\ Goes(p, kid, to)
          /\ \/ /\ jwks' = [jwks EXCEPT !.kids = Now, !.at = moment] /\ UNCHANGED outage
                /\ to \in {"accepted", "refused"} /\ (to = "accepted" <=> kid \in Now)
             \/ to = "start" /\ outage' = TRUE /\ jwks' = jwks
    <3>1. CASE /\ jwks' = [jwks EXCEPT !.kids = Now, !.at = moment] /\ UNCHANGED outage
               /\ AnswerFrom(p, Now)
      BY <1>t, <3>1 DEF AnswerFrom
    <3>2. CASE OnError(p) /\ outage' = TRUE /\ jwks' = jwks
      BY <3>2 DEF OnError, Goes, NoLook
    <3> QED
      BY <1>2, <3>1, <3>2 DEF FetchJWKS
  <2>2. /\ look' \in [Lookup -> [pc : {"start", "fetch", "wait", "accepted", "refused"}, kid : Kid]]
        /\ look'[p].pc = to /\ look'[p].kid = kid
        /\ \A q \in Lookup : q # p => look'[q] = look[q]
        /\ \A q \in Lookup : look'[q].pc = "wait" => cache = "directory"
    BY <2>1, Answering DEF CInv
  <2>3. /\ jwks' \in [kids : SUBSET Kid, at : Nat, slot : Nat] /\ jwks'.slot = jwks.slot
        /\ \/ jwks'.kids = Now /\ jwks'.at = moment
           \/ jwks'.kids = jwks.kids /\ jwks'.at = jwks.at /\ outage'
    BY <1>t, <2>1
  <2>4. CType'
    BY <1>t, <2>2, <2>3 DEF CInv, CType
  <2>5. Outlived'
    BY <1>t, <2>3 DEF CInv, Outlived, Now
  <2>6. Missed'
    BY <1>t, <2>1, <2>3 DEF CInv, Missed
  <2>7. SlotSpent'
    BY <1>t, <2>3 DEF SlotSpent
  <2>8. RetiredRefused' /\ NewKeyWithinGap'
    <3>1. to = "accepted" => published[kid].till = 0
      BY <2>1 DEF Now
    <3>2. to = "refused" => kid \notin Now
      BY <2>1
    <3> QED
      BY <1>t, <2>1, <2>2, <3>1, <3>2, AnswersKept DEF CInv
  <2> QED
    BY <2>4, <2>5, <2>6, <2>7, <2>8 DEF CInv
<1> QED
  BY <1>1, <1>2

LEMMA DirectoryKeeps ==
    ASSUME CInv, NEW p \in Lookup, (\E kid \in Kid : Cached(p, kid)) \/ FetchLock(p) \/ FetchKeys(p)
    PROVE  CInv'
<1> USE KeyCachesAssumption
<1>t. /\ UNCHANGED <<published, jwks, cache, moment>> /\ moment \in Nat \ {0}
      /\ keyset \in [kids : SUBSET Kid, at : Nat] /\ keyset.at <= moment
      /\ look[p].kid \in Kid /\ Now \subseteq Kid /\ Now' = Now
      /\ look[p].pc \in {"start", "wait", "fetch"} /\ cache = "directory"
  BY DEF Cached, FetchLock, FetchKeys, CInv, CType, Now
\* What it answers and what it fetches.
<1>1. PICK kid \in Kid, to \in {"start", "wait", "fetch", "accepted", "refused"} :
        /\ Goes(p, kid, to)
        /\ to \in {"accepted", "wait"} => cache = "directory"
        /\ \/ UNCHANGED <<keyset, outage>> /\ to # "refused"
           \/ /\ UNCHANGED <<keyset, outage>> /\ to = "refused" /\ keyset.at # 0
              /\ kid \notin keyset.kids /\ moment - keyset.at < Gap
           \/ /\ keyset' = [kids |-> Now, at |-> moment] /\ UNCHANGED outage
              /\ to = "refused" => kid \notin Now
           \/ keyset' = [keyset EXCEPT !.at = moment] /\ outage' = TRUE /\ to = "start"
  <2>1. ASSUME NEW kid \in Kid, Cached(p, kid)
        PROVE  (\E to \in {"accepted", "wait"} : Goes(p, kid, to)) /\ UNCHANGED <<keyset, outage>>
    BY <2>1 DEF Cached
  <2>2. CASE FetchLock(p)
    BY <1>t, <2>2 DEF FetchLock
  <2>3. CASE FetchKeys(p)
    <3>1. CASE keyset' = [kids |-> Now, at |-> moment] /\ AnswerFrom(p, Now) /\ UNCHANGED outage
      BY <1>t, <2>3, <3>1 DEF AnswerFrom, FetchKeys
    <3>2. CASE keyset' = [keyset EXCEPT !.at = moment] /\ look' = [look EXCEPT ![p] = NoLook] /\ outage' = TRUE
      BY <1>t, <2>3, <3>2 DEF Goes, NoLook
    <3> QED
      BY <2>3, <3>1, <3>2 DEF FetchKeys
  <2> QED
    BY <1>t, <2>1, <2>2, <2>3
<1>2. /\ look' \in [Lookup -> [pc : {"start", "fetch", "wait", "accepted", "refused"}, kid : Kid]]
      /\ look'[p].pc = to /\ look'[p].kid = kid
      /\ \A q \in Lookup : q # p => look'[q] = look[q]
      /\ \A q \in Lookup : look'[q].pc = "wait" => cache = "directory"
  BY <1>1, <1>t, Answering DEF CInv
<1>3. keyset' \in [kids : SUBSET Kid, at : Nat] /\ keyset'.at <= moment
  BY <1>1, <1>t
<1>4. CType'
  BY <1>t, <1>2, <1>3 DEF CInv, CType
<1>5. Outlived'
  BY <1>t DEF CInv, Outlived
<1>6. Missed'
  BY <1>1, <1>t DEF CInv, Missed
<1>7. SlotSpent'
  BY <1>1, <1>t, <1>4 DEF CInv, SlotSpent, CType
<1>8. RetiredRefused' /\ NewKeyWithinGap'
  <2>1. ~outage' /\ to = "refused" /\ kid \in Now => moment < published[kid].from + Gap
    <3> SUFFICES ASSUME ~outage', to = "refused", kid \in Now PROVE moment < published[kid].from + Gap
      OBVIOUS
    <3>1. kid \notin keyset.kids /\ moment - keyset.at < Gap /\ ~outage
      BY <1>1
    <3>2. keyset.at <= published[kid].from /\ published[kid].from \in Nat
      BY <3>1 DEF CInv, Missed, CType
    <3> QED
      BY <1>t, <3>1, <3>2
  <2> QED
    BY <1>1, <1>2, <1>t, <2>1, AnswersKept DEF CInv
<1> QED
  BY <1>4, <1>5, <1>6, <1>7, <1>8 DEF CInv

LEMMA CachesStep == CInv /\ [KeyCachesNext]_cvars => CInv'
<1> SUFFICES ASSUME CInv, [KeyCachesNext]_cvars PROVE CInv'
  OBVIOUS
<1> USE KeyCachesAssumption
<1>1. ASSUME NEW p \in Lookup, Answered(p) PROVE CInv'
  <2>1. /\ Goes(p, FirstKid, "start")
        /\ UNCHANGED <<published, jwks, keyset, cache, outage, moment>>
        /\ look[p].pc \in {"accepted", "refused"}
    BY <1>1 DEF Answered, Goes, NoLook
  <2>2. /\ look' \in [Lookup -> [pc : {"start", "fetch", "wait", "accepted", "refused"}, kid : Kid]]
        /\ look'[p].pc = "start" /\ \A q \in Lookup : q # p => look'[q] = look[q]
        /\ \A q \in Lookup : look'[q].pc = "wait" => cache = "directory"
    <3>1. \A q \in Lookup : look[q].pc = "wait" => cache = "directory"
      BY DEF CInv, CType
    <3> QED
      BY <2>1, <3>1, Answering DEF CInv
  <2>3. CType' /\ Outlived' /\ Missed'
    BY <2>1, <2>2 DEF CInv, CType, Outlived, Missed, Now
  <2>4. SlotSpent'
    BY <2>1, <2>2 DEF CInv, SlotSpent, Fetching
  <2>5. RetiredRefused' /\ NewKeyWithinGap'
    BY <2>1, <2>2, AnswersKept DEF CInv
  <2> QED
    BY <2>3, <2>4, <2>5 DEF CInv
<1>2. CASE Moment
  <2>1. /\ moment' = moment + 1 /\ UNCHANGED <<published, jwks, keyset, cache, look, outage>>
        /\ \A p \in Lookup : look[p].pc \notin {"accepted", "refused"}
    BY <1>2 DEF Moment
  <2>2. CType'
    BY <2>1 DEF CInv, CType
  <2>3. Outlived' /\ Missed' /\ SlotSpent'
    BY <2>1 DEF CInv, Outlived, Missed, Now, SlotSpent, Fetching
  <2>4. RetiredRefused' /\ NewKeyWithinGap'
    BY <2>1 DEF RetiredRefused, NewKeyWithinGap
  <2> QED
    BY <2>2, <2>3, <2>4 DEF CInv
<1>3. CASE UNCHANGED cvars
  BY <1>3 DEF cvars, CInv, CType, Outlived, Missed, Now, SlotSpent, Fetching, RetiredRefused,
              NewKeyWithinGap
<1> QED
  BY <1>1, <1>2, <1>3, PublishKeeps, JwtKeeps, DirectoryKeeps DEF KeyCachesNext

LEMMA CachesInv == KeyCachesSpec => []CInv
  BY CachesInit, CachesStep, PTL DEF KeyCachesSpec

\* oidc/jwt's cache accepts no key a lifetime after it was retired, for any
\* number of keys and verifications, and though every fetch since has failed
\* (cache.go key, fetch).
THEOREM RetiredKeysRefused == KeyCachesSpec => []RetiredRefused
<1>1. CInv => RetiredRefused
  BY DEF CInv
<1> QED
  BY <1>1, CachesInv, PTL

\* While no fetch fails, either cache refuses a key that is published for a
\* gap at most, whatever other kids it is asked for (cache.go key, keys.go
\* lookup).
THEOREM NewKeysAccepted == KeyCachesSpec => []NewKeyWithinGap
<1>1. CInv => NewKeyWithinGap
  BY DEF CInv
<1> QED
  BY <1>1, CachesInv, PTL

-----------------------------------------------------------------------------
(* Spaces.  Nobody below the top rank can act on it, and a departure holds *)
(* the lock from its count to its DELETE.                                  *)

\* Well-ordering, in the shape the proofs below use.
LEMMA Least ==
    ASSUME NEW S, S \subseteq Nat, S # {}
    PROVE  \E x \in S : \A y \in S : x <= y
<1> DEFINE Less == {ss \in Nat \X Nat : ss[1] < ss[2]}
<1>1. IsWellFoundedOn(Less, Nat)
  BY NatLessThanWellFounded, Zenon DEF OpToRel
<1>2. PICK x \in S : \A y \in S : ~ (<<y, x>> \in Less)
  BY <1>1, WFMin, Zenon
<1>3. ASSUME NEW y \in S PROVE x <= y
  <2>1. x \in Nat /\ y \in Nat /\ <<y, x>> \in Nat \X Nat
    OBVIOUS
  <2>2. ~(y < x)
    BY <1>2, <2>1
  <2> QED
    BY <2>1, <2>2
<1> QED
  BY <1>3

LEMMA Greatest ==
    ASSUME NEW S, NEW n \in Nat, S \subseteq 1..n, S # {}
    PROVE  \E x \in S : \A y \in S : y <= x
<1> DEFINE T == {t \in Nat : n - t \in S}
<1>1. ASSUME NEW y \in S PROVE y \in 1..n /\ n - y \in T
  <2>1. y \in 1..n
    OBVIOUS
  <2>2. n - y \in Nat /\ n - (n - y) = y
    BY <2>1
  <2> QED
    BY <2>1, <2>2
<1>2. T \subseteq Nat /\ T # {}
  BY <1>1
<1> HIDE DEF T
<1>3. PICK t \in T : \A y \in T : t <= y
  BY <1>2, Least
<1>4. t \in Nat /\ n - t \in S
  BY <1>3 DEF T
<1>5. ASSUME NEW y \in S PROVE y <= n - t
  <2>1. t <= n - y /\ y \in 1..n
    BY <1>1, <1>3
  <2> QED
    BY <1>4, <2>1
<1> QED
  BY <1>4, <1>5

\* A role the ladder ranks has one rank; the top role's is the greatest.
LEMMA OneRank ==
    ASSUME NEW i \in Ranked, NEW j \in Ranked, Listed[i] = Listed[j]
    PROVE  i = j
<1>1. Len(Listed) \in Nat /\ DOMAIN Listed = 1..Len(Listed)
  BY SpacesAssumption, LenProperties
<1>2. i \in 1..Len(Listed) /\ j \in 1..Len(Listed)
  BY <1>1 DEF Ranked
<1>3. \A k, l \in Ranked : Listed[k] = Listed[l] => ~(k \in 1..(l - 1))
  BY DEF Ranked
<1>4. (i < j => i \in 1..(j - 1)) /\ (j < i => j \in 1..(i - 1))
  BY <1>1, <1>2
<1> QED
  BY <1>1, <1>2, <1>3, <1>4

LEMMA TopRank ==
    ASSUME NEW role, Valid(role)
    PROVE  Valid(Top) /\ Top # "" /\ Top \in Role /\ (AtLeast(role, Top) => role = Top)
<1>1. Len(Listed) \in Nat /\ DOMAIN Listed = 1..Len(Listed)
  BY SpacesAssumption, LenProperties
<1>2. Ranked \subseteq 1..Len(Listed) /\ Ranked # {}
  BY <1>1 DEF Ranked, Valid
<1> DEFINE top == CHOOSE i \in Ranked : \A j \in Ranked : j <= i
<1>3. top \in Ranked /\ \A j \in Ranked : j <= top
  BY <1>1, <1>2, Greatest
<1>4. Top = Listed[top]
  BY <1>2 DEF Top
<1>5. Valid(Top) /\ Top # ""
  BY <1>3, <1>4 DEF Valid, Ranked
<1>6. Top \in Role
  BY <1>1, <1>2, <1>3, <1>4, SpacesAssumption, ElementOfSeq
<1>7. ASSUME AtLeast(role, Top) PROVE role = Top
  <2>1. Rank(Top) \in Ranked /\ Listed[Rank(Top)] = Top
    BY <1>5 DEF Rank, Valid
  <2>2. Rank(role) \in Ranked /\ Listed[Rank(role)] = role
    BY DEF Rank, Valid
  <2>3. Rank(Top) = top
    BY <1>3, <1>4, <2>1, OneRank
  <2>4. Rank(role) <= top /\ Rank(role) >= top
    BY <1>3, <1>7, <2>2, <2>3 DEF AtLeast
  <2>5. Rank(role) = top
    <3>1. PICK r \in Ranked, t \in Ranked : r = Rank(role) /\ t = top
      BY <1>3, <2>2
    <3>2. r \in 1..Len(Listed) /\ t \in 1..Len(Listed) /\ r <= t /\ r >= t
      BY <1>2, <2>4, <3>1
    <3>3. r = t
      BY <1>1, <3>2
    <3> QED
      BY <3>1, <3>3
  <2> QED
    BY <1>4, <2>2, <2>5
<1> QED
  BY <1>5, <1>6, <1>7

Deed == [pc : {"start", "leave", "assign", "invite", "delete"}, scope : Role, whom : Member \cup {NoMember}]

GType == members \in [Member -> Role] /\ deed \in [Member -> Deed]

Tops == {m \in Member : members[m] = Top}

\* A request under way was resolved with a ranked role.
Scoped == \A m \in Member : deed[m].pc # "start" => Valid(deed[m].scope)

\* As long as nobody at the top has acted, who acts was below it and still is.
Below ==
    owners # {} =>
        /\ owners = Tops
        /\ \A m \in Member : deed[m].pc # "start" => deed[m].scope # Top /\ members[m] # Top

\* Who is about to delete holds the rows since the count: somebody else is
\* at the top if it is the one leaving it.
HasCounted ==
    \A m \in Member : deed[m].pc = "delete" =>
        /\ lock = m /\ Valid(members[m])
        /\ members[m] = Top => \E n \in Member \ {m} : members[n] = Top

GInv == GType /\ Scoped /\ Below /\ HasCounted

LEMMA CountFacts ==
    /\ CountRole(Top) > 0 => Tops # {}
    /\ \A m \in Member : CountRole(Top) > 1 => \E n \in Member \ {m} : members[n] = Top
<1>1. CountRole(Top) = Cardinality(Tops)
  BY DEF CountRole, Tops
<1>2. CountRole(Top) > 0 => Tops # {}
  BY <1>1, FS_EmptySet
<1>3. ASSUME NEW m \in Member, CountRole(Top) > 1 PROVE \E n \in Member \ {m} : members[n] = Top
  <2>1. Tops # {} /\ Tops # {m}
    BY <1>1, <1>3, FS_EmptySet, FS_Singleton
  <2> QED
    BY <2>1 DEF Tops
<1> QED
  BY <1>2, <1>3

\* Below the top, a Scope neither gives the top role nor touches who has it.
LEMMA OutOfReach ==
    ASSUME NEW scope \in Role, scope # Top, NEW role
    PROVE  /\ AssignableBy(scope, role) => role # Top
           /\ \A current : AssignableOver(scope, current, role) => current # Top /\ role # Top
<1>1. ASSUME NEW r, AssignableBy(scope, r) PROVE r # Top
  BY <1>1, TopRank DEF AssignableBy, AtLeast
<1>2. \A current : AssignableOver(scope, current, role) => AssignableBy(scope, current) /\ AssignableBy(scope, role)
  BY DEF AssignableOver
<1> QED
  BY <1>1, <1>2

LEMMA LadderInit == SpacesInit => GInv
<1> SUFFICES ASSUME SpacesInit PROVE GInv
  OBVIOUS
<1>1. GType
  BY SpacesAssumption DEF SpacesInit, GType, Deed, NoDeed
<1>2. Scoped /\ Below /\ HasCounted
  BY DEF SpacesInit, NoDeed, Scoped, Below, HasCounted, Tops
<1> QED
  BY <1>1, <1>2 DEF GInv

\* What a step does to the caller's deed.
LEMMA DeedMoves ==
    ASSUME GType, NEW m \in Member, NEW d \in Deed, deed' = [deed EXCEPT ![m] = d]
    PROVE  /\ deed' \in [Member -> Deed] /\ deed'[m] = d
           /\ \A n \in Member : n # m => deed'[n] = deed[n]
  BY DEF GType

LEMMA ResolveScopeKeeps == ASSUME GInv, NEW m \in Member, ResolveScope(m) PROVE GInv'
<1>1. PICK label \in {"leave", "assign", "invite"}, whom \in Member :
        deed' = [deed EXCEPT ![m] = [pc |-> label, scope |-> members[m], whom |-> whom]]
  BY DEF ResolveScope
<1>2. /\ deed[m].pc = "start" /\ Valid(members[m]) /\ UNCHANGED <<members, lock>>
      /\ owners' = IF members[m] = Top THEN {} ELSE owners
  BY DEF ResolveScope, DeedAt
<1>3. PICK d \in Deed : d = [pc |-> label, scope |-> members[m], whom |-> whom]
  BY DEF GInv, GType, Deed
<1>4. /\ deed' \in [Member -> Deed] /\ deed'[m] = d
      /\ \A n \in Member : n # m => deed'[n] = deed[n]
  BY <1>1, <1>3, DeedMoves DEF GInv
<1>5. GType' /\ Scoped'
  <2>1. Valid(d.scope)
    BY <1>2, <1>3
  <2> QED
    BY <1>2, <1>4, <2>1 DEF GInv, GType, Scoped
<1>6. Below'
  BY <1>2, <1>3, <1>4 DEF GInv, Below, Tops
<1>7. HasCounted'
  BY <1>2, <1>3, <1>4 DEF GInv, HasCounted
<1> QED
  BY <1>5, <1>6, <1>7 DEF GInv

LEMMA LeaveKeeps == ASSUME GInv, NEW m \in Member, Leave(m) PROVE GInv'
<1>1. deed[m].pc = "leave" /\ lock = NoMember /\ UNCHANGED <<members, owners>> /\ deed[m] \in Deed
  BY DEF Leave, DeedAt, GInv, GType
<1>2. PICK d \in Deed : /\ deed' = [deed EXCEPT ![m] = d]
                        /\ \/ d.pc = "start" /\ lock' = lock
                           \/ /\ d.pc = "delete" /\ d.scope = deed[m].scope /\ lock' = m
                              /\ Valid(members[m]) /\ CanLeave(members[m])
  <2>1. NoDeed \in Deed /\ [deed[m] EXCEPT !.pc = "delete"] \in Deed
    BY <1>1, SpacesAssumption DEF NoDeed, Deed
  <2>2. CASE Valid(members[m]) /\ CanLeave(members[m])
    <3>1. /\ deed' = [deed EXCEPT ![m] = [deed[m] EXCEPT !.pc = "delete"]] /\ lock' = m
      BY <2>2 DEF Leave, DeedTo, GInv, GType
    <3>2. PICK d \in Deed : d = [deed[m] EXCEPT !.pc = "delete"]
      BY <2>1
    <3>3. d.pc = "delete" /\ d.scope = deed[m].scope
      BY <1>1, <3>2 DEF Deed
    <3> QED
      BY <2>2, <3>1, <3>2, <3>3
  <2>3. CASE ~(Valid(members[m]) /\ CanLeave(members[m]))
    BY <2>1, <2>3 DEF Leave, Rolled, NoDeed
  <2> QED
    BY <2>2, <2>3
<1>3. /\ deed' \in [Member -> Deed] /\ deed'[m] = d
      /\ \A n \in Member : n # m => deed'[n] = deed[n]
  BY <1>2, DeedMoves DEF GInv
<1>4. d.pc # "start" => d.pc = "delete" /\ d.scope = deed[m].scope /\ lock' = m
                        /\ Valid(members[m]) /\ CanLeave(members[m])
  BY <1>2
<1>5. \A n \in Member : deed[n].pc # "delete"
  BY <1>1, SpacesAssumption DEF GInv, HasCounted
<1>6. GType' /\ Scoped' /\ Below'
  BY <1>1, <1>3, <1>4 DEF GInv, GType, Scoped, Below, Tops
<1>7. HasCounted'
  BY <1>1, <1>3, <1>4, <1>5, CountFacts DEF HasCounted, CanLeave
<1> QED
  BY <1>6, <1>7 DEF GInv

LEMMA NoRole == ~Valid("") /\ \A role : Valid(role) => Top # ""
  BY TopRank DEF Valid, Ranked

\* A transaction that ends, having changed one member's role or none.
LEMMA EndOfDeed ==
    ASSUME GInv, NEW m \in Member, Rolled(m), NEW whom, NEW target \in Role,
           members' \in {members, [members EXCEPT ![whom] = target]}, UNCHANGED owners,
           owners # {} /\ members' # members =>
              target # Top /\ (whom \in Member => members[whom] # Top)
    PROVE  /\ GType' /\ Scoped' /\ Below'
           /\ deed'[m].pc = "start" /\ \A n \in Member : n # m => deed'[n] = deed[n]
<1>1. NoDeed \in Deed /\ NoDeed.pc = "start"
  BY SpacesAssumption DEF NoDeed, Deed
<1>2. /\ deed' \in [Member -> Deed] /\ deed'[m] = NoDeed
      /\ \A n \in Member : n # m => deed'[n] = deed[n]
  BY <1>1, DeedMoves DEF Rolled, GInv
<1>3. GType'
  BY <1>2 DEF GInv, GType
<1>4. Scoped'
  BY <1>1, <1>2 DEF GInv, Scoped
<1>5. owners # {} => \A n \in Member : members'[n] = members[n] \/ (members'[n] # Top /\ members[n] # Top)
  BY DEF GInv, GType
<1>6. Below'
  BY <1>1, <1>2, <1>5 DEF GInv, Below, Tops
<1> QED
  BY <1>1, <1>2, <1>3, <1>4, <1>6

LEMMA DeleteKeeps == ASSUME GInv, NEW m \in Member, Delete(m) PROVE GInv'
<1>1. /\ deed[m].pc = "delete" /\ Rolled(m) /\ UNCHANGED owners
      /\ members' \in {members, [members EXCEPT ![m] = ""]}
  BY DEF Delete, DeedAt
<1>2. "" \in Role /\ Top # "" /\ lock = m
  BY <1>1, NoRole, SpacesAssumption DEF GInv, Scoped, HasCounted
<1>3. owners # {} => members[m] # Top
  BY <1>1 DEF GInv, Below
<1>4. /\ GType' /\ Scoped' /\ Below'
      /\ deed'[m].pc = "start" /\ \A n \in Member : n # m => deed'[n] = deed[n]
  BY <1>1, <1>2, <1>3, EndOfDeed
<1>5. HasCounted'
  BY <1>2, <1>4 DEF GInv, HasCounted
<1> QED
  BY <1>4, <1>5 DEF GInv

LEMMA AssignKeeps == ASSUME GInv, NEW m \in Member, Assign(m) PROVE GInv'
<1>1. PICK whom : whom = deed[m].whom
  OBVIOUS
<1>2. /\ deed[m].pc = "assign" /\ Rolled(m) /\ UNCHANGED <<lock, owners>> /\ lock = NoMember
      /\ \/ \E target \in Role : /\ AssignableOver(deed[m].scope, members[whom], target)
                                 /\ members' = [members EXCEPT ![whom] = target]
         \/ members' = members
  BY <1>1 DEF Assign, DeedAt
<1>3. deed[m].scope \in Role /\ (owners # {} => deed[m].scope # Top)
  BY <1>2 DEF GInv, GType, Deed, Below
<1>4. PICK target \in Role :
        /\ members' \in {members, [members EXCEPT ![whom] = target]}
        /\ owners # {} /\ members' # members => target # Top /\ members[whom] # Top
  BY <1>2, <1>3, OutOfReach, SpacesAssumption
<1>5. /\ GType' /\ Scoped' /\ Below'
      /\ deed'[m].pc = "start" /\ \A n \in Member : n # m => deed'[n] = deed[n]
  BY <1>2, <1>4, EndOfDeed
<1>6. HasCounted'
  BY <1>2, <1>5, SpacesAssumption DEF GInv, HasCounted
<1> QED
  BY <1>5, <1>6 DEF GInv

LEMMA InviteKeeps == ASSUME GInv, NEW m \in Member, Invite(m) PROVE GInv'
<1>1. PICK whom : whom = deed[m].whom
  OBVIOUS
<1>2. /\ deed[m].pc = "invite" /\ Rolled(m) /\ UNCHANGED <<lock, owners>>
      /\ \/ /\ members[whom] = ""
            /\ \E target \in Role : /\ AssignableBy(deed[m].scope, target)
                                    /\ members' = [members EXCEPT ![whom] = target]
         \/ members' = members
  BY <1>1 DEF Invite, DeedAt
<1>3. /\ deed[m].scope \in Role /\ (owners # {} => deed[m].scope # Top)
      /\ Top # ""
  BY <1>2, NoRole DEF GInv, GType, Deed, Below, Scoped
<1>4. PICK target \in Role :
        /\ members' \in {members, [members EXCEPT ![whom] = target]}
        /\ members' # members => members[whom] = ""
        /\ owners # {} /\ members' # members => target # Top
  BY <1>2, <1>3, OutOfReach, SpacesAssumption
<1>5. /\ GType' /\ Scoped' /\ Below'
      /\ deed'[m].pc = "start" /\ \A n \in Member : n # m => deed'[n] = deed[n]
  BY <1>2, <1>3, <1>4, EndOfDeed
<1>6. \A n \in Member : members[n] # "" => members'[n] = members[n]
  BY <1>4 DEF GInv, GType
<1>7. HasCounted'
  BY <1>2, <1>3, <1>5, <1>6, NoRole DEF GInv, HasCounted
<1> QED
  BY <1>5, <1>7 DEF GInv

LEMMA LadderStep == GInv /\ [SpacesNext]_gvars => GInv'
<1>1. ASSUME GInv, UNCHANGED gvars PROVE GInv'
  BY <1>1 DEF gvars, GInv, GType, Scoped, Below, HasCounted, Tops
<1> QED
  BY <1>1, ResolveScopeKeeps, LeaveKeeps, DeleteKeeps, AssignKeeps, InviteKeeps DEF SpacesNext

LEMMA LadderInv == SpacesSpec => []GInv
  BY LadderInit, LadderStep, PTL DEF SpacesSpec

\* Whatever ladder and however stale the scopes: as long as nobody at the top
\* rank acts, nobody joins or leaves it (assign.go AssignableBy,
\* AssignableOver).
THEOREM TopIsOutOfReach == SpacesSpec => []TopRulesTop
<1>1. GInv => TopRulesTop
  BY DEF GInv, Below, Tops, TopRulesTop
<1> QED
  BY <1>1, LadderInv, PTL

\* CanLeave under the lock the DELETE is under leaves somebody at the top,
\* for any number of members who leave, demote and invite meanwhile (guard.go
\* CanLeave).
THEOREM SomebodyStays == SpacesSpec => DepartureKeepsTop
<1>1. ASSUME GInv, [SpacesNext]_gvars
      PROVE  [\A m \in Member : DeedAt(m, "delete") /\ members'[m] # members[m] /\ CountRole(Top) > 0 =>
                \E n \in Member : members'[n] = Top]_gvars
  <2> SUFFICES ASSUME SpacesNext, NEW m \in Member, DeedAt(m, "delete"), members'[m] # members[m],
                      CountRole(Top) > 0
               PROVE  \E n \in Member : members'[n] = Top
    BY <1>1
  <2>1. lock = m /\ Valid(members[m]) /\ deed[m].pc = "delete"
    BY <1>1 DEF DeedAt, GInv, HasCounted
\* Nobody else's step changes m's row: it has one, under m's lock.
  <2>2. Delete(m)
    <3>1. PICK n \in Member : ResolveScope(n) \/ Leave(n) \/ Delete(n) \/ Assign(n) \/ Invite(n)
      BY DEF SpacesNext
    <3>2. ~ResolveScope(n) /\ ~Leave(n)
      BY DEF ResolveScope, Leave
    <3>3. ~Assign(n)
      BY <2>1, SpacesAssumption DEF Assign
    <3>4. ~Invite(n)
      <4> SUFFICES ASSUME Invite(n) PROVE FALSE
        OBVIOUS
      <4>1. deed[n].whom = m /\ members[m] = ""
        BY <1>1 DEF Invite, GInv, GType
      <4> QED
        BY <2>1, <4>1, NoRole
    <3>5. Delete(n) => n = m
      BY <1>1, <2>1 DEF Delete, DeedAt, GInv, HasCounted
    <3> QED
      BY <3>1, <3>2, <3>3, <3>4, <3>5
  <2>3. \A n \in Member : n # m => members'[n] = members[n]
    BY <1>1, <2>2 DEF Delete, GInv, GType
  <2>4. \E n \in Member \ {m} : members[n] = Top
    BY <1>1, <2>1, CountFacts DEF Tops, GInv, HasCounted
  <2> QED
    BY <2>3, <2>4
<1> QED
  BY <1>1, LadderInv, PTL DEF SpacesSpec, DepartureKeepsTop

-----------------------------------------------------------------------------
(* Provider tokens.  What a reseal has behind it is sealed with the key in *)
(* front, and stays so: whoever writes a token seals it with that key too. *)
(* When one finishes, nothing needs the older keys.                        *)

Cipher == {"clear"} \cup STRING
Stop == {"start", "serve", "mark", "refresh", "userinfo", "token", "claims", "asked", "upsert",
         "clear", "save"}

TokenSet == [set : Nat, roles : Nat, rolesAt : Nat, syncedAt : Nat]
StoredSet == [set : Nat, key : Cipher, roles : Nat, rolesAt : Nat, syncedAt : Nat]
RowRead == [row : Row, set : Nat, key : Cipher]
Request == [pc : Stop, row : Row, read : Nat, held : TokenSet, roles : Nat, began : Nat]

TType ==
    /\ work \in Work /\ time \in Nat /\ stage \in 1..Len(Rings)
    /\ stored \in [Row -> StoredSet]
    /\ made \in Seq(Nat) /\ granted \in Nat
    /\ call \in [Caller -> Request]
    /\ reseal \in [after : Nat, batch : SUBSET RowRead, last : BOOLEAN]
    /\ resealed \in BOOLEAN

\* The row holds no token, or one sealed with the key in front.
Current(a) == stored[a].set # 0 => stored[a].key = SealKey

InHand(a) == \E r \in reseal.batch : r.row = a

\* What the reseal running has behind it: the rows up to the last one it saw,
\* and those its batch passed over.
Behind(a) ==
    /\ ~InHand(a)
    /\ a <= reseal.after \/ reseal.last \/ \E r \in reseal.batch : a < r.row

BatchInOrder ==
    /\ \A r \in reseal.batch : r.row > reseal.after
    /\ \A r, s \in reseal.batch : r.row = s.row => r = s

Sweeping ==
    /\ \A a \in Row : Behind(a) => Current(a)
    /\ \A r \in reseal.batch : Current(r.row) \/ Unmoved(r)
    /\ resealed => \A a \in Row : Current(a)

TInv == TType /\ ReadableThroughRotation /\ BatchInOrder /\ Sweeping

\* A key stays in the ring for as long as the next rings' reseals need it:
\* the newest of one deployment is in the next one's ring as well.
KeysOverlap ==
    \A i \in 1..(Len(Rings) - 1) : Rings[i] # <<>> => Rings[i][1] \in ToSet(Rings[i + 1])

LEMMA RingFacts ==
    ASSUME stage \in 1..Len(Rings)
    PROVE  Ring \in Seq(STRING) /\ SealKey \in Cipher /\ Opens(SealKey)
<1>1. Rings \in Seq(Seq(STRING)) /\ Len(Rings) \in Nat
  BY TokensAssumption
<1>2. Ring \in Seq(STRING)
  BY <1>1 DEF Ring
<1>3. CASE Ring = <<>>
  <2>1. SealKey = "clear" /\ "clear" \in Cipher
    BY <1>3 DEF SealKey, Cipher
  <2> QED
    BY <1>2, <2>1 DEF Opens
<1>4. CASE Ring # <<>>
  <2>1. Len(Ring) \in Nat /\ Len(Ring) # 0 /\ DOMAIN Ring = 1..Len(Ring)
    BY <1>2, <1>4, LenProperties, EmptySeq
  <2>2. 1 \in DOMAIN Ring /\ Ring[1] \in STRING
    BY <1>2, <2>1
  <2> QED
    BY <1>2, <1>4, <2>2 DEF SealKey, Opens, Cipher
<1> QED
  BY <1>3, <1>4

LEMMA WorkFacts ==
    ASSUME work \in Work
    PROVE  work.rows \subseteq Row /\ work.lifetime \in Nat
  BY TokensAssumption DEF Row

LEMMA NoCallTyped == NoCall \in Request
<1>1. 1 \in Row
  BY TokensAssumption DEF Row
<1>2. NoRead \in TokenSet
  BY DEF NoRead, TokenSet
<1>3. "start" \in Stop
  BY DEF Stop
<1> QED
  BY <1>1, <1>2, <1>3 DEF NoCall, Request

LEMMA NoResealTyped == NoReseal \in [after : Nat, batch : SUBSET RowRead, last : BOOLEAN]
  BY DEF NoReseal

LEMMA TokensStart == TokensInit => TInv
<1> SUFFICES ASSUME TokensInit PROVE TInv
  OBVIOUS
<1>1. Accounts \in Nat /\ Row \subseteq Nat /\ Row = 1..Accounts /\ 1 \in Row
  BY TokensAssumption DEF Row
<1>2. work \in Work /\ work.lifetime \in Nat
  BY WorkFacts DEF TokensInit
<1>3. stored \in [Row -> StoredSet]
  <2>1. "clear" \in Cipher
    BY DEF Cipher
  <2>2. \A a \in Row :
           [set |-> a, key |-> "clear", roles |-> 0, rolesAt |-> 1, syncedAt |-> 1] \in StoredSet
    BY <1>1, <2>1 DEF StoredSet
  <2> QED
    BY <2>2 DEF TokensInit
<1>4. made \in Seq(Nat)
  <2>1. made = [a \in 1..Accounts |-> 1 + work.lifetime]
    BY <1>1 DEF TokensInit
  <2>2. made \in [1..Accounts -> Nat]
    BY <1>2, <2>1
  <2> QED
    BY <1>1, <2>2
<1>5. call \in [Caller -> Request]
  BY <1>1, NoCallTyped DEF TokensInit
<1>6. reseal \in [after : Nat, batch : SUBSET RowRead, last : BOOLEAN]
  BY DEF TokensInit, NoReseal
<1>7. stage \in 1..Len(Rings)
  <2>1. Rings \in Seq(Seq(STRING)) /\ Rings # <<>>
    BY TokensAssumption
  <2>2. Len(Rings) \in Nat /\ Len(Rings) # 0
    BY <2>1, LenProperties, EmptySeq
  <2> QED
    BY <2>2 DEF TokensInit
<1>8. TType
  BY <1>2, <1>3, <1>4, <1>5, <1>6, <1>7 DEF TType, TokensInit
<1>9. ReadableThroughRotation
  BY DEF TokensInit, ReadableThroughRotation, Opens
<1>10. BatchInOrder /\ Sweeping
  <2>1. reseal.batch = {} /\ reseal.after = 0 /\ reseal.last = FALSE /\ resealed = FALSE
    BY DEF TokensInit, NoReseal
  <2>2. \A a \in Row : ~(a <= 0)
    BY <1>1
  <2> QED
    BY <2>1, <2>2 DEF BatchInOrder, Sweeping, Behind
<1> QED
  BY <1>8, <1>9, <1>10 DEF TInv

\* What a caller's steps leave alone.
Alone == <<granted, revoked, stage, reseal, resealed, time, work>>

LEMMA CallTyped ==
    ASSUME call \in [Caller -> Request], NEW p \in Caller, NEW r \in Request,
           call' = [call EXCEPT ![p] = r]
    PROVE  call' \in [Caller -> Request]
  OBVIOUS

LEMMA ToTyped ==
    ASSUME call \in [Caller -> Request], NEW p \in Caller, NEW label \in Stop, To(p, label)
    PROVE  call' \in [Caller -> Request]
<1>1. [call[p] EXCEPT !.pc = label] \in Request
  BY DEF Request
<1>2. call' = [call EXCEPT ![p] = [call[p] EXCEPT !.pc = label]]
  BY DEF To
<1> QED
  BY <1>1, <1>2, CallTyped

LEMMA DoneTyped ==
    ASSUME call \in [Caller -> Request], NEW p \in Caller, Done(p)
    PROVE  call' \in [Caller -> Request]
  BY NoCallTyped, CallTyped DEF Done

LEMMA ReadTyped == ASSUME TType, NEW a \in Row PROVE Read(a) \in TokenSet
<1>1. stored[a] \in StoredSet
  BY DEF TType
<1>2. stored[a].set \in Nat /\ stored[a].roles \in Nat /\ stored[a].rolesAt \in Nat /\ stored[a].syncedAt \in Nat
  BY <1>1 DEF StoredSet
<1>3. (IF Opens(stored[a].key) THEN stored[a].set ELSE 0) \in Nat
  BY <1>2
<1> HIDE DEF Opens
<1> QED
  BY <1>2, <1>3 DEF Read, TokenSet

LEMMA MakeTyped ==
    ASSUME TType, NEW old, Make(old)
    PROVE  made' \in Seq(Nat) /\ Len(made) + 1 \in Nat
<1>1. time + work.lifetime \in Nat
  BY WorkFacts DEF TType
<1>2. made' = Append(made, time + work.lifetime) /\ made \in Seq(Nat)
  BY DEF Make, TType
<1> QED
  BY <1>1, <1>2

\* A row that keeps its tokens, or is written with the key in front.
Kept(a) == stored'[a].set = stored[a].set /\ stored'[a].key = stored[a].key
Sealed(a) == stored'[a].key = SealKey

LEMMA RowsKeep ==
    ASSUME TInv, UNCHANGED Alone, made' \in Seq(Nat), call' \in [Caller -> Request],
           stored' \in [Row -> StoredSet], \A a \in Row : Kept(a) \/ Sealed(a)
    PROVE  TInv'
<1>1. /\ stage' = stage /\ reseal' = reseal /\ resealed' = resealed
      /\ granted' = granted /\ time' = time /\ work' = work
  BY DEF Alone
<1>2. TType'
  BY <1>1 DEF TInv, TType
<1>3. SealKey' = SealKey /\ \A k : Opens(k)' <=> Opens(k)
  BY <1>1 DEF SealKey, Opens, Ring
<1>4. ReadableThroughRotation'
  <2> SUFFICES ASSUME NEW a \in Row, stored'[a].set # 0 PROVE Opens(stored'[a].key)
    BY <1>3 DEF ReadableThroughRotation
  <2>1. Opens(SealKey)
    BY RingFacts DEF TInv, TType
  <2> QED
    BY <2>1 DEF TInv, ReadableThroughRotation, Kept, Sealed
<1>5. BatchInOrder'
  BY <1>1 DEF TInv, BatchInOrder
<1>6. \A a \in Row : (Behind(a)' <=> Behind(a)) /\ (Current(a) => Current(a)')
  BY <1>1, <1>3 DEF Behind, InHand, Current, Kept, Sealed
<1>7. \A r \in reseal.batch : Current(r.row) \/ Unmoved(r) => Current(r.row)' \/ Unmoved(r)'
  <2> TAKE r \in reseal.batch
  <2>1. r.row \in Row
    BY DEF TInv, TType, RowRead
  <2> QED
    BY <1>6, <1>3, <2>1 DEF Unmoved, Kept, Sealed, Current
<1>8. Sweeping'
  BY <1>1, <1>6, <1>7 DEF TInv, Sweeping
<1> QED
  BY <1>2, <1>4, <1>5, <1>8 DEF TInv

\* The same for a step that writes nothing.
LEMMA QuietKeeps ==
    ASSUME TInv, UNCHANGED Alone, UNCHANGED stored, made' \in Seq(Nat), call' \in [Caller -> Request]
    PROVE  TInv'
  BY RowsKeep DEF TInv, TType, Kept

LEMMA LoadKeeps == ASSUME TInv, NEW p \in Caller, Load(p) PROVE TInv'
<1>1. PICK a \in work.rows :
        LET row == Read(a) IN
        \/ call' = [call EXCEPT ![p] =
             [NoCall EXCEPT !.pc = IF ~RolesStale(row) THEN "serve"
                                   ELSE IF row.set = 0 THEN "mark" ELSE "refresh",
                            !.row = a, !.read = row.set, !.held = row, !.roles = row.roles, !.began = time]]
        \/ call' = [call EXCEPT ![p] =
             [NoCall EXCEPT !.pc = "userinfo", !.row = a, !.read = row.set, !.held = row]]
  BY DEF Load
<1>2. a \in Row /\ call \in [Caller -> Request] /\ time \in Nat
  BY WorkFacts DEF TInv, TType
<1>3. PICK row : row = Read(a)
  OBVIOUS
<1>4. row \in TokenSet /\ row.set \in Nat /\ row.roles \in Nat
  <2>1. row \in TokenSet
    BY <1>2, <1>3, ReadTyped DEF TInv
  <2> QED
    BY <2>1 DEF TokenSet
<1>5. ASSUME NEW label \in Stop
      PROVE  /\ [NoCall EXCEPT !.pc = label, !.row = a, !.read = row.set, !.held = row, !.roles = row.roles,
                               !.began = time] \in Request
             /\ [NoCall EXCEPT !.pc = label, !.row = a, !.read = row.set, !.held = row] \in Request
  BY <1>2, <1>4, NoCallTyped DEF Request
<1>6. call' \in [Caller -> Request]
  <2>1. CASE call' = [call EXCEPT ![p] =
             [NoCall EXCEPT !.pc = "userinfo", !.row = a, !.read = row.set, !.held = row]]
    <3>1. "userinfo" \in Stop
      BY DEF Stop
    <3> QED
      BY <1>2, <1>5, <2>1, <3>1, CallTyped
  <2>2. ASSUME NEW label \in Stop,
               call' = [call EXCEPT ![p] =
                 [NoCall EXCEPT !.pc = label, !.row = a, !.read = row.set, !.held = row, !.roles = row.roles,
                               !.began = time]]
        PROVE  call' \in [Caller -> Request]
    BY <1>2, <1>5, <2>2, CallTyped
  <2>3. (IF ~RolesStale(row) THEN "serve" ELSE IF row.set = 0 THEN "mark" ELSE "refresh") \in Stop
    BY DEF Stop
  <2> QED
    BY <1>1, <1>3, <2>1, <2>2, <2>3
<1>7. UNCHANGED Alone /\ UNCHANGED stored /\ made' \in Seq(Nat)
  BY DEF Load, ProviderStays, RestStays, Alone, TInv, TType
<1> QED
  BY <1>6, <1>7, QuietKeeps

\* Steps that only move the call on, to a next stop or to its end.
LEMMA MovesKeep ==
    ASSUME TInv, NEW p \in Caller, UNCHANGED stored, RestStays, made' \in Seq(Nat),
           Done(p) \/ \E label \in Stop : To(p, label)
    PROVE  TInv'
<1>1. call' \in [Caller -> Request]
  BY DoneTyped, ToTyped DEF TInv, TType
<1> QED
  BY <1>1, QuietKeeps DEF RestStays, Alone

\* Steps that leave the call with other fields.
LEMMA ChangesKeep ==
    ASSUME TInv, NEW p \in Caller, UNCHANGED stored, RestStays, made' \in Seq(Nat),
           NEW r \in Request, call' = [call EXCEPT ![p] = r]
    PROVE  TInv'
<1>1. call' \in [Caller -> Request]
  BY CallTyped DEF TInv, TType
<1> QED
  BY <1>1, QuietKeeps DEF RestStays, Alone

LEMMA ProviderTyped == ASSUME TType, ProviderStays PROVE made' \in Seq(Nat)
  BY DEF TType, ProviderStays

LEMMA RequestTyped ==
    ASSUME TType, NEW p \in Caller
    PROVE  /\ call[p] \in Request /\ call[p].held \in TokenSet /\ call[p].row \in Row
           /\ call[p].held.set \in Nat /\ call[p].held.roles \in Nat
           /\ call[p].held.rolesAt \in Nat /\ call[p].held.syncedAt \in Nat
<1>1. call[p] \in Request
  BY DEF TType
<1>2. call[p].held \in TokenSet /\ call[p].row \in Row
  BY <1>1 DEF Request
<1> QED
  BY <1>1, <1>2 DEF TokenSet

LEMMA StopTyped ==
    ASSUME NEW pc \in {"refresh", "userinfo", "token"}
    PROVE  Reused(pc) \in Stop /\ Given(pc) \in Stop /\ Denied(pc) \in Stop
  BY DEF Reused, Given, Denied, Stop

LEMMA ReuseKeeps == ASSUME TInv, NEW p \in Caller, Reuse(p) PROVE TInv'
<1>1. \E label \in Stop : To(p, label)
  BY StopTyped DEF Reuse
<1> QED
  BY <1>1, MovesKeep, ProviderTyped DEF Reuse, TInv

LEMMA TradeKeeps == ASSUME TInv, NEW p \in Caller, Trade(p) PROVE TInv'
<1>1. call[p].pc \in {"refresh", "userinfo", "token"} /\ UNCHANGED stored /\ RestStays
  BY DEF Trade
<1>2. CASE /\ Make({call[p].held.set})
           /\ call' = [call EXCEPT ![p].held.set = Len(made) + 1, ![p].pc = Given(call[p].pc)]
  <2>1. made' \in Seq(Nat) /\ Len(made) + 1 \in Nat
    BY <1>2, MakeTyped DEF TInv
  <2>2. PICK held : held = [call[p].held EXCEPT !.set = Len(made) + 1]
    OBVIOUS
  <2>3. held \in TokenSet
    BY <2>1, <2>2, RequestTyped DEF TInv, TokenSet
  <2>4. [call[p] EXCEPT !.held = held, !.pc = Given(call[p].pc)] \in Request
    BY <1>1, <2>3, RequestTyped, StopTyped DEF TInv, Request
  <2>5. call' = [call EXCEPT ![p] = [call[p] EXCEPT !.held = held, !.pc = Given(call[p].pc)]]
    BY <1>2, <2>2
  <2> QED
    BY <1>1, <2>1, <2>4, <2>5, ChangesKeep
<1>3. CASE Make({call[p].held.set}) /\ To(p, Denied(call[p].pc))
  BY <1>1, <1>3, StopTyped, MakeTyped, MovesKeep DEF TInv
<1>4. CASE ProviderStays /\ To(p, Denied(call[p].pc))
  BY <1>1, <1>4, StopTyped, ProviderTyped, MovesKeep DEF TInv
<1> QED
  BY <1>2, <1>3, <1>4 DEF Trade

LEMMA ClaimsKeeps == ASSUME TInv, NEW p \in Caller, Claims(p) PROVE TInv'
<1>1. UNCHANGED stored /\ RestStays /\ made' \in Seq(Nat)
  BY ProviderTyped DEF Claims, TInv
<1>2. CASE call' = [call EXCEPT ![p].pc = "save", ![p].held.roles = granted, ![p].held.rolesAt = time]
  <2>1. granted \in Nat /\ time \in Nat
    BY DEF TInv, TType
  <2>2. PICK held : held = [call[p].held EXCEPT !.roles = granted, !.rolesAt = time]
    OBVIOUS
  <2>3. held \in TokenSet
    BY <2>1, <2>2, RequestTyped DEF TInv, TokenSet
  <2>4. [call[p] EXCEPT !.pc = "save", !.held = held] \in Request
    BY <2>3, RequestTyped DEF TInv, Request, Stop
  <2>5. call' = [call EXCEPT ![p] = [call[p] EXCEPT !.pc = "save", !.held = held]]
    BY <1>2, <2>2
  <2> QED
    BY <1>1, <2>4, <2>5, ChangesKeep
<1>3. CASE To(p, "mark")
  BY <1>1, <1>3, MovesKeep DEF Stop
<1> QED
  BY <1>2, <1>3 DEF Claims

LEMMA UserInfoKeeps == ASSUME TInv, NEW p \in Caller, UserInfo(p) PROVE TInv'
<1>1. UNCHANGED stored /\ RestStays /\ made' \in Seq(Nat)
  BY ProviderTyped DEF UserInfo, TInv
<1>2. Done(p) \/ \E label \in Stop : To(p, label)
  BY DEF UserInfo, Stop
<1> QED
  BY <1>1, <1>2, MovesKeep

LEMMA UpsertKeeps == ASSUME TInv, NEW p \in Caller, Upsert(p) PROVE TInv'
<1>1. UNCHANGED stored /\ RestStays /\ made' \in Seq(Nat)
  BY ProviderTyped DEF Upsert, TInv
<1>2. CASE call' = [call EXCEPT ![p].pc = "save", ![p].held.syncedAt = time]
  <2>1. time \in Nat
    BY DEF TInv, TType
  <2>2. PICK held : held = [call[p].held EXCEPT !.syncedAt = time]
    OBVIOUS
  <2>3. held \in TokenSet
    BY <2>1, <2>2, RequestTyped DEF TInv, TokenSet
  <2>4. [call[p] EXCEPT !.pc = "save", !.held = held] \in Request
    BY <2>3, RequestTyped DEF TInv, Request, Stop
  <2>5. call' = [call EXCEPT ![p] = [call[p] EXCEPT !.pc = "save", !.held = held]]
    BY <1>2, <2>2
  <2> QED
    BY <1>1, <2>4, <2>5, ChangesKeep
<1>3. CASE Done(p)
  BY <1>1, <1>3, MovesKeep
<1> QED
  BY <1>2, <1>3 DEF Upsert

LEMMA ClearKeeps == ASSUME TInv, NEW p \in Caller, Clear(p) PROVE TInv'
<1>1. UNCHANGED stored /\ RestStays /\ made' \in Seq(Nat)
  BY ProviderTyped DEF Clear, TInv
<1>2. call' = [call EXCEPT ![p].pc = "save", ![p].held.set = 0, ![p].held.syncedAt = time]
  BY DEF Clear
<1>3. PICK held : held = [call[p].held EXCEPT !.set = 0, !.syncedAt = time]
  OBVIOUS
<1>4. held \in TokenSet
  BY <1>3, RequestTyped DEF TInv, TType, TokenSet
<1>5. [call[p] EXCEPT !.pc = "save", !.held = held] \in Request
  BY <1>4, RequestTyped DEF TInv, Request, Stop
<1>6. call' = [call EXCEPT ![p] = [call[p] EXCEPT !.pc = "save", !.held = held]]
  BY <1>2, <1>3
<1> QED
  BY <1>1, <1>5, <1>6, ChangesKeep

LEMMA ExchangeKeeps == ASSUME TInv, NEW p \in Caller, Exchange(p) PROVE TInv'
<1>1. UNCHANGED stored /\ RestStays /\ made' \in Seq(Nat) /\ Len(made) + 1 \in Nat
  BY MakeTyped DEF Exchange, TInv
<1>2. PICK a \in work.rows : call' = [call EXCEPT ![p] =
         [NoCall EXCEPT !.pc = "save", !.row = a,
            !.held = [set |-> Len(made) + 1, roles |-> granted, rolesAt |-> time, syncedAt |-> time]]]
  BY DEF Exchange
<1>3. PICK held : held = [set |-> Len(made) + 1, roles |-> granted, rolesAt |-> time, syncedAt |-> time]
  OBVIOUS
<1>4. a \in Row /\ held \in TokenSet
  BY <1>1, <1>3, WorkFacts DEF TInv, TType, TokenSet
<1>5. [NoCall EXCEPT !.pc = "save", !.row = a, !.held = held] \in Request
  BY <1>4, NoCallTyped DEF Request, Stop
<1>6. call' = [call EXCEPT ![p] = [NoCall EXCEPT !.pc = "save", !.row = a, !.held = held]]
  BY <1>2, <1>3
<1> QED
  BY <1>1, <1>5, <1>6, ChangesKeep

LEMMA SaveKeeps == ASSUME TInv, NEW p \in Caller, Save(p) PROVE TInv'
<1>1. RestStays /\ made' \in Seq(Nat) /\ call[p].row \in Row
  BY ProviderTyped, RequestTyped DEF Save, TInv
<1>2. PICK v : v = [set |-> call[p].held.set, key |-> SealKey, roles |-> call[p].held.roles,
                    rolesAt |-> call[p].held.rolesAt, syncedAt |-> call[p].held.syncedAt]
  OBVIOUS
<1>3. v \in StoredSet /\ v.key = SealKey
  BY <1>2, RequestTyped, RingFacts DEF TInv, TType, StoredSet
<1>4. call' \in [Caller -> Request]
  <2>1. CASE call' = [call EXCEPT ![p].pc = "serve", ![p].roles = call[p].held.roles]
    <3>1. [call[p] EXCEPT !.pc = "serve", !.roles = call[p].held.roles] \in Request
      BY RequestTyped DEF TInv, Request, Stop
    <3>2. call' = [call EXCEPT ![p] = [call[p] EXCEPT !.pc = "serve", !.roles = call[p].held.roles]]
      BY <2>1
    <3> QED
      BY <3>1, <3>2, CallTyped DEF TInv, TType
  <2>2. CASE Done(p) \/ To(p, "mark")
    BY <2>2, DoneTyped, ToTyped DEF TInv, TType, Stop
  <2> QED
    BY <2>1, <2>2 DEF Save
<1>5. UNCHANGED Alone
  BY <1>1 DEF RestStays, Alone
<1>6. CASE UNCHANGED stored
  BY <1>1, <1>4, <1>5, <1>6, QuietKeeps
<1>7. CASE stored' = [stored EXCEPT ![call[p].row] = v]
  <2>1. stored' \in [Row -> StoredSet]
    BY <1>3, <1>7 DEF TInv, TType
  <2>2. \A a \in Row : Kept(a) \/ Sealed(a)
    BY <1>1, <1>3, <1>7 DEF TInv, TType, Kept, Sealed
  <2> QED
    BY <1>1, <1>4, <1>5, <2>1, <2>2, RowsKeep
<1> QED
  BY <1>2, <1>6, <1>7 DEF Save

LEMMA MarkKeeps == ASSUME TInv, NEW p \in Caller, Mark(p) PROVE TInv'
<1>1. RestStays /\ made' \in Seq(Nat) /\ call[p].row \in Row
  BY ProviderTyped, RequestTyped DEF Mark, TInv
<1>2. call' \in [Caller -> Request]
  BY ToTyped DEF Mark, TInv, TType, Stop
<1>3. UNCHANGED Alone
  BY <1>1 DEF RestStays, Alone
<1>4. CASE UNCHANGED stored
  BY <1>1, <1>2, <1>3, <1>4, QuietKeeps
<1>5. CASE stored' = [stored EXCEPT ![call[p].row] = Marked(p)]
  <2>1. /\ Marked(p) \in StoredSet
        /\ Marked(p).set = stored[call[p].row].set /\ Marked(p).key = stored[call[p].row].key
    BY <1>1 DEF Marked, TInv, TType, StoredSet
  <2>2. stored' \in [Row -> StoredSet]
    BY <1>5, <2>1 DEF TInv, TType
  <2>3. \A a \in Row : Kept(a)
    BY <1>1, <1>5, <2>1 DEF TInv, TType, Kept
  <2> QED
    BY <1>1, <1>2, <1>3, <2>2, <2>3, RowsKeep
<1> QED
  BY <1>4, <1>5 DEF Mark

LEMMA ServeKeeps == ASSUME TInv, NEW p \in Caller, Serve(p) PROVE TInv'
<1>1. UNCHANGED stored /\ RestStays /\ Done(p) /\ made' \in Seq(Nat)
  BY ProviderTyped DEF Serve, TInv
<1> QED
  BY <1>1, MovesKeep

LEMMA TokenStepKeeps == ASSUME TInv, NEW p \in Caller, TokenStep(p) PROVE TInv'
  BY LoadKeeps, ReuseKeeps, TradeKeeps, ClaimsKeeps, UserInfoKeeps, UpsertKeeps, ClearKeeps,
     ExchangeKeeps, SaveKeeps, MarkKeeps, ServeKeeps DEF TokenStep

LEMMA ClockKeeps == ASSUME TInv, RevokeRole \/ TokensTick PROVE TInv'
<1>1. UNCHANGED <<stored, made, call, stage, reseal, resealed, work>> /\ granted' \in Nat /\ time' \in Nat
  BY DEF RevokeRole, TokensTick, TInv, TType
<1>2. TType'
  BY <1>1 DEF TInv, TType
<1>3. SealKey' = SealKey /\ \A k : Opens(k)' <=> Opens(k)
  BY <1>1 DEF SealKey, Opens, Ring
<1>4. ReadableThroughRotation'
  BY <1>1, <1>3 DEF TInv, ReadableThroughRotation
<1>5. BatchInOrder'
  BY <1>1 DEF TInv, BatchInOrder
<1>6. Sweeping'
  BY <1>1, <1>3 DEF TInv, Sweeping, Behind, InHand, Current, Unmoved
<1> QED
  BY <1>2, <1>4, <1>5, <1>6 DEF TInv

\* What tokenBatch returns: the rows it leaves out for a lower one are none,
\* and those it leaves out at all are none when it is not full.
LEMMA BatchFacts ==
    ASSUME TInv, NEW after \in Nat, NEW batch, batch = Batch(after)
    PROVE  /\ batch \subseteq RowRead
           /\ \A r \in batch : r.row > after /\ Unmoved(r)
           /\ \A r, s \in batch : r.row = s.row => r = s
           /\ \A a \in Row : a > after /\ stored[a].set # 0 /\ (\A r \in batch : r.row # a) =>
                 batch # {} /\ ~LastBatch(batch) /\ \A r \in batch : r.row < a
<1> DEFINE left == {a \in Row : a > after /\ stored[a].set # 0}
           before(a) == {b \in left : b < a}
           next == {a \in left : Cardinality(before(a)) < ResealBatch}
           read(a) == [row |-> a, set |-> stored[a].set, key |-> stored[a].key]
<1>1. batch = {read(a) : a \in next}
  BY DEF Batch
<1>2. Row \subseteq Nat /\ Row = 1..Accounts /\ Accounts \in Nat /\ ResealBatch \in Nat \ {0}
  BY TokensAssumption DEF Row
<1>3. \A a \in Row : stored[a] \in StoredSet
  BY DEF TInv, TType
<1>4. \A a \in left : read(a) \in RowRead
  BY <1>3 DEF RowRead, StoredSet
<1>5. batch \subseteq RowRead
  BY <1>1, <1>4
<1>r. ASSUME NEW r \in batch
      PROVE  r = read(r.row) /\ r.row \in next /\ r.set = stored[r.row].set /\ r.key = stored[r.row].key
  <2>1. PICK a \in next : r = read(a)
    BY <1>1, Zenon
  <2>2. r.row = a /\ r.set = stored[a].set /\ r.key = stored[a].key
    BY <2>1
  <2> QED
    BY <2>1, <2>2
<1>n. next \subseteq left /\ \A a \in left : a \in next <=> Cardinality(before(a)) < ResealBatch
  OBVIOUS
<1>l. \A a : a \in left <=> a \in Row /\ a > after /\ stored[a].set # 0
  OBVIOUS
<1>m. \A a \in next : \E r \in batch : r.row = a
  <2> TAKE a \in next
  <2>1. read(a) \in batch /\ read(a).row = a
    BY <1>1
  <2> QED
    BY <2>1
<1>6. \A r \in batch : r.row > after /\ Unmoved(r)
  BY <1>r, <1>n, <1>l DEF Unmoved
<1>7. ASSUME NEW r \in batch, NEW s \in batch, r.row = s.row PROVE r = s
  <2>1. r = read(r.row) /\ s = read(s.row)
    BY <1>r
  <2> QED
    BY <1>7, <2>1, Zenon
<1>8. IsFiniteSet(left)
  <2>1. IsFiniteSet(1..Accounts)
    BY <1>2, FS_Interval
  <2> QED
    BY <1>2, <2>1, FS_Subset
<1>9. \A a \in left : IsFiniteSet(before(a)) /\ Cardinality(before(a)) \in Nat
  <2> TAKE a \in left
  <2>1. IsFiniteSet(before(a))
    BY <1>8, FS_Subset
  <2> QED
    BY <2>1, FS_CardinalityType
<1>10. ASSUME NEW a \in left, NEW b \in left, b < a
       PROVE  Cardinality(before(b)) <= Cardinality(before(a))
  <2>1. before(b) \subseteq before(a)
    BY <1>2, <1>10
  <2> QED
    BY <1>9, <2>1, FS_Subset
<1> HIDE DEF next
<1>11. ASSUME NEW a \in left \ next, NEW b \in next PROVE b < a
  <2>1. a \in Nat /\ b \in Nat /\ a # b /\ a \in left /\ b \in left
    BY <1>2, <1>n
  <2>2. /\ ~(Cardinality(before(a)) < ResealBatch) /\ Cardinality(before(b)) < ResealBatch
        /\ Cardinality(before(a)) \in Nat /\ Cardinality(before(b)) \in Nat
    BY <1>9, <1>n, <2>1
  <2>3. a < b => Cardinality(before(a)) <= Cardinality(before(b))
    BY <1>10, <2>1
  <2>4. ~(a < b)
    BY <1>2, <2>2, <2>3
  <2> QED
    BY <2>1, <2>4
<1>12. ASSUME NEW a \in left \ next PROVE batch # {} /\ ~LastBatch(batch)
  <2>1. left \ next # {} /\ left \ next \subseteq Nat
    BY <1>2
  <2>2. PICK c \in left \ next : \A y \in left \ next : c <= y
    BY <2>1, Least
  <2>3. before(c) \subseteq next
    <3> SUFFICES ASSUME NEW b \in left, b < c, b \notin next PROVE FALSE
      OBVIOUS
    <3>1. c <= b /\ b \in Nat /\ c \in Nat
      BY <1>2, <2>2
    <3> QED
      BY <3>1
  <2>4. Cardinality(before(c)) \in Nat /\ Cardinality(before(c)) >= ResealBatch
    <3>1. c \in left /\ ~(Cardinality(before(c)) < ResealBatch)
      BY <1>n, <2>2
    <3>2. PICK n \in Nat : n = Cardinality(before(c))
      BY <1>9, <3>1
    <3>3. ~(n < ResealBatch)
      BY <3>1, <3>2
    <3>4. n >= ResealBatch
      BY <1>2, <3>3
    <3> QED
      BY <3>2, <3>4
  <2>5. IsFiniteSet(next) /\ Cardinality(next) \in Nat /\ Cardinality(before(c)) <= Cardinality(next)
    <3>1. IsFiniteSet(next)
      BY <1>8, <1>n, FS_Subset
    <3> QED
      BY <2>3, <3>1, FS_Subset, FS_CardinalityType
  <2>6. IsFiniteSet(batch) /\ Cardinality(batch) = Cardinality(next)
    <3>1. [b \in next |-> read(b)] \in Bijection(next, batch)
      BY <1>1 DEF Bijection, Injection, Surjection, IsInjective
    <3> QED
      BY <2>5, <3>1, FS_Bijection DEF ExistsBijection
  <2>7. Cardinality(batch) >= ResealBatch
    BY <1>2, <2>4, <2>5, <2>6
  <2>8. batch # {}
    BY <1>2, <2>7, <2>6, FS_EmptySet
  <2> QED
    BY <1>2, <2>5, <2>6, <2>7, <2>8 DEF LastBatch
<1>13. ASSUME NEW a \in Row, a > after, stored[a].set # 0, \A r \in batch : r.row # a
       PROVE  batch # {} /\ ~LastBatch(batch) /\ \A r \in batch : r.row < a
  <2>1. a \in left
    BY <1>13
  <2>2. a \notin next
    BY <1>m, <1>13
  <2>3. \A r \in batch : r.row \in next
    BY <1>r
  <2> QED
    BY <1>11, <1>12, <2>1, <2>2, <2>3
<1> QED
  BY <1>5, <1>6, <1>7, <1>13

LEMMA ResealReadKeeps == ASSUME TInv, ResealRead PROVE TInv'
<1> DEFINE batch == Batch(reseal.after)
<1>1. /\ UNCHANGED <<stored, made, granted, call, stage, time, work>> /\ reseal.batch = {}
      /\ reseal' = IF batch = {} THEN NoReseal ELSE [reseal EXCEPT !.batch = batch, !.last = LastBatch(batch)]
      /\ resealed' = (resealed \/ batch = {})
  BY DEF ResealRead
<1>2. reseal.after \in Nat /\ Row \subseteq Nat
  BY TokensAssumption DEF TInv, TType, Row
<1>3. /\ batch \subseteq RowRead
      /\ \A r \in batch : r.row > reseal.after /\ Unmoved(r)
      /\ \A r, s \in batch : r.row = s.row => r = s
      /\ \A a \in Row : a > reseal.after /\ stored[a].set # 0 /\ (\A r \in batch : r.row # a) =>
            batch # {} /\ ~LastBatch(batch) /\ \A r \in batch : r.row < a
  BY <1>2, BatchFacts
<1> HIDE DEF batch
<1>4. SealKey' = SealKey /\ \A k : Opens(k)' <=> Opens(k)
  BY <1>1 DEF SealKey, Opens, Ring
<1>5. ReadableThroughRotation'
  BY <1>1, <1>4 DEF TInv, ReadableThroughRotation
<1>6. \A a \in Row : Current(a)' <=> Current(a)
  BY <1>1, <1>4 DEF Current
<1>7. \A r : Unmoved(r)' <=> Unmoved(r)
  BY <1>1 DEF Unmoved
\* What a full batch has gone through is behind the reseal already.
<1>8. \A a \in Row : a <= reseal.after => Current(a)
  BY <1>1 DEF TInv, Sweeping, Behind, InHand
<1>9. CASE batch = {}
  <2>1. reseal' = NoReseal /\ resealed' = TRUE
    BY <1>1, <1>9
  <2>2. TType'
    BY <1>1, <2>1, NoResealTyped DEF TInv, TType
  <2>3. reseal'.batch = {} /\ reseal'.after = 0 /\ reseal'.last = FALSE
    BY <2>1 DEF NoReseal
  <2>4. BatchInOrder'
    BY <2>3 DEF BatchInOrder
  <2>5. \A a \in Row : Current(a)
    <3> SUFFICES ASSUME NEW a \in Row PROVE Current(a)
      OBVIOUS
    <3>1. CASE a > reseal.after
      BY <1>3, <1>9, <3>1 DEF Current
    <3> QED
      BY <1>2, <1>8, <3>1
  <2>6. Sweeping'
    BY <1>6, <2>3, <2>5 DEF Sweeping
  <2> QED
    BY <1>5, <2>2, <2>4, <2>6 DEF TInv
<1>10. CASE batch # {}
  <2>1. LastBatch(batch) \in BOOLEAN
    BY DEF LastBatch
  <2>2. /\ reseal'.batch = batch /\ reseal'.last = LastBatch(batch) /\ reseal'.after = reseal.after
        /\ reseal' \in [after : Nat, batch : SUBSET RowRead, last : BOOLEAN]
    BY <1>1, <1>3, <1>10, <2>1 DEF TInv, TType
  <2>3. resealed' = resealed
    BY <1>1, <1>10 DEF TInv, TType
  <2>4. TType'
    BY <1>1, <2>2, <2>3 DEF TInv, TType
  <2>5. BatchInOrder'
    BY <1>3, <2>2 DEF BatchInOrder
  <2>6. ASSUME NEW a \in Row, Behind(a)' PROVE Current(a)
    <3>1. (\A r \in batch : r.row # a)
          /\ (a <= reseal.after \/ LastBatch(batch) \/ \E r \in batch : a < r.row)
      BY <2>2, <2>6 DEF Behind, InHand
    <3>2. CASE a <= reseal.after
      BY <1>8, <3>2
    <3>3. CASE a > reseal.after
      <4> SUFFICES ASSUME stored[a].set # 0 PROVE FALSE
        BY DEF Current
      <4>1. ~LastBatch(batch) /\ \A r \in batch : r.row < a /\ r.row \in Nat
        BY <1>2, <1>3, <3>1, <3>3 DEF RowRead
      <4>2. PICK r \in batch : a < r.row
        BY <1>2, <3>1, <3>3, <4>1
      <4> QED
        BY <1>2, <4>1, <4>2
    <3> QED
      BY <1>2, <3>2, <3>3
  <2>7. Sweeping'
    BY <1>3, <1>6, <1>7, <2>2, <2>3, <2>6 DEF TInv, Sweeping
  <2> QED
    BY <1>5, <2>4, <2>5, <2>7 DEF TInv
<1> QED
  BY <1>9, <1>10

\* The row a batch rewrites next, and what the UPDATE leaves in the table.
LEMMA Foremost ==
    ASSUME TInv, reseal.batch # {},
           NEW read, read = CHOOSE r \in reseal.batch : \A s \in reseal.batch : r.row <= s.row
    PROVE  read \in reseal.batch /\ \A s \in reseal.batch : read.row <= s.row
<1>1. reseal.batch \subseteq RowRead /\ Row \subseteq Nat
  BY TokensAssumption DEF TInv, TType, Row
<1>2. {r.row : r \in reseal.batch} \subseteq Nat /\ {r.row : r \in reseal.batch} # {}
  BY <1>1 DEF RowRead
<1>3. PICK a \in {r.row : r \in reseal.batch} : \A b \in {r.row : r \in reseal.batch} : a <= b
  BY <1>2, Least
<1>4. \E r \in reseal.batch : \A s \in reseal.batch : r.row <= s.row
  BY <1>3
<1> QED
  BY <1>4

LEMMA ResealedRow ==
    ASSUME TInv, NEW read \in reseal.batch, stored' = Resealed(read), stage' = stage
    PROVE  /\ stored' \in [Row -> StoredSet]
           /\ \A a \in Row : stored'[a].set = stored[a].set
           /\ \A a \in Row : Kept(a) \/ Sealed(a)
           /\ Current(read.row)'
<1>1. read \in RowRead /\ read.row \in Row /\ stored \in [Row -> StoredSet]
  BY DEF TInv, TType, RowRead
<1>2. SealKey' = SealKey /\ SealKey \in Cipher
  BY RingFacts DEF SealKey, Ring, TInv, TType
<1>3. CASE Old(read) /\ Unmoved(read)
  <2>1. PICK v : v = [stored[read.row] EXCEPT !.set = read.set, !.key = SealKey]
    OBVIOUS
  <2>2. v \in StoredSet /\ v.key = SealKey /\ v.set = stored[read.row].set
    BY <1>1, <1>2, <1>3, <2>1 DEF StoredSet, RowRead, Unmoved
  <2>3. stored' = [stored EXCEPT ![read.row] = v]
    BY <1>3, <2>1 DEF Resealed
  <2>4. \A a \in Row : stored'[a] = IF a = read.row THEN v ELSE stored[a]
    BY <1>1, <2>3
  <2> QED
    BY <1>1, <1>2, <2>2, <2>3, <2>4 DEF Kept, Sealed, Current
<1>4. CASE ~(Old(read) /\ Unmoved(read))
  <2>1. stored' = stored
    BY <1>4 DEF Resealed
  <2>2. Current(read.row)
    <3> SUFFICES ASSUME ~Current(read.row) PROVE FALSE
      OBVIOUS
    <3>1. Unmoved(read) /\ stored[read.row].set # 0 /\ stored[read.row].key # SealKey
      BY DEF TInv, Sweeping, Current
    <3>2. Opens(stored[read.row].key)
      BY <1>1, <3>1 DEF TInv, ReadableThroughRotation
    <3> QED
      BY <1>4, <3>1, <3>2 DEF Old, Unmoved
  <2> QED
    BY <1>1, <1>2, <2>1, <2>2 DEF Kept, Current
<1> QED
  BY <1>3, <1>4

LEMMA ResealRowKeeps == ASSUME TInv, ResealRow PROVE TInv'
<1>p. PICK read : read = CHOOSE r \in reseal.batch : \A s \in reseal.batch : r.row <= s.row
  OBVIOUS
<1> DEFINE rest == reseal.batch \ {read}
           end == rest = {} /\ reseal.last
<1>1. /\ reseal.batch # {} /\ UNCHANGED <<made, granted, call, stage, time, work>>
      /\ \/ /\ stored' = Resealed(read)
            /\ reseal' = IF end THEN NoReseal ELSE [reseal EXCEPT !.batch = rest, !.after = read.row]
            /\ resealed' = (resealed \/ end)
         \/ UNCHANGED <<stored, resealed>> /\ reseal' = NoReseal
  BY <1>p DEF ResealRow
<1>2. read \in reseal.batch /\ \A s \in reseal.batch : read.row <= s.row
  BY <1>p, <1>1, Foremost
<1>3. /\ reseal.batch \subseteq RowRead /\ reseal.after \in Nat /\ read.row \in Row
      /\ reseal.last \in BOOLEAN /\ Row \subseteq Nat /\ \A a \in Row : ~(a <= 0)
  BY <1>2, TokensAssumption DEF TInv, TType, Row, RowRead
<1>4. SealKey' = SealKey /\ (\A k : Opens(k)' <=> Opens(k)) /\ Opens(SealKey)
  BY <1>1, RingFacts DEF SealKey, Opens, Ring, TInv, TType
<1>5. CASE UNCHANGED <<stored, resealed>> /\ reseal' = NoReseal
  <2>1. TType'
    BY <1>1, <1>5, NoResealTyped DEF TInv, TType
  <2>2. reseal'.batch = {} /\ reseal'.after = 0 /\ reseal'.last = FALSE
    BY <1>5 DEF NoReseal
  <2>3. ReadableThroughRotation'
    BY <1>4, <1>5 DEF TInv, ReadableThroughRotation
  <2>4. BatchInOrder'
    BY <2>2 DEF BatchInOrder
  <2>5. \A a \in Row : ~Behind(a)'
    BY <1>3, <2>2 DEF Behind
  <2>6. Sweeping'
    BY <1>4, <1>5, <2>2, <2>5 DEF TInv, Sweeping, Current
  <2> QED
    BY <2>1, <2>3, <2>4, <2>6 DEF TInv
<1>6. CASE /\ stored' = Resealed(read)
           /\ reseal' = IF end THEN NoReseal ELSE [reseal EXCEPT !.batch = rest, !.after = read.row]
           /\ resealed' = (resealed \/ end)
  <2>1. /\ stored' \in [Row -> StoredSet]
        /\ \A a \in Row : Kept(a) \/ Sealed(a)
        /\ Current(read.row)'
    BY <1>1, <1>2, <1>6, ResealedRow
  <2>2. ReadableThroughRotation'
    BY <1>4, <2>1 DEF TInv, ReadableThroughRotation, Kept, Sealed
  <2>3. \A a \in Row : Current(a) => Current(a)'
    BY <1>4, <2>1 DEF Kept, Sealed, Current
  <2>4. \A r \in rest : r.row \in Row /\ r.row > read.row /\ (Current(r.row)' \/ Unmoved(r)')
    <3> TAKE r \in rest
    <3>1. r \in reseal.batch /\ r # read /\ r.row \in Row /\ read.row <= r.row
      BY <1>2, <1>3 DEF RowRead
    <3>2. r.row # read.row
      BY <1>2, <3>1 DEF TInv, BatchInOrder
    <3>3. Current(r.row) \/ Unmoved(r)
      BY <3>1 DEF TInv, Sweeping
    <3>4. Current(r.row)' \/ Unmoved(r)'
      BY <2>1, <2>3, <3>1, <3>3, <1>4 DEF Kept, Sealed, Current, Unmoved
    <3>5. r.row \in Nat /\ read.row \in Nat
      BY <1>3, <3>1
    <3>6. r.row > read.row
      BY <3>1, <3>2, <3>5
    <3> QED
      BY <3>1, <3>4, <3>6
\* What is behind the reseal once the row is done: that row, and what was before.
  <2>5. ASSUME NEW a \in Row, \A r \in rest : r.row # a,
               a <= read.row \/ reseal.last \/ \E r \in rest : a < r.row
        PROVE  Current(a)'
    <3>1. CASE a = read.row
      BY <2>1, <3>1
    <3>2. CASE a # read.row
      <4>1. ~InHand(a)
        BY <2>5, <3>2 DEF InHand
      <4>2. reseal.last \/ \E r \in reseal.batch : a < r.row
        <5>1. a \in Nat /\ read.row \in Nat
          BY <1>3
        <5>2. a <= read.row => a < read.row
          BY <3>2, <5>1
        <5> QED
          BY <1>2, <2>5, <5>2
      <4> QED
        BY <2>3, <4>1, <4>2 DEF TInv, Sweeping, Behind
    <3> QED
      BY <3>1, <3>2
  <2>6. CASE end
    <3>1. reseal' = NoReseal /\ resealed' = TRUE
      BY <1>6, <2>6
    <3>2. TType'
      BY <1>1, <2>1, <3>1, NoResealTyped DEF TInv, TType
    <3>3. reseal'.batch = {}
      BY <3>1 DEF NoReseal
    <3>4. \A a \in Row : Current(a)'
      BY <2>5, <2>6
    <3> QED
      BY <2>2, <3>2, <3>3, <3>4 DEF TInv, BatchInOrder, Sweeping
  <2>7. CASE ~end
    <3>1. reseal' = [reseal EXCEPT !.batch = rest, !.after = read.row]
      BY <1>6, <2>7, Zenon
    <3>2. /\ reseal' \in [after : Nat, batch : SUBSET RowRead, last : BOOLEAN]
          /\ reseal'.batch = rest /\ reseal'.after = read.row /\ reseal'.last = reseal.last
      BY <1>3, <3>1 DEF TInv, TType
    <3>3. resealed' = resealed
      BY <1>6, <2>7 DEF TInv, TType
    <3>4. TType'
      BY <1>1, <2>1, <3>2, <3>3 DEF TInv, TType
    <3>5. BatchInOrder'
      BY <2>4, <3>2 DEF TInv, BatchInOrder
    <3>6. \A a \in Row : Behind(a)' => Current(a)'
      BY <2>5, <3>2 DEF Behind, InHand
    <3>7. Sweeping'
      BY <2>3, <2>4, <3>2, <3>3, <3>6 DEF TInv, Sweeping
    <3> QED
      BY <2>2, <3>4, <3>5, <3>7 DEF TInv
  <2> QED
    BY <2>6, <2>7
<1> QED
  BY <1>1, <1>5, <1>6

LEMMA DeployKeeps == ASSUME KeysOverlap, TInv, Deploy PROVE TInv'
<1>1. /\ stage < Len(Rings) /\ stage' = stage + 1 /\ reseal' = NoReseal /\ resealed' = FALSE
      /\ call' = [p \in Caller |-> NoCall] /\ UNCHANGED <<stored, made, granted, time, work>>
      /\ ToSet(Rings[stage]) \subseteq ToSet(Rings[stage + 1]) \/ resealed
  BY DEF Deploy
<1>2. Rings \in Seq(Seq(STRING)) /\ Len(Rings) \in Nat /\ stage \in 1..Len(Rings)
  BY TokensAssumption DEF TInv, TType
<1>3. stage' \in 1..Len(Rings) /\ stage \in 1..(Len(Rings) - 1)
  BY <1>1, <1>2
<1>4. TType'
  BY <1>1, <1>3, NoCallTyped, NoResealTyped DEF TInv, TType
<1>5. \A k : Opens(k) <=> k = "clear" \/ k \in ToSet(Ring)
  BY DEF Opens, ToSet
<1>6. \A k : Opens(k)' <=> k = "clear" \/ k \in ToSet(Rings[stage + 1])
  BY <1>1 DEF Opens, ToSet, Ring
<1>7. ReadableThroughRotation'
  <2> SUFFICES ASSUME NEW a \in Row, stored[a].set # 0 PROVE Opens(stored[a].key)'
    BY <1>1 DEF ReadableThroughRotation
  <2>1. CASE ToSet(Rings[stage]) \subseteq ToSet(Rings[stage + 1])
    <3>1. Opens(stored[a].key)
      BY DEF TInv, ReadableThroughRotation
    <3>2. stored[a].key = "clear" \/ stored[a].key \in ToSet(Rings[stage])
      BY <1>5, <3>1 DEF Ring
    <3> QED
      BY <1>1, <1>6, <2>1, <3>2
  <2>2. CASE resealed
    <3>1. stored[a].key = SealKey
      BY <2>2 DEF TInv, Sweeping, Current
    <3>2. SealKey = "clear" \/ (Rings[stage] # <<>> /\ SealKey = Rings[stage][1])
      BY DEF SealKey, Ring
    <3>3. SealKey = "clear" \/ SealKey \in ToSet(Rings[stage + 1])
      BY <1>3, <3>2 DEF KeysOverlap
    <3> QED
      BY <1>1, <1>6, <3>1, <3>3
  <2> QED
    BY <1>1, <2>1, <2>2
<1>8. reseal'.batch = {} /\ reseal'.after = 0 /\ reseal'.last = FALSE
  BY <1>1 DEF NoReseal
<1>9. BatchInOrder' /\ Sweeping'
  <2>1. Row \subseteq Nat /\ \A a \in Row : ~(a <= 0)
    BY TokensAssumption DEF Row
  <2> QED
    BY <1>1, <1>8, <2>1 DEF BatchInOrder, Sweeping, Behind
<1> QED
  BY <1>4, <1>7, <1>9 DEF TInv

LEMMA TokensInv == KeysOverlap => (TokensSpec => []TInv)
<1> SUFFICES ASSUME KeysOverlap PROVE TokensSpec => []TInv
  OBVIOUS
<1>1. TInv /\ [TokensNext]_tvars => TInv'
  <2> SUFFICES ASSUME TInv, [TokensNext]_tvars PROVE TInv'
    OBVIOUS
  <2>1. CASE UNCHANGED tvars
    BY <2>1, QuietKeeps DEF tvars, Alone, TInv, TType
  <2>2. CASE TokensNext
    BY <2>2, TokenStepKeeps, ResealReadKeeps, ResealRowKeeps, DeployKeeps, ClockKeeps DEF TokensNext
  <2> QED
    BY <2>1, <2>2
<1> QED
  BY <1>1, TokensStart, PTL DEF TokensSpec

\* A rotation of PORTE_TOKEN_KEY in the order sealer.go gives leaves no token
\* unreadable, for any number of rows, batches, keys and deployments, whatever
\* is saved meanwhile and wherever a reseal fails (reseal.go ResealIdentities,
\* sealer.go TokenSealer.open).
THEOREM RotationIsSafe == KeysOverlap => (TokensSpec => []ReadableThroughRotation)
<1>1. TInv => ReadableThroughRotation
  BY DEF TInv
<1> QED
  BY <1>1, TokensInv, PTL

\* The columns of a row, whatever they hold: enough to say what a reseal keeps.
Shaped ==
    /\ DOMAIN stored = Row
    /\ stored = [a \in Row |-> [set |-> stored[a].set, key |-> stored[a].key, roles |-> stored[a].roles,
                                rolesAt |-> stored[a].rolesAt, syncedAt |-> stored[a].syncedAt]]

LEMMA RowsStayShaped ==
    ASSUME Shaped, NEW a, NEW v, stored' = [stored EXCEPT ![a] = v],
           v = [set |-> v.set, key |-> v.key, roles |-> v.roles, rolesAt |-> v.rolesAt,
                syncedAt |-> v.syncedAt]
    PROVE  Shaped'
<1>1. DOMAIN stored' = Row /\ stored' = [b \in Row |-> stored'[b]]
  BY DEF Shaped
<1>2. \A b \in Row : stored'[b] = IF b = a THEN v ELSE stored[b]
  BY DEF Shaped
<1>3. \A b \in Row : stored[b] = [set |-> stored[b].set, key |-> stored[b].key, roles |-> stored[b].roles,
                                  rolesAt |-> stored[b].rolesAt, syncedAt |-> stored[b].syncedAt]
  BY DEF Shaped
<1>4. \A b \in Row : stored'[b] = [set |-> stored'[b].set, key |-> stored'[b].key, roles |-> stored'[b].roles,
                                   rolesAt |-> stored'[b].rolesAt, syncedAt |-> stored'[b].syncedAt]
  BY <1>2, <1>3
<1> QED
  BY <1>1, <1>4 DEF Shaped

LEMMA ResealedKeepsSets ==
    ASSUME Shaped, NEW read, stored' = Resealed(read)
    PROVE  Shaped' /\ \A a \in Row : stored'[a].set = stored[a].set
<1>1. CASE stored' = stored
  BY <1>1 DEF Shaped
<1>2. CASE Unmoved(read) /\ stored' = [stored EXCEPT ![read.row].set = read.set, ![read.row].key = SealKey]
           /\ read.row \in Row
  <2>1. PICK v : v = [stored[read.row] EXCEPT !.set = read.set, !.key = SealKey]
    OBVIOUS
  <2>2. /\ v = [set |-> v.set, key |-> v.key, roles |-> v.roles, rolesAt |-> v.rolesAt, syncedAt |-> v.syncedAt]
        /\ v.set = stored[read.row].set
    <3>1. PICK w : w = stored[read.row]
      OBVIOUS
    <3>2. w = [set |-> w.set, key |-> w.key, roles |-> w.roles, rolesAt |-> w.rolesAt, syncedAt |-> w.syncedAt]
      BY <1>2, <3>1 DEF Shaped
    <3>3. v = [w EXCEPT !.set = read.set, !.key = SealKey] /\ w.set = read.set
      BY <1>2, <2>1, <3>1 DEF Unmoved
    <3>4. v = [set |-> read.set, key |-> SealKey, roles |-> w.roles, rolesAt |-> w.rolesAt,
               syncedAt |-> w.syncedAt]
      BY <3>2, <3>3
    <3> QED
      BY <3>1, <3>3, <3>4
  <2>3. stored' = [stored EXCEPT ![read.row] = v]
    BY <1>2, <2>1
  <2>4. \A a \in Row : stored'[a] = IF a = read.row THEN v ELSE stored[a]
    BY <2>3 DEF Shaped
  <2> QED
    BY <2>2, <2>3, <2>4, RowsStayShaped
<1>3. read.row \notin Row => [stored EXCEPT ![read.row].set = read.set, ![read.row].key = SealKey] = stored
  BY DEF Shaped
<1> QED
  BY <1>1, <1>2, <1>3 DEF Resealed

LEMMA ResealRowKeepsSets ==
    ASSUME Shaped, ResealRow
    PROVE  Shaped' /\ \A a \in Row : stored'[a].set = stored[a].set
<1>1. PICK read : stored' = Resealed(read) \/ stored' = stored
  BY DEF ResealRow
<1> QED
  BY <1>1, ResealedKeepsSets DEF Shaped

LEMMA RowsShaped == TokensSpec => []Shaped
<1>1. TokensInit => Shaped
  BY DEF TokensInit, Shaped
<1>2. Shaped /\ [TokensNext]_tvars => Shaped'
  <2> SUFFICES ASSUME Shaped, [TokensNext]_tvars PROVE Shaped'
    OBVIOUS
  <2>1. CASE stored' = stored
    BY <2>1 DEF Shaped
  <2>2. ASSUME NEW p \in Caller, Save(p) PROVE Shaped'
    <3>1. PICK v : v = [set |-> call[p].held.set, key |-> SealKey, roles |-> call[p].held.roles,
                        rolesAt |-> call[p].held.rolesAt, syncedAt |-> call[p].held.syncedAt]
      OBVIOUS
    <3>2. v = [set |-> v.set, key |-> v.key, roles |-> v.roles, rolesAt |-> v.rolesAt, syncedAt |-> v.syncedAt]
      BY <3>1
    <3>3. stored' = stored \/ stored' = [stored EXCEPT ![call[p].row] = v]
      BY <2>2, <3>1 DEF Save
    <3> QED
      BY <2>1, <3>2, <3>3, RowsStayShaped
  <2>3. ASSUME NEW p \in Caller, Mark(p) PROVE Shaped'
    <3>1. CASE stored' = [stored EXCEPT ![call[p].row] = Marked(p)] /\ call[p].row \in Row
      <4>1. PICK v : v = Marked(p)
        OBVIOUS
      <4>2. v = [set |-> v.set, key |-> v.key, roles |-> v.roles, rolesAt |-> v.rolesAt, syncedAt |-> v.syncedAt]
        BY <3>1, <4>1 DEF Marked, Shaped
      <4> QED
        BY <3>1, <4>1, <4>2, RowsStayShaped
    <3>2. call[p].row \notin Row => [stored EXCEPT ![call[p].row] = Marked(p)] = stored
      BY DEF Shaped
    <3> QED
      BY <2>1, <2>3, <3>1, <3>2 DEF Mark
  <2>4. CASE ResealRow
    BY <2>4, ResealRowKeepsSets
  <2>5. ASSUME NEW p \in Caller, TokenStep(p), ~Save(p), ~Mark(p) PROVE stored' = stored
    BY <2>5 DEF TokenStep, Load, Reuse, Trade, Claims, UserInfo, Upsert, Clear, Exchange, Serve
  <2>6. CASE ResealRead \/ Deploy \/ RevokeRole \/ TokensTick \/ UNCHANGED tvars
    BY <2>1, <2>6 DEF ResealRead, Deploy, RevokeRole, TokensTick, tvars
  <2> QED
    BY <2>1, <2>2, <2>3, <2>4, <2>5, <2>6 DEF TokensNext
<1> QED
  BY <1>1, <1>2, PTL DEF TokensSpec

\* A reseal never changes which token a row holds, so a save between its read
\* and its UPDATE wins, whatever the rings (reseal.go resealRow).
THEOREM SavesWin == TokensSpec => ConcurrentSaveWins
<1>1. Shaped /\ [TokensNext]_tvars
      => [reseal' # reseal => \A a \in Row : stored'[a].set = stored[a].set]_tvars
  <2> SUFFICES ASSUME Shaped, TokensNext, reseal' # reseal, NEW a \in Row
               PROVE  stored'[a].set = stored[a].set
    OBVIOUS
  <2>1. CASE \E p \in Caller : TokenStep(p)
    BY <2>1 DEF TokenStep, RestStays, Load, Reuse, Trade, Claims, UserInfo, Upsert, Clear, Exchange,
       Save, Mark, Serve
  <2>2. CASE ResealRead \/ Deploy \/ RevokeRole \/ TokensTick
    BY <2>2 DEF ResealRead, Deploy, RevokeRole, TokensTick
  <2>3. CASE ResealRow
    BY <2>3, ResealRowKeepsSets
  <2> QED
    BY <2>1, <2>2, <2>3 DEF TokensNext
<1> QED
  BY <1>1, RowsShaped, PTL DEF TokensSpec, ConcurrentSaveWins

-----------------------------------------------------------------------------
(* A rotated refresh token is not lost.  Trading a set in ends it, so what *)
(* must not happen is that an ended set is saved, or that the only valid   *)
(* one is never saved.  Whoever is on its way to a save holds a set nobody *)
(* else can trade in: its own, or, for a profile sync, one that only it    *)
(* reads.  A stored set that has been traded in is awaited by a call that  *)
(* will replace it.                                                        *)

\* Nobody else refreshes or syncs the accounts a profile sync works on: it
\* would write back a row read before the other's save (run lost_rotation).
SyncAlone ==
    \A w \in Work : \A p, q \in Caller :
        w.kind[p] = "sync" /\ w.kind[q] \in {"attach", "sync"} => p = q

Carrying == {"userinfo", "asked", "token", "upsert", "clear", "claims", "save"}
Carries(p) == call[p].pc \in Carrying
Holds(p) == Carries(p) \/ In(p, "refresh")
Held(p) == call[p].held.set

Takes(p) ==
    /\ Held(p) <= Len(made)
    /\ In(p, "refresh") \/ In(p, "claims") => work.kind[p] = "attach"
    /\ Carries(p) /\ ~In(p, "claims") /\ ~In(p, "save") => work.kind[p] = "sync"
    /\ Carries(p) => Held(p) \in valid \cup {0}
    /\ Carries(p) /\ work.kind[p] # "sync" => Held(p) # 0 /\ \A a \in Row : stored[a].set # Held(p)
    /\ \A a \in Row : Holds(p) /\ Held(p) # 0 /\ stored[a].set = Held(p) => call[p].row = a

Apart ==
    /\ \A p, q \in Caller : Carries(p) /\ Holds(q) /\ Held(p) # 0 /\ Held(p) = Held(q) => p = q
    /\ \A a, b \in Row : stored[a].set # 0 /\ stored[a].set = stored[b].set => a = b

Awaited(a) ==
    stored[a].set \in valid \cup {0} \/
    \E p \in Caller : Carries(p) /\ work.kind[p] \in {"attach", "sync"} /\ call[p].row = a

RInv ==
    /\ valid \subseteq 1..Len(made)
    /\ \A p \in Caller : Takes(p)
    /\ Apart
    /\ \A a \in Row : stored[a].set <= Len(made) /\ Awaited(a)

LEMMA RotationStart == TokensInit => RInv
<1> SUFFICES ASSUME TokensInit PROVE RInv
  OBVIOUS
<1>1. Accounts \in Nat \ {0} /\ Row = 1..Accounts
  BY TokensAssumption DEF Row
<1>2. Len(made) = Accounts
  <2>1. made = [a \in 1..Accounts |-> 1 + work.lifetime]
    BY <1>1 DEF TokensInit
  <2>2. made \in Seq(Nat)
    BY TokensStart DEF TInv, TType
  <2>3. Len(made) \in Nat /\ DOMAIN made = 1..Len(made)
    BY <2>2, LenProperties
  <2> QED
    BY <1>1, <2>1, <2>3
<1>3. \A p \in Caller : ~Holds(p) /\ ~Carries(p) /\ Held(p) = 0 /\ ~In(p, "refresh") /\ ~In(p, "claims")
  BY DEF TokensInit, NoCall, NoRead, Holds, Carries, Carrying, In, Held
<1>4. \A a \in Row : stored[a].set = a /\ valid = Row
  BY DEF TokensInit
<1> QED
  BY <1>1, <1>2, <1>3, <1>4 DEF RInv, Takes, Apart, Awaited

\* The facts the steps below share.
LEMMA RotationFacts ==
    ASSUME TInv, RInv
    PROVE  /\ Len(made) \in Nat /\ Row \subseteq Nat
           /\ \A a \in Row : stored[a].set \in Nat
           /\ \A p \in Caller : Held(p) \in Nat /\ call[p].row \in Row
<1>1. Len(made) \in Nat
  BY LenProperties DEF TInv, TType
<1>2. Row \subseteq Nat
  BY TokensAssumption DEF Row
<1>3. \A a \in Row : stored[a] \in StoredSet
  BY DEF TInv, TType
<1>4. \A p \in Caller : call[p] \in Request
  BY DEF TInv, TType
<1> QED
  BY <1>1, <1>2, <1>3, <1>4 DEF StoredSet, Request, TokenSet, Held

\* A call goes on with the set it holds, drops it, or holds none: nobody
\* else's set is touched.
LEMMA GoesOn ==
    ASSUME TInv, RInv, NEW p \in Caller, UNCHANGED <<made, valid, work>>,
           \A a \in Row : stored'[a].set = stored[a].set,
           \A q \in Caller : q # p => call'[q] = call[q],
           \/ ~Holds(p)' /\ ~Carries(p) /\ Held(p)' <= Len(made)
           \/ /\ Carries(p) /\ Carries(p)' /\ Held(p)' \in {Held(p), 0} /\ call'[p].row = call[p].row
              /\ Held(p)' = Held(p) \/ work.kind[p] = "sync"
              /\ In(p, "claims")' => work.kind[p] = "attach"
              /\ ~In(p, "claims")' /\ ~In(p, "save")' => work.kind[p] = "sync"
    PROVE  RInv'
<1>1. \A q \in Caller : q # p =>
         /\ (Carries(q)' <=> Carries(q)) /\ (Holds(q)' <=> Holds(q)) /\ Held(q)' = Held(q)
         /\ (In(q, "refresh")' <=> In(q, "refresh")) /\ (In(q, "claims")' <=> In(q, "claims"))
         /\ (In(q, "save")' <=> In(q, "save")) /\ call'[q].row = call[q].row
  BY DEF Carries, Holds, Held, In
<1>2. 0 <= Len(made) /\ Len(made) \in Nat
  BY RotationFacts
<1>3. Carries(p)' => Holds(p)' /\ ~In(p, "refresh")'
  BY DEF Carries, Carrying, Holds, In
<1>4. ~Holds(p)' => ~Carries(p)' /\ ~In(p, "refresh")' /\ ~In(p, "claims")'
  BY DEF Holds, Carries, Carrying, In
<1>5. Takes(p)'
  BY <1>2, <1>3, <1>4 DEF RInv, Takes, Holds
<1>6. \A q \in Caller : q # p => Takes(q)'
  BY <1>1 DEF RInv, Takes
<1>7. Apart'
  BY <1>1, <1>3, <1>4 DEF RInv, Apart, Holds
<1>8. \A a \in Row : Awaited(a)'
  BY <1>1 DEF RInv, Awaited
<1> QED
  BY <1>5, <1>6, <1>7, <1>8 DEF RInv

\* Which calls move without touching the provider or a stored set.
LEMMA CallFacts ==
    ASSUME TInv, NEW p \in Caller
    PROVE  /\ call[p] \in Request /\ DOMAIN call = Caller
           /\ work.kind[p] \in {"attach", "sync", "login", "none"}
  BY TokensAssumption DEF TInv, TType

\* The row a call reads at first: what it holds from then on is stored, and
\* a profile sync is the only one to hold it.
LEMMA LoadRotates ==
    ASSUME SyncAlone, TInv, RInv, NEW p \in Caller, Load(p)
    PROVE  RInv'
<1> DEFINE Loads(a, c) ==
      /\ call' = [call EXCEPT ![p] = c] /\ c.row = a
      /\ c.held.set = Read(a).set
      /\ \/ work.kind[p] = "attach" /\ c.pc \in {"serve", "mark"}
         \/ work.kind[p] = "attach" /\ c.pc = "refresh" /\ Read(a).set # 0
         \/ work.kind[p] = "sync" /\ c.pc = "userinfo" /\ Read(a).set # 0
<1>0. PICK a \in Row : \E c : Loads(a, c)
  <2>1. PICK a \in work.rows :
           \/ work.kind[p] = "attach" /\ call' = [call EXCEPT ![p] =
                [NoCall EXCEPT !.pc = IF ~RolesStale(Read(a)) THEN "serve"
                                      ELSE IF Read(a).set = 0 THEN "mark" ELSE "refresh",
                               !.row = a, !.read = Read(a).set, !.held = Read(a), !.roles = Read(a).roles,
                               !.began = time]]
           \/ work.kind[p] = "sync" /\ Due(Read(a)) /\ call' = [call EXCEPT ![p] =
                [NoCall EXCEPT !.pc = "userinfo", !.row = a, !.read = Read(a).set, !.held = Read(a)]]
    BY DEF Load
  <2>2. a \in Row
    BY WorkFacts DEF TInv, TType
  <2>3. CASE work.kind[p] = "attach" /\ call' = [call EXCEPT ![p] =
                [NoCall EXCEPT !.pc = IF ~RolesStale(Read(a)) THEN "serve"
                                      ELSE IF Read(a).set = 0 THEN "mark" ELSE "refresh",
                               !.row = a, !.read = Read(a).set, !.held = Read(a), !.roles = Read(a).roles,
                               !.began = time]]
    <3>1. PICK c : c = [NoCall EXCEPT !.pc = IF ~RolesStale(Read(a)) THEN "serve"
                                      ELSE IF Read(a).set = 0 THEN "mark" ELSE "refresh",
                               !.row = a, !.read = Read(a).set, !.held = Read(a), !.roles = Read(a).roles,
                               !.began = time]
      OBVIOUS
    <3>2. /\ c.row = a /\ c.held.set = Read(a).set
          /\ c.pc = IF ~RolesStale(Read(a)) THEN "serve" ELSE IF Read(a).set = 0 THEN "mark" ELSE "refresh"
      BY <3>1 DEF NoCall
    <3>3. call' = [call EXCEPT ![p] = c]
      BY <2>3, <3>1
    <3>4. Loads(a, c)
      BY <2>3, <3>2, <3>3
    <3> QED
      BY <2>2, <3>4
  <2>4. CASE work.kind[p] = "sync" /\ Due(Read(a)) /\ call' = [call EXCEPT ![p] =
                [NoCall EXCEPT !.pc = "userinfo", !.row = a, !.read = Read(a).set, !.held = Read(a)]]
    <3>1. PICK c : c = [NoCall EXCEPT !.pc = "userinfo", !.row = a, !.read = Read(a).set, !.held = Read(a)]
      OBVIOUS
    <3>2. c.row = a /\ c.held.set = Read(a).set /\ c.pc = "userinfo"
      BY <3>1 DEF NoCall
    <3>3. call' = [call EXCEPT ![p] = c] /\ Read(a).set # 0
      BY <2>4, <3>1 DEF Due
    <3>4. Loads(a, c)
      BY <2>4, <3>2, <3>3
    <3> QED
      BY <2>2, <3>4
  <2> QED
    BY <2>1, <2>3, <2>4
<1>1. PICK c : Loads(a, c)
  BY <1>0
<1>2. UNCHANGED <<stored, made, valid, work>> /\ In(p, "start")
  BY DEF Load, ProviderStays, RestStays
<1>3. call'[p] = c /\ \A q \in Caller : q # p => call'[q] = call[q]
  BY <1>1, CallFacts
<1>4. Read(a).set \in {0, stored[a].set}
  BY DEF Read
<1>5. /\ Held(p)' = Read(a).set /\ Held(p)' <= Len(made) /\ call'[p].row = a
      /\ ~Carries(p) /\ ~Holds(p)
  BY <1>1, <1>2, <1>3, <1>4, RotationFacts DEF RInv, Held, Carries, Carrying, Holds, In
<1>6. CASE c.pc \in {"serve", "mark"}
  <2>1. ~Holds(p)'
    BY <1>3, <1>6 DEF Holds, Carries, Carrying, In
  <2> QED
    BY <1>2, <1>3, <1>5, <2>1, GoesOn
<1>7. CASE c.pc \in {"refresh", "userinfo"}
  <2>1. Held(p)' # 0 /\ Held(p)' = stored[a].set
    BY <1>1, <1>4, <1>5, <1>7
  <2>2. /\ Holds(p)' /\ ~In(p, "claims")' /\ ~In(p, "save")'
        /\ (Carries(p)' => c.pc = "userinfo") /\ (In(p, "refresh")' => c.pc = "refresh")
    BY <1>3, <1>7 DEF Holds, Carries, Carrying, In
  <2>3. \A q \in Caller : q # p =>
           /\ (Carries(q)' <=> Carries(q)) /\ (Holds(q)' <=> Holds(q)) /\ Held(q)' = Held(q)
           /\ (In(q, "refresh")' <=> In(q, "refresh")) /\ (In(q, "claims")' <=> In(q, "claims"))
           /\ (In(q, "save")' <=> In(q, "save")) /\ call'[q].row = call[q].row
    BY <1>3 DEF Carries, Holds, Held, In
  <2>4. \A q \in Caller : q # p => Takes(q)'
    BY <1>2, <2>3 DEF RInv, Takes
  <2>5. work.kind[p] = "sync" => \A q \in Caller : q # p => work.kind[q] \notin {"attach", "sync"}
    BY DEF SyncAlone, TInv, TType
  <2>6. \A q \in Caller : q # p /\ Carries(q) => work.kind[q] # "sync"
    BY <1>1, <2>5 DEF SyncAlone, TInv, TType
  <2>7. \A q \in Caller : q # p /\ Carries(q) => Held(q) # Held(p)'
    BY <2>1, <2>6 DEF RInv, Takes
  <2>8. Carries(p)' => \A q \in Caller : q # p /\ Holds(q) => Held(q) # Held(p)'
    <3> SUFFICES ASSUME Carries(p)', NEW q \in Caller, q # p, Holds(q) PROVE Held(q) # Held(p)'
      OBVIOUS
    <3>1. work.kind[p] = "sync"
      BY <1>1, <2>2
    <3>2. ~In(q, "refresh")
      BY <2>5, <3>1 DEF RInv, Takes
    <3> QED
      BY <2>7, <3>2 DEF Holds
  <2>9. Apart'
    <3>1. ASSUME NEW q \in Caller, NEW r \in Caller, Carries(q)', Holds(r)', Held(q)' # 0,
                 Held(q)' = Held(r)'
          PROVE  q = r
      <4>1. CASE q # p /\ r # p
        BY <2>3, <3>1, <4>1 DEF RInv, Apart
      <4>2. CASE q = p /\ r # p
        BY <2>3, <2>8, <3>1, <4>2
      <4>3. CASE q # p /\ r = p
        BY <2>3, <2>7, <3>1, <4>3
      <4> QED
        BY <4>1, <4>2, <4>3
    <3> QED
      BY <1>2, <3>1 DEF RInv, Apart
  <2>10. Carries(p)' => Held(p)' \in valid \cup {0}
    <3> SUFFICES ASSUME Carries(p)', stored[a].set \notin valid \cup {0} PROVE FALSE
      BY <2>1
    <3>1. PICK q \in Caller : Carries(q) /\ work.kind[q] \in {"attach", "sync"}
      BY DEF RInv, Awaited
    <3> QED
      BY <1>1, <1>5, <2>2, <2>5, <3>1
  <2>11. Takes(p)'
    <3>1. \A b \in Row : stored[b].set = Held(p)' => b = a
      BY <2>1 DEF RInv, Apart
    <3> QED
      BY <1>1, <1>2, <1>5, <2>2, <2>10, <3>1 DEF Takes
  <2>12. \A b \in Row : Awaited(b)'
    BY <1>2, <1>5, <2>3 DEF RInv, Awaited
  <2> QED
    BY <1>2, <2>4, <2>9, <2>11, <2>12 DEF RInv
<1> QED
  BY <1>1, <1>6, <1>7

\* The steps that only lead a call on or end it.
LEMMA MovesRotate ==
    ASSUME TInv, RInv, ~work.faults, NEW p \in Caller,
           Reuse(p) \/ Claims(p) \/ UserInfo(p) \/ Upsert(p) \/ Clear(p) \/ Serve(p)
    PROVE  RInv'
<1>1. UNCHANGED <<stored, made, valid, work>>
  BY DEF Reuse, Claims, UserInfo, Upsert, Clear, Serve, ProviderStays, RestStays
<1>2. call[p] \in Request /\ DOMAIN call = Caller /\ Held(p) \in Nat /\ Held(p) <= Len(made)
  BY CallFacts, RotationFacts DEF RInv, Takes
<1>3. ASSUME NEW label, To(p, label)
      PROVE  /\ call'[p].pc = label /\ call'[p].row = call[p].row /\ Held(p)' = Held(p)
             /\ \A q \in Caller : q # p => call'[q] = call[q]
  BY <1>2, <1>3 DEF To, Request, Held
<1>4. CASE Reuse(p)
  <2>1. To(p, Reused(call[p].pc)) /\ call[p].pc \in {"refresh", "userinfo", "token"}
    BY <1>4 DEF Reuse
  <2>2. /\ call[p].pc = "refresh" => Reused(call[p].pc) = "mark"
        /\ call[p].pc = "userinfo" => Reused(call[p].pc) = "asked"
        /\ call[p].pc = "token" => Reused(call[p].pc) = "upsert"
    BY DEF Reused
  <2>3. PICK label : label = Reused(call[p].pc)
    OBVIOUS
  <2>4. /\ call'[p].pc = label /\ call'[p].row = call[p].row /\ Held(p)' = Held(p)
        /\ \A q \in Caller : q # p => call'[q] = call[q]
    BY <1>3, <2>1, <2>3
  <2>5. CASE call[p].pc = "refresh"
    <3>1. ~Holds(p)' /\ ~Carries(p) /\ Held(p)' <= Len(made)
      BY <1>2, <2>2, <2>3, <2>4, <2>5 DEF Holds, Carries, Carrying, In
    <3> QED
      BY <1>1, <2>4, <3>1, GoesOn
  <2>6. CASE call[p].pc \in {"userinfo", "token"}
    <3>1. Carries(p) /\ Carries(p)' /\ work.kind[p] = "sync" /\ ~In(p, "claims")' /\ ~In(p, "save")'
      BY <2>2, <2>3, <2>4, <2>6 DEF Carries, Carrying, In, RInv, Takes
    <3> QED
      BY <1>1, <2>4, <3>1, GoesOn
  <2> QED
    BY <2>1, <2>5, <2>6
<1>5. CASE Claims(p)
  <2>1. call[p].pc = "claims" /\ call' = [call EXCEPT ![p].pc = "save", ![p].held.roles = granted,
                                                      ![p].held.rolesAt = time]
    BY <1>5 DEF Claims, In
  <2>2. /\ call'[p].pc = "save" /\ call'[p].row = call[p].row /\ Held(p)' = Held(p)
        /\ \A q \in Caller : q # p => call'[q] = call[q]
    BY <1>2, <2>1 DEF Request, TokenSet, Held
  <2>3. Carries(p) /\ Carries(p)' /\ ~In(p, "claims")' /\ In(p, "save")'
    BY <2>1, <2>2 DEF Carries, Carrying, In
  <2> QED
    BY <1>1, <2>2, <2>3, GoesOn
<1>6. CASE UserInfo(p)
  <2>1. call[p].pc = "asked" /\ To(p, "token")
    BY <1>6 DEF UserInfo, In
  <2>2. /\ call'[p].pc = "token" /\ call'[p].row = call[p].row /\ Held(p)' = Held(p)
        /\ \A q \in Caller : q # p => call'[q] = call[q]
    BY <1>3, <2>1
  <2>3. Carries(p) /\ Carries(p)' /\ work.kind[p] = "sync" /\ ~In(p, "claims")' /\ ~In(p, "save")'
    BY <2>1, <2>2 DEF Carries, Carrying, In, RInv, Takes
  <2> QED
    BY <1>1, <2>2, <2>3, GoesOn
<1>7. CASE Upsert(p)
  <2>1. call[p].pc = "upsert" /\ call' = [call EXCEPT ![p].pc = "save", ![p].held.syncedAt = time]
    BY <1>7 DEF Upsert, In
  <2>2. /\ call'[p].pc = "save" /\ call'[p].row = call[p].row /\ Held(p)' = Held(p)
        /\ \A q \in Caller : q # p => call'[q] = call[q]
    BY <1>2, <2>1 DEF Request, TokenSet, Held
  <2>3. Carries(p) /\ Carries(p)' /\ ~In(p, "claims")' /\ In(p, "save")'
    BY <2>1, <2>2 DEF Carries, Carrying, In
  <2> QED
    BY <1>1, <2>2, <2>3, GoesOn
<1>8. CASE Clear(p)
  <2>1. /\ call[p].pc = "clear"
        /\ call' = [call EXCEPT ![p].pc = "save", ![p].held.set = 0, ![p].held.syncedAt = time]
    BY <1>8 DEF Clear, In
  <2>2. /\ call'[p].pc = "save" /\ call'[p].row = call[p].row /\ Held(p)' = 0
        /\ \A q \in Caller : q # p => call'[q] = call[q]
    BY <1>2, <2>1 DEF Request, TokenSet, Held
  <2>3. Carries(p) /\ Carries(p)' /\ work.kind[p] = "sync" /\ ~In(p, "claims")' /\ In(p, "save")'
    BY <2>1, <2>2 DEF Carries, Carrying, In, RInv, Takes
  <2> QED
    BY <1>1, <2>2, <2>3, GoesOn
<1>9. CASE Serve(p)
  <2>1. call[p].pc = "serve" /\ call' = [call EXCEPT ![p] = NoCall]
    BY <1>9 DEF Serve, In, Done
  <2>2. call'[p] = NoCall /\ \A q \in Caller : q # p => call'[q] = call[q]
    BY <1>2, <2>1
  <2>3. ~Holds(p)' /\ ~Carries(p) /\ Held(p)' <= Len(made)
    BY <1>2, <2>1, <2>2, RotationFacts DEF Holds, Carries, Carrying, In, Held, NoCall, NoRead
  <2> QED
    BY <1>1, <2>2, <2>3, GoesOn
<1> QED
  BY <1>4, <1>5, <1>6, <1>7, <1>8, <1>9

LEMMA MarkRotates == ASSUME TInv, RInv, NEW p \in Caller, Mark(p) PROVE RInv'
<1>1. /\ stored' = [stored EXCEPT ![call[p].row] = Marked(p)] \/ stored' = stored
      /\ call[p].pc = "mark" /\ To(p, "serve") /\ UNCHANGED <<made, valid, work>>
  BY DEF Mark, ProviderStays, RestStays, In
<1>2. call[p] \in Request /\ DOMAIN call = Caller /\ stored \in [Row -> StoredSet]
  BY CallFacts DEF TInv, TType
<1>3. \A a \in Row : stored'[a].set = stored[a].set
  BY <1>1, <1>2 DEF Marked, StoredSet
<1>4. /\ call'[p].pc = "serve" /\ Held(p)' = Held(p) /\ \A q \in Caller : q # p => call'[q] = call[q]
  BY <1>1, <1>2 DEF To, Request, Held
<1>5. ~Holds(p)' /\ ~Carries(p) /\ Held(p)' <= Len(made)
  BY <1>1, <1>4 DEF Holds, Carries, Carrying, In, RInv, Takes
<1> QED
  BY <1>1, <1>3, <1>4, <1>5, GoesOn

\* A new set, the newest there is: nobody holds it and no row does.
LEMMA Obtains ==
    ASSUME TInv, RInv, NEW p \in Caller, NEW old, NEW a \in Row, UNCHANGED <<stored, work>>,
           Make(old), old \subseteq {Held(p)} \ {0}, old # {} => Holds(p) /\ call[p].row = a /\ work.kind[p] # "login",
           \A q \in Caller : q # p => call'[q] = call[q],
           Held(p)' = Len(made) + 1, call'[p].row = a, Carries(p)',
           Carries(p) => call[p].row = a,
           In(p, "claims")' => work.kind[p] = "attach",
           ~In(p, "claims")' /\ ~In(p, "save")' => work.kind[p] = "sync",
           old # {} => work.kind[p] \in {"attach", "sync"}
    PROVE  RInv'
<1> DEFINE n == Len(made) + 1
<1>1. /\ Len(made) \in Nat /\ n \in Nat /\ n # 0 /\ Len(made) < n
      /\ \A b \in Row : stored[b].set \in Nat /\ stored[b].set <= Len(made) /\ stored[b].set # n
      /\ \A q \in Caller : Held(q) \in Nat /\ Held(q) <= Len(made) /\ Held(q) # n
  BY RotationFacts DEF RInv, Takes
<1>2. made' = Append(made, time + work.lifetime) /\ valid' = (valid \ old) \cup {n}
  BY DEF Make
<1>3. Len(made') = n
  BY <1>2 DEF TInv, TType
<1>4. \A q \in Caller : q # p =>
         /\ (Carries(q)' <=> Carries(q)) /\ (Holds(q)' <=> Holds(q)) /\ Held(q)' = Held(q)
         /\ (In(q, "refresh")' <=> In(q, "refresh")) /\ (In(q, "claims")' <=> In(q, "claims"))
         /\ (In(q, "save")' <=> In(q, "save")) /\ call'[q].row = call[q].row
  BY DEF Carries, Holds, Held, In
<1>5. Carries(p)' => Holds(p)' /\ ~In(p, "refresh")'
  BY DEF Holds, Carries, Carrying, In
<1>6. valid' \subseteq 1..Len(made')
  <2>1. PICK m \in Nat : m = Len(made) /\ valid \subseteq 1..m
    BY <1>1 DEF RInv
  <2>2. Len(made') = m + 1 /\ \A x \in valid' : x \in valid \/ x = m + 1
    BY <1>2, <1>3, <2>1
  <2>3. ASSUME NEW x \in valid' PROVE x \in 1..(m + 1)
    <3>1. x \in 1..m \/ x = m + 1
      BY <2>1, <2>2
    <3> QED
      BY <2>1, <3>1
  <2> QED
    BY <2>2, <2>3
<1>7. Takes(p)'
  BY <1>1, <1>2, <1>3, <1>5 DEF Takes
<1>8. ASSUME NEW q \in Caller, q # p PROVE Takes(q)'
  <2>1. Carries(q) => Held(q) \notin old
    BY <1>8 DEF RInv, Apart
  <2> QED
    BY <1>1, <1>2, <1>3, <1>4, <1>8, <2>1 DEF RInv, Takes
<1>9. Apart'
  BY <1>1, <1>4 DEF RInv, Apart
<1>10. ASSUME NEW b \in Row PROVE Awaited(b)'
  <2>1. CASE stored[b].set \in old
    <3>1. call[p].row = b
      BY <2>1 DEF RInv, Takes
    <3> QED
      BY <2>1, <3>1 DEF Awaited
  <2>2. CASE stored[b].set \notin old /\ stored[b].set \in valid \cup {0}
    BY <1>2, <2>2 DEF Awaited
  <2>3. CASE \E q \in Caller : Carries(q) /\ work.kind[q] \in {"attach", "sync"} /\ call[q].row = b
    BY <1>4, <2>3 DEF Awaited
  <2> QED
    BY <2>1, <2>2, <2>3 DEF RInv, Awaited
<1>11. \A b \in Row : stored'[b].set <= Len(made')
  BY <1>1, <1>3
<1> QED
  BY <1>6, <1>7, <1>8, <1>9, <1>10, <1>11 DEF RInv

\* A refresh token is traded in, or refused.
LEMMA TradeRotates ==
    ASSUME TInv, RInv, ~work.faults, NEW p \in Caller, Trade(p)
    PROVE  RInv'
<1>1. /\ call[p].pc \in {"refresh", "userinfo", "token"} /\ UNCHANGED <<stored, work>>
      /\ \/ /\ Held(p) \in valid /\ Make({Held(p)})
            /\ call' = [call EXCEPT ![p].held.set = Len(made) + 1, ![p].pc = Given(call[p].pc)]
         \/ Held(p) \notin valid /\ UNCHANGED <<made, valid>> /\ To(p, Denied(call[p].pc))
  BY DEF Trade, ProviderStays, RestStays, Held
<1>2. call[p] \in Request /\ DOMAIN call = Caller /\ Held(p) \in Nat /\ Held(p) <= Len(made) /\ call[p].row \in Row
  BY CallFacts, RotationFacts DEF RInv, Takes
<1>3. Holds(p) /\ (call[p].pc # "refresh" => Carries(p))
  BY <1>1 DEF Holds, Carries, Carrying, In
<1>4. /\ call[p].pc = "refresh" => work.kind[p] = "attach"
      /\ call[p].pc # "refresh" => work.kind[p] = "sync"
  BY <1>1, <1>3 DEF RInv, Takes, In
<1>5. /\ call[p].pc = "refresh" => Given(call[p].pc) = "claims" /\ Denied(call[p].pc) = "mark"
      /\ call[p].pc = "userinfo" => Given(call[p].pc) = "asked" /\ Denied(call[p].pc) = "clear"
      /\ call[p].pc = "token" => Given(call[p].pc) = "upsert" /\ Denied(call[p].pc) = "upsert"
  BY DEF Given, Denied
<1>6. CASE Held(p) \in valid /\ Make({Held(p)})
           /\ call' = [call EXCEPT ![p].held.set = Len(made) + 1, ![p].pc = Given(call[p].pc)]
  <2>1. PICK label : label = Given(call[p].pc)
    OBVIOUS
  <2>2. /\ call'[p].pc = label /\ Held(p)' = Len(made) + 1 /\ call'[p].row = call[p].row
        /\ \A q \in Caller : q # p => call'[q] = call[q]
    BY <1>2, <1>6, <2>1 DEF Request, TokenSet, Held
  <2>3. /\ Carries(p)' /\ (In(p, "claims")' => label = "claims") /\ ~In(p, "save")'
        /\ (~In(p, "claims")' => label # "claims")
    BY <1>1, <1>5, <2>1, <2>2 DEF Carries, Carrying, In
  <2>4. Held(p) # 0
    <3>1. valid \subseteq 1..Len(made) /\ Len(made) \in Nat
      BY RotationFacts DEF RInv
    <3> QED
      BY <1>6, <3>1
  <2>5. PICK old, a : old = {Held(p)} /\ a = call[p].row
    OBVIOUS
  <2>6. /\ Make(old) /\ old \subseteq {Held(p)} \ {0} /\ Holds(p) /\ call[p].row = a /\ a \in Row
        /\ work.kind[p] # "login" /\ work.kind[p] \in {"attach", "sync"} /\ call'[p].row = a
        /\ (In(p, "claims")' => work.kind[p] = "attach")
        /\ (~In(p, "claims")' /\ ~In(p, "save")' => work.kind[p] = "sync")
    BY <1>1, <1>2, <1>3, <1>4, <1>5, <1>6, <2>1, <2>2, <2>3, <2>4, <2>5
  <2> QED
    BY <1>1, <2>2, <2>3, <2>6, Obtains
<1>7. CASE Held(p) \notin valid /\ UNCHANGED <<made, valid>> /\ To(p, Denied(call[p].pc))
  <2>1. PICK label : label = Denied(call[p].pc)
    OBVIOUS
  <2>2. /\ call'[p].pc = label /\ Held(p)' = Held(p) /\ call'[p].row = call[p].row
        /\ \A q \in Caller : q # p => call'[q] = call[q]
    BY <1>2, <1>7, <2>1 DEF To, Request, Held
  <2>3. CASE call[p].pc = "refresh"
    <3>1. ~Holds(p)' /\ ~Carries(p) /\ Held(p)' <= Len(made)
      BY <1>2, <1>5, <2>1, <2>2, <2>3 DEF Holds, Carries, Carrying, In
    <3> QED
      BY <1>1, <1>7, <2>2, <3>1, GoesOn
  <2>4. CASE call[p].pc # "refresh"
    <3>1. Carries(p) /\ Carries(p)' /\ ~In(p, "claims")' /\ ~In(p, "save")' /\ work.kind[p] = "sync"
      BY <1>1, <1>3, <1>4, <1>5, <2>1, <2>2, <2>4 DEF Carries, Carrying, In
    <3> QED
      BY <1>1, <1>7, <2>2, <3>1, GoesOn
  <2> QED
    BY <2>3, <2>4
<1> QED
  BY <1>1, <1>6, <1>7

LEMMA ExchangeRotates == ASSUME TInv, RInv, NEW p \in Caller, Exchange(p) PROVE RInv'
<1>1. /\ In(p, "start") /\ work.kind[p] = "login" /\ Make({}) /\ UNCHANGED <<stored, work>>
  BY DEF Exchange, RestStays
<1>2. PICK a \in work.rows : call' = [call EXCEPT ![p] =
         [NoCall EXCEPT !.pc = "save", !.row = a,
            !.held = [set |-> Len(made) + 1, roles |-> granted, rolesAt |-> time, syncedAt |-> time]]]
  BY DEF Exchange
<1>3. a \in Row
  BY WorkFacts DEF TInv, TType
<1>4. PICK c : c = [NoCall EXCEPT !.pc = "save", !.row = a,
            !.held = [set |-> Len(made) + 1, roles |-> granted, rolesAt |-> time, syncedAt |-> time]]
  OBVIOUS
<1>5. c.pc = "save" /\ c.row = a /\ c.held.set = Len(made) + 1
  BY <1>4 DEF NoCall
<1>6. call'[p] = c /\ \A q \in Caller : q # p => call'[q] = call[q]
  BY <1>2, <1>4, CallFacts
<1>7. Carries(p)' /\ ~Carries(p) /\ In(p, "save")' /\ ~In(p, "claims")' /\ Held(p)' = Len(made) + 1
      /\ call'[p].row = a
  BY <1>1, <1>5, <1>6 DEF Carries, Carrying, In, Held
<1>8. PICK old : old = {}
  OBVIOUS
<1> QED
  BY <1>1, <1>3, <1>6, <1>7, <1>8, Obtains

\* The one save of what a call holds: nobody else holds it, and the provider
\* still takes it.
LEMMA SaveRotates == ASSUME TInv, RInv, ~work.faults, NEW p \in Caller, Save(p) PROVE RInv'
<1>1. /\ call[p].pc = "save" /\ UNCHANGED <<made, valid, work>>
      /\ stored' = [stored EXCEPT ![call[p].row] =
            [set |-> call[p].held.set, key |-> SealKey, roles |-> call[p].held.roles,
             rolesAt |-> call[p].held.rolesAt, syncedAt |-> call[p].held.syncedAt]]
      /\ \/ call' = [call EXCEPT ![p].pc = "serve", ![p].roles = call[p].held.roles]
         \/ call' = [call EXCEPT ![p] = NoCall]
  BY DEF Save, In, ProviderStays, RestStays, Done
<1>2. /\ call[p] \in Request /\ DOMAIN call = Caller /\ stored \in [Row -> StoredSet] /\ call[p].row \in Row
      /\ Held(p) \in Nat /\ Held(p) <= Len(made) /\ Len(made) \in Nat
  BY CallFacts, RotationFacts DEF TInv, TType, RInv, Takes
<1>3. PICK a, h : a \in Row /\ a = call[p].row /\ h = Held(p)
  BY <1>2
<1>4. \A b \in Row : stored'[b].set = IF b = a THEN h ELSE stored[b].set
  BY <1>1, <1>2, <1>3 DEF Held
<1>5. Carries(p) /\ Holds(p)
  BY <1>1 DEF Holds, Carries, Carrying
<1>6. /\ \A q \in Caller : q # p => call'[q] = call[q]
      /\ call'[p].pc \in {"serve", "start"} /\ Held(p)' \in {h, 0}
  BY <1>1, <1>2, <1>3 DEF Request, Held, NoCall, NoRead
<1>7. \A q \in Caller : q # p =>
         /\ (Carries(q)' <=> Carries(q)) /\ (Holds(q)' <=> Holds(q)) /\ Held(q)' = Held(q)
         /\ (In(q, "refresh")' <=> In(q, "refresh")) /\ (In(q, "claims")' <=> In(q, "claims"))
         /\ (In(q, "save")' <=> In(q, "save")) /\ call'[q].row = call[q].row
  BY <1>6 DEF Carries, Holds, Held, In
<1>8. ~Carries(p)' /\ ~Holds(p)' /\ ~In(p, "refresh")' /\ ~In(p, "claims")' /\ ~In(p, "save")'
  BY <1>6 DEF Holds, Carries, Carrying, In
<1>9. h \in valid \cup {0} /\ \A b \in Row : h # 0 /\ stored[b].set = h => b = a
  BY <1>3, <1>5 DEF RInv, Takes
<1>10. \A q \in Caller : q # p /\ Holds(q) /\ h # 0 => Held(q) # h
  BY <1>3, <1>5 DEF RInv, Apart
<1>11. Takes(p)'
  BY <1>1, <1>2, <1>3, <1>6, <1>8 DEF Takes
<1>12. ASSUME NEW q \in Caller, q # p PROVE Takes(q)'
  <2>1. Carries(q) => Holds(q)
    BY DEF Holds
  <2> QED
    BY <1>1, <1>4, <1>7, <1>10, <1>12, <2>1 DEF RInv, Takes
<1>13. Apart'
  <2>1. \A q, r \in Caller : Carries(q)' /\ Holds(r)' /\ Held(q)' # 0 /\ Held(q)' = Held(r)' => q = r
    BY <1>7, <1>8 DEF RInv, Apart
  <2>2. \A b, c \in Row : stored'[b].set # 0 /\ stored'[b].set = stored'[c].set => b = c
    BY <1>4, <1>9 DEF RInv, Apart
  <2> QED
    BY <2>1, <2>2 DEF Apart
<1>14. ASSUME NEW b \in Row PROVE stored'[b].set <= Len(made') /\ Awaited(b)'
  <2>1. CASE b = a
    BY <1>1, <1>2, <1>3, <1>4, <1>9, <2>1 DEF Awaited
  <2>2. CASE b # a
    <3>1. \A q \in Caller : call[q].row = b => q # p
      BY <1>3, <2>2
    <3> QED
      BY <1>1, <1>4, <1>7, <2>2, <3>1 DEF RInv, Awaited
  <2> QED
    BY <2>1, <2>2
<1> QED
  BY <1>1, <1>11, <1>12, <1>13, <1>14 DEF RInv

\* Reseals, the clock and the provider's roles: no set moves.
LEMMA OthersRotate ==
    ASSUME TInv, Shaped, RInv, ~work.faults,
           ResealRead \/ ResealRow \/ Deploy \/ RevokeRole \/ TokensTick \/ UNCHANGED tvars
    PROVE  RInv'
<1>1. UNCHANGED <<made, valid, call, work>>
  BY DEF ResealRead, ResealRow, Deploy, RevokeRole, TokensTick, tvars
<1>2. \A a \in Row : stored'[a].set = stored[a].set
  BY ResealRowKeepsSets DEF ResealRead, Deploy, RevokeRole, TokensTick, tvars
<1>3. \A p \in Caller : /\ (Carries(p)' <=> Carries(p)) /\ (Holds(p)' <=> Holds(p)) /\ Held(p)' = Held(p)
                        /\ \A label : In(p, label)' <=> In(p, label)
  BY <1>1 DEF Carries, Holds, Held, In
<1>4. \A p \in Caller : Takes(p)'
  BY <1>1, <1>2, <1>3 DEF RInv, Takes
<1>5. Apart'
  BY <1>2, <1>3 DEF RInv, Apart
<1>6. \A a \in Row : Awaited(a)'
  BY <1>1, <1>2, <1>3 DEF RInv, Awaited
<1> QED
  BY <1>1, <1>2, <1>4, <1>5, <1>6 DEF RInv

\* With no call failing, a refresh token the provider rotated is not lost,
\* for any refreshes and logins of an account together and any reseal, and
\* for a profile sync beside logins only (middleware.go refreshRoles, pg.go
\* MarkRolesSynced, IdentityStore.Save).
THEOREM RotationIsKept == SyncAlone => (TokensSpec => []RotationSurvives)
<1> SUFFICES ASSUME SyncAlone PROVE TokensSpec => []RotationSurvives
  OBVIOUS
<1> DEFINE Calm == ~work.faults => TInv /\ RInv
<1>1. TokensInit => Calm
  BY TokensStart, RotationStart
<1>2. Shaped /\ Calm /\ [TokensNext]_tvars => Calm'
  <2> SUFFICES ASSUME Shaped, Calm, [TokensNext]_tvars, ~work'.faults PROVE TInv' /\ RInv'
    OBVIOUS
  <2>1. work' = work
    BY DEF TokensNext, TokenStep, RestStays, Load, Reuse, Trade, Claims, UserInfo, Upsert, Clear, Exchange,
       Save, Mark, Serve, ResealRead, ResealRow, Deploy, RevokeRole, TokensTick, tvars
  <2>2. TInv /\ RInv /\ ~work.faults
    BY <2>1
  <2>3. ~Deploy
    BY <2>2 DEF Deploy
  <2>4. TInv'
    <3>1. CASE UNCHANGED tvars
      BY <2>2, <3>1, QuietKeeps DEF tvars, Alone, TInv, TType
    <3>2. CASE TokensNext
      BY <2>2, <2>3, <3>2, TokenStepKeeps, ResealReadKeeps, ResealRowKeeps, ClockKeeps DEF TokensNext
    <3> QED
      BY <3>1, <3>2
  <2>5. RInv'
    <3>1. ASSUME NEW p \in Caller, TokenStep(p) PROVE RInv'
      BY <2>2, <3>1, LoadRotates, MovesRotate, TradeRotates, ExchangeRotates, SaveRotates, MarkRotates
      DEF TokenStep
    <3> QED
      BY <2>2, <3>1, OthersRotate DEF TokensNext
  <2> QED
    BY <2>4, <2>5
<1>3. Calm => RotationSurvives
  <2> SUFFICES ASSUME TInv, RInv, NEW a \in Row, \A p \in Caller : In(p, "start") \/ call[p].row # a
               PROVE  stored[a].set \in valid \cup {0}
    BY DEF RotationSurvives
  <2>1. \A p \in Caller : In(p, "start") => ~Carries(p)
    BY DEF In, Carries, Carrying
  <2> QED
    BY <2>1 DEF RInv, Awaited
<1> QED
  BY <1>1, <1>2, <1>3, RowsShaped, PTL DEF TokensSpec
=============================================================================
