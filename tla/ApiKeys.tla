------------------------------ MODULE ApiKeys ------------------------------
(***************************************************************************)
(* porte/keys and pg.KeyStore: a request's API key is looked up, its quota *)
(* compared with today's usage and the use recorded, in three statements,  *)
(* while other requests use the key, an operator revokes it and the        *)
(* database's day ends.  A key is known by its token; origins that do not  *)
(* match end the request before the quota is read.                         *)
(***************************************************************************)
EXTENDS Naturals, FiniteSets

CONSTANTS ApiKey,
          DailyQuota,   \* of each key, 0 for none
          Holder,       \* requests in flight
          LastDay, MaxServed   \* bounds

ASSUME ApiKeysAssumption ==
    /\ DailyQuota \in [ApiKey -> Nat] /\ IsFiniteSet(Holder)
    /\ LastDay \in Nat /\ MaxServed \in Nat

VARIABLES
    keys,     \* porte_api_keys: whether each was revoked
    usage,    \* porte_api_key_usage
    ask,      \* what each request holds
    today,    \* CURRENT_DATE
    served,   \* history: requests let through, by the day of their recording
    lost      \* history: those whose recording failed

kvars == <<keys, usage, ask, today, served, lost>>

Day == 0..LastDay
NoAsk == [pc |-> "start", key |-> "none"]
AskAt(h, label) == ask[h].pc = label

ApiKeysInit ==
    /\ keys = [k \in ApiKey |-> "none"]
    /\ usage = [k \in ApiKey |-> [d \in Day |-> 0]]
    /\ ask = [h \in Holder |-> NoAsk]
    /\ today = 0
    /\ served = [k \in ApiKey |-> [d \in Day |-> 0]]
    /\ lost = [k \in ApiKey |-> [d \in Day |-> 0]]

CreateKey(k) ==
    /\ keys[k] = "none"
    /\ keys' = [keys EXCEPT ![k] = "active"]
    /\ UNCHANGED <<usage, ask, today, served, lost>>

\* The row stays, stamped; a second time finds nothing to stamp.
RevokeKey(k) ==
    /\ keys[k] = "active"
    /\ keys' = [keys EXCEPT ![k] = "revoked"]
    /\ UNCHANGED <<usage, ask, today, served, lost>>

\* FindByHash and validateOrigin: anything but an active key ends the request.
Authenticate(h) ==
    /\ AskAt(h, "start")
    /\ \E k \in ApiKey :
        /\ keys[k] = "active"
        /\ ask' = [ask EXCEPT ![h] = [pc |-> IF DailyQuota[k] = 0 THEN "record" ELSE "quota", key |-> k]]
    /\ UNCHANGED <<keys, usage, today, served, lost>>

\* Mutant: a request past the quota is refused, the one that reaches it is not.
Exhausted_Past(k) == usage[k][today] > DailyQuota[k]

Exhausted(k) == usage[k][today] >= DailyQuota[k]

\* UsageToday, which may fail, compared with the quota.
CheckQuota(h) ==
    /\ AskAt(h, "quota")
    /\ \/ ~Exhausted(ask[h].key) /\ ask' = [ask EXCEPT ![h].pc = "record"]
       \/ ask' = [ask EXCEPT ![h] = NoAsk]
    /\ UNCHANGED <<keys, usage, today, served, lost>>

\* RecordUsage adds to the row of the day it runs on.  Its failure is ignored.
RecordUsage(h) ==
    LET k == ask[h].key IN
    /\ AskAt(h, "record") /\ served[k][today] < MaxServed
    /\ \/ usage' = [usage EXCEPT ![k][today] = @ + 1] /\ UNCHANGED lost
       \/ lost' = [lost EXCEPT ![k][today] = @ + 1] /\ UNCHANGED usage
    /\ served' = [served EXCEPT ![k][today] = @ + 1]
    /\ ask' = [ask EXCEPT ![h] = NoAsk]
    /\ UNCHANGED <<keys, today>>

Midnight ==
    /\ today < LastDay /\ today' = today + 1
    /\ UNCHANGED <<keys, usage, ask, served, lost>>

ApiKeysNext ==
    \/ \E k \in ApiKey : CreateKey(k) \/ RevokeKey(k)
    \/ \E h \in Holder : Authenticate(h) \/ CheckQuota(h) \/ RecordUsage(h)
    \/ Midnight

ApiKeysSpec == ApiKeysInit /\ [][ApiKeysNext]_kvars

-----------------------------------------------------------------------------
\* Check and record are two statements, so requests in flight together pass
\* the quota of a day by one less than their number at most, across midnight
\* too, and by what could not be recorded (manager.go Authenticate,
\* checkQuota, pg/keys.go RecordUsage).
QuotaOvershoot ==
    \A k \in ApiKey, d \in Day :
        DailyQuota[k] > 0 => served[k][d] < DailyQuota[k] + Cardinality(Holder) + lost[k][d]
=============================================================================
