-------------------------- MODULE DeletionsProofs --------------------------
(***************************************************************************)
(* The deletion receiver skips nobody and calls nobody again, for any      *)
(* people, page size and number of faults, as long as a poll is short:     *)
(* CommitDelay + MaxPoll < Overlap.  The invariant says, while a poll      *)
(* runs, what became of everybody behind the point it has reached.         *)
(***************************************************************************)
EXTENDS Deletions, TLAPS

PollIsShort == CommitDelay + MaxPoll < Overlap

\* The record outlives Registre's listing of the person.
Forgettable(p) == at[p] < now - Retention - Overlap

Clocks ==
    /\ disk.cursor <= now /\ mem.cursor <= now /\ failed <= now
    /\ \A t \in handled : t <= now
    /\ \A p \in Person : disk.done[p] # 0 => 0 < at[p] /\ at[p] <= disk.done[p]
    /\ \A p \in Person \ listed : at[p] # 0 => at[p] >= now - CommitDelay
    /\ page \subseteq listed
    /\ pc \in Polling => begun <= now /\ now <= begun + MaxPoll

Recorded ==
    \A p \in Person :
        /\ fate[p] # "again"
        /\ fate[p] = "saved" =>
             at[p] # 0 /\ (Forgettable(p) \/ (disk.done[p] # 0 /\ mem.done[p] # 0))

\* The next poll from this state lists p, or p needs no listing.
Reachable(state, p) == state.done[p] = 0 => at[p] > state.cursor - Overlap \/ Expired(p)

NoneSkipped == \A p \in listed : Reachable(disk, p) /\ Reachable(mem, p)

\* The poll has gone past p.
Passed(p) ==
    \/ at[p] <= since
    \/ \E t \in handled : at[p] < t
    \/ \E q \in page : at[p] < at[q]

\* What may have become of somebody the poll has gone past.
Accounted(p) ==
    \/ mem.done[p] # 0
    \/ p \in todo
    \/ failed # 0 /\ failed <= at[p]
    \/ at[p] >= begun - CommitDelay
    \/ Expired(p)

Drained ==
    /\ pc \notin Polling => page = {}
    /\ pc # "handle" => todo = {}
    /\ \A p \in page : at[p] > begun - Retention
    /\ pc \in Polling \ {"save_cursor"} => \A p \in listed : Passed(p) => Accounted(p)

Base == TypeOK /\ Clocks
IInv == Base /\ Recorded /\ NoneSkipped /\ Drained

-----------------------------------------------------------------------------

\* Every time the receiver keeps is a number of instants (deletions.go Deleted,
\* deletions_state.go deletionState).
LEMMA Numbers ==
    Base => /\ Time \subseteq Nat /\ now \in Nat /\ begun \in Nat /\ failed \in Nat
            /\ handled \subseteq Nat /\ listed \subseteq Person /\ page \subseteq Person
            /\ todo \subseteq page
            /\ \A p \in Person : at[p] \in Nat /\ mem.done[p] \in Nat /\ disk.done[p] \in Nat
            /\ mem.cursor \in Nat /\ disk.cursor \in Nat
<1> SUFFICES ASSUME Base
             PROVE  /\ Time \subseteq Nat /\ now \in Nat /\ begun \in Nat /\ failed \in Nat
                    /\ handled \subseteq Nat /\ listed \subseteq Person /\ page \subseteq Person
                    /\ todo \subseteq page
                    /\ \A p \in Person : at[p] \in Nat /\ mem.done[p] \in Nat /\ disk.done[p] \in Nat
                    /\ mem.cursor \in Nat /\ disk.cursor \in Nat
  OBVIOUS
<1>1. Time \subseteq Nat
  BY ConstantsAssumption DEF Time
<1>2. /\ now \in Time /\ begun \in Time /\ failed \in Time /\ handled \subseteq Time
      /\ listed \subseteq Person /\ page \subseteq Person /\ todo \subseteq page
      /\ at \in [Person -> Time] /\ mem \in State /\ disk \in State
  BY DEF Base, TypeOK
<1>3. /\ mem.done \in [Person -> Time] /\ mem.cursor \in Time
      /\ disk.done \in [Person -> Time] /\ disk.cursor \in Time
  BY <1>2 DEF State
<1> QED
  BY <1>1, <1>2, <1>3

\* A poll, a push and a crash keep the shape of the receiver's state and the
\* order of its times (deletions_state.go record, load and save).
LEMMA BaseInductive == Base /\ [Next]_vars => Base'
<1> USE ConstantsAssumption DEF ConstantsAssumption
<1> SUFFICES ASSUME Base, [Next]_vars PROVE Base'
  OBVIOUS
<1> USE DEF Base, TypeOK, Clocks, State, Time, Polling
<1>nat. /\ Time \subseteq Nat /\ now \in Nat /\ begun \in Nat /\ listed \subseteq Person
        /\ page \subseteq Person /\ \A p \in Person : at[p] \in Nat
  BY Numbers
<1>1. ASSUME NEW p \in Person, Stamp(p) PROVE Base'
  BY <1>1 DEF Stamp, locals
<1>2. ASSUME NEW p \in Person, List(p) PROVE Base'
  BY <1>2 DEF List, locals
<1>3. CASE Tick
  <2>1. now' \in Time /\ now' \in Nat /\ now < now'
    BY <1>nat, <1>3 DEF Tick
  <2>2. TypeOK'
    BY <1>nat, <1>3, <2>1 DEF Tick, locals
  <2>3. \A p \in Person \ listed : at[p] # 0 => at[p] >= now' - CommitDelay
    BY <1>nat, <1>3, <2>1 DEF Tick
  <2>4. UNCHANGED <<at, listed, disk, mem, pc, page, failed, handled, begun>>
    BY <1>3 DEF Tick, locals
  <2>5. /\ disk.cursor \in Nat /\ mem.cursor \in Nat /\ failed \in Nat
        /\ \A t \in handled : t \in Nat
    BY <1>nat
  <2>6. disk.cursor <= now' /\ mem.cursor <= now' /\ failed <= now' /\ \A t \in handled : t <= now'
    BY <1>nat, <2>1, <2>5
  <2>7. pc \in Polling => begun <= now' /\ now' <= begun + MaxPoll
    BY <1>nat, <1>3, <2>1 DEF Tick
  <2> QED
    BY <2>2, <2>3, <2>4, <2>6, <2>7
<1>4. CASE Crash
  BY <1>4 DEF Crash, Return, Fault, registre
<1>5. CASE BeginPoll
  BY <1>5 DEF BeginPoll, Since, registre
<1>6. CASE ListPage
  BY <1>6 DEF ListPage, Pages, Listable, Fault, registre
<1>call. ASSUME NEW p \in listed, Erased(p) \/ AlreadyDone(p) \/ NotErased(p),
             UNCHANGED <<now, at, disk>>
      PROVE  /\ mem' \in State /\ mem'.cursor = mem.cursor
             /\ faults' \in 0..MaxFaults
             /\ fate' \in [Person -> {"new", "saved", "again"}]
             /\ \A q \in Person : mem'.done[q] # 0 => 0 < at'[q] /\ at'[q] <= mem'.done[q]
  <2>1. CASE Erased(p)
    <3>0. p \in Person /\ 0 < at[p]
      BY <1>nat
    <3>1. mem' = Record(mem, p, now) /\ now \in Time
      BY <2>1 DEF Erased
    <3>2. DEFINE next == [q \in Person |-> IF q = p THEN now
                           ELSE IF Prunable(mem.done[q], now) THEN 0 ELSE mem.done[q]]
    <3>3. mem' = [mem EXCEPT !.done = next]
      BY <3>1 DEF Record
    <3>4. next \in [Person -> Time]
      OBVIOUS
    <3>5. mem'.done = next /\ mem'.cursor = mem.cursor /\ mem' \in State
      <4> HIDE DEF next
      <4> QED BY <3>3, <3>4
    <3> QED
      BY <1>call, <2>1, <3>0, <3>1, <3>5 DEF Erased, Call
  <2> QED
    BY <1>call, <2>1 DEF AlreadyDone, NotErased, Call, Fault
<1>8. ASSUME NEW p \in Person, Handle(p) PROVE Base'
  <2>1. p \in listed /\ UNCHANGED <<now, at, listed, disk, pc, since, page, begun>>
    BY <1>8 DEF Handle, registre
  <2> QED
    BY <1>call, <1>8, <2>1 DEF Handle, Earliest
<1>save. ASSUME Persisted \/ NotPersisted
       PROVE  /\ disk' \in {mem, disk} /\ mem' = disk' /\ faults' \in 0..MaxFaults
              /\ fate' \in [Person -> {"new", "saved", "again"}]
  BY <1>save DEF Persisted, NotPersisted, Stored, Fault
<1>9. CASE SavePage
  <2>1. CASE Persisted /\ UNCHANGED <<page, todo, handled, failed, begun>>
                       /\ pc' \in {"list", "cursor"} /\ since' \in Int
    BY <1>9, <1>save, <2>1 DEF SavePage, registre
  <2>2. CASE NotPersisted /\ Return
    BY <1>9, <1>save, <2>2 DEF SavePage, Return, registre
  <2>3. \A last \in page : at[last] - 1 \in Int
    BY <1>nat
  <2> QED
    BY <1>9, <2>1, <2>2, <2>3 DEF SavePage
<1>10. CASE MoveCursor
  <2>1. ASSUME NEW t \in handled, mem' = [mem EXCEPT !.cursor = t]
        PROVE  mem' \in State /\ mem'.cursor = t /\ mem'.done = mem.done
    BY <2>1
  <2>2. CASE Return /\ UNCHANGED mem
    BY <1>10, <2>2 DEF MoveCursor, Return, registre
  <2>3. CASE /\ \E t \in handled : mem' = [mem EXCEPT !.cursor = t]
             /\ pc' = "save_cursor" /\ UNCHANGED locals
    <3>1. PICK t \in handled : mem' = [mem EXCEPT !.cursor = t]
      BY <2>3
    <3>2. mem' \in State /\ mem'.cursor = t /\ mem'.done = mem.done
      <4>1. mem' \in State /\ mem' = [mem EXCEPT !.cursor = t]
        BY <2>1, <3>1
      <4> QED
        BY <4>1
    <3>3. pc = "cursor" /\ UNCHANGED <<now, at, listed, disk, faults, fate>>
      BY <1>10 DEF MoveCursor, registre
    <3>4. t \in Nat /\ t <= now
      BY <1>nat
    <3> QED
      BY <2>3, <3>2, <3>3, <3>4 DEF locals
  <2> QED
    BY <1>10, <2>2, <2>3 DEF MoveCursor, CursorAfter
<1>11. CASE SaveCursor
  BY <1>11, <1>save DEF SaveCursor, Return, registre
<1>12. ASSUME NEW p \in Person, Push(p) PROVE Base'
  <2>1. p \in listed /\ pc = "idle" /\ UNCHANGED <<now, at, listed, disk, locals>>
    BY <1>12 DEF Push, registre
  <2>2. pc' = "push" \/ (pc' = "idle" /\ mem' = mem)
    BY <1>12, <2>1 DEF Push, NotErased
  <2>3. Erased(p) \/ AlreadyDone(p) \/ NotErased(p)
    BY <1>12 DEF Push
  <2> QED
    BY <1>call, <2>1, <2>2, <2>3 DEF locals
<1>13. CASE SavePush
  BY <1>13, <1>save DEF SavePush, registre, locals
<1>14. CASE UNCHANGED vars
  BY <1>14 DEF vars
<1> QED
  BY <1>1, <1>2, <1>3, <1>4, <1>5, <1>6, <1>8, <1>9, <1>10, <1>11, <1>12, <1>13, <1>14
     DEF Next, Environment, Poll, Handler

-----------------------------------------------------------------------------

\* Recording one person keeps the others' records, except those Registre has
\* stopped listing for longer than a poll lasts (deletions_state.go record).
LEMMA RecordKeeps ==
    ASSUME Base, NEW p \in Person, mem' = Record(mem, p, now)
    PROVE  /\ mem'.done[p] = now /\ mem'.cursor = mem.cursor
           /\ \A q \in Person : mem.done[q] # 0 => mem'.done[q] # 0 \/ Forgettable(q)
<1>1. DEFINE next == [q \in Person |-> IF q = p THEN now
                       ELSE IF Prunable(mem.done[q], now) THEN 0 ELSE mem.done[q]]
<1>2. mem \in State /\ mem' = [mem EXCEPT !.done = next]
  BY DEF Base, TypeOK, Record
<1>3. mem'.done = next /\ mem'.cursor = mem.cursor
  <2> HIDE DEF next
  <2> QED BY <1>2 DEF State
<1>4. ASSUME NEW q \in Person, mem.done[q] # 0 PROVE next[q] # 0 \/ Forgettable(q)
  <2>1. now # 0
    BY <1>4, Numbers DEF Base, TypeOK
  <2>2. CASE q = p
    BY <2>1, <2>2
  <2>3. CASE q # p /\ Prunable(mem.done[q], now)
    <3>1. at[q] <= mem.done[q] /\ mem.done[q] < now - Retention - Overlap
      BY <1>4, <2>3, Numbers, ConstantsAssumption DEF Base, TypeOK, Prunable
    <3> QED
      BY <3>1, Numbers, ConstantsAssumption DEF Forgettable
  <2>4. CASE q # p /\ ~Prunable(mem.done[q], now)
    BY <1>4, <2>4
  <2> QED
    BY <2>2, <2>3, <2>4
<1> QED
  BY <1>3, <1>4

\* Somebody the record may forget is no longer listed (deletions_state.go
\* record: DeletionRetention+overlap).
LEMMA ForgottenIsExpired ==
    ASSUME Base, NEW p \in Person, Forgettable(p) PROVE Expired(p)
BY Numbers, ConstantsAssumption DEF Forgettable, Expired

\* Handling somebody Registre still lists, or listed moments ago, calls nobody
\* who was stored and makes nobody unreachable (deletions.go handle).
LEMMA HandlingIsSafe ==
    ASSUME IInv, NEW p \in listed, ~Forgettable(p), Erased(p) \/ AlreadyDone(p) \/ NotErased(p),
           UNCHANGED <<registre, disk>>
    PROVE  /\ Recorded' /\ NoneSkipped'
           /\ \A q \in Person : mem.done[q] # 0 => mem'.done[q] # 0 \/ Expired(q)
           /\ Erased(p) \/ AlreadyDone(p) => mem'.done[p] # 0
<1>1. p \in Person /\ at[p] \in Nat /\ at[p] # 0 /\ now \in Nat /\ now # 0
  BY Numbers DEF IInv, Base, TypeOK
<1>2. UNCHANGED <<now, at, listed, disk>>
  BY DEF registre
<1>3. /\ mem'.cursor = mem.cursor
      /\ \A q \in Person : mem.done[q] # 0 => mem'.done[q] # 0 \/ Forgettable(q)
      /\ Erased(p) \/ AlreadyDone(p) => mem'.done[p] # 0
  BY <1>1, RecordKeeps DEF IInv, Erased, AlreadyDone, NotErased
<1>4. mem.done[p] = 0 => fate[p] = "new"
  BY <1>1 DEF IInv, Base, TypeOK, Recorded
<1>5. fate' = fate
  BY <1>1, <1>4 DEF Erased, AlreadyDone, NotErased, Call, IInv, Base, TypeOK
<1>6. Recorded'
  BY <1>2, <1>3, <1>5 DEF IInv, Recorded, Forgettable
<1>7. ASSUME NEW q \in listed PROVE Reachable(disk, q)' /\ Reachable(mem, q)'
  <2>1. q \in Person /\ Reachable(disk, q) /\ Reachable(mem, q)
    BY Numbers DEF IInv, NoneSkipped
  <2>2. Forgettable(q) => Expired(q)
    BY <2>1, ForgottenIsExpired DEF IInv
  <2> QED
    BY <1>2, <1>3, <2>1, <2>2 DEF Reachable, Expired
<1>8. \A q \in Person : Forgettable(q) => Expired(q)
  BY ForgottenIsExpired DEF IInv
<1> QED
  BY <1>2, <1>3, <1>6, <1>7, <1>8 DEF NoneSkipped

\* Storing the record, or failing to and forgetting it, keeps what was stored
\* and loses nobody (deletions.go persist).
LEMMA SavingIsSafe ==
    ASSUME IInv, Persisted \/ NotPersisted, UNCHANGED registre
    PROVE  Recorded' /\ NoneSkipped'
<1>1. UNCHANGED <<now, at, listed>>
  BY DEF registre
<1>2. CASE disk' = mem /\ mem' = mem /\ Stored
  <2>1. \A q \in Person : mem.done[q] # 0 => at[q] # 0
    BY DEF IInv, Base, TypeOK
  <2>2. Recorded'
    BY <1>1, <1>2, <2>1 DEF IInv, Base, TypeOK, Recorded, Stored, Forgettable
  <2> QED
    BY <1>1, <1>2, <2>2 DEF IInv, NoneSkipped, Reachable, Expired
<1>3. CASE disk' = disk /\ mem' = disk /\ fate' = fate
  BY <1>1, <1>3 DEF IInv, Recorded, NoneSkipped, Reachable, Expired, Forgettable
<1> QED
  BY <1>2, <1>3 DEF Persisted, NotPersisted

-----------------------------------------------------------------------------

\* Registre stamps, lists late and the clock ticks: nobody the receiver has
\* gone past becomes pending, because a late notice is younger than Overlap
\* (deletions_state.go since).
LEMMA EnvironmentStep ==
    ASSUME PollIsShort, IInv, Base', Environment
    PROVE  (Recorded /\ NoneSkipped /\ Drained)'
<1> USE ConstantsAssumption
<1> DEFINE Nats == /\ Time \subseteq Nat /\ now \in Nat /\ begun \in Nat /\ failed \in Nat
                   /\ handled \subseteq Nat /\ listed \subseteq Person /\ page \subseteq listed
                   /\ \A p \in Person : at[p] \in Nat
                   /\ mem.cursor \in Nat /\ disk.cursor \in Nat
<1>1. Nats
  BY Numbers DEF IInv, Base, Clocks
<1>2. ASSUME NEW p \in Person, Stamp(p) PROVE (Recorded /\ NoneSkipped /\ Drained)'
  <2>1. /\ at[p] = 0 /\ \A q \in Person : q # p => at'[q] = at[q]
        /\ UNCHANGED <<now, listed, disk, mem, pc, since, page, todo, handled, failed, begun, fate>>
    BY <1>2 DEF Stamp, locals, IInv, Base, TypeOK
  <2>2. p \notin listed /\ fate[p] # "saved"
    BY <2>1 DEF IInv, Base, TypeOK, Recorded
  <2>3. Recorded'
    BY <2>1, <2>2 DEF IInv, Recorded, Forgettable
  <2>4. \A q \in listed : q \in Person /\ at'[q] = at[q]
    BY <1>1, <2>1, <2>2
  <2>5. NoneSkipped'
    BY <2>1, <2>4 DEF IInv, NoneSkipped, Reachable, Expired
  <2>6. Drained'
    BY <1>1, <2>1, <2>4 DEF IInv, Drained, Passed, Accounted, Expired
  <2> QED
    BY <2>3, <2>5, <2>6
<1>3. ASSUME NEW p \in Person, List(p) PROVE (Recorded /\ NoneSkipped /\ Drained)'
  <2>1. /\ listed' = listed \cup {p}
        /\ UNCHANGED <<now, at, disk, mem, pc, since, page, todo, handled, failed, begun, fate>>
    BY <1>3 DEF List, locals
  <2>2. at[p] >= now - CommitDelay
    BY <1>3 DEF List, IInv, Base, Clocks
  <2>3. /\ at[p] > disk.cursor - Overlap /\ at[p] > mem.cursor - Overlap
    BY <1>1, <2>2 DEF IInv, Base, Clocks, PollIsShort
  <2>4. Recorded'
    BY <2>1 DEF IInv, Recorded, Forgettable
  <2>5. NoneSkipped'
    BY <2>1, <2>3 DEF IInv, NoneSkipped, Reachable, Expired
  <2>6. pc \in Polling => at[p] >= begun - CommitDelay
    BY <1>1, <2>2 DEF IInv, Base, Clocks
  <2>7. Drained'
    BY <1>1, <2>1, <2>6 DEF IInv, Drained, Passed, Accounted, Expired
  <2> QED
    BY <2>4, <2>5, <2>7
<1>4. ASSUME Tick PROVE (Recorded /\ NoneSkipped /\ Drained)'
  <2>1. /\ now' \in Nat /\ now < now'
        /\ UNCHANGED <<at, listed, disk, mem, pc, since, page, todo, handled, failed, begun, fate>>
    BY <1>1, <1>4 DEF Tick, locals, Time
  <2>2. \A q \in Person : (Expired(q) => Expired(q)') /\ (Forgettable(q) => Forgettable(q)')
    BY <1>1, <2>1 DEF Expired, Forgettable
  <2>3. Recorded'
    BY <2>1, <2>2 DEF IInv, Recorded
  <2>4. NoneSkipped'
    BY <1>1, <2>1, <2>2 DEF IInv, NoneSkipped, Reachable
  <2>5. Drained'
    BY <1>1, <2>1, <2>2 DEF IInv, Drained, Passed, Accounted
  <2> QED
    BY <2>3, <2>4, <2>5
<1>5. ASSUME Crash PROVE (Recorded /\ NoneSkipped /\ Drained)'
  BY <1>5 DEF Crash, Return, registre, IInv, Recorded, NoneSkipped, Drained, Reachable, Expired,
              Forgettable, Polling
<1> QED
  BY <1>2, <1>3, <1>4, <1>5 DEF Environment

\* Every step of a poll keeps the invariant: what it goes past is accounted
\* for, so the cursor it stores leaves nobody pending behind it
\* (deletions_poll.go Poll, drain, handleAll, cursorAfter).
LEMMA PollStep ==
    ASSUME PollIsShort, IInv, Base', Poll
    PROVE  (Recorded /\ NoneSkipped /\ Drained)'
<1> USE ConstantsAssumption
<1> DEFINE Nats == /\ now \in Nat /\ begun \in Nat /\ failed \in Nat /\ since \in Int
                   /\ handled \subseteq Nat /\ listed \subseteq Person /\ page \subseteq listed
                   /\ todo \subseteq page
                   /\ \A p \in Person : at[p] \in Nat
                   /\ mem.cursor \in Nat /\ disk.cursor \in Nat
<1>1. Nats
  BY Numbers DEF IInv, Base, Clocks, TypeOK
<1>2. ASSUME BeginPoll PROVE (Recorded /\ NoneSkipped /\ Drained)'
  <2>1. /\ UNCHANGED <<now, at, listed, disk, mem, fate>> /\ pc' = "list" /\ begun' = now
        /\ page' = {} /\ todo' = {} /\ handled' = {} /\ since' = Since(mem)
    BY <1>2 DEF BeginPoll, registre
  <2>2. ASSUME NEW p \in listed, at[p] <= Since(mem) PROVE mem.done[p] # 0 \/ Expired(p)
    BY <1>1, <2>2 DEF Since, IInv, NoneSkipped, Reachable, Expired
  <2>3. Drained'
    BY <2>1, <2>2 DEF Drained, Passed, Accounted, Expired, Polling
  <2> QED
    BY <2>1, <2>3 DEF IInv, Recorded, NoneSkipped, Reachable, Expired, Forgettable
<1>3. ASSUME ListPage PROVE (Recorded /\ NoneSkipped /\ Drained)'
  <2>1. /\ UNCHANGED <<now, at, listed, disk, mem, fate, since, handled, failed, begun>>
        /\ pc = "list"
    BY <1>3 DEF ListPage, registre
  <2>2. Recorded' /\ NoneSkipped'
    BY <2>1 DEF IInv, Recorded, NoneSkipped, Reachable, Expired, Forgettable
  <2>3. CASE pc' = "cursor" /\ page' = page /\ todo' = todo
    <3>1. \A p \in listed : Passed(p) => Accounted(p)
      BY <2>1 DEF IInv, Drained, Polling
    <3>2. \A p \in listed : Passed(p)' => Accounted(p)'
      BY <2>1, <2>3, <3>1 DEF Passed, Accounted, Expired
    <3>3. page \subseteq listed /\ todo = {} /\ \A p \in page : at[p] > begun - Retention
      BY <1>1, <2>1 DEF IInv, Drained
    <3> QED
      BY <2>1, <2>2, <2>3, <3>2, <3>3 DEF Drained, Polling
  <2>4. CASE pc' = "handle" /\ page' \in Pages /\ todo' = page'
    <3>1. /\ page' \subseteq Listable
          /\ \A p \in page', q \in Listable \ page' : at[p] <= at[q]
      BY <2>4 DEF Pages
    <3>2. Listable \subseteq listed /\ \A p \in Listable : at[p] > begun - Retention
      BY <1>1, <2>1 DEF Listable, Expired, IInv, Base, Clocks, Polling
    <3>3. ASSUME NEW p \in listed, Passed(p)' PROVE Accounted(p)'
      <4>1. CASE at[p] <= since \/ \E t \in handled : at[p] < t
        BY <2>1, <4>1 DEF IInv, Drained, Passed, Accounted, Expired, Polling
      <4>2. CASE at[p] > since /\ \E q \in page' : at[p] < at[q]
        <5>1. PICK q \in page' : at[p] < at[q]
          BY <4>2
        <5>2. p \in Listable => p \in page'
          BY <1>1, <3>1, <3>2, <5>1
        <5>3. p \in Listable \/ Expired(p)
          BY <4>2 DEF Listable
        <5> QED
          BY <2>1, <2>4, <5>2, <5>3 DEF Accounted, Expired
      <4> QED
        BY <1>1, <2>1, <3>3, <4>1, <4>2 DEF Passed
    <3>4. Drained'
      BY <2>1, <2>4, <3>1, <3>2, <3>3 DEF Drained, Polling
    <3> QED
      BY <2>2, <3>4
  <2> QED
    BY <1>3, <2>2, <2>3, <2>4 DEF ListPage
<1>4. ASSUME NEW p \in Person, Handle(p) PROVE (Recorded /\ NoneSkipped /\ Drained)'
  <2>1. /\ UNCHANGED <<now, at, listed, disk, pc, since, page, begun, registre>>
        /\ pc = "handle" /\ p \in todo /\ todo' = todo \ {p}
    BY <1>4 DEF Handle, registre
  <2>2. p \in listed /\ ~Forgettable(p)
    BY <1>1, <2>1 DEF IInv, Base, Clocks, Drained, Forgettable, PollIsShort, Polling
  <2>3. Erased(p) \/ AlreadyDone(p) \/ NotErased(p)
    BY <1>4 DEF Handle
  <2>4. /\ Recorded' /\ NoneSkipped'
        /\ \A q \in Person : mem.done[q] # 0 => mem'.done[q] # 0 \/ Expired(q)
        /\ Erased(p) \/ AlreadyDone(p) => mem'.done[p] # 0
    BY <2>1, <2>2, <2>3, HandlingIsSafe
  <2>5. \A q \in listed : Passed(q)' => Passed(q)
    <3>1. handled' \subseteq handled \cup {at[p]} /\ p \in page
      BY <1>1, <1>4, <2>1 DEF Handle
    <3> QED
      BY <2>1, <3>1 DEF Passed
  <2>6. \/ Erased(p) \/ AlreadyDone(p)
        \/ failed' # 0 /\ failed' <= at[p]
    BY <1>1, <1>4, <2>2 DEF Handle, Earliest, IInv, Base, TypeOK
  <2>7. failed # 0 => failed' # 0 /\ failed' <= failed
    BY <1>1, <1>4, <2>2 DEF Handle, Earliest, IInv, Base, TypeOK
  <2>8. ASSUME NEW q \in listed, Accounted(q) PROVE Accounted(q)'
    <3>1. failed' \in Nat /\ at[q] \in Nat
      BY <1>1, Numbers DEF Base, TypeOK, Time, ConstantsAssumption
    <3>2. CASE q = p
      BY <2>1, <2>4, <2>6, <3>2 DEF Accounted
    <3>3. CASE q # p
      BY <1>1, <2>1, <2>4, <2>7, <2>8, <3>1, <3>3 DEF Accounted, Expired
    <3> QED
      BY <3>2, <3>3
  <2>9. Drained'
    BY <2>1, <2>5, <2>8 DEF IInv, Drained, Polling
  <2> QED
    BY <2>4, <2>9
<1>5. ASSUME SavePage PROVE (Recorded /\ NoneSkipped /\ Drained)'
  <2>1. /\ UNCHANGED <<now, at, listed, registre>> /\ (Persisted \/ NotPersisted)
        /\ pc = "handle" /\ todo = {}
    BY <1>5 DEF SavePage, registre
  <2>2. Recorded' /\ NoneSkipped'
    BY <2>1, SavingIsSafe
  <2>3. CASE NotPersisted /\ Return
    BY <2>2, <2>3 DEF Return, Drained, Polling
  <2>4. CASE /\ mem' = mem /\ pc' \in {"list", "cursor"}
             /\ UNCHANGED <<page, todo, handled, failed, begun>>
             /\ since' = since \/ \E last \in page : since' = at[last] - 1
    <3>1. \A q \in listed : Passed(q)' => Passed(q)
      BY <1>1, <2>1, <2>4 DEF Passed
    <3> QED
      BY <2>1, <2>2, <2>4, <3>1 DEF IInv, Drained, Accounted, Expired, Polling
  <2> QED
    BY <1>5, <2>3, <2>4 DEF SavePage, Persisted
<1>6. ASSUME MoveCursor PROVE (Recorded /\ NoneSkipped /\ Drained)'
  <2>1. /\ UNCHANGED <<now, at, listed, disk, fate>> /\ pc = "cursor" /\ todo = {}
    BY <1>6 DEF MoveCursor, registre, IInv, Drained
  <2>2. CASE Return /\ UNCHANGED mem
    BY <2>1, <2>2 DEF Return, IInv, Recorded, NoneSkipped, Reachable, Expired, Forgettable, Drained,
                      Polling
  <2>3. ASSUME NEW t \in CursorAfter, mem' = [mem EXCEPT !.cursor = t], UNCHANGED locals,
               pc' = "save_cursor"
        PROVE  (Recorded /\ NoneSkipped /\ Drained)'
    <3>1. mem'.cursor = t /\ mem'.done = mem.done
      BY <2>3 DEF IInv, Base, TypeOK, State
    <3>2. t \in handled /\ t \in Nat /\ t <= now /\ (failed = 0 \/ t < failed)
      BY <1>1 DEF CursorAfter, IInv, Base, Clocks
    <3>3. ASSUME NEW p \in listed PROVE Reachable(mem, p)'
      <4>1. CASE at[p] < t
        <5>1. Accounted(p)
          BY <2>1, <3>2, <4>1 DEF IInv, Drained, Passed, Polling
        <5>2. at[p] >= begun - CommitDelay => at[p] > t - Overlap
          BY <1>1, <2>1, <3>2 DEF IInv, Base, Clocks, Polling, PollIsShort
        <5> QED
          BY <1>1, <2>1, <3>1, <3>2, <4>1, <5>1, <5>2 DEF Accounted, Reachable, Expired
      <4>2. CASE at[p] >= t
        BY <1>1, <2>1, <3>1, <3>2, <4>2 DEF Reachable, PollIsShort
      <4> QED
        BY <1>1, <3>2, <4>1, <4>2
    <3>4. NoneSkipped'
      BY <2>1, <3>3 DEF IInv, NoneSkipped, Reachable, Expired
    <3>5. Recorded'
      BY <2>1, <3>1 DEF IInv, Recorded, Forgettable
    <3>6. Drained'
      BY <2>1, <2>3 DEF IInv, Drained, locals, Polling
    <3> QED
      BY <3>4, <3>5, <3>6
  <2> QED
    BY <1>6, <2>2, <2>3 DEF MoveCursor
<1>7. ASSUME SaveCursor PROVE (Recorded /\ NoneSkipped /\ Drained)'
  BY <1>7, SavingIsSafe DEF SaveCursor, Return, Drained, Polling
<1> QED
  BY <1>2, <1>3, <1>4, <1>5, <1>6, <1>7 DEF Poll

\* Pushed notices race the polls for d.mu and keep the invariant too
\* (secevent.go receive).
LEMMA HandlerStep ==
    ASSUME IInv, Base', Handler
    PROVE  (Recorded /\ NoneSkipped /\ Drained)'
<1>1. ASSUME NEW p \in Person, Push(p) PROVE (Recorded /\ NoneSkipped /\ Drained)'
  <2>1. /\ UNCHANGED <<registre, disk, locals>> /\ pc = "idle" /\ pc' \in {"idle", "push"}
        /\ p \in listed /\ ~Expired(p) /\ (Erased(p) \/ AlreadyDone(p) \/ NotErased(p))
    BY <1>1 DEF Push
  <2>2. ~Forgettable(p)
    BY <2>1, ForgottenIsExpired DEF IInv
  <2>3. Recorded' /\ NoneSkipped'
    BY <2>1, <2>2, HandlingIsSafe
  <2> QED
    BY <2>1, <2>3 DEF IInv, Drained, locals, Polling
<1>2. ASSUME SavePush PROVE (Recorded /\ NoneSkipped /\ Drained)'
  BY <1>2, SavingIsSafe DEF SavePush, IInv, Drained, locals, Polling
<1> QED
  BY <1>1, <1>2 DEF Handler

\* Every step of Registre, a poll or a push keeps the invariant
\* (deletions.go Deletions).
LEMMA Inductive == PollIsShort /\ IInv /\ [Next]_vars => IInv'
<1> SUFFICES ASSUME PollIsShort, IInv, [Next]_vars PROVE IInv'
  OBVIOUS
<1>1. Base'
  BY BaseInductive DEF IInv
<1>2. CASE UNCHANGED vars
  BY <1>1, <1>2 DEF IInv, Recorded, NoneSkipped, Drained, Reachable, Expired, Forgettable,
                    Passed, Accounted, vars
<1>3. CASE Next
  BY <1>1, <1>3, EnvironmentStep, PollStep, HandlerStep DEF Next, IInv
<1> QED
  BY <1>2, <1>3

\* An empty Registre and an empty store satisfy it (deletions_state.go load).
LEMMA Initial == Init => IInv
BY ConstantsAssumption DEF Init, IInv, Base, TypeOK, Clocks, Recorded, NoneSkipped, Drained,
                           Reachable, State, Time, Polling

\* The receiver's state keeps its shape and, between polls and pushes, is what
\* is stored (deletions.go persist).
THEOREM TypeCorrect == Spec => []TypeOK
<1>1. Init => Base
  BY Initial DEF IInv
<1>2. Base => TypeOK
  BY DEF Base
<1> QED
  BY <1>1, <1>2, BaseInductive, PTL DEF Spec

\* With polls shorter than the overlap less Registre's commit delay, the cursor
\* never passes somebody pending (deletions_poll.go cursorAfter).
THEOREM NobodyIsSkipped == PollIsShort => (Spec => []NobodySkipped)
<1>1. IInv => NobodySkipped
  BY DEF IInv, NoneSkipped, Reachable, NobodySkipped
<1>2. SUFFICES ASSUME PollIsShort PROVE Spec => []NobodySkipped
  OBVIOUS
<1>3. IInv /\ [Next]_vars => IInv'
  BY <1>2, Inductive
<1> QED
  BY <1>1, <1>3, Initial, PTL DEF Spec

\* Under the same condition OnPersonDeleted never runs again for somebody
\* stored as handled, although records are pruned (deletions_state.go record).
THEOREM NobodyIsCalledAgain == PollIsShort => (Spec => []HandledOnce)
<1>1. IInv => HandledOnce
  BY DEF IInv, Recorded, HandledOnce
<1>2. SUFFICES ASSUME PollIsShort PROVE Spec => []HandledOnce
  OBVIOUS
<1>3. IInv /\ [Next]_vars => IInv'
  BY <1>2, Inductive
<1> QED
  BY <1>1, <1>3, Initial, PTL DEF Spec

=============================================================================
