---------------------------- MODULE SyncerProofs ----------------------------
(***************************************************************************)
(* What an application shows and what it saves, for any number of callers  *)
(* of Sync, changes, faults, crashes, restores and resets.                 *)
(*                                                                         *)
(* Shown: a snapshot is fetched and applied under one hold of the mutex,   *)
(* so it is no older than what is shown when it is applied.                *)
(* Saved: the Store in memory is never behind the document, because a      *)
(* restart imports it before anything can be exported.                     *)
(***************************************************************************)
EXTENDS Syncer, FiniteSetTheorems, TLAPS

Snapshot == [version : Nat, revision : Nat, id : Nat]
Stage == {"idle", "lock", "fetch", "decide", "apply", "save", "stamp"}
Pulling == [pc : Stage, snap : Snapshot]
Budget == [changes : Nat, faults : Nat, crashes : Nat, restores : Nat, resets : Nat, syncs : Nat]

YType ==
    /\ registre \in Snapshot
    /\ sync \in [Puller -> Pulling]
    /\ mutex \in Puller \cup {Free}
    /\ store \in Snapshot /\ saved \in Snapshot
    /\ tables \in Nat
    /\ restored \in BOOLEAN
    /\ left \in Budget

\* A push of entitlements is a change, so it has a version.
Versioned(s) == s.revision > 0 => s.version > 0

\* Registre numbers its states; nothing it held has a later number than it has states.
Numbered ==
    /\ IsFiniteSet(backups) /\ backups \subseteq Snapshot /\ registre \in backups
    /\ \A b \in backups : b.id <= Cardinality(backups) /\ Versioned(b)
    /\ \A p \in Puller : Versioned(sync[p].snap)

\* Sync's critical section.
Exclusive ==
    /\ \A p \in Puller : sync[p].pc \notin {"idle", "lock"} => mutex = p
    /\ loop = "boot" => store = Empty /\ \A p \in Puller : sync[p].pc = "idle"

\* What is about to be applied is no older than what is shown.
Newer ==
    ~restored =>
        /\ tables <= registre.id
        /\ \A p \in Puller : sync[p].pc \in {"decide", "apply"} =>
              tables <= sync[p].snap.id /\ sync[p].snap.id <= registre.id

NotOlder(a, b) == b.revision > a.revision \/ (b.revision = a.revision /\ b.version >= a.version)

\* The Store is not behind the document, but before it has imported it.
Ahead ==
    /\ store.revision = 0 => store.version = 0
    /\ saved.revision = 0 => saved.version = 0
    /\ loop # "boot" => NotOlder(saved, store)

YInv == YType /\ Numbered /\ Exclusive /\ Newer /\ Ahead

LEMMA EmptyType == Empty \in Snapshot /\ NoSync \in Pulling /\ NoSync.pc = "idle" /\ NoSync.snap = Empty
                   /\ Versioned(Empty)
  BY DEF Empty, Snapshot, NoSync, Pulling, Stage, Versioned

LEMMA FeedInit == SyncerInit => YInv
<1> SUFFICES ASSUME SyncerInit PROVE YInv
  OBVIOUS
<1>1. YType
  <2>1. left \in Budget
    BY SyncerAssumption DEF SyncerInit, Budget
  <2>2. registre \in Snapshot /\ tables \in Nat /\ restored \in BOOLEAN /\ mutex \in Puller \cup {Free}
    BY DEF SyncerInit, Snapshot
  <2>3. store \in Snapshot /\ saved \in Snapshot
    BY EmptyType DEF SyncerInit
  <2>4. sync \in [Puller -> Pulling]
    BY EmptyType DEF SyncerInit
  <2> QED
    BY <2>1, <2>2, <2>3, <2>4 DEF YType
<1>2. IsFiniteSet(backups) /\ Cardinality(backups) = 1
  BY FS_Singleton DEF SyncerInit
<1>3. Numbered
  BY <1>1, <1>2, EmptyType DEF SyncerInit, Numbered, YType, Snapshot, Versioned
<1>4. Exclusive /\ Newer /\ Ahead
  BY EmptyType DEF SyncerInit, Exclusive, Newer, Ahead, NotOlder, Empty
<1> QED
  BY <1>1, <1>3, <1>4 DEF YInv

LEMMA Spending ==
    ASSUME left \in Budget, NEW what \in {"changes", "faults", "crashes", "restores", "resets", "syncs"},
           Spend(what)
    PROVE  left' \in Budget /\ left'[what] < left[what]
  BY DEF Budget, Spend

-----------------------------------------------------------------------------
(* What Registre and the operator do. *)

LEMMA ChangeKeeps ==
    ASSUME YInv, Change
    PROVE  YInv' /\ registre'.id > registre.id
<1> DEFINE n == Cardinality(backups)
<1>1. PICK push \in {0, 1} :
        registre' = [version |-> registre.version + 1, revision |-> registre.revision + push, id |-> n + 1]
  BY DEF Change
<1>2. /\ backups' = backups \cup {registre'} /\ left' \in Budget
      /\ UNCHANGED <<loop, sync, mutex, tables, store, saved, restored>>
  BY Spending DEF Change, YInv, YType
<1>3. n \in Nat /\ IsFiniteSet(backups)
  BY FS_CardinalityType DEF YInv, Numbered
<1>4. registre' \in Snapshot /\ registre'.id = n + 1 /\ registre'.version > 0
  BY <1>1, <1>3 DEF YInv, YType, Snapshot
<1>5. registre.id \in Nat /\ registre.id <= n
  BY DEF YInv, YType, Numbered, Snapshot
<1>6. registre' \notin backups
  <2>1. \A b \in backups : b.id \in Nat /\ b.id <= n
    BY DEF YInv, Numbered, Snapshot
  <2> QED
    BY <2>1, <1>3, <1>4
<1>7. IsFiniteSet(backups') /\ Cardinality(backups') = n + 1
  BY <1>2, <1>3, <1>6, FS_AddElement
<1>8. YType'
  BY <1>2, <1>4 DEF YInv, YType
<1>9. Numbered'
  <2>1. \A b \in backups' : b \in Snapshot /\ b.id <= n + 1 /\ Versioned(b)
    BY <1>2, <1>3, <1>4 DEF YInv, Numbered, Versioned, Snapshot
  <2> QED
    BY <1>2, <1>7, <2>1 DEF YInv, Numbered
<1>10. Exclusive' /\ Ahead'
  BY <1>2 DEF YInv, Exclusive, Ahead, NotOlder
<1>11. Newer'
  <2>1. registre'.id \in Nat /\ registre'.id > registre.id
    BY <1>3, <1>4, <1>5
  <2>2. \A p \in Puller : sync[p].snap.id \in Nat
    BY DEF YInv, YType, Pulling, Snapshot
  <2> QED
    BY <1>2, <1>5, <2>1, <2>2 DEF YInv, YType, Newer
<1> QED
  BY <1>3, <1>4, <1>5, <1>8, <1>9, <1>10, <1>11 DEF YInv

LEMMA RestoreKeeps == ASSUME YInv, RestoreRegistre PROVE YInv'
<1>1. /\ registre' \in backups /\ restored' = TRUE /\ left' \in Budget
      /\ UNCHANGED <<backups, loop, sync, mutex, tables, store, saved>>
  BY Spending DEF RestoreRegistre, YInv, YType
<1>2. YType' /\ Numbered'
  BY <1>1 DEF YInv, YType, Numbered
<1>3. Exclusive' /\ Newer' /\ Ahead'
  BY <1>1 DEF YInv, Exclusive, Newer, Ahead, NotOlder
<1> QED
  BY <1>2, <1>3 DEF YInv

LEMMA ResetKeeps ==
    ASSUME YInv, Reset
    PROVE  YInv' /\ left'.resets < left.resets
<1>1. /\ store' = Empty /\ saved' = Empty /\ left' \in Budget /\ left'.resets < left.resets
      /\ UNCHANGED <<registre, backups, restored, loop, sync, mutex, tables>> /\ loop # "boot"
  BY Spending DEF Reset, RegistreStays, YInv, YType
<1>2. YType' /\ Numbered'
  BY <1>1, EmptyType DEF YInv, YType, Numbered
<1>3. Exclusive' /\ Newer' /\ Ahead'
  BY <1>1 DEF YInv, Exclusive, Newer, Ahead, NotOlder, Empty
<1> QED
  BY <1>1, <1>2, <1>3 DEF YInv

LEMMA CrashKeeps == ASSUME YInv, Crash PROVE YInv'
<1>1. /\ loop' = "boot" /\ mutex' = Free /\ sync' = [p \in Puller |-> NoSync] /\ store' = Empty
      /\ left' \in Budget
      /\ UNCHANGED <<registre, backups, restored, tables, saved>>
  BY Spending DEF Crash, RegistreStays, YInv, YType
<1>2. YType' /\ Numbered'
  BY <1>1, EmptyType DEF YInv, YType, Numbered
<1>3. Exclusive' /\ Newer' /\ Ahead'
  BY <1>1, EmptyType DEF YInv, Exclusive, Newer, Ahead, NotOlder, Empty
<1> QED
  BY <1>2, <1>3 DEF YInv

-----------------------------------------------------------------------------
(* What the goroutines do: one call of Sync moves at a time. *)

LEMMA MoveKeeps ==
    ASSUME YInv, NEW p \in Puller, NEW r \in Pulling, Versioned(r.snap),
           sync' = [sync EXCEPT ![p] = r], UNCHANGED <<registre, backups, restored>>,
           left' \in Budget, mutex' \in Puller \cup {Free},
           store' \in Snapshot, saved' \in Snapshot, tables' \in Nat
    PROVE  /\ YType' /\ Numbered'
           /\ sync'[p] = r /\ \A q \in Puller \ {p} : sync'[q] = sync[q]
<1>1. sync \in [Puller -> Pulling] /\ sync' \in [Puller -> Pulling]
  BY DEF YInv, YType
<1>2. sync'[p] = r /\ \A q \in Puller \ {p} : sync'[q] = sync[q]
  BY <1>1
<1>3. YType'
  BY <1>1 DEF YInv, YType
<1>4. Numbered'
  <2>1. \A q \in Puller : Versioned(sync'[q].snap)
    BY <1>2 DEF YInv, Numbered
  <2> QED
    BY <2>1 DEF YInv, Numbered
<1> QED
  BY <1>2, <1>3, <1>4

\* A stage further with the same snapshot.
LEMMA StageKeeps ==
    ASSUME YInv, NEW p \in Puller, NEW pc \in Stage
    PROVE  /\ [sync EXCEPT ![p].pc = pc] = [sync EXCEPT ![p] = [pc |-> pc, snap |-> sync[p].snap]]
           /\ [pc |-> pc, snap |-> sync[p].snap] \in Pulling
           /\ Versioned(sync[p].snap)
<1>1. sync[p] \in Pulling /\ sync \in [Puller -> Pulling]
  BY DEF YInv, YType
<1>2. Versioned(sync[p].snap)
  BY DEF YInv, Numbered
<1>3. [sync[p] EXCEPT !.pc = pc] = [pc |-> pc, snap |-> sync[p].snap]
  BY <1>1 DEF Pulling
<1>4. [sync EXCEPT ![p].pc = pc] = [sync EXCEPT ![p] = [sync[p] EXCEPT !.pc = pc]]
  BY <1>1
<1> QED
  BY <1>1, <1>2, <1>3, <1>4 DEF Pulling

\* A call of Sync queues for the mutex, once the Store has what was saved.
LEMMA QueueKeeps ==
    ASSUME YInv, NEW p \in Puller, sync' = [sync EXCEPT ![p].pc = "lock"], loop' # "boot",
           UNCHANGED <<registre, backups, restored, mutex, tables, saved>>,
           left' \in Budget, store' \in Snapshot,
           NotOlder(saved, store'), store'.revision = 0 => store'.version = 0
    PROVE  YInv'
<1> DEFINE r == [pc |-> "lock", snap |-> sync[p].snap]
<1>1. sync' = [sync EXCEPT ![p] = r] /\ r \in Pulling /\ Versioned(r.snap) /\ r.pc = "lock"
  BY StageKeeps DEF Stage
<1>2. mutex' \in Puller \cup {Free} /\ saved' \in Snapshot /\ tables' \in Nat
  BY DEF YInv, YType
<1> HIDE DEF r
<1>3. /\ YType' /\ Numbered'
      /\ sync'[p] = r /\ \A q \in Puller \ {p} : sync'[q] = sync[q]
  BY <1>1, <1>2, MoveKeeps
<1>4. Exclusive'
  BY <1>1, <1>3 DEF YInv, Exclusive
<1>5. Newer'
  BY <1>1, <1>3 DEF YInv, Newer
<1>6. Ahead'
  BY DEF YInv, Ahead, NotOlder
<1> QED
  BY <1>3, <1>4, <1>5, <1>6 DEF YInv

\* It returns: the caller that held the mutex frees it.
LEMMA ReleaseKeeps ==
    ASSUME YInv, NEW p \in Puller, sync[p].pc \notin {"idle", "lock"}, Released(p),
           UNCHANGED <<registre, backups, restored, tables, store, saved>>, left' \in Budget
    PROVE  YInv'
<1>1. sync' = [sync EXCEPT ![p] = NoSync] /\ mutex' = Free /\ NoSync \in Pulling
      /\ Versioned(NoSync.snap) /\ NoSync.pc = "idle"
  BY EmptyType DEF Released
<1>2. mutex' \in Puller \cup {Free} /\ store' \in Snapshot /\ saved' \in Snapshot /\ tables' \in Nat
  BY <1>1 DEF YInv, YType
<1>3. /\ YType' /\ Numbered'
      /\ sync'[p] = NoSync /\ \A q \in Puller \ {p} : sync'[q] = sync[q]
  BY <1>1, <1>2, MoveKeeps
<1>4. loop # "boot" /\ loop' # "boot" /\ mutex = p
  BY DEF YInv, Exclusive, Released
<1>5. \A q \in Puller \ {p} : sync[q].pc \in {"idle", "lock"}
  BY <1>4 DEF YInv, Exclusive
<1>6. Exclusive' /\ Newer' /\ Ahead'
  <2>1. Exclusive'
    BY <1>1, <1>3, <1>4, <1>5 DEF Exclusive
  <2>2. Newer'
    BY <1>1, <1>3 DEF YInv, Newer
  <2>3. Ahead'
    BY <1>4 DEF YInv, Ahead, NotOlder
  <2> QED
    BY <2>1, <2>2, <2>3
<1> QED
  BY <1>3, <1>6 DEF YInv

LEMMA WakeKeeps == ASSUME YInv, Wake PROVE YInv' /\ UNCHANGED <<registre, restored, tables, saved>>
<1> USE DEF AppStays, RegistreStays, NudgesStay
<1>1. Run \in Puller
  BY SyncerAssumption
<1>2. /\ store \in Snapshot /\ saved \in Snapshot /\ left \in Budget
      /\ store.revision = 0 => store.version = 0
      /\ saved.revision = 0 => saved.version = 0
      /\ loop # "boot" => NotOlder(saved, store)
  BY DEF YInv, YType, Ahead
<1>3. CASE Boot
  <2>1. store = Empty
    BY <1>3 DEF Boot, YInv, Exclusive
  <2>2. store' \in Snapshot /\ NotOlder(saved, store') /\ (store'.revision = 0 => store'.version = 0)
    <3>1. CASE saved.revision = 0
      BY <1>2, <1>3, <2>1, <3>1 DEF Boot, Import, NotOlder, Empty, Snapshot
    <3>2. CASE saved.revision # 0
      BY <1>2, <1>3, <2>1, <3>2 DEF Boot, Import, NotOlder, Empty, Snapshot
    <3> QED
      BY <3>1, <3>2
  <2>3. /\ sync' = [sync EXCEPT ![Run].pc = "lock"] /\ loop' # "boot" /\ left' \in Budget
        /\ UNCHANGED <<registre, backups, restored, mutex, tables, saved>>
    BY <1>2, <1>3 DEF Boot
  <2> QED
    BY <1>1, <2>2, <2>3, QueueKeeps
<1>4. CASE Tick \/ Drain
  <2>1. /\ sync' = [sync EXCEPT ![Run].pc = "lock"] /\ loop' # "boot" /\ loop # "boot"
        /\ UNCHANGED <<registre, backups, restored, mutex, tables, saved, store, left>>
    BY <1>4 DEF Tick, Drain
  <2> QED
    BY <1>1, <1>2, <2>1, QueueKeeps
<1>5. CASE Woken
  <2>1. /\ loop' # "boot" /\ loop # "boot"
        /\ UNCHANGED <<registre, backups, restored, sync, mutex, tables, saved, store, left>>
    BY <1>5 DEF Woken
  <2>2. YType' /\ Numbered'
    BY <2>1 DEF YInv, YType, Numbered
  <2>3. Exclusive' /\ Newer' /\ Ahead'
    BY <2>1 DEF YInv, Exclusive, Newer, Ahead, NotOlder
  <2> QED
    BY <2>1, <2>2, <2>3 DEF YInv
<1> QED
  BY <1>3, <1>4, <1>5 DEF Wake

LEMMA NudgeKeeps == ASSUME YInv, Nudge PROVE YInv' /\ UNCHANGED <<registre, restored, tables, saved>>
<1>1. UNCHANGED <<registre, backups, restored, sync, mutex, tables, saved, store, left, loop>>
  BY DEF Nudge, AppStays, RegistreStays
<1>2. YType' /\ Numbered'
  BY <1>1 DEF YInv, YType, Numbered
<1>3. Exclusive' /\ Newer' /\ Ahead'
  BY <1>1 DEF YInv, Exclusive, Newer, Ahead, NotOlder
<1> QED
  BY <1>1, <1>2, <1>3 DEF YInv

LEMMA SyncKeeps ==
    ASSUME YInv, NEW p \in Puller, Sync(p)
    PROVE  YInv' /\ UNCHANGED <<registre, restored, tables, saved>>
<1>1. left' \in Budget
  BY Spending DEF Sync, YInv, YType
<1>2. /\ sync' = [sync EXCEPT ![p].pc = "lock"] /\ loop' # "boot" /\ loop # "boot"
      /\ UNCHANGED <<registre, backups, restored, mutex, tables, saved, store>>
  BY DEF Sync, AppStays, RegistreStays
<1>3. store' \in Snapshot /\ NotOlder(saved, store') /\ (store'.revision = 0 => store'.version = 0)
  BY <1>2 DEF YInv, YType, Ahead
<1> QED
  BY <1>1, <1>2, <1>3, QueueKeeps

LEMMA LockKeeps ==
    ASSUME YInv, NEW p \in Puller, Lock(p)
    PROVE  YInv' /\ UNCHANGED <<registre, restored, tables, saved>>
<1> DEFINE r == [pc |-> "fetch", snap |-> sync[p].snap]
<1>1. sync' = [sync EXCEPT ![p] = r] /\ r \in Pulling /\ Versioned(r.snap) /\ r.pc = "fetch"
  BY StageKeeps DEF Stage, Lock
<1>2. /\ mutex = Free /\ mutex' = p /\ sync[p].pc = "lock"
      /\ UNCHANGED <<registre, backups, restored, tables, saved, store, left, loop>>
  BY DEF Lock, AppStays, RegistreStays
<1>3. mutex' \in Puller \cup {Free} /\ store' \in Snapshot /\ saved' \in Snapshot /\ tables' \in Nat
      /\ left' \in Budget
  BY <1>2 DEF YInv, YType
<1> HIDE DEF r
<1>4. /\ YType' /\ Numbered'
      /\ sync'[p] = r /\ \A q \in Puller \ {p} : sync'[q] = sync[q]
  BY <1>1, <1>2, <1>3, MoveKeeps
<1>5. loop # "boot" /\ \A q \in Puller : sync[q].pc \in {"idle", "lock"}
  BY <1>2, SyncerAssumption DEF YInv, Exclusive, Free
<1>6. Exclusive'
  BY <1>1, <1>2, <1>4, <1>5 DEF Exclusive
<1>7. Newer' /\ Ahead'
  BY <1>1, <1>2, <1>4 DEF YInv, Newer, Ahead, NotOlder
<1> QED
  BY <1>2, <1>4, <1>6, <1>7 DEF YInv

\* The holder goes a stage further.
LEMMA AdvanceKeeps ==
    ASSUME YInv, NEW p \in Puller, sync[p].pc \notin {"idle", "lock"},
           NEW r \in Pulling, Versioned(r.snap), sync' = [sync EXCEPT ![p] = r],
           r.pc \notin {"idle", "lock"}, left' \in Budget, tables' \in Nat,
           store' \in Snapshot, saved' \in Snapshot,
           UNCHANGED <<registre, backups, restored, mutex, loop>>
    PROVE  /\ YType' /\ Numbered' /\ Exclusive'
           /\ sync'[p] = r /\ mutex = p /\ loop # "boot" /\ loop' # "boot"
           /\ \A q \in Puller \ {p} : sync'[q] = sync[q] /\ sync'[q].pc \in {"idle", "lock"}
<1>1. mutex' \in Puller \cup {Free}
  BY DEF YInv, YType
<1>2. /\ YType' /\ Numbered'
      /\ sync'[p] = r /\ \A q \in Puller \ {p} : sync'[q] = sync[q]
  BY <1>1, MoveKeeps
<1>3. loop # "boot" /\ loop' # "boot" /\ mutex = p /\ \A q \in Puller \ {p} : sync[q].pc \in {"idle", "lock"}
  BY DEF YInv, Exclusive
<1>4. Exclusive'
  BY <1>2, <1>3 DEF Exclusive
<1> QED
  BY <1>2, <1>3, <1>4

LEMMA FetchKeeps ==
    ASSUME YInv, NEW p \in Puller, Fetch(p)
    PROVE  YInv' /\ UNCHANGED <<registre, restored, tables, saved>>
<1> DEFINE r == [pc |-> "decide", snap |-> registre]
<1>1. /\ sync[p].pc = "fetch" /\ UNCHANGED <<registre, backups, restored, tables, saved, store>>
  BY DEF Fetch, AppStays, RegistreStays
<1>2. CASE Spend("faults") /\ Released(p)
  BY <1>1, <1>2, Spending, ReleaseKeeps DEF YInv, YType
<1>3. CASE sync' = [sync EXCEPT ![p] = r] /\ UNCHANGED <<loop, mutex, left>>
  <2>1. r \in Pulling /\ Versioned(r.snap) /\ r.pc = "decide" /\ r.snap = registre
    BY DEF YInv, YType, Numbered, Pulling, Stage
  <2> HIDE DEF r
  <2>2. /\ left' \in Budget /\ tables' \in Nat /\ store' \in Snapshot /\ saved' \in Snapshot
        /\ registre.id \in Nat
    BY <1>1, <1>3 DEF YInv, YType, Snapshot
  <2>3. /\ YType' /\ Numbered' /\ Exclusive' /\ sync'[p] = r
        /\ \A q \in Puller \ {p} : sync'[q] = sync[q]
    BY <1>1, <1>3, <2>1, <2>2, AdvanceKeeps
  <2>4. Newer'
    BY <1>1, <2>1, <2>2, <2>3 DEF YInv, Newer
  <2>5. Ahead'
    BY <1>1, <1>3 DEF YInv, Ahead, NotOlder
  <2> QED
    BY <1>1, <2>3, <2>4, <2>5 DEF YInv
<1> QED
  BY <1>2, <1>3 DEF Fetch

LEMMA DecideKeeps ==
    ASSUME YInv, NEW p \in Puller, Decide(p)
    PROVE  YInv' /\ UNCHANGED <<registre, restored, tables, saved>>
<1> DEFINE r == [pc |-> "apply", snap |-> sync[p].snap]
<1>1. /\ sync[p].pc = "decide" /\ UNCHANGED <<registre, backups, restored, tables, saved, store, left>>
  BY DEF Decide, AppStays, RegistreStays
<1>2. CASE Released(p)
  BY <1>1, <1>2, ReleaseKeeps DEF YInv, YType
<1>3. CASE sync' = [sync EXCEPT ![p].pc = "apply"] /\ UNCHANGED <<loop, mutex>>
  <2>1. /\ sync' = [sync EXCEPT ![p] = r] /\ r \in Pulling /\ Versioned(r.snap)
        /\ r.pc = "apply" /\ r.snap = sync[p].snap
    BY <1>3, StageKeeps DEF Stage
  <2> HIDE DEF r
  <2>2. left' \in Budget /\ tables' \in Nat /\ store' \in Snapshot /\ saved' \in Snapshot
    BY <1>1 DEF YInv, YType
  <2>3. /\ YType' /\ Numbered' /\ Exclusive' /\ sync'[p] = r
        /\ \A q \in Puller \ {p} : sync'[q] = sync[q]
    BY <1>1, <1>3, <2>1, <2>2, AdvanceKeeps
  <2>4. Newer'
    BY <1>1, <2>1, <2>3 DEF YInv, Newer
  <2>5. Ahead'
    BY <1>1, <1>3 DEF YInv, Ahead, NotOlder
  <2> QED
    BY <1>1, <2>3, <2>4, <2>5 DEF YInv
<1> QED
  BY <1>2, <1>3 DEF Decide

\* What StoreApply leaves is not behind the document either.
LEMMA StoreMovesOn ==
    ASSUME NEW a \in Snapshot, NEW held \in Snapshot, NEW snap \in Snapshot, Versioned(snap),
           NotOlder(a, held), held.revision = 0 => held.version = 0
    PROVE  LET s == StoreApply(held, snap) IN
           s \in Snapshot /\ NotOlder(a, s) /\ (s.revision = 0 => s.version = 0)
<1>1. CASE Accepts(held, snap)
  <2>1. snap.revision > 0 /\ snap.version > 0 /\ NotOlder(held, snap)
    BY <1>1 DEF Accepts, Versioned, NotOlder, Snapshot
  <2>2. NotOlder(a, snap)
    BY <2>1 DEF NotOlder, Snapshot
  <2>3. StoreApply(held, snap) = snap
    BY <1>1 DEF StoreApply
  <2> QED
    BY <2>1, <2>2, <2>3
<1>2. CASE ~Accepts(held, snap)
  BY <1>2 DEF StoreApply
<1> QED
  BY <1>1, <1>2

LEMMA ApplyKeeps ==
    ASSUME YInv, NEW p \in Puller, Apply(p)
    PROVE  /\ YInv' /\ UNCHANGED <<registre, restored, saved>>
           /\ ~restored => tables' >= tables /\ tables' <= registre.id
<1> DEFINE r == [pc |-> "save", snap |-> sync[p].snap]
<1>1. /\ sync[p].pc = "apply" /\ UNCHANGED <<registre, backups, restored, saved>>
  BY DEF Apply, RegistreStays
<1>2. CASE Spend("faults") /\ Released(p) /\ UNCHANGED <<tables, store>>
  <2>1. YInv'
    BY <1>1, <1>2, Spending, ReleaseKeeps DEF YInv, YType
  <2>2. ~restored => tables <= registre.id
    BY DEF YInv, Newer
  <2> QED
    BY <1>1, <1>2, <2>1, <2>2 DEF YInv, YType
<1>3. CASE /\ tables' = sync[p].snap.id /\ store' = StoreApply(store, sync[p].snap)
           /\ sync' = [sync EXCEPT ![p].pc = "save"] /\ UNCHANGED <<loop, mutex, left>>
  <2>1. /\ sync' = [sync EXCEPT ![p] = r] /\ r \in Pulling /\ Versioned(r.snap)
        /\ r.pc = "save" /\ sync[p].snap \in Snapshot /\ Versioned(sync[p].snap)
    BY <1>3, StageKeeps DEF Stage, YInv, YType, Pulling
  <2> HIDE DEF r
  <2>2. loop # "boot"
    BY <1>1 DEF YInv, Exclusive
  <2>3. store' \in Snapshot /\ NotOlder(saved, store') /\ (store'.revision = 0 => store'.version = 0)
    BY <1>3, <2>1, <2>2, StoreMovesOn DEF YInv, YType, Ahead
  <2>4. left' \in Budget /\ tables' \in Nat /\ saved' \in Snapshot
    BY <1>1, <1>3, <2>1 DEF YInv, YType, Snapshot
  <2>5. /\ YType' /\ Numbered' /\ Exclusive' /\ sync'[p] = r
        /\ \A q \in Puller \ {p} : sync'[q] = sync[q] /\ sync'[q].pc \in {"idle", "lock"}
    BY <1>1, <1>3, <2>1, <2>3, <2>4, AdvanceKeeps
  <2>6. ~restored => tables' >= tables /\ tables' <= registre.id
    BY <1>1, <1>3 DEF YInv, Newer, YType, Snapshot
  <2>7. Newer'
    BY <1>1, <2>1, <2>5, <2>6 DEF Newer
  <2>8. Ahead'
    BY <1>1, <1>3, <2>3 DEF YInv, Ahead, NotOlder
  <2> QED
    BY <1>1, <2>5, <2>6, <2>7, <2>8 DEF YInv
<1> QED
  BY <1>2, <1>3 DEF Apply

LEMMA ExportKeeps ==
    ASSUME YInv, NEW p \in Puller, Export(p)
    PROVE  /\ YInv' /\ UNCHANGED <<registre, restored, tables>>
           /\ NotOlder(saved, saved')
<1> DEFINE r == [pc |-> "stamp", snap |-> sync[p].snap]
<1>1. /\ sync[p].pc = "save" /\ UNCHANGED <<registre, backups, restored, tables, store>>
      /\ left' \in Budget
  BY Spending DEF Export, RegistreStays, YInv, YType
<1>2. loop # "boot" /\ NotOlder(saved, saved) /\ NotOlder(store, store) /\ NotOlder(saved, store)
  BY <1>1 DEF YInv, YType, Exclusive, Ahead, NotOlder, Snapshot
<1>3. CASE Released(p) /\ UNCHANGED saved
  BY <1>1, <1>2, <1>3, ReleaseKeeps
<1>4. CASE /\ saved' \in {saved, store}
           /\ sync' = [sync EXCEPT ![p].pc = "stamp"] /\ UNCHANGED <<loop, mutex>>
  <2>1. /\ sync' = [sync EXCEPT ![p] = r] /\ r \in Pulling /\ Versioned(r.snap)
        /\ r.pc = "stamp"
    BY <1>4, StageKeeps DEF Stage
  <2> HIDE DEF r
  <2>2. tables' \in Nat /\ saved' \in Snapshot /\ store' \in Snapshot
    BY <1>1, <1>4 DEF YInv, YType
  <2>3. /\ YType' /\ Numbered' /\ Exclusive' /\ sync'[p] = r
        /\ \A q \in Puller \ {p} : sync'[q] = sync[q]
    BY <1>1, <1>4, <2>1, <2>2, AdvanceKeeps
  <2>4. Newer'
    BY <1>1, <2>1, <2>3 DEF YInv, Newer
  <2>5. Ahead' /\ NotOlder(saved, saved')
    BY <1>1, <1>2, <1>4 DEF YInv, Ahead, NotOlder
  <2> QED
    BY <1>1, <2>3, <2>4, <2>5 DEF YInv
<1> QED
  BY <1>3, <1>4 DEF Export

LEMMA StampKeeps ==
    ASSUME YInv, NEW p \in Puller, Stamp(p)
    PROVE  YInv' /\ UNCHANGED <<registre, restored, tables, saved>>
<1>1. /\ sync[p].pc = "stamp" /\ Released(p)
      /\ UNCHANGED <<registre, backups, restored, tables, saved, store, left>>
  BY DEF Stamp, RegistreStays
<1> QED
  BY <1>1, ReleaseKeeps DEF YInv, YType

-----------------------------------------------------------------------------
(* Every step, and what it does to what is shown and what is saved. *)

Shown == UNCHANGED <<registre, restored, tables>> \/ Promise!MirrorNext
Saved ==
    \/ saved' = Empty /\ store' = Empty /\ left'.resets < left.resets
    \/ NotOlder(saved, saved')

LEMMA StaysSaved == YInv /\ UNCHANGED saved => Saved
  BY DEF YInv, YType, Snapshot, Saved, NotOlder

LEMMA YStep == ASSUME YInv, [SyncerNext]_yvars PROVE YInv' /\ Saved /\ Shown
<1>1. CASE UNCHANGED yvars
  BY <1>1, StaysSaved DEF yvars, YInv, YType, Numbered, Exclusive, Newer, Ahead, NotOlder, Shown
<1>2. CASE Change
  <2>1. UNCHANGED <<saved, tables, restored>>
    BY <1>2 DEF Change
  <2> QED
    BY <1>2, <2>1, ChangeKeeps, StaysSaved DEF Shown, Promise!MirrorNext, Promise!Publish
<1>3. CASE RestoreRegistre
  <2>1. UNCHANGED <<saved, tables>> /\ restored' = TRUE
    BY <1>3 DEF RestoreRegistre
  <2> QED
    BY <1>3, <2>1, RestoreKeeps, StaysSaved DEF Shown, Promise!MirrorNext, Promise!Restore
<1>4. CASE Nudge \/ Wake
  BY <1>4, NudgeKeeps, WakeKeeps, StaysSaved DEF Shown
<1>5. CASE Reset
  <2>1. saved' = Empty /\ store' = Empty /\ UNCHANGED <<registre, restored, tables>>
    BY <1>5 DEF Reset, RegistreStays
  <2> QED
    BY <1>5, <2>1, ResetKeeps DEF Shown, Saved
<1>6. CASE Crash
  <2>1. UNCHANGED <<saved, registre, restored, tables>>
    BY <1>6 DEF Crash, RegistreStays
  <2> QED
    BY <1>6, <2>1, CrashKeeps, StaysSaved DEF Shown
<1>7. ASSUME NEW p \in Puller, Sync(p) \/ Pull(p) PROVE YInv' /\ Saved /\ Shown
  <2>1. CASE Sync(p) \/ Lock(p) \/ Fetch(p) \/ Decide(p) \/ Stamp(p)
    BY <2>1, SyncKeeps, LockKeeps, FetchKeeps, DecideKeeps, StampKeeps, StaysSaved DEF Shown
  <2>2. CASE Apply(p)
    <3>1. /\ YInv' /\ UNCHANGED <<registre, restored, saved>>
          /\ ~restored => tables' >= tables /\ tables' <= registre.id
      BY <2>2, ApplyKeeps
    <3> SUFFICES Shown
      BY <3>1, StaysSaved
    <3>2. tables \in Nat /\ tables' \in Nat
      BY <3>1 DEF YInv, YType
    <3>3. CASE restored
      BY <3>1, <3>3 DEF Shown, Promise!MirrorNext, Promise!Adrift
    <3>4. CASE ~restored /\ tables' # tables
      BY <3>1, <3>2, <3>4 DEF Shown, Promise!MirrorNext, Promise!CatchUp
    <3>5. CASE tables' = tables
      BY <3>1, <3>5 DEF Shown
    <3> QED
      BY <3>3, <3>4, <3>5
  <2>3. CASE Export(p)
    BY <2>3, ExportKeeps DEF Shown, Saved
  <2> QED
    BY <1>7, <2>1, <2>2, <2>3 DEF Pull
<1> QED
  BY <1>1, <1>2, <1>3, <1>4, <1>5, <1>6, <1>7 DEF SyncerNext

-----------------------------------------------------------------------------
\* The document an app saves never goes back to older entitlements but by
\* Reset, whatever crashes, faults and restores of Registre happen: what
\* Import and accepts together keep (persist.go Import, store.go accepts).
THEOREM DocumentMovesOn == SyncerSpec => SavedNeverOlder
<1>1. SyncerInit => YInv
  BY FeedInit
<1>2. YInv /\ [SyncerNext]_yvars => YInv'
  BY YStep
<1>3. YInv /\ [SyncerNext]_yvars =>
        [\/ saved' = Empty /\ store' = Empty /\ left'.resets < left.resets
         \/ saved'.revision > saved.revision
         \/ saved'.revision = saved.revision /\ saved'.version >= saved.version]_yvars
  BY YStep DEF Saved, NotOlder
<1> QED
  BY <1>1, <1>2, <1>3, PTL DEF SyncerSpec, SavedNeverOlder

\* Sync implements the safety half of the mirror: the tables follow Registre,
\* never to a state earlier than they showed nor one it has not published,
\* until a restore (syncer.go Sync, under its mutex).
THEOREM TablesMirror == SyncerSpec => Promise!MirrorSafety
<1>1. SyncerInit => YInv /\ Promise!MirrorInit
  BY FeedInit DEF SyncerInit, Promise!MirrorInit
<1>2. YInv /\ [SyncerNext]_yvars => YInv' /\ [Promise!MirrorNext]_(Promise!mvars)
  BY YStep DEF Shown, Promise!mvars
<1> QED
  BY <1>1, <1>2, PTL DEF SyncerSpec, Promise!MirrorSafety

-----------------------------------------------------------------------------
(* Nudges.  One that the channel no longer holds has Run on its way to a   *)
(* fetch, or behind one that began after it.                               *)

Underway == loop \in {"boot", "debounce"} \/ (loop = "pull" /\ sync[Run].pc = "lock")

Owing ==
    /\ owed \in Nat /\ tried \in Nat /\ nudge \in BOOLEAN
    /\ sync[Run].pc # "idle" => loop = "pull"
    /\ ~restored => owed <= registre.id /\ (nudge \/ Underway \/ tried >= owed)

LEMMA OwingStays ==
    ASSUME YInv, Owing, restored' = restored, registre'.id \in Nat,
           ~restored => registre'.id >= registre.id,
           UNCHANGED <<owed, tried, nudge>>, Underway => Underway',
           sync'[Run].pc # "idle" => loop' = "pull"
    PROVE  Owing'
<1>1. registre.id \in Nat
  BY DEF YInv, YType, Snapshot
<1> QED
  BY <1>1 DEF Owing

LEMMA RunUntouched ==
    ASSUME YInv, Owing, NEW p \in Puller, sync[p].pc \notin {"idle", "lock"},
           \/ Released(p)
           \/ loop' = loop /\ \A q \in Puller \ {p} : sync'[q] = sync[q]
    PROVE  (Underway => Underway') /\ (sync'[Run].pc # "idle" => loop' = "pull")
<1>1. Run \in Puller /\ sync \in [Puller -> Pulling]
  BY SyncerAssumption DEF YInv, YType
<1>2. \A q \in Puller \ {p} : sync'[q] = sync[q]
  BY <1>1 DEF Released
<1>3. CASE p = Run
  <2>1. loop = "pull" /\ ~Underway
    BY <1>3 DEF Underway, Owing
  <2>2. Released(p) => sync'[Run].pc = "idle"
    BY <1>1, <1>3, EmptyType DEF Released
  <2> QED
    BY <2>1, <2>2
<1>4. CASE p # Run
  BY <1>1, <1>2, <1>4 DEF Underway, Released, Owing
<1> QED
  BY <1>3, <1>4

LEMMA OwingStep == ASSUME YInv, Owing, [SyncerNext]_yvars PROVE Owing'
<1>1. Run \in Puller /\ registre.id \in Nat /\ sync \in [Puller -> Pulling]
  BY SyncerAssumption DEF YInv, YType, Snapshot
<1>2. CASE UNCHANGED yvars
  BY <1>2 DEF yvars, Owing, Underway
<1>3. CASE Change
  <2>1. registre'.id > registre.id /\ registre'.id \in Nat
    BY <1>3, ChangeKeeps DEF YInv, YType, Snapshot
  <2>2. UNCHANGED <<owed, tried, nudge, restored, loop, sync>>
    BY <1>3 DEF Change
  <2> QED
    BY <1>1, <2>1, <2>2 DEF Owing, Underway
<1>4. CASE RestoreRegistre
  BY <1>4 DEF RestoreRegistre, Owing
<1>5. CASE Nudge
  BY <1>1, <1>5 DEF Nudge, RegistreStays, Owing
<1>6. CASE Reset
  BY <1>1, <1>6 DEF Reset, RegistreStays, NudgesStay, Owing, Underway
<1>7. CASE Crash
  <2>1. UNCHANGED <<registre, restored, owed, tried>> /\ loop' = "boot" /\ nudge' = FALSE
        /\ sync' = [p \in Puller |-> NoSync]
    BY <1>7 DEF Crash, RegistreStays
  <2>2. sync'[Run].pc = "idle"
    BY <1>1, <2>1, EmptyType
  <2> QED
    BY <2>1, <2>2 DEF Owing, Underway
<1>8. CASE Wake
  <2>1. UNCHANGED <<registre, restored, owed, tried>> /\ nudge' \in BOOLEAN
    BY <1>8 DEF Wake, Boot, Tick, Woken, Drain, RegistreStays, NudgesStay, Owing
  <2>2. CASE Boot \/ Tick \/ Drain
    <3>1. loop' = "pull" /\ sync' = [sync EXCEPT ![Run].pc = "lock"]
      BY <2>2 DEF Boot, Tick, Drain
    <3>2. sync'[Run].pc = "lock"
      BY <1>1, <3>1 DEF Pulling
    <3> QED
      BY <2>1, <3>1, <3>2 DEF Owing, Underway
  <2>3. CASE Woken
    BY <2>1, <2>3 DEF Woken, Owing, Underway
  <2> QED
    BY <1>8, <2>2, <2>3 DEF Wake
<1>9. ASSUME NEW p \in Puller, Sync(p) PROVE Owing'
  BY <1>1, <1>9 DEF Sync, RegistreStays, NudgesStay, Owing, Underway
<1>10. ASSUME NEW p \in Puller, Lock(p) PROVE Owing'
  <2>1. UNCHANGED <<registre, restored, owed, nudge, loop>> /\ \A q \in Puller \ {p} : sync'[q] = sync[q]
    BY <1>1, <1>10 DEF Lock, RegistreStays, NudgesStay
  <2>2. CASE p = Run
    BY <1>1, <1>10, <2>1, <2>2 DEF Lock, Owing
  <2>3. CASE p # Run
    BY <1>1, <1>10, <2>1, <2>3 DEF Lock, Owing, Underway
  <2> QED
    BY <2>2, <2>3
<1>11. ASSUME NEW p \in Puller, Fetch(p) \/ Decide(p) \/ Apply(p) \/ Export(p) \/ Stamp(p) PROVE Owing'
  <2>1. UNCHANGED <<registre, restored, owed, nudge, tried>> /\ sync[p].pc \notin {"idle", "lock"}
    BY <1>11 DEF Fetch, Decide, Apply, Export, Stamp, RegistreStays, NudgesStay
  <2>2. Released(p) \/ (loop' = loop /\ \A q \in Puller \ {p} : sync'[q] = sync[q])
    BY <1>1, <1>11 DEF Fetch, Decide, Apply, Export, Stamp
  <2>3. (Underway => Underway') /\ (sync'[Run].pc # "idle" => loop' = "pull")
    BY <2>1, <2>2, RunUntouched
  <2> QED
    BY <1>1, <2>1, <2>3, OwingStays
<1> QED
  BY <1>2, <1>3, <1>4, <1>5, <1>6, <1>7, <1>8, <1>9, <1>10, <1>11 DEF SyncerNext, Pull

\* A nudge is answered with 202 and may be dropped by the channel of one, the
\* debounce or a busy Sync, never by the application: when Run waits with an
\* empty channel, a fetch began after the last one taken (syncer.go Nudge,
\* Run; wait.go drain).
THEOREM NoNudgeIsLost == SyncerSpec => []NudgesCovered
<1>1. SyncerInit => YInv /\ Owing
  <2> SUFFICES ASSUME SyncerInit PROVE Owing
    BY FeedInit
  <2>1. /\ sync[Run].pc = "idle" /\ registre.id = 1 /\ loop = "boot"
        /\ owed = 0 /\ tried = 0 /\ nudge = FALSE
    BY SyncerAssumption, EmptyType DEF SyncerInit
  <2>2. owed \in Nat /\ tried \in Nat
    BY <2>1
  <2>3. owed <= registre.id
    BY <2>1
  <2>4. nudge \in BOOLEAN
    BY <2>1
  <2> QED
    BY <2>1, <2>2, <2>3, <2>4 DEF Owing, Underway
<1>2. YInv /\ Owing /\ [SyncerNext]_yvars => YInv' /\ Owing'
  BY YStep, OwingStep
<1>3. Owing => NudgesCovered
  BY DEF Owing, Underway, NudgesCovered
<1> QED
  BY <1>1, <1>2, <1>3, PTL DEF SyncerSpec

-----------------------------------------------------------------------------
(* What a Store answers. *)

LEMMA RawLimits ==
    ASSUME NEW contents \in [Key -> Raw], NEW key \in LimitKey
    PROVE  LET limit == Resolve(TRUE, Values(contents), key).limit IN limit \in Int64 /\ limit >= -1
<1>1. MaxInt \in Nat /\ 0 \in Int64 /\ Int64 \subseteq Int
  BY EntitlementsAssumption DEF Int64
<1>2. key \in Key /\ key \notin BoolKey /\ key \in Declared
  BY EntitlementsAssumption DEF Declared
<1>3. ASSUME NEW raw \in Raw PROVE Decode(key, raw).limit \in Int64 /\ Decode(key, raw).limit >= -1
  <2>1. CASE WellFormed(key, raw)
    <3>1. raw.kind = "int" /\ raw.n >= -1
      BY <1>2, <2>1 DEF WellFormed
    <3>2. raw.n \in Int64
      BY <1>3, <3>1 DEF Raw, Bool, Number, Junk, Absent
    <3>3. Decode(key, raw).limit = raw.n
      BY <1>2, <2>1 DEF Decode
    <3> QED
      BY <3>1, <3>2, <3>3
  <2>2. CASE ~WellFormed(key, raw)
    BY <1>1, <2>2 DEF Decode, Closed
  <2> QED
    BY <2>1, <2>2
<1>4. Default[key] \in Raw /\ contents[key] \in Raw
  BY <1>2, EntitlementsAssumption
<1>5. key \in DOMAIN Values(contents) => Values(contents)[key] = Decode(key, contents[key])
  BY DEF Values
<1>6. Resolve(TRUE, Values(contents), key) \in {Decode(key, contents[key]), Decode(key, Default[key])}
  BY <1>2, <1>5 DEF Resolve
<1> QED
  BY <1>3, <1>4, <1>6

LEMMA WrapIsExact == ASSUME NEW n \in Int64 PROVE Wrap(n) = n
<1>1. MaxInt \in Nat
  BY EntitlementsAssumption
<1>2. n \in Int /\ -MaxInt - 1 <= n /\ n <= MaxInt
  BY <1>1 DEF Int64
<1>3. PICK m \in Nat : m = n + MaxInt + 1 /\ m < 2 * (MaxInt + 1)
  BY <1>1, <1>2
<1>4. 2 * (MaxInt + 1) \in Nat /\ m % (2 * (MaxInt + 1)) = m
  BY <1>1, <1>3
<1> QED
  BY <1>1, <1>2, <1>3, <1>4 DEF Wrap

LEMMA ComparedExactly ==
    ASSUME NEW limit \in Int64, limit >= -1,
           NEW used \in Int64 \cap Nat, NEW adding \in Int64 \cap Nat
    PROVE  Check(limit, used, adding) = "refused" <=> limit >= 0 /\ adding > 0 /\ used + adding > limit
<1>1. PICK max \in Nat : max = MaxInt
  BY EntitlementsAssumption
<1>2. Int64 = (-max - 1)..max
  BY <1>1 DEF Int64
<1>3. used \in Nat /\ adding \in Nat /\ limit \in Int /\ adding <= max
  BY <1>1, <1>2
<1>4. limit >= 0 => limit - adding \in Int64
  BY <1>1, <1>2, <1>3
<1>5. limit >= 0 => (Fits(limit, used, adding) <=> used <= limit - adding)
  BY <1>4, WrapIsExact DEF Fits
<1>6. Check(limit, used, adding) =
        IF adding = 0 \/ limit = -1 \/ Fits(limit, used, adding) THEN "allowed" ELSE "refused"
  <2>1. ~(used < 0) /\ ~(adding < 0)
    BY <1>3
  <2> QED
    BY <2>1, Zenon DEF Check
<1> HIDE DEF Check, Fits
<1>7. CASE limit = -1
  <2>1. ~(limit >= 0)
    BY <1>7
  <2> QED
    BY <1>6, <1>7, <2>1
<1>8. CASE limit >= 0
  <2>1. used <= limit - adding <=> ~(used + adding > limit)
    BY <1>3
  <2>2. limit # -1 /\ (adding = 0 <=> ~(adding > 0))
    BY <1>3, <1>8
  <2> QED
    BY <1>5, <1>6, <1>8, <2>1, <2>2
<1> QED
  BY <1>3, <1>7, <1>8

LEMMA ScopeTyped == EntitlementsSpec => [](scope \in [Key -> Raw])
<1>1. EntitlementsInit => scope \in [Key -> Raw]
  BY DEF EntitlementsInit, Raw
<1>2. scope \in [Key -> Raw] /\ [EntitlementsNext]_scope => (scope \in [Key -> Raw])'
  BY DEF EntitlementsNext, Deliver
<1> QED
  BY <1>1, <1>2, PTL DEF EntitlementsSpec

\* A ceiling is compared exactly for every limit and every two counts of any
\* width: the subtraction that does not wrap is the one Check makes (store.go
\* Store.Check).
THEOREM CeilingsAreExact == EntitlementsSpec => []CheckExact
<1>1. ASSUME scope \in [Key -> Raw] PROVE CheckExact
  <2> SUFFICES ASSUME NEW key \in LimitKey, NEW used \in Int64 \cap Nat, NEW adding \in Int64 \cap Nat
               PROVE  LET limit == Resolve(TRUE, Values(scope), key).limit IN
                      Check(limit, used, adding) = "refused" <=>
                         limit >= 0 /\ adding > 0 /\ used + adding > limit
    BY DEF CheckExact
  <2>1. PICK limit : limit = Resolve(TRUE, Values(scope), key).limit
    OBVIOUS
  <2>2. limit \in Int64 /\ limit >= -1
    BY <1>1, <2>1, RawLimits
  <2> QED
    BY <2>1, <2>2, ComparedExactly
<1> QED
  BY <1>1, ScopeTyped, PTL

\* What a Store answers survives its saved document: every declared key keeps
\* its value through Export and Import, for any scope a snapshot can give, and
\* a limit is never below unlimited (persist.go encodeValue; decode.go).
THEOREM DocumentsKeepAnswers == EntitlementsSpec => []RoundTrip
<1>1. ASSUME scope \in [Key -> Raw] PROVE RoundTrip
  <2> DEFINE values == Values(scope)
             document == Document(values)
  <2>1. DOMAIN values = Index(scope) /\ DOMAIN document = Index(scope)
        /\ \A k \in Index(scope) : values[k] = Decode(k, scope[k]) /\ document[k] = Encode(k, values[k])
    BY DEF Values, Document
  <2>2. Index(scope) \subseteq Declared /\ \A k \in Index(scope) : WellFormed(k, scope[k]) /\ scope[k] \in Raw
    BY <1>1 DEF Index
  <2>3. ASSUME NEW k \in Index(scope)
        PROVE  /\ document[k] # Absent /\ WellFormed(k, document[k])
               /\ Decode(k, document[k]) = values[k]
    <3>1. CASE k \in BoolKey
      <4>1. PICK b \in BOOLEAN : b = (scope[k].n = 1)
        OBVIOUS
      <4>2. values[k] = [enabled |-> b, limit |-> 0]
        BY <2>1, <2>2, <3>1, <4>1 DEF Decode
      <4>3. document[k] = Bool(b)
        BY <2>1, <3>1, <4>2 DEF Encode
      <4>4. Bool(b).kind = "bool" /\ (Bool(b).n = 1) = b
        BY DEF Bool
      <4>5. WellFormed(k, document[k])
        BY <3>1, <4>3, <4>4 DEF WellFormed
      <4>6. Decode(k, document[k]) = [enabled |-> b, limit |-> 0]
        BY <3>1, <4>3, <4>4, <4>5 DEF Decode
      <4> QED
        BY <4>2, <4>3, <4>4, <4>5, <4>6 DEF Absent
    <3>2. CASE k \notin BoolKey
      <4>1. k \in LimitKey /\ scope[k].kind = "int" /\ scope[k].n >= -1
        BY <2>2, <3>2 DEF WellFormed
      <4>2. values[k] = [enabled |-> FALSE, limit |-> scope[k].n]
        BY <2>1, <2>2, <3>2 DEF Decode
      <4>3. document[k] = Number(scope[k].n)
        BY <2>1, <3>2, <4>2 DEF Encode
      <4>4. document[k].kind = "int" /\ document[k].n = scope[k].n
        BY <4>3 DEF Number
      <4>5. WellFormed(k, document[k])
        BY <4>1, <4>4 DEF WellFormed
      <4> QED
        BY <3>2, <4>2, <4>4, <4>5 DEF Decode, Absent
    <3> QED
      BY <3>1, <3>2
  <2> HIDE DEF document, values
  <2>4. Index(document) = Index(scope)
    <3>1. {k \in DOMAIN document : document[k] # Absent} = Index(scope)
      BY <2>1, <2>3
    <3>2. ~(Cardinality(Index(scope)) > MaxKeys)
      <4> DEFINE present == {k \in DOMAIN scope : scope[k] # Absent}
      <4>1. IsFiniteSet(present) /\ Cardinality(present) \in Nat /\ MaxKeys \in Nat
        BY <1>1, FS_Subset, FS_CardinalityType, EntitlementsAssumption
      <4>2. CASE Cardinality(present) > MaxKeys
        <5>1. Index(scope) = {}
          BY <4>2 DEF Index
        <5> QED
          BY <4>1, <5>1, FS_EmptySet
      <4>3. CASE ~(Cardinality(present) > MaxKeys)
        <5>1. Index(scope) \subseteq present
          BY <4>3 DEF Index
        <5>2. Cardinality(Index(scope)) \in Nat /\ Cardinality(Index(scope)) <= Cardinality(present)
          BY <4>1, <5>1, FS_Subset, FS_CardinalityType
        <5> QED
          BY <4>1, <4>3, <5>2
      <4> QED
        BY <4>2, <4>3
    <3> QED
      BY <2>2, <2>3, <3>1, <3>2 DEF Index
  <2>5. Values(document) = values
    BY <2>1, <2>3, <2>4 DEF Values, values
  <2>6. ASSUME NEW key \in Key PROVE Resolve(TRUE, values, key).limit >= -1
    <3>1. CASE key \in LimitKey
      BY <1>1, <3>1, RawLimits DEF values
    <3>2. CASE key \notin Declared
      BY <3>2 DEF Resolve, Closed
    <3>3. CASE key \in BoolKey
      <4>1. \A raw : Decode(key, raw).limit = 0
        BY <3>3 DEF Decode, Closed
      <4> QED
        BY <2>1, <3>3, <4>1 DEF Resolve, Declared
    <3> QED
      BY <3>1, <3>2, <3>3 DEF Declared
  <2> QED
    BY <2>5, <2>6 DEF RoundTrip, values, document
<1> QED
  BY <1>1, ScopeTyped, PTL
=============================================================================
