------------------------------- MODULE Syncer -------------------------------
(***************************************************************************)
(* porte/directory's Syncer and the forfait.Store an app feeds from it:    *)
(* nudges, Run's loop, Sync under its mutex, what the app's Apply writes,  *)
(* the document it saves, and restarts.  Registre is the environment: it   *)
(* changes, is unreachable for a while, and may be restored from a backup. *)
(***************************************************************************)
EXTENDS Entitlements

CONSTANTS Puller, Run,     \* goroutines that call Sync; Run is the loop
          MaxChanges,      \* bound on Registre's changes
          Feed             \* workloads: how many changes, faults, crashes, restores, resets
                           \* and boot calls of Sync may happen

ASSUME SyncerAssumption ==
    /\ Run \in Puller
    /\ "free" \notin Puller
    /\ MaxChanges \in Nat
    /\ Feed \subseteq [changes : 0..MaxChanges, faults : Nat, crashes : Nat,
                       restores : Nat, resets : Nat, syncs : Nat]

VARIABLES
    registre,    \* Registre's two versions, and an id for its contents
    backups,     \* what it held at each id
    nudge,       \* the channel of one
    loop,        \* where Run is
    sync,        \* what each call of Sync holds
    mutex,
    applied,     \* Syncer.applied
    tables,      \* id of the snapshot the app's tables match
    store,       \* the forfait.Store in memory
    saved,       \* the last Export the app saved
    owed,        \* history: latest id announced by a nudge that was taken
    tried,       \* history: id at the last fetch Run began
    left,        \* what is left of the workload
    restored     \* history: a restore has happened

yvars == <<registre, backups, nudge, loop, sync, mutex, applied, tables, store, saved,
           owed, tried, left, restored>>

Free == "free"
NoSync == [pc |-> "idle", snap |-> Empty]

SyncerInit ==
    /\ left \in Feed
    /\ registre = [version |-> 0, revision |-> 0, id |-> 1]
    /\ backups = {registre}
    /\ nudge = FALSE /\ loop = "boot"
    /\ sync = [p \in Puller |-> NoSync] /\ mutex = Free
    /\ applied = 0 /\ tables = 0 /\ store = Empty /\ saved = Empty
    /\ owed = 0 /\ tried = 0 /\ restored = FALSE

AppStays == UNCHANGED <<applied, tables, store, saved>>
RegistreStays == UNCHANGED <<registre, backups, restored>>
NudgesStay == UNCHANGED <<nudge, owed>>

Spend(what) == left[what] > 0 /\ left' = [left EXCEPT ![what] = @ - 1]

-----------------------------------------------------------------------------
(* Registre and its nudges. *)

\* Every change raises the version; a push from Ardoise the revision too.
Change ==
    /\ Spend("changes")
    /\ \E push \in {0, 1} :
          registre' = [version |-> registre.version + 1, revision |-> registre.revision + push,
                       id |-> Cardinality(backups) + 1]
    /\ backups' = backups \cup {registre'}
    /\ UNCHANGED <<nudge, loop, sync, mutex, applied, tables, store, saved, owed, tried, restored>>

RestoreRegistre ==
    /\ Spend("restores")
    /\ registre' \in backups /\ registre'.id < registre.id
    /\ restored' = TRUE
    /\ UNCHANGED <<backups, nudge, loop, sync, mutex, applied, tables, store, saved, owed, tried>>

\* The handler answers 202 and never blocks; a pending nudge covers this one.
Nudge ==
    /\ loop # "boot" /\ owed # registre.id
    /\ nudge' = TRUE /\ owed' = registre.id
    /\ UNCHANGED <<loop, sync, mutex, tried, left>> /\ AppStays /\ RegistreStays

-----------------------------------------------------------------------------
(* Run. *)

\* At boot the app imports what it saved, then starts Run; it may call Sync too.
Boot ==
    /\ loop = "boot"
    /\ store' = Import(store, saved)
    /\ sync' = [sync EXCEPT ![Run].pc = "lock"]
    /\ loop' = "pull"
    /\ UNCHANGED <<mutex, applied, tables, saved, tried, left>> /\ RegistreStays /\ NudgesStay

Tick ==
    /\ loop = "select"
    /\ loop' = "pull" /\ sync' = [sync EXCEPT ![Run].pc = "lock"]
    /\ UNCHANGED <<mutex, tried, left>> /\ AppStays /\ RegistreStays /\ NudgesStay

Woken ==
    /\ loop = "select" /\ nudge
    /\ nudge' = FALSE /\ loop' = "debounce"
    /\ UNCHANGED <<sync, mutex, owed, tried, left>> /\ AppStays /\ RegistreStays

\* The sleep is over: drain, then pull.
Drain ==
    /\ loop = "debounce"
    /\ nudge' = FALSE
    /\ loop' = "pull" /\ sync' = [sync EXCEPT ![Run].pc = "lock"]
    /\ UNCHANGED <<mutex, owed, tried, left>> /\ AppStays /\ RegistreStays

\* Where a call of Sync goes when it returns.
Released(p) ==
    /\ mutex' = Free
    /\ sync' = [sync EXCEPT ![p] = NoSync]
    /\ loop' = IF p = Run THEN "select" ELSE loop

-----------------------------------------------------------------------------
(* Sync. *)

\* A boot path or a test calls Sync beside Run.
Sync(p) ==
    /\ p # Run /\ loop # "boot" /\ sync[p].pc = "idle" /\ Spend("syncs")
    /\ sync' = [sync EXCEPT ![p].pc = "lock"]
    /\ UNCHANGED <<loop, mutex, tried>> /\ AppStays /\ RegistreStays /\ NudgesStay

Lock(p) ==
    /\ sync[p].pc = "lock" /\ mutex = Free
    /\ mutex' = p /\ sync' = [sync EXCEPT ![p].pc = "fetch"]
    /\ tried' = IF p = Run THEN registre.id ELSE tried
    /\ UNCHANGED <<loop, left>> /\ AppStays /\ RegistreStays /\ NudgesStay

\* Client.Snapshot: Registre's state while the call is out, or an error.
Fetch(p) ==
    /\ sync[p].pc = "fetch"
    /\ \/ sync' = [sync EXCEPT ![p] = [pc |-> "decide", snap |-> registre]]
          /\ UNCHANGED <<loop, mutex, left>>
       \/ Spend("faults") /\ Released(p)
    /\ UNCHANGED tried /\ AppStays /\ RegistreStays /\ NudgesStay

\* A version that was applied already.  0 is none.
Same(snap) == snap.version # 0 /\ snap.version = applied

\* Mutant: the version is stored before the Apply that may fail.
Decide_Stamps(p) ==
    /\ sync[p].pc = "decide"
    /\ IF Same(sync[p].snap) THEN Released(p) /\ UNCHANGED applied
       ELSE /\ sync' = [sync EXCEPT ![p].pc = "apply"] /\ UNCHANGED <<loop, mutex>>
            /\ applied' = sync[p].snap.version
    /\ UNCHANGED <<tables, store, saved, tried, left>> /\ RegistreStays /\ NudgesStay

Decide(p) ==
    /\ sync[p].pc = "decide"
    /\ IF Same(sync[p].snap) THEN Released(p)
       ELSE sync' = [sync EXCEPT ![p].pc = "apply"] /\ UNCHANGED <<loop, mutex>>
    /\ UNCHANGED <<tried, left>> /\ AppStays /\ RegistreStays /\ NudgesStay

\* The app's Apply: its tables in a transaction, then the Store; it may fail first.
Apply(p) ==
    /\ sync[p].pc = "apply"
    /\ \/ /\ tables' = sync[p].snap.id
          /\ store' = StoreApply(store, sync[p].snap)
          /\ sync' = [sync EXCEPT ![p].pc = "save"]
          /\ UNCHANGED <<loop, mutex, left>>
       \/ Spend("faults") /\ Released(p) /\ UNCHANGED <<tables, store>>
    /\ UNCHANGED <<applied, saved, tried>> /\ RegistreStays /\ NudgesStay

\* It saves Export's document; a failure may fail the Apply or be logged.
Export(p) ==
    /\ sync[p].pc = "save"
    /\ \/ saved' = store /\ sync' = [sync EXCEPT ![p].pc = "stamp"] /\ UNCHANGED <<loop, mutex, left>>
       \/ /\ Spend("faults") /\ UNCHANGED saved
          /\ \/ Released(p)
             \/ sync' = [sync EXCEPT ![p].pc = "stamp"] /\ UNCHANGED <<loop, mutex>>
    /\ UNCHANGED <<applied, tables, store, tried>> /\ RegistreStays /\ NudgesStay

\* Mutant: Sync's deferred end also empties the channel.
Stamp_Drains(p) ==
    /\ sync[p].pc = "stamp"
    /\ applied' = sync[p].snap.version
    /\ nudge' = FALSE
    /\ Released(p)
    /\ UNCHANGED <<tables, store, saved, tried, left, owed>> /\ RegistreStays

Stamp(p) ==
    /\ sync[p].pc = "stamp"
    /\ applied' = sync[p].snap.version
    /\ Released(p)
    /\ UNCHANGED <<tables, store, saved, tried, left>> /\ RegistreStays /\ NudgesStay

\* Store.Reset after a restore, and the saved document with it.
Reset ==
    /\ restored /\ loop # "boot" /\ Spend("resets")
    /\ store' = Empty /\ saved' = Empty
    /\ UNCHANGED <<loop, sync, mutex, applied, tables, tried>> /\ RegistreStays /\ NudgesStay

\* The process ends, at any point or with its context, and starts again.
Crash ==
    /\ Spend("crashes") /\ loop # "boot"
    /\ loop' = "boot" /\ nudge' = FALSE /\ mutex' = Free
    /\ sync' = [p \in Puller |-> NoSync]
    /\ applied' = 0 /\ store' = Empty
    /\ UNCHANGED <<tables, saved, owed, tried>> /\ RegistreStays

Pull(p) == Lock(p) \/ Fetch(p) \/ Decide(p) \/ Apply(p) \/ Export(p) \/ Stamp(p)
Wake == Boot \/ Tick \/ Woken \/ Drain

SyncerNext ==
    \/ Change \/ RestoreRegistre \/ Nudge \/ Reset \/ Crash
    \/ Wake
    \/ \E p \in Puller : Sync(p) \/ Pull(p)

\* The ticker fires for as long as the process runs, the goroutines are
\* scheduled, and a call to Registre ends within the client's timeout.
SyncerFairness == WF_yvars(Wake) /\ \A p \in Puller : WF_yvars(Pull(p))

SyncerSpec == SyncerInit /\ [][SyncerNext]_yvars /\ SyncerFairness

-----------------------------------------------------------------------------
(* Properties. *)

\* A nudge the handler took is covered by a pull that began after it, though
\* nudges collapse, the debounce drains and Sync is busy: when Run waits with
\* an empty channel it has tried the change announced (syncer.go Nudge, Run,
\* wait.go drain).
NudgesCovered == loop = "select" /\ ~nudge /\ ~restored => tried >= owed

\* The document an app saves never goes back to older entitlements, whatever
\* restarts and restores of Registre happen, except by Reset (persist.go
\* Import, store.go accepts).
SavedNeverOlder ==
    [][\/ saved' = Empty /\ store' = Empty /\ left'.resets < left.resets
       \/ saved'.revision > saved.revision
       \/ saved'.revision = saved.revision /\ saved'.version >= saved.version]_yvars

\* What the package promises: Mirror, with the snapshot's id for the state.
Promise == INSTANCE Mirror WITH States <- 1..(MaxChanges + 1), truth <- registre.id,
                                  shown <- tables, trusted <- ~restored

\* The app's tables follow Registre forwards only and catch up in the end,
\* through overlapping calls of Sync, failures and restarts (syncer.go Sync).
MirrorsRegistre == Promise!MirrorSpec

\* The Store catches up in the end too, and then stays (store.go Apply).
PlanArrives == <>[](restored \/ registre.revision = 0 \/ store.id = registre.id)

\* "Call Reset ... The next pull then applies normally" (recovery.go Reset).
ResetRecovers == []<>(store.revision > 0 \/ registre.revision = 0)
=============================================================================
