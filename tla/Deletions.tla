----------------------------- MODULE Deletions -----------------------------
(***************************************************************************)
(* The receiver of Registre's erasures, directory.Deletions: Poll drains   *)
(* Registre's list page by page, Handler takes one pushed notice, and both *)
(* run under d.mu, so the receiver is in one place at a time: pc.  Each    *)
(* person goes through OnPersonDeleted and Erase, is recorded in memory,   *)
(* and counts once the record is stored.                                   *)
(*                                                                         *)
(* Registre, the StateStore and the clock are the environment.  Registre   *)
(* stamps an erasure and lists it up to CommitDelay later, so a notice can *)
(* appear behind one that is already listed.  An instant of the model is   *)
(* Registre's microsecond; Overlap, Retention and the rest count instants. *)
(* The receiver is the only writer of its state, so forgetting the copy in *)
(* memory (d.state = nil) leaves in mem what the next load will read.      *)
(***************************************************************************)
EXTENDS Integers, FiniteSets

CONSTANTS Person,
          Limit,        \* listLimit: people per page
          Overlap,      \* overlap: how far a poll backs up
          Retention,    \* DeletionRetention: how long Registre lists a person
          CommitDelay,  \* how late Registre lists what it stamped
          MaxPoll,      \* bound: how long one poll may take
          Instant,      \* bound: the instants the clock passes
          MaxFaults     \* bound on failed calls and crashes together

ASSUME ConstantsAssumption ==
    /\ Limit \in Nat \ {0} /\ Overlap \in Nat /\ Retention \in Nat
    /\ CommitDelay \in Nat /\ MaxPoll \in Nat /\ MaxFaults \in Nat
    /\ Instant \in SUBSET (Nat \ {0})

VARIABLES
    now,
    at,        \* Registre's deleted_at, 0 for a person it has not erased
    listed,    \* the erasures Registre's list shows
    disk,      \* the stored deletionState: cursor and done
    mem,       \* d.state
    pc,        \* who holds d.mu, and where it is
    since,     \* drain's since
    page,      \* the page being handled
    todo,      \* the people of it not handled yet
    handled,   \* pollResult.handled
    failed,    \* pollResult.failed, 0 when nobody failed
    begun,     \* when the poll began
    faults,
    fate       \* history: whether a person was stored as done, or called again after it

registre == <<now, at, listed>>
locals == <<since, page, todo, handled, failed, begun>>
vars == <<now, at, listed, disk, mem, pc, since, page, todo, handled, failed, begun, faults, fate>>

Time == Instant \cup {0}
State == [cursor : Time, done : [Person -> Time]]
Polling == {"list", "handle", "cursor", "save_cursor"}
Expired(p) == at[p] <= now - Retention

Init ==
    /\ now = 0
    /\ at = [p \in Person |-> 0]
    /\ listed = {}
    /\ disk = [cursor |-> 0, done |-> [p \in Person |-> 0]]
    /\ mem = disk
    /\ pc = "idle"
    /\ since = 0 /\ page = {} /\ todo = {} /\ handled = {} /\ failed = 0 /\ begun = 0
    /\ faults = 0
    /\ fate = [p \in Person |-> "new"]

-----------------------------------------------------------------------------
(* Registre and the clock.  Its API cannot list Limit people erased in one *)
(* instant (errSameInstant), so it never stamps that many.                 *)

Stamp(p) ==
    /\ at[p] = 0 /\ now # 0
    /\ Cardinality({q \in Person : at[q] = now}) + 1 < Limit
    /\ at' = [at EXCEPT ![p] = now]
    /\ UNCHANGED <<now, listed, disk, mem, pc, locals, faults, fate>>

List(p) ==
    /\ at[p] # 0 /\ p \notin listed
    /\ listed' = listed \cup {p}
    /\ UNCHANGED <<now, at, disk, mem, pc, locals, faults, fate>>

Tick ==
    /\ now' \in {t \in Instant : t > now}
    /\ \A p \in Person \ listed : at[p] # 0 => now' <= at[p] + CommitDelay
    /\ pc \in Polling => now' <= begun + MaxPoll
    /\ UNCHANGED <<at, listed, disk, mem, pc, locals, faults, fate>>

-----------------------------------------------------------------------------
(* Handling one person and storing the record. *)

Fault ==
    /\ faults < MaxFaults
    /\ faults' = faults + 1

\* Mutant: a person is forgotten while Registre still lists them.
Prunable_TooEarly(when, time) == time - when > Overlap

Prunable(when, time) == time - when > Retention + Overlap

Record(state, p, time) ==
    [state EXCEPT !.done = [q \in Person |->
        IF q = p THEN time
        ELSE IF Prunable(state.done[q], time) THEN 0 ELSE state.done[q]]]

\* OnPersonDeleted runs for p.
Call(p) == fate' = [fate EXCEPT ![p] = IF @ = "new" THEN "new" ELSE "again"]

\* erase returned nil.
Erased(p) ==
    /\ mem.done[p] = 0
    /\ Call(p)
    /\ mem' = Record(mem, p, now)
    /\ UNCHANGED faults

\* The callback or Erase failed.
NotErased(p) ==
    /\ mem.done[p] = 0
    /\ Fault
    /\ Call(p)
    /\ UNCHANGED mem

AlreadyDone(p) ==
    /\ mem.done[p] # 0
    /\ UNCHANGED <<mem, fate, faults>>

Stored ==
    fate' = [p \in Person |-> IF mem.done[p] # 0 /\ fate[p] = "new" THEN "saved" ELSE fate[p]]

Persisted ==
    /\ disk' = mem /\ Stored
    /\ UNCHANGED <<mem, faults>>

\* Mutant: the copy in memory survives a failed save.
NotPersisted_KeepsMem ==
    /\ Fault
    /\ \/ UNCHANGED <<disk, fate>>
       \/ disk' = mem /\ Stored
    /\ UNCHANGED mem

\* Save failed: d.state = nil.  The store may hold the new state all the same.
NotPersisted ==
    /\ Fault
    /\ \/ UNCHANGED <<disk, fate>>
       \/ disk' = mem /\ Stored
    /\ mem' = disk'

-----------------------------------------------------------------------------
(* Poll. *)

Since(state) == IF state.cursor = 0 THEN now - Retention ELSE state.cursor - Overlap

\* d.mu is released and the poll's locals are gone.
Return ==
    /\ pc' = "idle"
    /\ since' = 0 /\ page' = {} /\ todo' = {} /\ handled' = {} /\ failed' = 0 /\ begun' = 0

BeginPoll ==
    /\ pc = "idle"
    /\ pc' = "list"
    /\ since' = Since(mem)
    /\ page' = {} /\ todo' = {} /\ handled' = {} /\ failed' = 0 /\ begun' = now
    /\ UNCHANGED <<registre, disk, mem, faults, fate>>

\* What Registre may answer: at most Limit of the people after since, oldest first.
Listable == {p \in listed : at[p] > since /\ ~Expired(p)}
Pages ==
    {pg \in SUBSET Listable :
        /\ Cardinality(pg) <= Limit
        /\ Cardinality(pg) = Limit \/ pg = Listable
        /\ \A p \in pg, q \in Listable \ pg : at[p] <= at[q]}

ListPage ==
    /\ pc = "list"
    /\ \/ /\ page' \in Pages
          /\ todo' = page'
          /\ pc' = "handle"
          /\ UNCHANGED faults
       \/ /\ Fault
          /\ pc' = "cursor"
          /\ UNCHANGED <<page, todo>>
    /\ UNCHANGED <<registre, disk, mem, since, handled, failed, begun, fate>>

Earliest(time) == IF failed = 0 \/ time < failed THEN time ELSE failed

Handle(p) ==
    /\ pc = "handle" /\ p \in todo
    /\ \A q \in todo : at[p] <= at[q]
    /\ todo' = todo \ {p}
    /\ \/ (Erased(p) \/ AlreadyDone(p)) /\ handled' = handled \cup {at[p]} /\ UNCHANGED failed
       \/ NotErased(p) /\ failed' = Earliest(at[p]) /\ UNCHANGED handled
    /\ UNCHANGED <<registre, disk, pc, since, page, begun>>

\* Mutant: one page per poll.
MorePages_Never(last) == FALSE

\* The page is full and last ends it: the next one starts an instant before
\* last.  When that is no progress, errSameInstant ends the drain.
MorePages(last) ==
    /\ Cardinality(page) >= Limit
    /\ \A p \in page : at[p] <= at[last]
    /\ at[last] - 1 > since

SavePage ==
    /\ pc = "handle" /\ todo = {}
    /\ \/ /\ Persisted
          /\ \/ \E last \in page : MorePages(last) /\ since' = at[last] - 1 /\ pc' = "list"
             \/ (\A last \in page : ~MorePages(last)) /\ UNCHANGED since /\ pc' = "cursor"
          /\ UNCHANGED <<page, todo, handled, failed, begun>>
       \/ NotPersisted /\ Return
    /\ UNCHANGED registre

\* Mutant: the newest person handled, whoever failed before them.
CursorAfter_IgnoresFailure == handled

CursorAfter == {t \in handled : failed = 0 \/ t < failed}

MoveCursor ==
    /\ pc = "cursor"
    /\ \/ \E t \in CursorAfter :
            /\ \A u \in CursorAfter : u <= t
            /\ t > mem.cursor
            /\ mem' = [mem EXCEPT !.cursor = t]
            /\ pc' = "save_cursor"
            /\ UNCHANGED locals
       \/ /\ \A t \in CursorAfter : t <= mem.cursor
          /\ Return
          /\ UNCHANGED mem
    /\ UNCHANGED <<registre, disk, faults, fate>>

SaveCursor ==
    /\ pc = "save_cursor"
    /\ Persisted \/ NotPersisted
    /\ Return
    /\ UNCHANGED registre

-----------------------------------------------------------------------------
(* Handler: a notice that verifies names a person Registre lists. *)

Push(p) ==
    /\ pc = "idle" /\ p \in listed /\ ~Expired(p)
    /\ \/ (Erased(p) \/ AlreadyDone(p)) /\ pc' = "push"
       \/ NotErased(p) /\ UNCHANGED pc
    /\ UNCHANGED <<registre, disk, locals>>

SavePush ==
    /\ pc = "push"
    /\ Persisted \/ NotPersisted
    /\ pc' = "idle"
    /\ UNCHANGED <<registre, locals>>

\* The process stops; the next one starts from what is stored.
Crash ==
    /\ Fault
    /\ Return /\ mem' = disk
    /\ UNCHANGED <<registre, disk, fate>>

Environment == Tick \/ Crash \/ \E p \in Person : Stamp(p) \/ List(p)

Poll == BeginPoll \/ ListPage \/ SavePage \/ MoveCursor \/ SaveCursor \/ \E p \in Person : Handle(p)

Handler == SavePush \/ \E p \in Person : Push(p)

Next == Environment \/ Poll \/ Handler

Spec == Init /\ [][Next]_vars

\* Every call returns, the ticker fires, and d.mu does not starve Poll.
FairSpec ==
    /\ Spec
    /\ SF_vars(BeginPoll)
    /\ WF_vars(ListPage) /\ WF_vars(SavePage) /\ WF_vars(MoveCursor)
    /\ WF_vars(SaveCursor) /\ WF_vars(SavePush)
    /\ \A p \in Person : WF_vars(Handle(p))

-----------------------------------------------------------------------------
(* Properties. *)

\* Every variable has its shape, what the holder of d.mu leaves in memory is what is
\* stored, and nobody is recorded before Registre erased them (deletions.go
\* persist, deletions_state.go load).
TypeOK ==
    /\ now \in Time /\ at \in [Person -> Time] /\ listed \in SUBSET Person
    /\ disk \in State /\ mem \in State
    /\ pc \in Polling \cup {"idle", "push"}
    /\ since \in Int /\ page \in SUBSET Person /\ todo \in SUBSET page
    /\ handled \in SUBSET Time /\ failed \in Time /\ begun \in Time
    /\ faults \in 0..MaxFaults
    /\ fate \in [Person -> {"new", "saved", "again"}]
    /\ pc \in {"idle", "list", "cursor"} => mem = disk
    /\ \A p \in Person : at[p] <= now /\ (mem.done[p] # 0 => 0 < at[p] /\ at[p] <= mem.done[p])
    /\ \A p \in listed : at[p] # 0

\* A person Registre lists is handled and stored, or the next poll of a
\* restarted process lists them: the cursor never passes somebody pending
\* (deletions_poll.go cursorAfter, deletions_state.go since).
NobodySkipped ==
    \A p \in listed :
        disk.done[p] = 0 => at[p] > disk.cursor - Overlap \/ Expired(p)

\* Once a person is stored as handled, OnPersonDeleted never runs for them
\* again, by poll, by push or after a restart, although the record is pruned
\* (deletions_state.go done and record).
HandledOnce == \A p \in Person : fate[p] # "again"

\* Once calls stop failing, everybody Registre lists is handled and stored
\* unless Registre stopped listing them first (deletions.go Run).
EveryoneErased == \A p \in Person : p \in listed ~> (fate[p] # "new" \/ Expired(p))

=============================================================================
