-------------------------- MODULE MagicLinksProofs --------------------------
(***************************************************************************)
(* For any requests, consumers, erasures and caps: the shape of the state, *)
(* one live link per account, no link behind an erasure's back, that       *)
(* porte/pg's transactions implement the store contract, that a link is    *)
(* spent once, and that the caps hold whatever is swept.                   *)
(***************************************************************************)
EXTENDS MagicLinks, FiniteSetTheorems, TLAPS

LiveFor(u) == {l \in Link : Account[l] = u /\ rows[l] = "live"}

\* What each label says of a process's locks and rows.
UnderUserLock == {"lock_link", "supersede", "insert"}
UnderLinkLock == {"supersede", "insert"}
Erasing == {"delete", "commit"}

\* The two advisory locks exclude whom they must.
Exclusion ==
    /\ \A j, k \in Link :
          pc[j] \in UnderLinkLock /\ pc[k] \in UnderLinkLock /\ Account[j] = Account[k] => j = k
    /\ \A r \in Link, e \in Eraser :
          pc[r] \in UnderUserLock /\ pc[e] \in Erasing => Account[r] # Erased[e]
    /\ \A e, f \in Eraser :
          pc[e] \in Erasing /\ pc[f] \in Erasing /\ Erased[e] = Erased[f] => e = f

\* What an open transaction has written is what its commit may rely on.
Writes ==
    /\ \A r \in Link : pc[r] = "insert" => pending[r] = LiveFor(Account[r])
    /\ \A e \in Eraser : pc[e] = "commit" => pending[e] = StoredFor(Erased[e])
    /\ \A r \in Link : rows[r] # "none" => pc[r] \in {"send", "done"}

Tokens == \A c \in Consumer : pc[c] \in {"consume", "allow"} => token[c] \in Link

IInv == TypeOK /\ Exclusion /\ Writes /\ Tokens /\ OneLiveLink

\* An empty link table, every request at its start (pg.go Schema).
LEMMA InitIInv == Init => IInv
<1> SUFFICES ASSUME Init PROVE IInv
  OBVIOUS
<1>1. TypeOK
  BY LinkAssumption DEF Init, TypeOK, Proc, Label, Time
<1>2. Exclusion /\ Writes /\ Tokens /\ OneLiveLink
  BY DEF Init, Exclusion, Writes, Tokens, OneLiveLink, UnderUserLock, UnderLinkLock, Erasing, Proc
<1>3. QED
  BY <1>1, <1>2 DEF IInv

\* A step that leaves the table and the uncommitted writes alone and enters
\* no critical section.
LEMMA QuietStep ==
  ASSUME IInv, TypeOK', UNCHANGED <<rows, pending>>, NEW p \in Proc,
         pc' = [pc EXCEPT ![p] = pc'[p]],
         \A l \in Link : rows[l] # "none" => pc'[l] \in {"send", "done"},
         pc'[p] \notin {"lock_link", "supersede", "insert", "delete", "commit"},
         \A c \in Consumer : pc'[c] \in {"consume", "allow"} => token'[c] \in Link
  PROVE  IInv'
<1>1. \A q \in Proc : q # p => pc'[q] = pc[q]
  BY DEF IInv, TypeOK
<1>2. Exclusion'
  BY <1>1 DEF IInv, Exclusion, UnderUserLock, UnderLinkLock, Erasing, Proc
<1>3. Writes'
  BY <1>1 DEF IInv, Writes, LiveFor, StoredFor, Stored, Proc
<1>4. Tokens' /\ OneLiveLink'
  BY DEF IInv, Tokens, OneLiveLink
<1>5. QED
  BY <1>2, <1>3, <1>4 DEF IInv

\* Rows leave the live and the stored set only where nobody has them locked.
LEMMA Unlocked ==
  ASSUME IInv, NEW l \in Link, l \notin Locked
  PROVE  /\ \A r \in Link : pc[r] = "insert" => l \notin LiveFor(Account[r])
         /\ \A e \in Eraser : pc[e] = "commit" => l \notin StoredFor(Erased[e])
BY DEF IInv, Writes, Locked

-----------------------------------------------------------------------------
(* Shapes.                                                                 *)

\* Every statement keeps the shape of the link table (magiclink.go Create,
\* Consume, DeleteExpired).
LEMMA NextTypeOK ==
  ASSUME TypeOK, Tokens, Next
  PROVE  TypeOK'
<1> USE LinkAssumption DEF TypeOK, Proc, tables, history, vars, Goto, At
<1>1. ASSUME NEW r \in Link, Lookup(r)
      PROVE  TypeOK'
  <2>1. begun' \in [Link -> SUBSET Link]
    BY <1>1 DEF Lookup, Stored
  <2>2. QED
    BY <1>1, <2>1 DEF Lookup, Label
<1>2. ASSUME NEW r \in Link, CountUser(r) \/ CountIP(r) \/ LockUser(r) \/ LockLink(r)
      PROVE  TypeOK'
  BY <1>2 DEF CountUser, CountIP, LockUser, LockLink, Label
<1>3. ASSUME NEW r \in Link, Supersede(r)
      PROVE  TypeOK'
  BY <1>3 DEF Supersede, Label
<1>4. ASSUME NEW r \in Link, InsertLink(r)
      PROVE  TypeOK'
  BY <1>4 DEF InsertLink, Label
<1>5. ASSUME NEW r \in Link, Deliver(r)
      PROVE  TypeOK'
  BY <1>5 DEF Deliver, Label
<1>6. ASSUME NEW c \in Consumer, Present(c) \/ Consume(c)
      PROVE  TypeOK'
  BY <1>6 DEF Present, Consume, Label, Tokens
<1>7. ASSUME NEW c \in Consumer, SignIn(c)
      PROVE  TypeOK'
  <2>1. sessions' \subseteq Consumer \X Link
    BY <1>7 DEF SignIn, Tokens
  <2>2. QED
    BY <1>7, <2>1 DEF SignIn, Label
<1>8. ASSUME NEW e \in Eraser, EraserStep(e)
      PROVE  TypeOK'
  BY <1>8 DEF EraserStep, EraserLock, EraserDelete, EraserCommit, Label, StoredFor, Stored
<1>9. ASSUME NEW p \in Link \cup Eraser, Abort(p)
      PROVE  TypeOK'
  BY <1>9 DEF Abort, Label
<1>10. CASE Sweep
  BY <1>10 DEF Sweep, Sweepable, Stored
<1>11. CASE Tick
  BY <1>11 DEF Tick, Time
<1>12. QED
  BY <1>1, <1>2, <1>3, <1>4, <1>5, <1>6, <1>7, <1>8, <1>9, <1>10, <1>11
  DEF Next, RequestStep, ConsumerStep, Finished

-----------------------------------------------------------------------------
(* The invariant, action by action.                                        *)

\* Steps that touch neither rows nor locks: lookups, counts, delivery, sign-in
\* (request.go Request, consume.go Consume).
LEMMA QuietIInv ==
  ASSUME IInv, TypeOK',
         \/ \E r \in Link : Lookup(r) \/ CountUser(r) \/ CountIP(r) \/ Deliver(r)
         \/ \E c \in Consumer : Present(c) \/ SignIn(c)
         \/ Tick \/ UNCHANGED vars
  PROVE  IInv'
<1> USE LinkAssumption DEF At, Goto, tables
<1>1. ASSUME NEW r \in Link, Lookup(r) \/ CountUser(r) \/ CountIP(r) \/ Deliver(r)
      PROVE  IInv'
  <2>1. /\ UNCHANGED <<rows, pending, token>>
        /\ pc[r] \in {"start", "count_user", "count_ip", "send"}
        /\ \/ pc' = [pc EXCEPT ![r] = "count_user"]
           \/ pc' = [pc EXCEPT ![r] = "count_ip"]
           \/ pc' = [pc EXCEPT ![r] = "lock_user"]
           \/ pc' = [pc EXCEPT ![r] = "done"]
        /\ pc[r] = "send" => pc' = [pc EXCEPT ![r] = "done"]
    BY <1>1 DEF Lookup, CountUser, CountIP, Deliver
  <2>2. /\ pc' = [pc EXCEPT ![r] = pc'[r]]
        /\ pc'[r] \in {"count_user", "count_ip", "lock_user", "done"}
        /\ \A q \in Proc : q # r => pc'[q] = pc[q]
        /\ pc[r] = "send" => pc'[r] = "done"
    BY <2>1 DEF IInv, TypeOK, Proc
  <2>3. \A l \in Link : rows[l] # "none" => pc'[l] \in {"send", "done"}
    BY <2>1, <2>2 DEF IInv, Writes, Proc
  <2>4. QED
    BY <2>1, <2>2, <2>3, QuietStep DEF IInv, Tokens, Proc
<1>2. ASSUME NEW c \in Consumer, Present(c) \/ SignIn(c)
      PROVE  IInv'
  <2>1. /\ UNCHANGED <<rows, pending>>
        /\ \/ pc' = [pc EXCEPT ![c] = "consume"] /\ \E l \in mailed : token' = [token EXCEPT ![c] = l]
           \/ pc' = [pc EXCEPT ![c] = "done"] /\ token' = token
    BY <1>2 DEF Present, SignIn
  <2>2. /\ pc' = [pc EXCEPT ![c] = pc'[c]] /\ pc'[c] \in {"consume", "done"}
        /\ \A q \in Proc : q # c => pc'[q] = pc[q]
        /\ pc'[c] = "consume" => token'[c] \in Link
        /\ \A d \in Consumer : d # c => token'[d] = token[d]
    BY <2>1 DEF IInv, TypeOK, Proc
  <2>3. \A l \in Link : rows[l] # "none" => pc'[l] \in {"send", "done"}
    BY <2>2 DEF IInv, Writes, Proc
  <2>4. QED
    BY <2>1, <2>2, <2>3, QuietStep DEF IInv, Tokens, Proc
<1>3. CASE Tick \/ UNCHANGED vars
  BY <1>3 DEF Tick, vars, IInv, Exclusion, Writes, Tokens, OneLiveLink, LiveFor, StoredFor, Stored
<1>4. QED
  BY <1>1, <1>2, <1>3

\* Before its insert a request takes the user's lock and the link lock, which
\* nobody else holds, and ends the account's live link (magiclink.go Create).
LEMMA LockIInv ==
  ASSUME IInv, TypeOK', NEW r \in Link, LockUser(r) \/ LockLink(r) \/ Supersede(r)
  PROVE  IInv'
<1> USE LinkAssumption DEF At, Goto, tables
<1>1. /\ UNCHANGED <<rows, token>> /\ rows[r] = "none" /\ pc[r] \in {"lock_user", "lock_link", "supersede"}
      /\ pc'[r] \in {"lock_link", "supersede", "insert"}
      /\ \A q \in Proc : q # r => pc'[q] = pc[q]
      /\ \A q \in Link \cup Eraser : q # r => pending'[q] = pending[q]
  BY DEF LockUser, LockLink, Supersede, IInv, TypeOK, Writes, Proc
<1>2. Exclusion'
  <2>1. CASE LockUser(r)
    BY <1>1, <2>1
    DEF LockUser, UserLocked, IInv, TypeOK, Exclusion, UnderUserLock, UnderLinkLock, Erasing, Proc
  <2>2. CASE LockLink(r)
    BY <1>1, <2>2
    DEF LockLink, LinkLocked, IInv, TypeOK, Exclusion, UnderUserLock, UnderLinkLock, Erasing, Proc
  <2>3. CASE Supersede(r)
    BY <1>1, <2>3
    DEF Supersede, IInv, TypeOK, Exclusion, UnderUserLock, UnderLinkLock, Erasing, Proc
  <2>4. QED
    BY <2>1, <2>2, <2>3
<1>3. Writes'
  <2>1. pc'[r] = "insert" => pending'[r] = LiveFor(Account[r])
    BY DEF LockUser, LockLink, Supersede, LiveFor, IInv, TypeOK, Proc
  <2>2. QED
    BY <1>1, <2>1 DEF IInv, Writes, LiveFor, StoredFor, Stored, Proc
<1>4. Tokens' /\ OneLiveLink'
  BY <1>1 DEF IInv, Tokens, OneLiveLink, Proc
<1>5. QED
  BY <1>2, <1>3, <1>4 DEF IInv

\* The commit of a new link: the account's other links are all ended by it.
LEMMA InsertIInv ==
  ASSUME IInv, TypeOK', NEW r \in Link, InsertLink(r)
  PROVE  IInv'
<1> USE LinkAssumption DEF At, Goto
<1>1. /\ pc[r] = "insert" /\ pc'[r] = "send" /\ pending[r] = LiveFor(Account[r])
      /\ UNCHANGED token
      /\ \A q \in Proc : q # r => pc'[q] = pc[q]
      /\ \A q \in Link \cup Eraser : q # r => pending'[q] = pending[q]
      /\ rows' = [l \in Link |-> IF l = r THEN "live"
                                 ELSE IF l \in pending[r] THEN "ended" ELSE rows[l]]
  BY DEF InsertLink, IInv, TypeOK, Writes, Proc
<1>2. Exclusion'
  BY <1>1 DEF IInv, Exclusion, UnderUserLock, UnderLinkLock, Erasing, Proc
<1>3. Writes'
  <2>1. ASSUME NEW s \in Link, pc'[s] = "insert"
        PROVE  pending'[s] = LiveFor(Account[s])'
    <3>1. s # r /\ pc[s] = "insert" /\ Account[s] # Account[r]
      BY <1>1, <2>1 DEF IInv, Exclusion, UnderLinkLock, Proc
    <3>2. LiveFor(Account[s])' = LiveFor(Account[s])
      BY <1>1, <3>1 DEF LiveFor
    <3>3. QED
      BY <1>1, <3>1, <3>2 DEF IInv, Writes
  <2>2. ASSUME NEW e \in Eraser, pc'[e] = "commit"
        PROVE  pending'[e] = StoredFor(Erased[e])'
    <3>1. e # r /\ pc[e] = "commit" /\ Account[r] # Erased[e]
      BY <1>1, <2>2 DEF IInv, Exclusion, UnderUserLock, Erasing, Proc
    <3>2. StoredFor(Erased[e])' = StoredFor(Erased[e])
      BY <1>1, <3>1 DEF StoredFor, Stored, LiveFor
    <3>3. QED
      BY <1>1, <3>1, <3>2 DEF IInv, Writes
  <2>3. \A l \in Link : rows'[l] # "none" => pc'[l] \in {"send", "done"}
    BY <1>1 DEF IInv, Writes, LiveFor, Proc
  <2>4. QED
    BY <2>1, <2>2, <2>3 DEF Writes
<1>4. Tokens'
  BY <1>1 DEF IInv, Tokens, Proc
<1>5. OneLiveLink'
  BY <1>1 DEF IInv, OneLiveLink, LiveFor
<1>6. QED
  BY <1>2, <1>3, <1>4, <1>5 DEF IInv

\* A consume, a sweep: rows nobody has locked, which only leave the live ones.
LEMMA ConsumeIInv ==
  ASSUME IInv, TypeOK', NEW c \in Consumer, Consume(c)
  PROVE  IInv'
<1> USE LinkAssumption DEF At, Goto
<1>1. /\ pc[c] = "consume" /\ token[c] \in Link /\ token[c] \notin Locked
      /\ pc'[c] \in {"allow", "done"} /\ UNCHANGED <<token, pending>>
      /\ \A q \in Proc : q # c => pc'[q] = pc[q]
      /\ \/ rows' = rows
         \/ rows[token[c]] = "live" /\ rows' = [rows EXCEPT ![token[c]] = "ended"]
  BY DEF Consume, Usable, IInv, TypeOK, Tokens, Proc
<1>2. Exclusion' /\ Tokens'
  BY <1>1 DEF IInv, Exclusion, Tokens, UnderUserLock, UnderLinkLock, Erasing, Proc
<1>3. OneLiveLink'
  BY <1>1 DEF IInv, OneLiveLink, TypeOK
<1>4. Writes'
  <2>1. ASSUME NEW r \in Link, pc'[r] = "insert"
        PROVE  pending'[r] = LiveFor(Account[r])'
    <3>1. pc[r] = "insert" /\ token[c] \notin LiveFor(Account[r])
      BY <1>1, <2>1, Unlocked DEF Proc
    <3>2. LiveFor(Account[r])' = LiveFor(Account[r])
      BY <1>1, <3>1 DEF LiveFor, IInv, TypeOK
    <3>3. QED
      BY <1>1, <3>1, <3>2 DEF IInv, Writes
  <2>2. ASSUME NEW e \in Eraser, pc'[e] = "commit"
        PROVE  pending'[e] = StoredFor(Erased[e])'
    <3>1. pc[e] = "commit" /\ StoredFor(Erased[e])' = StoredFor(Erased[e])
      BY <1>1, <2>2 DEF StoredFor, Stored, IInv, TypeOK, Proc
    <3>2. QED
      BY <1>1, <3>1 DEF IInv, Writes
  <2>3. \A l \in Link : rows'[l] # "none" => pc'[l] \in {"send", "done"}
    BY <1>1 DEF IInv, Writes, TypeOK, Proc
  <2>4. QED
    BY <2>1, <2>2, <2>3 DEF Writes
<1>5. QED
  BY <1>2, <1>3, <1>4 DEF IInv

\* The sweeper deletes stored rows that no open transaction holds locked
\* (magiclink.go DeleteExpired).
LEMMA SweepIInv ==
  ASSUME IInv, TypeOK', Sweep
  PROVE  IInv'
<1>1. /\ Sweepable \cap Locked = {} /\ Sweepable \subseteq Stored
      /\ UNCHANGED <<pc, token, pending>>
      /\ rows' = [l \in Link |-> IF l \in Sweepable THEN "deleted" ELSE rows[l]]
  BY DEF Sweep, Sweepable
<1>2. Exclusion' /\ Tokens' /\ OneLiveLink'
  BY <1>1 DEF IInv, Exclusion, Tokens, OneLiveLink, UnderUserLock, UnderLinkLock, Erasing
<1>3. Writes'
  <2>1. ASSUME NEW r \in Link, pc[r] = "insert"
        PROVE  LiveFor(Account[r])' = LiveFor(Account[r])
    <3>1. \A l \in LiveFor(Account[r]) : l \notin Sweepable
      BY <1>1, <2>1, Unlocked DEF LiveFor
    <3>2. QED
      BY <1>1, <3>1 DEF LiveFor
  <2>2. ASSUME NEW e \in Eraser, pc[e] = "commit"
        PROVE  StoredFor(Erased[e])' = StoredFor(Erased[e])
    <3>1. \A l \in StoredFor(Erased[e]) : l \notin Sweepable
      BY <1>1, <2>2, Unlocked DEF StoredFor, Stored
    <3>2. QED
      BY <1>1, <3>1 DEF StoredFor, Stored
  <2>3. \A l \in Link : rows'[l] # "none" => pc'[l] \in {"send", "done"}
    BY <1>1 DEF IInv, Writes, Stored
  <2>4. QED
    BY <1>1, <2>1, <2>2, <2>3 DEF IInv, Writes
<1>4. QED
  BY <1>2, <1>3 DEF IInv

\* An erasure deletes the account's links under the exclusive user lock
\* (erase.go eraseLocked).
LEMMA EraserIInv ==
  ASSUME IInv, TypeOK', NEW e \in Eraser, EraserStep(e)
  PROVE  IInv'
<1> USE LinkAssumption DEF At, Goto, tables
<1>1. CASE EraserLock(e) \/ EraserDelete(e)
  <2>1. /\ UNCHANGED <<rows, token>> /\ pc'[e] \in {"delete", "commit"}
        /\ \A q \in Proc : q # e => pc'[q] = pc[q]
        /\ \A q \in Link \cup Eraser : q # e => pending'[q] = pending[q]
    BY <1>1 DEF EraserLock, EraserDelete, IInv, TypeOK, Proc
  <2>2. Exclusion'
    <3>1. CASE EraserLock(e)
      BY <2>1, <3>1 DEF EraserLock, CreatingFor, UserLocked, IInv, Exclusion,
                        UnderUserLock, UnderLinkLock, Erasing, Proc
    <3>2. CASE EraserDelete(e)
      BY <2>1, <3>2 DEF EraserDelete, IInv, Exclusion, UnderUserLock, UnderLinkLock, Erasing, Proc
    <3>3. QED
      BY <1>1, <3>1, <3>2
  <2>3. pc'[e] = "commit" => pending'[e] = StoredFor(Erased[e])
    BY <1>1 DEF EraserLock, EraserDelete, IInv, TypeOK, Proc
  <2>4. Writes'
    BY <2>1, <2>3 DEF IInv, Writes, LiveFor, StoredFor, Stored, Proc
  <2>5. Tokens' /\ OneLiveLink'
    BY <2>1 DEF IInv, Tokens, OneLiveLink, Proc
  <2>6. QED
    BY <2>2, <2>4, <2>5 DEF IInv
<1>2. CASE EraserCommit(e)
  <2>1. /\ pc[e] = "commit" /\ pc'[e] = "done" /\ pending[e] = StoredFor(Erased[e])
        /\ UNCHANGED token
        /\ \A q \in Proc : q # e => pc'[q] = pc[q]
        /\ \A q \in Link \cup Eraser : q # e => pending'[q] = pending[q]
        /\ rows' = [l \in Link |-> IF l \in pending[e] THEN "deleted" ELSE rows[l]]
    BY <1>2 DEF EraserCommit, IInv, TypeOK, Writes, Proc
  <2>2. Exclusion' /\ Tokens'
    BY <2>1 DEF IInv, Exclusion, Tokens, UnderUserLock, UnderLinkLock, Erasing, Proc
  <2>3. OneLiveLink'
    BY <2>1 DEF IInv, OneLiveLink
  <2>4. ASSUME NEW r \in Link, pc'[r] = "insert"
        PROVE  pending'[r] = LiveFor(Account[r])'
    <3>1. r # e /\ pc[r] = "insert" /\ Account[r] # Erased[e]
      BY <2>1, <2>4 DEF IInv, Exclusion, UnderUserLock, Erasing, Proc
    <3>2. LiveFor(Account[r])' = LiveFor(Account[r])
      BY <2>1, <3>1 DEF LiveFor, StoredFor
    <3>3. QED
      BY <2>1, <3>1, <3>2 DEF IInv, Writes
  <2>5. ASSUME NEW f \in Eraser, pc'[f] = "commit"
        PROVE  pending'[f] = StoredFor(Erased[f])'
    <3>1. f # e /\ pc[f] = "commit" /\ Erased[f] # Erased[e]
      BY <2>1, <2>5 DEF IInv, Exclusion, Erasing, Proc
    <3>2. StoredFor(Erased[f])' = StoredFor(Erased[f])
      BY <2>1, <3>1 DEF StoredFor, Stored
    <3>3. QED
      BY <2>1, <3>1, <3>2 DEF IInv, Writes
  <2>6. \A l \in Link : rows'[l] # "none" => pc'[l] \in {"send", "done"}
    BY <2>1 DEF IInv, Writes, StoredFor, Stored, Proc
  <2>7. QED
    BY <2>2, <2>3, <2>4, <2>5, <2>6 DEF IInv, Writes
<1>3. QED
  BY <1>1, <1>2 DEF EraserStep

\* An aborted transaction takes its uncommitted rows and locks with it
\* (magiclink.go Create's deferred Rollback).
LEMMA AbortIInv ==
  ASSUME IInv, TypeOK', NEW p \in Link \cup Eraser, Abort(p)
  PROVE  IInv'
<1> USE LinkAssumption DEF Goto, tables
<1>1. /\ UNCHANGED <<rows, token>> /\ pc'[p] = "done" /\ pc[p] \notin {"send", "done"}
      /\ \A q \in Proc : q # p => pc'[q] = pc[q]
      /\ \A q \in Link \cup Eraser : q # p => pending'[q] = pending[q]
  BY DEF Abort, IInv, TypeOK, Proc
<1>2. Exclusion' /\ Tokens' /\ OneLiveLink'
  BY <1>1 DEF IInv, Exclusion, Tokens, OneLiveLink, UnderUserLock, UnderLinkLock, Erasing, Proc
<1>3. Writes'
  BY <1>1 DEF IInv, Writes, LiveFor, StoredFor, Stored, Proc
<1>4. QED
  BY <1>2, <1>3 DEF IInv

\* Every step keeps the invariant (magiclink.go, request.go, consume.go).
LEMMA NextIInv ==
  ASSUME IInv, [Next]_vars
  PROVE  IInv'
<1>1. TypeOK'
  <2>1. CASE Next
    BY <2>1, NextTypeOK DEF IInv
  <2>2. CASE UNCHANGED vars
    BY <2>2 DEF vars, IInv, TypeOK
  <2>3. QED
    BY <2>1, <2>2
<1>2. CASE UNCHANGED vars
  BY <1>1, <1>2, QuietIInv
<1>3. ASSUME NEW r \in Link, RequestStep(r)
      PROVE  IInv'
  BY <1>1, <1>3, QuietIInv, LockIInv, InsertIInv DEF RequestStep
<1>4. ASSUME NEW c \in Consumer, ConsumerStep(c)
      PROVE  IInv'
  BY <1>1, <1>4, QuietIInv, ConsumeIInv DEF ConsumerStep
<1>5. CASE Tick
  BY <1>1, <1>5, QuietIInv
<1>6. QED
  BY <1>1, <1>2, <1>3, <1>4, <1>5, EraserIInv, AbortIInv, SweepIInv DEF Next, Finished

\* The invariant both safety theorems rest on holds in every reachable state:
\* links change hands only under the account's locks (magiclink.go Create).
THEOREM Inductive == Spec => []IInv
<1>1. QED
  BY InitIInv, NextIInv, PTL DEF Spec

-----------------------------------------------------------------------------

\* Two racing requests for one account, a double click or a retried form,
\* never leave two live links: MagicLinkStore.Create's lock of its own.
THEOREM AtMostOneLiveLink == Spec => []OneLiveLink
<1>1. IInv => OneLiveLink
  BY DEF IInv
<1>2. QED
  BY <1>1, Inductive, PTL

\* A purge or an erasure deletes every link stored by the time it commits:
\* MagicLinkStore.Create holds the account's lock shared.
THEOREM ErasureComplete == Spec => []EraserSeesAll
<1>1. IInv => EraserSeesAll
  BY DEF IInv, Writes, EraserSeesAll, At
<1>2. QED
  BY <1>1, Inductive, PTL

\* Every step of porte/pg's transactions is a step of the store contract, or
\* leaves the committed rows alone.
LEMMA StepKeepsContract ==
  ASSUME IInv, [Next]_vars
  PROVE  [Contract!StoreNext]_rows
<1> USE LinkAssumption DEF Contract!StoreNext, At, Goto, tables
<1>1. ASSUME NEW r \in Link, InsertLink(r)
      PROVE  Contract!Create(r)
  <2>1. rows[r] = "none" /\ pending[r] = LiveFor(Account[r])
    BY <1>1 DEF InsertLink, IInv, Writes
  <2>2. rows' = Contract!Superseded(r)
    BY <1>1, <2>1 DEF InsertLink, Contract!Superseded, LiveFor
  <2>3. QED
    BY <2>1, <2>2 DEF Contract!Create
<1>2. ASSUME NEW c \in Consumer, Consume(c)
      PROVE  rows' = rows \/ \E l \in Link : Contract!Consume(l)
  BY <1>2 DEF Consume, Usable, IInv, Tokens, Contract!Consume
<1>3. ASSUME NEW e \in Eraser, EraserCommit(e)
      PROVE  \E S \in SUBSET Link : Contract!Delete(S)
  <2>1. pending[e] = StoredFor(Erased[e])
    BY <1>3 DEF EraserCommit, IInv, Writes
  <2>2. Contract!Delete(pending[e])
    BY <1>3, <2>1 DEF EraserCommit, Contract!Delete, StoredFor, Stored
  <2>3. QED
    BY <2>1, <2>2 DEF StoredFor, Stored
<1>4. ASSUME Sweep
      PROVE  \E S \in SUBSET Link : Contract!Delete(S)
  <2>1. Contract!Delete(Sweepable) /\ Sweepable \in SUBSET Link
    BY <1>4 DEF Sweep, Sweepable, Stored, Contract!Delete
  <2>2. QED
    BY <2>1
<1>5. QED
  BY <1>1, <1>2, <1>3, <1>4
  DEF Next, vars, RequestStep, ConsumerStep, EraserStep, Lookup, CountUser, CountIP,
      LockUser, LockLink, Supersede, Deliver, Present, SignIn, EraserLock, EraserDelete,
      Abort, Tick, Finished

\* porte/pg's MagicLinkStore implements the contract porte.MagicLinkStore
\* states: creation supersedes atomically, and a link is spent at most once.
THEOREM ImplementsContract == Spec => KeepsContract
<1>1. Init => Contract!StoreInit
  BY DEF Init, Contract!StoreInit
<1>2. QED
  BY <1>1, StepKeepsContract, Inductive, PTL DEF Spec, KeepsContract, Contract!StoreSpec

-----------------------------------------------------------------------------
(* Who has spent which link, and what the limits counted.  A link is gone  *)
(* from "live" once somebody has it, and nobody else can have it then.     *)
(* The count a request made covers everything the window held when the     *)
(* request began: a sweep cannot have taken one of those links before the  *)
(* count was made, and nothing comes into that set afterwards.             *)

Has(c) == At(c, "allow") \/ \E s \in sessions : s[1] = c

SpentLinks ==
    /\ \A s \in sessions : At(s[1], "done") /\ s[2] = token[s[1]]
    /\ \A c \in Consumer : Has(c) => token[c] \in Link /\ rows[token[c]] \in {"ended", "deleted"}
    /\ \A c, d \in Consumer : Has(c) /\ Has(d) /\ token[c] = token[d] => c = d

Past == Stored \cup swept

Under(r) == Cardinality(begun[r] \cap Past) < MaxPerEmail

\* Requests the account's limit has let through.
Passed(r) ==
    \/ pc[r] = "count_ip" /\ ~over[r] /\ Account[r] # NoUser
    \/ pc[r] \in {"lock_user", "lock_link", "supersede", "insert", "send"}
    \/ r \in Stored

Counted ==
    /\ IsFiniteSet(Past)
    /\ \A l \in swept : rows[l] # "none" /\ created[l] + TTL + Window < clock
    /\ \A r \in Link : \A l \in begun[r] : l \in Link /\ rows[l] # "none"
    /\ \A r \in Link : pc[r] = "count_user" =>
          /\ clock <= now[r] + TTL
          /\ \A l \in begun[r] : Account[l] = Account[r] /\ created[l] + Window >= now[r]
    /\ \A r \in Link : Passed(r) => Under(r)

LInv == IInv /\ SpentLinks /\ Counted

LEMMA StartLInv == Init => LInv
<1> SUFFICES ASSUME Init PROVE LInv
  OBVIOUS
<1>1. SpentLinks
  BY LinkAssumption DEF Init, SpentLinks, Has, At, Proc
<1>2. Past = {} /\ IsFiniteSet(Past)
  BY FS_EmptySet DEF Init, Past, Stored
<1>3. Counted
  BY <1>2, LinkAssumption DEF Init, Counted, Passed, Past, Stored, Proc
<1> QED
  BY <1>1, <1>3, InitIInv DEF LInv

\* Nobody signs in, and no row leaves the ended and the deleted ones.
LEMMA SpentStays ==
  ASSUME SpentLinks, UNCHANGED <<sessions, token>>, \A c \in Consumer : pc'[c] = pc[c],
         sessions \subseteq Consumer \X Link,
         \A l \in Link : rows[l] \in {"ended", "deleted"} => rows'[l] \in {"ended", "deleted"}
  PROVE  SpentLinks'
<1>1. \A c \in Consumer : Has(c)' <=> Has(c)
  BY DEF Has, At
<1>2. \A s \in sessions : s[1] \in Consumer
  OBVIOUS
<1> QED
  BY <1>1, <1>2 DEF SpentLinks, At

LEMMA PresentSpent ==
  ASSUME LInv, NEW c \in Consumer, Present(c)
  PROVE  SpentLinks'
<1>1. ~Has(c) /\ ~Has(c)'
  BY LinkAssumption DEF LInv, IInv, TypeOK, SpentLinks, Has, Present, Goto, At, Proc
<1>2. /\ \A d \in Consumer \ {c} : pc'[d] = pc[d] /\ token'[d] = token[d]
      /\ UNCHANGED <<rows, sessions>>
  BY DEF LInv, IInv, TypeOK, Present, Goto, tables, Proc
<1>3. \A d \in Consumer \ {c} : Has(d)' <=> Has(d)
  BY <1>2 DEF Has, At
<1>4. \A s \in sessions : s[1] \in Consumer \ {c}
  BY <1>1 DEF LInv, IInv, TypeOK, Has
<1> QED
  BY <1>1, <1>2, <1>3, <1>4 DEF LInv, SpentLinks, At

LEMMA ConsumeSpent ==
  ASSUME LInv, NEW c \in Consumer, Consume(c)
  PROVE  SpentLinks'
<1>1. token[c] \in Link /\ ~Has(c)
  BY DEF LInv, IInv, TypeOK, Tokens, SpentLinks, Has, Consume, At
<1>2. /\ \A d \in Consumer \ {c} : pc'[d] = pc[d]
      /\ UNCHANGED <<token, sessions>>
  BY DEF LInv, IInv, TypeOK, Consume, Goto, Proc
<1>3. \A d \in Consumer \ {c} : Has(d)' <=> Has(d)
  BY <1>2 DEF Has, At
<1>4. \A s \in sessions : s[1] \in Consumer \ {c}
  BY <1>1 DEF LInv, IInv, TypeOK, Has
<1>5. CASE rows' = rows /\ Goto(c, "done")
  <2>1. ~Has(c)'
    BY <1>1, <1>2, <1>5 DEF LInv, IInv, TypeOK, Has, Goto, At, Proc
  <2> QED
    BY <1>2, <1>3, <1>4, <1>5, <2>1 DEF LInv, SpentLinks, At
<1>6. CASE Usable(token[c], c) /\ rows' = [rows EXCEPT ![token[c]] = "ended"]
  <2>1. rows[token[c]] = "live"
    BY <1>6 DEF Usable
  <2>2. \A l \in Link : rows'[l] = IF l = token[c] THEN "ended" ELSE rows[l]
    BY <1>1, <1>6 DEF LInv, IInv, TypeOK
  <2>3. \A d \in Consumer \ {c} : Has(d) => token[d] # token[c]
    BY <2>1 DEF LInv, SpentLinks
  <2> QED
    BY <1>1, <1>2, <1>3, <1>4, <2>2, <2>3 DEF LInv, SpentLinks, At
<1> QED
  BY <1>5, <1>6 DEF Consume

LEMMA SignInSpent ==
  ASSUME LInv, NEW c \in Consumer, SignIn(c)
  PROVE  SpentLinks'
<1>1. /\ UNCHANGED <<rows, token>> /\ Has(c) /\ pc'[c] = "done"
      /\ \A d \in Consumer \ {c} : pc'[d] = pc[d]
  BY DEF LInv, IInv, TypeOK, SignIn, Goto, At, Has, tables, Proc
<1>2. sessions' \subseteq sessions \cup {<<c, token[c]>>}
  BY DEF SignIn
<1>3. \A s \in sessions : s[1] \in Consumer /\ s[1] # c
  BY DEF LInv, IInv, TypeOK, SpentLinks, SignIn, At
<1>4. \A d \in Consumer \ {c} : Has(d)' => Has(d)
  BY <1>1, <1>2 DEF Has, At
<1>5. \A s \in sessions' : At(s[1], "done")' /\ s[2] = token'[s[1]]
  BY <1>1, <1>2, <1>3 DEF LInv, SpentLinks, At
<1>6. \A d \in Consumer : Has(d)' => Has(d)
  BY <1>1, <1>4
<1> QED
  BY <1>1, <1>5, <1>6 DEF LInv, SpentLinks

LEMMA NextSpent == ASSUME LInv, [Next]_vars PROVE SpentLinks'
<1>1. sessions \subseteq Consumer \X Link /\ rows \in [Link -> {"none", "live", "ended", "deleted"}]
  BY DEF LInv, IInv, TypeOK
<1>2. CASE UNCHANGED vars \/ Tick \/ Finished
  BY <1>1, <1>2, SpentStays DEF LInv, vars, tables, Tick, Finished
<1>3. ASSUME NEW r \in Link, RequestStep(r) PROVE SpentLinks'
  <2>1. UNCHANGED <<sessions, token>> /\ \A c \in Consumer : pc'[c] = pc[c]
    BY <1>3, LinkAssumption DEF LInv, IInv, TypeOK, RequestStep, Lookup, CountUser, CountIP, LockUser,
       LockLink, Supersede, InsertLink, Deliver, Goto, Proc
  <2>2. CASE rows' = rows
    BY <1>1, <2>1, <2>2, SpentStays DEF LInv
  <2>3. CASE InsertLink(r)
    <3>1. rows[r] = "none"
      BY <2>3 DEF LInv, IInv, Writes, InsertLink, At
    <3> QED
      BY <1>1, <2>1, <2>3, <3>1, SpentStays DEF LInv, InsertLink
  <2> QED
    BY <1>3, <2>2, <2>3 DEF RequestStep, Lookup, CountUser, CountIP, LockUser, LockLink, Supersede,
       Deliver, tables
<1>4. ASSUME NEW c \in Consumer, ConsumerStep(c) PROVE SpentLinks'
  BY <1>4, PresentSpent, ConsumeSpent, SignInSpent DEF ConsumerStep
<1>5. ASSUME NEW e \in Eraser, EraserStep(e) PROVE SpentLinks'
  <2>1. UNCHANGED <<sessions, token>> /\ \A c \in Consumer : pc'[c] = pc[c]
    BY <1>5, LinkAssumption DEF LInv, IInv, TypeOK, EraserStep, EraserLock, EraserDelete, EraserCommit,
       Goto, Proc
  <2>2. rows' = rows \/ rows' = [l \in Link |-> IF l \in pending[e] THEN "deleted" ELSE rows[l]]
    BY <1>5 DEF EraserStep, EraserLock, EraserDelete, EraserCommit, tables
  <2> QED
    BY <1>1, <2>1, <2>2, SpentStays DEF LInv
<1>6. ASSUME NEW p \in Link \cup Eraser, Abort(p) PROVE SpentLinks'
  <2>1. UNCHANGED <<rows, sessions, token>> /\ \A c \in Consumer : pc'[c] = pc[c]
    BY <1>6, LinkAssumption DEF LInv, IInv, TypeOK, Abort, Goto, tables, Proc
  <2> QED
    BY <1>1, <2>1, SpentStays DEF LInv
<1>7. CASE Sweep
  BY <1>1, <1>7, SpentStays DEF LInv, Sweep
<1> QED
  BY <1>2, <1>3, <1>4, <1>5, <1>6, <1>7 DEF Next

-----------------------------------------------------------------------------
(* The limits. *)

LEMMA UnderStays ==
  ASSUME IsFiniteSet(Past), NEW r \in Link, Under(r), begun'[r] = begun[r],
         \A l \in begun[r] : l \in Past' => l \in Past
  PROVE  Under(r)'
<1> DEFINE old == begun[r] \cap Past
           new == begun[r] \cap Past'
<1>1. IsFiniteSet(old) /\ new \subseteq old
  BY FS_Subset
<1>2. /\ Cardinality(old) \in Nat /\ Cardinality(new) \in Nat
      /\ Cardinality(new) <= Cardinality(old)
  BY <1>1, FS_Subset, FS_CardinalityType
<1>3. Cardinality(old) < MaxPerEmail
  BY DEF Under
<1> HIDE DEF old, new
<1>4. Cardinality(new) < MaxPerEmail
  BY <1>2, <1>3, LinkAssumption
<1> QED
  BY <1>4 DEF Under, new

\* A step that stores nothing and lets nobody through.
LEMMA CountedStays ==
  ASSUME IInv, Counted, UNCHANGED <<swept, begun, clock>>, Past' \subseteq Past,
         \A l \in Link : rows[l] # "none" => rows'[l] # "none" /\ created'[l] = created[l],
         \A r \in Link : pc'[r] = "count_user" => pc[r] = "count_user" /\ now'[r] = now[r],
         \A r \in Link : Passed(r)' => Passed(r)
  PROVE  Counted'
<1>1. IsFiniteSet(Past')
  BY FS_Subset DEF Counted
<1>2. \A l \in swept : l \in Link
  BY DEF IInv, TypeOK
<1>3. \A r \in Link : Passed(r)' => Under(r)'
  BY UnderStays DEF Counted
<1> QED
  BY <1>1, <1>2, <1>3 DEF Counted

LEMMA LookupCounted == ASSUME LInv, NEW r \in Link, Lookup(r) PROVE Counted'
<1>1. /\ UNCHANGED <<rows, created, over, clock, swept>>
      /\ \A j \in Link : pc'[j] = IF j = r THEN "count_user" ELSE pc[j]
      /\ \A j \in Link : now'[j] = IF j = r THEN clock ELSE now[j]
      /\ \A j \in Link : begun'[j] =
            IF j = r THEN {l \in Past : Account[l] = Account[r] /\ created[l] + Window >= clock}
            ELSE begun[j]
  BY DEF LInv, IInv, TypeOK, Lookup, Goto, tables, Proc, Past
<1>2. rows[r] = "none"
  BY DEF LInv, IInv, Writes, Lookup, At
<1>3. Past' = Past /\ Stored' = Stored
  BY <1>1 DEF Past, Stored
<1>4. \A l \in Past : l \in Link /\ rows[l] # "none"
  BY DEF LInv, IInv, TypeOK, Counted, Past, Stored
<1>5. clock \in Nat /\ TTL \in Nat /\ \A l \in Link : created[l] \in Nat /\ now[l] \in Nat
  BY LinkAssumption DEF LInv, IInv, TypeOK, Time, Proc
<1>6. ASSUME NEW j \in Link, Passed(j)' PROVE Under(j)'
  <2>1. j # r
    BY <1>1, <1>2, <1>3, <1>6 DEF Passed, Stored
  <2>2. Passed(j) /\ begun'[j] = begun[j]
    BY <1>1, <1>3, <1>6, <2>1 DEF Passed
  <2> QED
    BY <1>3, <2>2, UnderStays DEF LInv, Counted
<1>7. ASSUME NEW j \in Link, pc'[j] = "count_user"
      PROVE  /\ clock <= now'[j] + TTL
             /\ \A l \in begun'[j] : Account[l] = Account[j] /\ created[l] + Window >= now'[j]
  <2>1. CASE j = r
    <3>1. now'[r] = clock
          /\ begun'[r] = {l \in Past : Account[l] = Account[r] /\ created[l] + Window >= clock}
      BY <1>1
    <3>2. clock <= clock + TTL
      BY <1>5
    <3>3. \A l \in begun'[r] : Account[l] = Account[r] /\ created[l] + Window >= clock
      BY <3>1
    <3> QED
      BY <2>1, <3>1, <3>2, <3>3
  <2>2. CASE j # r
    BY <1>1, <1>7, <2>2 DEF LInv, Counted
  <2> QED
    BY <2>1, <2>2
<1>8. \A j \in Link : \A l \in begun'[j] : l \in Link /\ rows[l] # "none"
  BY <1>1, <1>4 DEF LInv, Counted
<1> QED
  BY <1>1, <1>3, <1>6, <1>7, <1>8 DEF LInv, Counted

\* What the limit counts is all that was in the window when the request began.
LEMMA CountUserCounted == ASSUME LInv, NEW r \in Link, CountUser(r) PROVE Counted'
<1>1. /\ UNCHANGED <<rows, created, now, clock, swept, begun>> /\ pc[r] = "count_user"
      /\ \A j \in Link : pc'[j] = IF j = r THEN "count_ip" ELSE pc[j]
      /\ \A j \in Link \ {r} : over'[j] = over[j]
      /\ over'[r] = (/\ Account[r] # NoUser
                     /\ CountSince(StoredFor(Account[r]), r) >= MaxPerEmail)
  BY DEF LInv, IInv, TypeOK, CountUser, Goto, At, tables, history, Proc
<1>2. Past' = Past /\ Stored' = Stored
  BY <1>1 DEF Past, Stored
<1>3. /\ clock \in Nat /\ TTL \in Nat /\ Window \in Nat /\ MaxPerEmail \in Nat
      /\ \A l \in Link : created[l] \in Nat /\ now[l] \in Nat
  BY LinkAssumption DEF LInv, IInv, TypeOK, Time, Proc
<1>4. begun[r] \cap swept = {}
  <2> SUFFICES ASSUME NEW l \in begun[r], l \in swept PROVE FALSE
    OBVIOUS
  <2>1. l \in Link /\ created[l] + TTL + Window < clock /\ clock <= now[r] + TTL
        /\ created[l] + Window >= now[r]
    BY <1>1 DEF LInv, Counted
  <2> QED
    BY <1>3, <2>1
<1>5. ASSUME Account[r] # NoUser, ~over'[r] PROVE Under(r)
  <2> DEFINE counted == {l \in StoredFor(Account[r]) : created[l] + Window >= now[r]}
             owed == begun[r] \cap Past
  <2>1. owed \subseteq counted /\ counted \subseteq Past
    BY <1>1, <1>4 DEF LInv, Counted, Past, StoredFor
  <2>2. /\ Cardinality(owed) \in Nat /\ Cardinality(counted) \in Nat
        /\ Cardinality(owed) <= Cardinality(counted)
    <3>1. IsFiniteSet(counted)
      BY <2>1, FS_Subset DEF LInv, Counted
    <3> QED
      BY <2>1, <3>1, FS_Subset, FS_CardinalityType
  <2>3. ~(Cardinality(counted) >= MaxPerEmail)
    BY <1>1, <1>5 DEF CountSince
  <2> HIDE DEF owed, counted
  <2>4. Cardinality(owed) < MaxPerEmail
    BY <1>3, <2>2, <2>3
  <2> QED
    BY <2>4 DEF Under, owed
<1>6. ASSUME NEW j \in Link, Passed(j)' PROVE Under(j)'
  <2>1. Under(j)
    <3>1. CASE j # r
      BY <1>1, <1>2, <1>6, <3>1 DEF Passed, LInv, Counted
    <3>2. CASE j = r
      <4>1. r \notin Stored
        BY <1>1 DEF LInv, IInv, Writes, Stored
      <4> QED
        BY <1>1, <1>2, <1>5, <1>6, <3>2, <4>1 DEF Passed
    <3> QED
      BY <3>1, <3>2
  <2> QED
    BY <1>1, <1>2, <2>1, UnderStays DEF LInv, Counted
<1> QED
  BY <1>1, <1>2, <1>6 DEF LInv, Counted

LEMMA InsertCounted == ASSUME LInv, NEW r \in Link, InsertLink(r) PROVE Counted'
<1>1. /\ UNCHANGED <<now, over, clock, swept, begun>> /\ pc[r] = "insert"
      /\ \A j \in Link : pc'[j] = IF j = r THEN "send" ELSE pc[j]
      /\ \A l \in Link : rows'[l] = IF l = r THEN "live" ELSE IF l \in pending[r] THEN "ended" ELSE rows[l]
      /\ \A l \in Link \ {r} : created'[l] = created[l]
  BY DEF LInv, IInv, TypeOK, InsertLink, Goto, At, history, Proc
<1>2. rows[r] = "none" /\ \A l \in pending[r] : l \in Link /\ rows[l] = "live"
  BY <1>1 DEF LInv, IInv, Writes, LiveFor
<1>3. Past' = Past \cup {r} /\ Stored' = Stored \cup {r}
  BY <1>1, <1>2 DEF Past, Stored
<1>4. IsFiniteSet(Past')
  BY <1>3, FS_AddElement DEF LInv, Counted
<1>5. \A l \in Link : rows[l] # "none" => rows'[l] # "none" /\ created'[l] = created[l]
  BY <1>1, <1>2
<1>6. \A l \in swept : l \in Link
  BY DEF LInv, IInv, TypeOK
<1>7. ASSUME NEW j \in Link, Passed(j)' PROVE Under(j)'
  <2>1. Passed(j)
    BY <1>1, <1>3, <1>7 DEF Passed
  <2>2. \A l \in begun[j] : l \in Past' => l \in Past
    BY <1>2, <1>3 DEF LInv, Counted
  <2> QED
    BY <1>1, <2>1, <2>2, UnderStays DEF LInv, Counted
<1> QED
  BY <1>1, <1>4, <1>5, <1>6, <1>7 DEF LInv, Counted

LEMMA SweepCounted == ASSUME LInv, Sweep PROVE Counted'
<1>1. /\ UNCHANGED <<created, now, pc, over, clock, begun>> /\ swept' = swept \cup Sweepable
      /\ rows' = [l \in Link |-> IF l \in Sweepable THEN "deleted" ELSE rows[l]]
  BY DEF Sweep
<1>2. Sweepable \subseteq Stored /\ Stored \subseteq Link
  BY DEF Sweepable, Stored
<1>3. Past' = Past /\ Stored' \subseteq Stored
  BY <1>1, <1>2 DEF Past, Stored
<1>4. \A l \in Link : rows[l] # "none" => rows'[l] # "none"
  BY <1>1
<1>5. \A l \in swept' : l \in Link /\ rows'[l] # "none" /\ created[l] + TTL + Window < clock
  <2>1. \A l \in swept : l \in Link
    BY DEF LInv, IInv, TypeOK
  <2> QED
    BY <1>1, <1>2, <1>4, <2>1 DEF Sweepable, LInv, Counted
<1>6. ASSUME NEW j \in Link, Passed(j)' PROVE Under(j)'
  <2>1. Passed(j)
    BY <1>1, <1>3, <1>6 DEF Passed
  <2> QED
    BY <1>1, <1>3, <2>1, UnderStays DEF LInv, Counted
<1> QED
  BY <1>1, <1>3, <1>4, <1>5, <1>6 DEF LInv, Counted

LEMMA TickCounted == ASSUME LInv, Tick PROVE Counted'
<1>1. /\ UNCHANGED <<rows, created, now, pc, over, swept, begun>> /\ clock' = clock + 1
      /\ \A r \in Link : pc[r] \in {"count_user", "count_ip"} => clock < now[r] + TTL
  BY DEF Tick, tables, history
<1>2. /\ clock \in Nat /\ TTL \in Nat /\ Window \in Nat
      /\ \A l \in Link : created[l] \in Nat /\ now[l] \in Nat
  BY LinkAssumption DEF LInv, IInv, TypeOK, Time, Proc
<1>3. Past' = Past /\ Stored' = Stored
  BY <1>1 DEF Past, Stored
<1>4. \A l \in swept : l \in Link /\ rows[l] # "none" /\ created[l] + TTL + Window < clock + 1
  <2> TAKE l \in swept
  <2>1. l \in Link /\ rows[l] # "none" /\ created[l] + TTL + Window < clock
    BY DEF LInv, IInv, TypeOK, Counted
  <2> QED
    BY <1>2, <2>1
<1>5. \A r \in Link : pc[r] = "count_user" => clock + 1 <= now[r] + TTL
  BY <1>1, <1>2
<1>6. \A r \in Link : Passed(r)' => Under(r)'
  BY <1>1, <1>3, UnderStays DEF LInv, Counted, Passed
<1> QED
  BY <1>1, <1>3, <1>4, <1>5, <1>6 DEF LInv, Counted

LEMMA NextCounted == ASSUME LInv, [Next]_vars PROVE Counted'
<1>1. IInv /\ Counted
  BY DEF LInv
<1>2. CASE UNCHANGED vars \/ Finished
  <2>1. UNCHANGED <<rows, created, pc, now, over, clock, swept, begun>>
    BY <1>2 DEF vars, tables, history, Finished
  <2>2. Past' = Past /\ Stored' = Stored
    BY <2>1 DEF Past, Stored
  <2>3. \A r \in Link : Passed(r)' => Passed(r)
    BY <2>1, <2>2 DEF Passed
  <2> QED
    BY <1>1, <2>1, <2>2, <2>3, CountedStays
<1>3. ASSUME NEW r \in Link,
             CountIP(r) \/ LockUser(r) \/ LockLink(r) \/ Supersede(r) \/ Deliver(r)
      PROVE  Counted'
  <2>1. UNCHANGED <<rows, created, now, over, clock, swept, begun>>
    BY <1>3 DEF CountIP, LockUser, LockLink, Supersede, Deliver, tables, history
  <2>2. Past' = Past /\ Stored' = Stored
    BY <2>1 DEF Past, Stored
  <2>3. \A j \in Link : j # r => pc'[j] = pc[j]
    BY <1>1, <1>3 DEF IInv, TypeOK, CountIP, LockUser, LockLink, Supersede, Deliver, Goto, Proc
  <2>4. pc'[r] # "count_user" /\ (Passed(r)' => Passed(r))
    BY <1>1, <1>3, <2>1, <2>2 DEF IInv, TypeOK, CountIP, LockUser, LockLink, Supersede, Deliver, Goto, At,
       Proc, Passed
  <2>5. \A j \in Link : Passed(j)' => Passed(j)
    BY <2>1, <2>2, <2>3, <2>4 DEF Passed
  <2> QED
    BY <1>1, <2>1, <2>2, <2>3, <2>4, <2>5, CountedStays
<1>4. ASSUME NEW c \in Consumer, ConsumerStep(c) PROVE Counted'
  <2>1. UNCHANGED <<created, over, clock, swept, begun>>
        /\ \A r \in Link : pc'[r] = pc[r] /\ now'[r] = now[r]
    BY <1>1, <1>4, LinkAssumption DEF IInv, TypeOK, ConsumerStep, Present, Consume, SignIn, Goto, tables,
       history, Proc
  <2>2. Stored' = Stored /\ \A l \in Link : rows[l] # "none" => rows'[l] # "none"
    <3>1. CASE rows' = rows
      BY <3>1 DEF Stored
    <3>2. CASE Consume(c) /\ Usable(token[c], c) /\ rows' = [rows EXCEPT ![token[c]] = "ended"]
      BY <1>1, <3>2 DEF IInv, TypeOK, Usable, Stored
    <3> QED
      BY <1>4, <3>1, <3>2 DEF ConsumerStep, Present, Consume, SignIn, tables
  <2>3. Past' = Past
    BY <2>1, <2>2 DEF Past
  <2>4. \A j \in Link : Passed(j)' => Passed(j)
    BY <2>1, <2>2 DEF Passed
  <2> QED
    BY <1>1, <2>1, <2>2, <2>3, <2>4, CountedStays
<1>5. ASSUME NEW p \in Link \cup Eraser, Abort(p) \/ (p \in Eraser /\ EraserStep(p)) PROVE Counted'
  <2>1. UNCHANGED <<created, now, over, clock, swept, begun>>
    BY <1>5 DEF Abort, EraserStep, EraserLock, EraserDelete, EraserCommit, tables, history
  <2>2. /\ Stored' \subseteq Stored /\ \A l \in Link : rows[l] # "none" => rows'[l] # "none"
    <3>1. CASE rows' = rows
      BY <3>1 DEF Stored
    <3>2. CASE rows' = [l \in Link |-> IF l \in pending[p] THEN "deleted" ELSE rows[l]]
      BY <3>2 DEF Stored
    <3> QED
      BY <1>5, <3>1, <3>2 DEF Abort, EraserStep, EraserLock, EraserDelete, EraserCommit, tables
  <2>3. Past' \subseteq Past
    BY <2>1, <2>2 DEF Past
  <2>4. \A j \in Link : pc'[j] = pc[j] \/ pc'[j] = "done"
    BY <1>1, <1>5, LinkAssumption DEF IInv, TypeOK, Abort, EraserStep, EraserLock, EraserDelete,
       EraserCommit, Goto, Proc
  <2>5. \A j \in Link : Passed(j)' => Passed(j)
    BY <2>1, <2>2, <2>4 DEF Passed
  <2> QED
    BY <1>1, <2>1, <2>2, <2>3, <2>4, <2>5, CountedStays
<1> QED
  BY <1>2, <1>3, <1>4, <1>5, LookupCounted, CountUserCounted, InsertCounted, SweepCounted, TickCounted
  DEF Next, RequestStep

LEMMA LinksInv == Spec => []LInv
<1>1. LInv /\ [Next]_vars => LInv'
  BY NextIInv, NextSpent, NextCounted DEF LInv
<1> QED
  BY <1>1, StartLInv, PTL DEF Spec

\* However many requests present a link at once, one signs in with it:
\* Consume is one conditional UPDATE and a superseded, erased or swept row
\* never comes back (magiclink.go MagicLinkStore.Consume).
THEOREM LinksSpentOnce == Spec => []SpentOnce
<1>1. LInv => SpentOnce
  <2> SUFFICES ASSUME LInv, NEW s \in sessions, NEW t \in sessions, s[2] = t[2] PROVE s = t
    BY DEF SpentOnce
  <2>1. s \in Consumer \X Link /\ t \in Consumer \X Link
    BY DEF LInv, IInv, TypeOK
  <2>2. Has(s[1]) /\ Has(t[1]) /\ token[s[1]] = token[t[1]]
    BY DEF LInv, SpentLinks, Has
  <2>3. s[1] = t[1]
    BY <2>1, <2>2 DEF LInv, SpentLinks
  <2> QED
    BY <2>1, <2>3
<1> QED
  BY <1>1, LinksInv, PTL

\* The rate limit survives the sweep: a request that begins at the cap issues
\* nothing, for any cap, lifetime and window, whatever DeleteExpired removes
\* meanwhile (magiclink.go MagicLinkStore.DeleteExpired, CountSince).
THEOREM CapsHold == Spec => []FullWindowIssuesNothing
<1>1. LInv => FullWindowIssuesNothing
  BY DEF LInv, Counted, Passed, Under, Past, Stored, FullWindowIssuesNothing
<1> QED
  BY <1>1, LinksInv, PTL
=============================================================================
