------------------------------- MODULE Spaces -------------------------------
(***************************************************************************)
(* porte/spaces over one space of an app: members resolve a Scope, change  *)
(* each other's roles and leave.  The guard's answers are porte's.  The    *)
(* rows and the transaction are the app's, as guard.go and assign.go ask   *)
(* for them: the count and the DELETE, the current role and the UPDATE,    *)
(* under one lock.  A Scope is older than the transaction it is used in.   *)
(***************************************************************************)
EXTENDS Naturals, Sequences, FiniteSets

CONSTANTS Member, NoMember,
          Listed,      \* the roles the app gives NewLadder, least first
          Role         \* what a role column may hold

ASSUME SpacesAssumption == NoMember \notin Member /\ "" \in Role /\ Listed \in Seq(Role)

VARIABLES
    members,    \* the role in each row, "" for no row
    lock,       \* whose transaction holds the space's rows
    deed,       \* what each member's request holds
    owners      \* history: those at the top rank at first, until one of them acts

gvars == <<members, lock, deed, owners>>

NoDeed == [pc |-> "start", scope |-> "", whom |-> NoMember]

-----------------------------------------------------------------------------
(* The ladder and the guard. *)

\* NewLadder drops the empty role and repetitions.
Ranked == {i \in DOMAIN Listed : Listed[i] # "" /\ \A j \in 1..(i - 1) : Listed[j] # Listed[i]}
Valid(role) == \E i \in Ranked : Listed[i] = role
Rank(role) == CHOOSE i \in Ranked : Listed[i] = role
AtLeast(have, min) == Valid(have) /\ Valid(min) /\ Rank(have) >= Rank(min)
Top == IF Ranked = {} THEN "" ELSE Listed[CHOOSE i \in Ranked : \A j \in Ranked : j <= i]

\* A Scope's role is "" when it was not resolved.
AssignableBy(scope, target) == scope # "" /\ AtLeast(scope, target)

\* Mutant: the role being taken away is not looked at.
AssignableOver_Grant(scope, current, target) == Valid(current) /\ AssignableBy(scope, target)

AssignableOver(scope, current, target) ==
    Valid(current) /\ AssignableBy(scope, current) /\ AssignableBy(scope, target)

CountRole(role) == Cardinality({m \in Member : members[m] = role})

\* Mutant: the last one may go.
CanLeave_Last(role) == role # Top \/ CountRole(Top) >= 1

CanLeave(role) == role # Top \/ CountRole(Top) > 1

-----------------------------------------------------------------------------
SpacesInit ==
    /\ members \in [Member -> Role]
    /\ CountRole(Top) > 0
    /\ lock = NoMember
    /\ deed = [m \in Member |-> NoDeed]
    /\ owners = {m \in Member : members[m] = Top}

DeedAt(m, label) == deed[m].pc = label
DeedTo(m, label) == deed' = [deed EXCEPT ![m].pc = label]
Rolled(m) == deed' = [deed EXCEPT ![m] = NoDeed]

\* guard.Resolve: the caller's own row, when its role is one the ladder ranks.
ResolveScope(m) ==
    /\ DeedAt(m, "start") /\ members[m] # "" /\ Valid(members[m])
    /\ \E label \in {"leave", "assign", "invite"}, whom \in Member :
        /\ label = "leave" => whom = m
        /\ deed' = [deed EXCEPT ![m] = [pc |-> label, scope |-> members[m], whom |-> whom]]
    /\ owners' = IF members[m] = Top THEN {} ELSE owners
    /\ UNCHANGED <<members, lock>>

\* CanLeave inside the transaction resolves again, counts, and may refuse.
Leave(m) ==
    /\ DeedAt(m, "leave") /\ lock = NoMember
    /\ IF Valid(members[m]) /\ CanLeave(members[m])
       THEN lock' = m /\ DeedTo(m, "delete") ELSE Rolled(m) /\ UNCHANGED lock
    /\ UNCHANGED <<members, owners>>

Delete(m) ==
    /\ DeedAt(m, "delete")
    /\ \/ members' = [members EXCEPT ![m] = ""]
       \/ UNCHANGED members
    /\ lock' = NoMember /\ Rolled(m)
    /\ UNCHANGED owners

\* A member screen: the row's role read under the lock, AssignableOver, the
\* UPDATE.  It counts nobody, so an owner is not to demote itself here.
Assign(m) ==
    LET whom == deed[m].whom IN
    /\ DeedAt(m, "assign") /\ lock = NoMember
    /\ \/ /\ whom # m
          /\ \E target \in Role :
                /\ AssignableOver(deed[m].scope, members[whom], target)
                /\ members' = [members EXCEPT ![whom] = target]
       \/ UNCHANGED members
    /\ Rolled(m)
    /\ UNCHANGED <<lock, owners>>

\* An invitation: AssignableBy, for somebody who has no row.
Invite(m) ==
    LET whom == deed[m].whom IN
    /\ DeedAt(m, "invite")
    /\ \/ /\ members[whom] = ""
          /\ \E target \in Role : /\ AssignableBy(deed[m].scope, target)
                                  /\ members' = [members EXCEPT ![whom] = target]
       \/ UNCHANGED members
    /\ Rolled(m)
    /\ UNCHANGED <<lock, owners>>

SpacesNext == \E m \in Member : ResolveScope(m) \/ Leave(m) \/ Delete(m) \/ Assign(m) \/ Invite(m)

SpacesSpec == SpacesInit /\ [][SpacesNext]_gvars

-----------------------------------------------------------------------------
(* Properties. *)

\* No chain of grants, demotions, invitations and departures by others, with
\* scopes however stale, adds to or takes from the top rank (assign.go
\* AssignableBy, AssignableOver).
TopRulesTop ==
    owners # {} => owners = {m \in Member : members[m] = Top}

\* Whoever leaves, leaves somebody at the top rank, though others leave and
\* are demoted at the same time (guard.go CanLeave).
DepartureKeepsTop ==
    [][\A m \in Member : DeedAt(m, "delete") /\ members'[m] # members[m] /\ CountRole(Top) > 0 =>
          \E n \in Member : members'[n] = Top]_gvars
=============================================================================
