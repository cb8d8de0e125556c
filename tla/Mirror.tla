------------------------------- MODULE Mirror -------------------------------
(***************************************************************************)
(* What porte/directory promises: an app shows the spaces as Registre held *)
(* them at some moment, never an earlier one than it already showed, and   *)
(* in the end the current ones.  States of the directory are numbered in   *)
(* the order Registre published them.  Once Registre is restored from a    *)
(* backup nothing is promised.                                             *)
(***************************************************************************)
EXTENDS Naturals

CONSTANT States      \* the numbers of the states it may publish

VARIABLES truth,     \* the state Registre holds
          shown,     \* the one the app shows, 0 before the first
          trusted    \* no restore has happened

mvars == <<truth, shown, trusted>>

MirrorInit == truth = 1 /\ shown = 0 /\ trusted = TRUE

Publish == truth' > truth /\ UNCHANGED <<shown, trusted>>
Restore == trusted' = FALSE /\ UNCHANGED shown
CatchUp == trusted /\ shown' > shown /\ shown' <= truth /\ UNCHANGED <<truth, trusted>>
Adrift == ~trusted /\ UNCHANGED trusted

MirrorNext == Publish \/ Restore \/ CatchUp \/ Adrift

\* Every state Registre publishes is shown in the end, or a later one.
EverShown == \A n \in States : truth >= n ~> shown >= n \/ ~trusted

MirrorSafety == MirrorInit /\ [][MirrorNext]_mvars

MirrorSpec == MirrorSafety /\ EverShown
=============================================================================
