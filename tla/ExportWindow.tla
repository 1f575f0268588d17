---------------------------- MODULE ExportWindow ----------------------------
(***************************************************************************)
(* What the freeze lifecycle of a billing account promises its owner,      *)
(* without timestamps: an account is Active, or frozen with some time left *)
(* to export its data, or deleted for good.  A freeze grants the whole     *)
(* window, the window only shrinks as time passes, and data is deleted     *)
(* only when nothing of it is left.  BillingAccount implements this        *)
(* specification (see Lifecycle there).                                    *)
(***************************************************************************)
EXTENDS Integers

CONSTANT Window      \* length of the export window (48 h in FreezeManager::new)

VARIABLES phase,     \* "Active", "FrozenExport" or "HardDeleted"
          left       \* time left to export, 0 outside the export window

ewVars == <<phase, left>>

EWInit == phase = "Active" /\ left = 0

\* The balance ran out: the owner is granted the whole window.
Freeze ==
    /\ phase = "Active"
    /\ phase' = "FrozenExport"
    /\ left' = Window

\* Time passes inside the window.
Elapse ==
    /\ phase = "FrozenExport"
    /\ left > 0
    /\ left' = left - 1
    /\ UNCHANGED phase

\* The account is reinstated.
Reinstate ==
    /\ phase = "FrozenExport"
    /\ phase' = "Active"
    /\ left' = 0

\* The data is deleted, for good.
Delete ==
    /\ phase = "FrozenExport"
    /\ left = 0
    /\ phase' = "HardDeleted"
    /\ left' = 0

EWNext == Freeze \/ Elapse \/ Reinstate \/ Delete

EWSpec == EWInit /\ [][EWNext]_ewVars
=============================================================================
