----------------------------- MODULE MCBtVendor -----------------------------
(***************************************************************************)
(* BtVendor for TLC: all scripts of up to MaxActions actions.              *)
(***************************************************************************)
EXTENDS BtVendor, SequencesExt

CONSTANT MaxActions   \* bound on the length of a script

AnyScripts == BoundedSeq(ActionType, MaxActions)
=============================================================================
