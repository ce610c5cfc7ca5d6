--------------------------- MODULE MCFeedRecovery ---------------------------
(***************************************************************************)
(* Small instances of FeedRecovery for TLC.                                *)
(***************************************************************************)
EXTENDS FeedRecovery, TLC

CONSTANTS m1, m2

MCSymmetry == Permutations({m1, m2})
=============================================================================
