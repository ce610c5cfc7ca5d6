---------------------------- MODULE MCMatchClock ----------------------------
(***************************************************************************)
(* The instance of MatchClock for TLC: a match that plays on, reaches the  *)
(* late minute (the provider gives no status then) and ends.               *)
(***************************************************************************)
EXTENDS MatchClock

CONSTANTS e1, e2

MCEvents == {e1}

MCCourse ==
    << [status |-> "live", period |-> "2nd", minute |-> 2],
       [status |-> None, period |-> None, minute |-> 3],
       [status |-> "final", period |-> None, minute |-> 3] >>
=============================================================================
