-------------------------- MODULE MCProviderEvents --------------------------
(***************************************************************************)
(* The instance of ProviderEvents for TLC: a goal, then a payload without  *)
(* it in which it is undone and somebody comes on.                         *)
(***************************************************************************)
EXTENDS ProviderEvents

CONSTANTS e1, goal, sub, undone

MCEvents == {e1}

MCItem(id, kind) == [id |-> id, kind |-> kind]

MCCourse ==
    << [items |-> <<MCItem(goal, "goal")>>, phase |-> 1, score |-> 1],
       [items |-> <<MCItem(undone, "correction"), MCItem(sub, "other")>>,
        phase |-> 2, score |-> 0] >>
=============================================================================
