----------------------------- MODULE MCDispatch ------------------------------
(* The job service and its dispatcher on small instances: blocks of one minute, *)
(* two jobs, one slot, one job to a block.                                      *)
EXTENDS Dispatch

JitterNone == [j \in Jobs |-> 0]

(* Today's prices; then tomorrow's as well, of which a row is missing; then that row too. *)
Today == [b \in {0} |-> 5]
Holed == [b \in {0, 2} |-> 7 - 2 * b]
Complete == [b \in 0 .. 2 |-> IF b = 1 THEN 1 ELSE 7 - 2 * b]
ThreeCurves == {Today, Holed, Complete}
TwoCurves == {Today, Holed}

(* One minute of work, with one or two minutes to spare; and requests that are refused. *)
SlackOne ==
    {[dur |-> 1, slack |-> 1, provider |-> "kaggle"], [dur |-> 1, slack |-> -1, provider |-> "kaggle"],
     [dur |-> 2, slack |-> 1, provider |-> "kaggle"], [dur |-> 1, slack |-> 1, provider |-> "here"]}
SlackTwo == {[dur |-> 1, slack |-> 2, provider |-> "kaggle"]}
=============================================================================
