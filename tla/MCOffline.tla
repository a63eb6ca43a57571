------------------------------ MODULE MCOffline -------------------------------
(* The two other users of the allocator, side by side: they share no state, so *)
(* a behaviour is of the one or of the other.                                  *)
EXTENDS Planner, BacktestRuns

VARIABLE part

OfflineVars == <<planVars, runsVars, part>>

OfflineInit == PlannerInit /\ RunsInit /\ part \in {"planner", "backtest"}

OfflineNext ==
    /\ UNCHANGED part
    /\ \/ part = "planner" /\ PlannerNext /\ UNCHANGED runsVars
       \/ part = "backtest" /\ RunsNext /\ UNCHANGED planVars

OfflineSpec == OfflineInit /\ [][OfflineNext]_OfflineVars /\ RunsFairness

(* The planner: two jobs, of one and of two minutes, on a share of one GPU. *)
WaitOf == [r \in Refs |-> 5]
DurOf == [r \in Refs |-> r]
GpusOf == [r \in Refs |-> 1]
OffsetOf == [r \in Refs |-> 2 - r]
TodOf == [b \in Blocks |-> IF b \in {2, 4} THEN 1 ELSE IF b = 6 THEN 2 ELSE 3]
Long == [b \in {0, 2, 4, 6} |-> 6 - (b \div 2)]
Other == [b \in {0, 2, 4, 6, 8} |-> IF b = 2 THEN 1 ELSE 4]
PriceSets == {Long, Other}

(* The reports: a file of three jobs, of which two want the same block and one cannot wait; the same from *)
(* another week, to be retimed; and files that are refused: a job beyond the prices, a bad row, no rows,   *)
(* too many.                                                                                               *)
PastJob(submit, dur, pick, jitter) ==
    [submit |-> submit, dur |-> dur, gpus |-> 1, pick |-> pick, jitter |-> jitter]
Week(start) == <<PastJob(start, 2, 0, 1), PastJob(start + 1, 3, 1, 0), PastJob(start + 1, 4, 0, 1)>>
Uploads == {Week(0), Week(20), <<PastJob(0, 1, 0, 0), PastJob(11, 1, 0, 0)>>, <<PastJob(0, 1, 0, 0), BadRow>>, <<>>,
            Week(0) \o Week(0)}
AskedFor == {[share |-> 2, slack |-> 5]}
=============================================================================
