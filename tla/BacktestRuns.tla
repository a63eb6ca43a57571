----------------------------- MODULE BacktestRuns -----------------------------
(***************************************************************************)
(* backtest_runs.py: reports made in the background, in one process.       *)
(*                                                                         *)
(* A request inserts its report under the lock, then marks it running and  *)
(* hands it to the pool without it; the pool's one worker fills it in,     *)
(* without the lock too; readers get a shallow copy at any time.  Every    *)
(* write that a reader can tell from the next is a step.                   *)
(***************************************************************************)
EXTENDS Backtest

CONSTANTS
    NumReports,      \* bound: reports asked for
    Files,           \* the files that may be uploaded
    Asked,           \* the assumptions that may be asked for
    MAX_ACTIVE_RUNS, \* backtest_runs.MAX_ACTIVE
    MAX_KEEP         \* backtest_runs.MAX_KEEP

Reports == 1 .. NumReports

ASSUME RunsAssumption ==
    /\ Asked \subseteq Assumptions /\ \A file \in Files : file \in Seq(TraceJob \cup {BadRow})
    /\ NumReports \in Nat /\ MAX_ACTIVE_RUNS \in Nat \ {0} /\ MAX_KEEP \in Nat \ {0}

VARIABLES
    table,     \* _runs: report ids, the oldest first
    run,       \* the dictionaries, which outlive their place in the table
    asker,     \* where the request that asked for a report stands
    pool,      \* the pool's queue; its head is what the worker is at
    upload     \* the trace and the assumptions of each report

runsVars == <<table, run, asker, pool, upload>>

Status == {"none", "queued", "running", "done", "error"}
Stage == {"queued", "main", "scenarios", "finished"}
NoRun == [status |-> "none", stage |-> "queued", result |-> <<>>, grid |-> <<>>]

NoUpload == [trace |-> <<>>, a |-> <<>>]

RunsInit ==
    /\ table = <<>> /\ pool = <<>>
    /\ run = [i \in Reports |-> NoRun]
    /\ asker = [i \in Reports |-> "new"]
    /\ upload = [i \in Reports |-> NoUpload]

Unfinished == {i \in Range(table) : run[i].status \in {"queued", "running"}}

-----------------------------------------------------------------------------
(* start, in the threads of the requests *)

(* Added, and the oldest evicted, finished or not. *)
Added(i) == IF Len(table) >= MAX_KEEP THEN Append(Tail(table), i) ELSE Append(table, i)

(* Mutant: the reports that wait are not counted. *)
BusyRunning == Cardinality({i \in Unfinished : run[i].status = "running"})

Busy == Cardinality(Unfinished)

(* prepare, and the part of start under the lock.  A bad file, or too many reports, is refused: no step. *)
StartReport(i, file, retime, a) ==
    LET trace == Prepared(file, retime)
    IN /\ asker[i] = "new" /\ \A k \in 1 .. i - 1 : asker[k] # "new"
       /\ Readable(file) /\ Usable(trace)
       /\ Busy < MAX_ACTIVE_RUNS
       /\ run' = [run EXCEPT ![i].status = "queued"]
       /\ table' = Added(i)
       /\ asker' = [asker EXCEPT ![i] = "added"]
       /\ upload' = [upload EXCEPT ![i] = [trace |-> trace, a |-> a]]
       /\ UNCHANGED pool

(* POST /backtest *)
backtest_start(i) == \E file \in Files, retime \in BOOLEAN, a \in Asked : StartReport(i, file, retime, a)

(* Mutant: it is marked again on the way to the answer. *)
MarkAgain(i) ==
    /\ asker[i] \in {"added", "handed"}
    /\ run' = [run EXCEPT ![i].status = "running"]
    /\ asker' = [asker EXCEPT ![i] = IF @ = "added" THEN "marked" ELSE "answered"]
    /\ UNCHANGED <<table, pool, upload>>

Mark(i) ==
    /\ asker[i] = "added"
    /\ run' = [run EXCEPT ![i].status = "running"]
    /\ asker' = [asker EXCEPT ![i] = "marked"]
    /\ UNCHANGED <<table, pool, upload>>

Hand(i) ==
    /\ asker[i] = "marked"
    /\ pool' = Append(pool, i)
    /\ asker' = [asker EXCEPT ![i] = "handed"]
    /\ UNCHANGED <<table, run, upload>>

-----------------------------------------------------------------------------
(* _work, in the pool's worker *)

At(i, stage) == pool # <<>> /\ i = Head(pool) /\ run[i].status = "running" /\ run[i].stage = stage

WorkBegins(i) ==
    /\ At(i, "queued")
    /\ run' = [run EXCEPT ![i].stage = "main"]
    /\ UNCHANGED <<table, asker, pool, upload>>

Readables == {file \in Files : Readable(file)}
Traces == {trace \in {Prepared(file, retime) : file \in Readables, retime \in BOOLEAN} : Usable(trace)}
Outcome == [trace \in Traces |-> [a \in Asked |-> run_backtest(trace, a)]]
Grid == [trace \in Traces |-> sensitivity(trace)]

(* The headline: readable while the grid is still being worked out. *)
WorkReports(i) ==
    /\ At(i, "main") /\ run[i].result = <<>>
    /\ run' = [run EXCEPT ![i].result = Outcome[upload[i].trace][upload[i].a]]
    /\ UNCHANGED <<table, asker, pool, upload>>

WorkScenarios(i) ==
    /\ At(i, "main") /\ run[i].result # <<>>
    /\ run' = [run EXCEPT ![i].stage = "scenarios"]
    /\ UNCHANGED <<table, asker, pool, upload>>

WorkGrid(i) ==
    /\ At(i, "scenarios") /\ run[i].grid = <<>>
    /\ run' = [run EXCEPT ![i].grid = Grid[upload[i].trace]]
    /\ UNCHANGED <<table, asker, pool, upload>>

(* Mutant: the report is done before its grid is. *)
WorkFinishesEarly(i) ==
    /\ At(i, "scenarios")
    /\ run' = [run EXCEPT ![i].stage = "finished"]
    /\ UNCHANGED <<table, asker, pool, upload>>

WorkFinishes(i) ==
    /\ At(i, "scenarios") /\ run[i].grid # <<>>
    /\ run' = [run EXCEPT ![i].stage = "finished"]
    /\ UNCHANGED <<table, asker, pool, upload>>

WorkEnds(i) ==
    /\ At(i, "finished")
    /\ run' = [run EXCEPT ![i].status = "done"]
    /\ pool' = Tail(pool)
    /\ UNCHANGED <<table, asker, upload>>

(* Mutant: the exception is lost with the worker's task. *)
WorkFailsSilently(i) ==
    /\ \E stage \in {"main", "scenarios"} : At(i, stage)
    /\ pool' = Tail(pool)
    /\ UNCHANGED <<table, run, asker, upload>>

(* An exception of run_backtest, _report or sensitivity. *)
WorkFails(i) ==
    /\ \E stage \in {"main", "scenarios"} : At(i, stage)
    /\ run' = [run EXCEPT ![i].status = "error"]
    /\ pool' = Tail(pool)
    /\ UNCHANGED <<table, asker, upload>>

-----------------------------------------------------------------------------
AskerStep(i) == Mark(i) \/ Hand(i)
WorkStep(i) ==
    \/ WorkBegins(i) \/ WorkReports(i) \/ WorkScenarios(i) \/ WorkGrid(i) \/ WorkFinishes(i) \/ WorkEnds(i)
    \/ WorkFails(i)

RunsNext == \E i \in Reports : backtest_start(i) \/ AskerStep(i) \/ WorkStep(i)

RunsSpec == RunsInit /\ [][RunsNext]_runsVars

(* A request that was let in goes on to its answer, and the worker to the end of its task. *)
RunsFairness == \A i \in Reports : WF_runsVars(AskerStep(i)) /\ WF_runsVars(WorkStep(i))

-----------------------------------------------------------------------------
(* Properties *)

(* The table holds no more reports than are kept, and no more of them are at work than are let in.  What  *)
(* was evicted from the table and is still in the pool is not counted, by the code as here.               *)
RunsBounded == Len(table) <= MAX_KEEP /\ Busy <= MAX_ACTIVE_RUNS

(* Who reads "done" reads all of the report, although the worker writes without the lock of the readers. *)
(* The replay behind the headline, and behind every cell of the grid, moved only jobs that could wait,   *)
(* none by more than the slack, each to where prices are known up to its last minute, and within the     *)
(* capacity in every block; its counts add up, and the saving it states is that of the moved jobs.       *)
ReportWhole ==
    \A i \in Reports :
        LET trace == upload[i].trace
        IN /\ run[i].status = "done" => run[i].result # <<>> /\ run[i].grid # <<>>
           /\ run[i].result # <<>> => Credible(trace, upload[i].a, run[i].result)
           /\ \A a \in DOMAIN run[i].grid : Credible(trace, a, run[i].grid[a])

(* A report never goes back: not from an outcome, and not to less than what a reader may have had. *)
OnlyForward ==
    [][\A i \in Reports :
          /\ run[i].status \in {"done", "error"} => run'[i] = run[i]
          /\ \A part \in {"result", "grid"} : run[i][part] # <<>> => run'[i][part] = run[i][part]]_runsVars

(* Every report that was let in comes to an end, also one that was evicted: the pool's slot comes back. *)
ReportEnds == \A i \in Reports : run[i].status = "queued" ~> run[i].status \in {"done", "error"}
=============================================================================
