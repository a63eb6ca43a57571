------------------------------- MODULE Backtest -------------------------------
(***************************************************************************)
(* backtest.run_backtest: the past jobs of a file, billed as they ran and  *)
(* as the allocator would have placed them.  Pure: operators only.         *)
(*                                                                         *)
(* A job is [submit, dur, gpus, pick, jitter]; the last two are what       *)
(* _is_flexible and jitter_minutes make of its id.  A bill is in units of  *)
(* one GPU's minute at the base rate.  The breakdowns by hour, zone and    *)
(* day are left out.  Time 0 is the start of a week.                       *)
(***************************************************************************)
EXTENDS Allocator, Sequences

CONSTANTS
    MAX_ROWS,        \* backtest_runs.MAX_UPLOAD_ROWS
    BadRow,          \* a row of a file that is not a job
    WEEK,            \* the minutes of a week
    FULL,            \* a share of all jobs, in the units of pick
    MAX_SHIFTABLE,   \* Assumptions.max_shiftable_min
    SHARE_GPUS,      \* shift_capacity_share * cluster_gpus
    SHARES, SLACKS,  \* SENSITIVITY_SHARES, in the units of pick, and SENSITIVITY_SLACKS, in minutes
    TOD_SEED,        \* the tariff's multiplier of each block
    PRICES           \* the captured prices: a function from blocks to prices

Assumptions == [share : 0 .. FULL, slack : Nat]
TraceJob == [submit : Nat, dur : Nat \ {0}, gpus : Nat \ {0}, pick : 0 .. FULL - 1, jitter : 0 .. BLOCK_MIN - 1]

ASSUME BacktestAssumption ==
    /\ MAX_ROWS \in Nat /\ WEEK \in Nat \ {0} /\ FULL \in Nat /\ BadRow \notin TraceJob
    /\ MAX_SHIFTABLE \in Nat /\ SHARE_GPUS \in Nat \ {0} /\ TOD_SEED \in [Blocks -> Nat]
    /\ SHARES \subseteq 0 .. FULL /\ SLACKS \subseteq Nat
    /\ DOMAIN PRICES \subseteq Blocks /\ DOMAIN PRICES # {} /\ \A b \in DOMAIN PRICES : PRICES[b] \in Int
    /\ Max(DOMAIN PRICES) + BLOCK_MIN <= Horizon

-----------------------------------------------------------------------------
(* What may be replayed *)

(* read_jobs_csv: a file with a bad row, too many rows or none is refused as a whole. *)
Readable(file) == Len(file) \in 1 .. MAX_ROWS /\ \A i \in DOMAIN file : file[i] # BadRow

window_start == Min(DOMAIN PRICES)

(* retime_weeks: the week of the first job becomes the first week there are prices of. *)
retime_weeks(trace) ==
    LET monday(t) == t - (t % WEEK)
        shift == monday(window_start) - monday(Min({trace[i].submit : i \in DOMAIN trace}))
    IN [i \in DOMAIN trace |-> [trace[i] EXCEPT !.submit = @ + shift]]

(* prepare, of a file in the order of the replay: no job may lie outside the prices. *)
Prepared(file, retime) == IF retime THEN retime_weeks(file) ELSE file
Usable(trace) ==
    \A i \in DOMAIN trace : trace[i].submit >= window_start /\ trace[i].submit < Max(DOMAIN PRICES) + BLOCK_MIN

-----------------------------------------------------------------------------
(* run_backtest and sensitivity *)

eligible(job) == job.dur <= MAX_SHIFTABLE
flexible(job, a) == eligible(job) /\ job.pick < a.share

(* What the allocator compares: the price times the multiplier. *)
Rates == [b \in DOMAIN PRICES |-> PRICES[b] * TOD_SEED[b]]

(* Mutant: a job's capacity is not taken from what is left. *)
BookedNever(trace, starts, i) == {}

(* What the replay has booked before it comes to job i. *)
Booked(trace, starts, i) ==
    {[job |-> k, win |-> starts[k], dur |-> trace[k].dur, weight |-> trace[k].gpus] : k \in {k \in 1 .. i - 1 : starts[k] # NoStart}}

(* Where the allocator puts job i: NoStart for a job that cannot wait, and for one with no window. *)
WindowOf(trace, a, starts, i) ==
    LET job == trace[i]
        deadline == job.submit + job.dur + a.slack
        ledger == [b \in Blocks |-> Load(Booked(trace, starts, i), b)]
    IN IF flexible(job, a)
       THEN allocate(job.jitter, job.dur, job.submit, deadline, PricesIn(Rates, job.submit, deadline), ledger,
                     SHARE_GPUS * BLOCK_MIN, job.gpus)
       ELSE NoStart

Placements(trace, a) == LET starts[i \in DOMAIN trace] == WindowOf(trace, a, starts, i) IN starts

(* bill_cost, of the tariff alone: the market price is in no bill. *)
bill_cost(job, start) == job.gpus * Cost(TOD_SEED, start, job.dur)

Count(yes) == IF yes THEN 1 ELSE 0
NoTotals == [n_eligible |-> 0, n_flexible |-> 0, n_placed |-> 0, n_unplaced |-> 0, baseline |-> 0, scheduled |-> 0]

(* The totals with one job more: one that was not placed ran when it was submitted. *)
Totalled(r, job, a, start) ==
    [n_eligible |-> r.n_eligible + Count(eligible(job)),
     n_flexible |-> r.n_flexible + Count(flexible(job, a)),
     n_placed   |-> r.n_placed + Count(flexible(job, a) /\ start # NoStart),
     n_unplaced |-> r.n_unplaced + Count(flexible(job, a) /\ start = NoStart),
     baseline   |-> r.baseline + bill_cost(job, job.submit),
     scheduled  |-> r.scheduled + bill_cost(job, IF start = NoStart THEN job.submit ELSE start)]

TotalsOf(trace, a, starts) ==
    LET totals[n \in 0 .. Len(trace)] ==
            IF n = 0 THEN NoTotals ELSE Totalled(totals[n - 1], trace[n], a, starts[n])
    IN totals[Len(trace)]

run_backtest(trace, a) ==
    LET starts == Placements(trace, a) IN [starts |-> starts, totals |-> TotalsOf(trace, a, starts)]

(* The same with every share and slack of the grid: over the whole range of what a file cannot say. *)
sensitivity(trace) ==
    [a \in [share : SHARES, slack : SLACKS] |-> run_backtest(trace, a)]

-----------------------------------------------------------------------------
(* What a replay may be relied on for. *)

Moved(trace, starts) == {i \in DOMAIN trace : starts[i] # NoStart}

(* A moved job could wait, waits no longer than the slack, and runs at known prices to its last minute. *)
PlacedWell(job, a, start) ==
    /\ flexible(job, a) /\ job.submit <= start /\ start <= job.submit + a.slack
    /\ \A t \in start .. start + job.dur - 1 : floor_block(t) \in DOMAIN PRICES

(* What moving the jobs saves, counted from those alone that were moved. *)
GainOf(trace, starts) ==
    LET gain[n \in 0 .. Len(trace)] ==
            IF n = 0 THEN 0
            ELSE gain[n - 1] + IF starts[n] = NoStart THEN 0
                               ELSE bill_cost(trace[n], trace[n].submit) - bill_cost(trace[n], starts[n])
    IN gain[Len(trace)]

(* Each flexible job is counted as placed or not, each placed one was moved, and the headline saving is *)
(* that of the moved jobs: all others "cost the same in both worlds" (backtest.py:6).                   *)
AddsUp(trace, starts, totals) ==
    /\ totals.n_placed + totals.n_unplaced = totals.n_flexible /\ totals.n_flexible <= totals.n_eligible
    /\ totals.n_placed = Cardinality(Moved(trace, starts))
    /\ totals.baseline - totals.scheduled = GainOf(trace, starts)

Credible(trace, a, report) ==
    LET starts == report.starts
        used(b) == Load({[job |-> i, win |-> starts[i], dur |-> trace[i].dur, weight |-> trace[i].gpus] : i \in Moved(trace, starts)}, b)
    IN /\ \A i \in Moved(trace, starts) : PlacedWell(trace[i], a, starts[i])
       /\ \A b \in Blocks : used(b) <= SHARE_GPUS * BLOCK_MIN
       /\ AddsUp(trace, starts, report.totals)
=============================================================================
