# WattShift: the verification project

WattShift moves flexible Slurm jobs to cheaper hours. An **agent** beside the cluster reads the queue, reports the
jobs its operator's rules cover, and sets later start times; a **cloud** service plans those start times from day-ahead
prices. The two talk through one endpoint, `POST /agent/v1/sync`, and the agent is the one that calls. A second, older
half of the cloud, the **job service**, takes jobs directly, places them, dispatches them to a provider of GPU runs, and
runs each job's *twin* (the same work, not shifted) to compare with. Both halves, and the backtests over uploaded
files, share one slot allocator.

This directory models what makes the first half hard: two processes on one SQLite file, a scheduler that changes under
them, writes that fail half-way, a network that loses, repeats and delays, and a promise to job owners that must hold
through all of it. Of the second it models the threads on one table of jobs (requests, a re-plan, a dispatcher, the
demo's reset), a provider that fails or forgets, and restarts. `PROJECT.json` lists the runs, the mutants, the source
lines of every definition, the hazards and the findings.

## 1. Inventory

| Component | Keeps | Operations | Correct when |
|---|---|---|---|
| Agent loop (`cycle.py`, `applier.py`, `state.py`) | SQLite: `jobs` (one row a job), `outbox_applied`, `outbox_released`, `meta.release_requested`; locals of `run_once` | observe (discover, refresh, close), undo in shadow mode, build and post the request, acknowledge, `release_all`, apply each decision, prune | no job waits past its limit; a job changed by its owner, released, skipped or started is left alone; no outcome is lost; the record shows every deferral in force |
| `release-all` command (`cli.py`) | the same file, locals of `release_all` | release every job on record, ask the cloud to stop | runs beside the loop without breaking the limit |
| Slurm interface (`slurm.py`, `parse.py`, `runner.py`) | nothing | `squeue`, `scontrol show job`, `sacct`, `scontrol update StartTime` | an error leaves the job unknown, never assumed |
| Transport (`client.py`) | nothing | one HTTP POST, 20 s | a lost request or answer only delays |
| Sync endpoint (`agent_sync.py`, `sites.py`) | `managed_jobs`, `sites` | upsert jobs, apply reports, finalize, plan, answer; the operator's mode and kill switch | a stale request moves no job back; a released or abandoned job is not planned again |
| Planner (`planner.py`) | `planned_start`, `plan_status` | plan all movable jobs of a site within capacity | within the limit; strictly cheaper; capacity kept; an unchanged world re-plans identically |
| Slot allocator (`allocator.py`, `tariff.py`, `savings.py`) | nothing | the cheapest window with room; the bill; whether to wait for prices | in time, priced, within the cap; nobody waits out the only window |
| Measurement (`measure.py`, `measured.py`) | cost columns | finalize once; summary | measured once, on the real start |
| Job service (`service.py`) | `jobs`, `job_runs` | submit, quote, re-plan | windows before deadlines; blocks not overbooked |
| Dispatch (`dispatch.py`, `runner.py`) | the same rows, the savings log, the count of misses in memory | expire, claim, start, save, poll; twins; recover | slots neither exceeded nor leaked; a run is started once; a job has one outcome; every job ends |
| Providers (`providers/`) | the real runs, outside | start, status | an answer may be missing or wrong |
| Prices, demo, clock (`ingest_iex.py`, `replay.py`, `clock.py`) | prices; the simulated time | ingest; replay of a captured day with a reset; back to live | nothing of a forgotten job comes back |
| Backtests (`backtest_runs.py`, `backtest.py`) | a bounded table in memory | prepare, start, work, get | bounds kept; a finished report is whole; every report ends |
| Views, dashboard, configuration, e2e | no state of their own or pure I/O | | not modelled |

Interaction. The agent's loop and the release-all command share the SQLite file and Slurm, without a lock over a whole
cycle: each reads rows, runs Slurm commands for seconds, and then writes *whole rows* back. The cloud serialises the
syncs of one site by an advisory lock, so one request is one atomic step there; everything between the agent's commit
and the cloud's commit can fail in either direction. Hard behaviour: crash between a Slurm write and its record, a
Slurm write that times out but was carried out, four separate commits to acknowledge one answer, owners who change a
deferred job, accounting that lags, requests processed late.

In the job service, submissions and re-plans exclude each other by an advisory lock, but the dispatcher does not take
it: it expires, claims and finishes rows while a re-plan holds older copies of them. A tick is many transactions with
calls of the provider between, so a crash, a lost database or the demo's reset can come between any two. A request for
a backtest lets go of its lock before it hands the report to the only worker, which writes without the lock.

## 2. Modules

| Module | Models | Extends |
|---|---|---|
| `SyncBase` | jobs, the clock, the types of the request and the answer | |
| `SlurmCluster` | the scheduler, its users and what the agent's commands return (external); bounds on incidents | `SyncBase` |
| `Agent` | `run_once` and `release_all`, step by step; against a cloud that answers anything | `SlurmCluster` |
| `Cloud` | `process_sync` with the planner's control, the operator's switches | `SyncBase` |
| `SyncSystem` | the composition: exchange, lost and late requests, crash while acknowledging, the operator | `Agent`, `Cloud` |
| `Allocator` | `overlaps`, the ledger, the bill, `allocate`, `wait_for_prices`: operators only | |
| `Planner` | `plan_site` in full: prices, bill, capacity; between plans only what moves the rows; where waiting for prices could trap a job | `Cloud`, `Allocator` |
| `JobService` | `submit_job`, `replan_pending` (read and commit apart), the published prices, the clock | `Allocator` |
| `Dispatch` | `runner.tick` step by step, `recover_on_startup`, crashes, the provider (external), the demo | `JobService` |
| `JobContract` | what the job service promises of a job and of the savings log; `Dispatch` implements it | |
| `Backtest` | `prepare`, `run_backtest`, `sensitivity`: operators only | `Allocator` |
| `BacktestRuns` | `start`, `_work`, `get`: the table, the requests, the worker | `Backtest` |
| `MCAgent`, `MCSystem`, `MCDispatch`, `MCOffline` | instances for TLC; `MCOffline` puts `Planner` and `BacktestRuns` side by side | |
| `AgentProofs` | theorems about `Agent` | `Agent`, `TLAPS` |
| `SystemProofs` | theorems about `SyncSystem` | `SyncSystem`, `AgentProofs` |
| `DispatchProofs` | types of `Dispatch`, and that it implements `JobContract` | `Dispatch`, `AllocatorProofs` |
| `DispatchRunProofs` | starts, slots, sessions, windows, deadlines and blocks of `Dispatch` | `DispatchProofs` |
| `RecordProofs` | deferrals on record, and the agreement of agent and cloud | `SystemProofs` |
| `AllocatorProofs` | theorems about the allocator; the lemmas on starts, loads and recursive functions that the next three rest on | `Allocator`, `TLAPS` |
| `PlannerProofs` | theorems about `Planner` | `Planner`, `AllocatorProofs` |
| `BacktestProofs` | theorems about `BacktestRuns` | `BacktestRuns`, `AllocatorProofs` |

### Agent and cloud

**State.** `db[r]` is the row of `state.Tracked` for job `r` (or `None`), `outA` and `outR` the two outbox tables,
`askAll` the flag `release_requested`. `loop` holds the locals of `run_once` (`pc` says between which two steps it is,
`rows` the `squeue` snapshot, `copy` the rows `refresh` read at its start, `sent` the request body, `dec` the decisions
not yet dealt with, `cur` the row `apply_decision` read), `rel[p]` those of `release_all` in the loop and in the
command. `job[r]` is Slurm's record; `job[r].ours` is history: the begin time in force was last written by a deferral.
`cjob[r]` is the row of `managed_jobs`, `site` the two switches. Only durable variables survive `Crash`.

**Actions.** One Slurm command or one commit is one step; everything else in the code between two of them is part of
the step it precedes. `Decide; SetStart; Verify; SaveApplied; PutApplied` is `apply_decision`,
`ReleaseJob; SaveRelease; PostRelease` is one turn of `release_all`'s loop, `Acknowledge` is the four commits after an
answer and `AckCrash(k)` the same cut off after the first `k`. `Close` is `_close_finished` with accounting that is
final, lags, or never knew the job. The audit log, wording, and the columns that only carry money are left out.

**Abstractions.**
- Times are small naturals. `submit_time` is left out; `ran` says that `start_time` and `end_time` are both known,
  which is what `finalize` asks for. A start known while the job runs is not kept apart: only `finalize` reads it.
- The six final states of Slurm are one, `DONE`. So is the end of a pending array's row, which leaves `squeue` unstarted
  when its tasks take its place (`Unfold`); the agent closes it without asking accounting.
- `scontrol show job` (`detail`) may not know a finished job, and what it prints may not be readable: to the code both
  are "no answer", and the second is an incident in the model.
- Any cloud: `Agent!Next` lets the cloud answer any decision for any job, or nothing, which is what `AgentProofs` needs:
  its theorems do not trust the cloud. `SyncSystem` replaces that by the real `process_sync`.
- In `Cloud!Planned`, prices, tariffs and the capacity booked by other jobs are a choice among all starts of the window
  that the code computes, plus the two outcomes "nothing cheaper" and "nothing fits". Whatever holds for every choice
  holds for the code's.
- The rules (which jobs are covered, and how long they may wait) are `Refs` and `MaxWait`.

### Planner

`Cloud!Planned` leaves the start of a planned job open; `Planner` is the code that chooses it. It keeps the rows of
`Cloud`, its agent is reduced to reports and runs, and `PlansAsCloud` says that each of its plans is one that `Cloud`
allows. What is checked or proved of `SyncSystem` with any of those plans holds with this planner. `loose` (history)
marks capacity that was taken without a look at what is left (a plan kept when nothing fits, a pull-back, a start later
than applied, an older decision applied to a pinned job); `fresh` says that
nothing has happened since the last plan.

### Job service and dispatch

**State.** `job[j]` is a row of `jobs`: status, window, deadline, length, provider, `began` for `executed_at`, `ref` for
`external_ref`. `twin[j]` is its `'without'` row in `job_runs`; `logged` the jobs with savings (and the `'with'` row,
written in the same commit). `replan` is a `replan_pending` between its reads and its commit. `disp` holds the locals
of `tick`: the phase, the kind of run, the jobs it still has to look at, the one at hand, its reading of the clock.
`misses` is `dispatch._misses`. `prov` is what the provider really runs, and how often it was asked to start each run.
`hist` and `odd` are history: jobs left in a window that a re-plan could not place again or scheduled after they had
expired; whether the demo turned the clock during the tick; starts that a tick left undone.

**Actions.** `create_job` is one transaction under the lock, so one step. `ReplanRead` and `ReplanWrite` are one
transaction too, but the dispatcher does not take its lock: what it writes in between stays, except for the columns
that the re-plan changed (`Flushed`), and a row that the demo deleted makes the whole commit fail. A tick is
`TickBegin` (the expiry), `SelectDue`, then for each job `Claim; Start; Save`, then the same for twins, then
`SelectRunning; Poll` and `SelectRunningTwins; PollTwin`: every commit and every call of the provider is a step.
`Start` has the outcomes of a call: a run and a handle, or (as an incident) a handle without a run, neither, or a run
without a handle. `Poll` sees what the provider says of the run, or, as an incident, an error or no run. `Crash` forgets
what is in memory, `Restart` is `recover_on_startup`, `TickAborts` the loss of the database, which the process survives.
`DemoReplay` and `DemoLive` set the clock, and a replay's reset deletes jobs, runs and savings.

**Abstractions.** Which of several due jobs comes first is left open. A reset and the turn of the clock are one step,
where the code commits and then sets the clock in memory. A quote is a submission that is rolled back and so no step.
Provider registrations are fixed when a behaviour begins (`Registries`). Money is in no decision of the dispatcher.
A request reads the clock before it waits for the lock (`main.py:159`): `Readings` bounds that wait by a minute, which is
also the shortest job, so that a job is not overdue when it is stored; nothing in the code bounds it. A re-plan
reads its clock when it has the lock, where the code reads it just before; and a request is not on its way while the demo
turns the clock.

### Backtests

A past job is `[submit, dur, gpus, pick, jitter]`, where `pick` and `jitter` are what the two hashes of its id decide
(`_is_flexible`, `jitter_minutes`), so each job of a file has its own. A file is given in the order of the replay, which
the code sorts it into. `run_backtest` is a function over the sequence of jobs, each placed after those before it, with the
counts and the two bills of the whole file; `sensitivity` is the same for every share and slack of the grid. Bills are
whole numbers, in units of one GPU's minute at the base rate: power, rate and the rounding to four places are left
out, and so are energy, delays and the breakdowns by hour, zone and day. Durations are whole minutes, to which the
code rounds them up. A report is a record that outlives its place in the bounded table. `asker[i]` says how far the request of
report `i` is, `pool` is the executor's queue with the task at work at its head. Each write a reader can tell from the
next is a step, because neither the worker nor the reader's copy is atomic; the status and the text of an error, which
one statement writes one after the other (`backtest_runs.py:127`), are one step, as the text is left out.

## 3. Runs

| Run | Expect | What it shows | Instance |
|---|---|---|---|
| `MCAgent` | pass | `TypeOK`, `LimitKept`, `DeferralsOnRecord`, `HandsOff`, `ReportsKept` | 1 job, clock to 2, wait 1, any two incidents among owner's edits, failed Slurm commands and crashes, or one release-all beside the loop; both modes; decisions within and beyond the limit |
| `MCSystem` | pass | `WithinHardLimit`, `Agreement`, `NoReportLost` | 1 job, any two of switch, failed command, crash, lost request or answer; days with and without a tariff |
| `MCSystemOthers` | pass | `SystemTypeOK`, `Agreement`, `NeverBack` | 1 job, one of edit, release-all, late request, from every state of the exchange |
| `MCSystemLive` | pass | `KillSwitch`, `FinishReported`, `OverrideReported` | 1 job; one release-all, or a lost message and beside it (before or after) another one, an edit or a switch; both site modes |
| `MCAgentKill` | violation | `KillSwitchReachesAll` | one failed Slurm command |
| `MCAgentOwner` | violation | `OwnerHasTheLastWord` | one owner's edit |
| `MCSystemLate` | violation | `RetriesAreHarmless` | one late request |
| `MCSystemPinned` | violation | `PinnedIsNotMoved` | one lost answer, freeze 1 |
| `MCDispatch` | pass | `DispatchTypeOK`, `SlotsKept`, `SessionsKept`, `WindowsFit`, `BlocksKept`, `StartedOnce`, `OverdueNotRun`, `ContractKept` | 2 jobs and their twins, 1 slot, 1 job a block, clock to 4, three price curves of which one has a hole, with and without a provider; one crash, lost database, failed start or failed poll |
| `MCDispatchLive` | pass | `EveryJobEnds`, with `OverdueNotRun` and `ContractKept` under the demo | the same with two curves; the one incident may also be a replay (with or without reset) or a return to live |
| `MCDispatchTwin` | violation | `SlotsComeBack` | one crash |
| `MCOffline` | pass | `ReplanStable`, `CapacityKept`, `PlansAsCloud`, `WaitIsSafe`; `RunsBounded`, `ReportWhole`, `OnlyForward`, `ReportEnds` | 2 jobs on a share of one GPU, two price curves, blocks of 2 minutes; 4 reports, 2 at work, 3 kept, files with and without faults |

**Bounds.** `MaxTime` bounds the clock, `Budget` with `Cost[kind]` the incidents: a kind dearer than the budget cannot
happen in that run, so each run names what it studies. A cycle that is not an incident may repeat for ever. A clock of
2 with a wait of 1 lets a decision be in the past, now, later, exactly at and beyond the limit. Two incidents are the
shortest way to every failure of a failure (a crash after a time-out, an edit while an answer is lost). In
`MCSystemLive` a lost message is cheap enough to be spent beside the switch, the edit or a second loss, so that the
switch is set, and a change is noticed, with a request or an answer lost before or after it. One job is
enough for most properties because rows, outbox entries and Slurm commands are kept per job. What jobs share (a
request, an outbox, a cycle) matters to `ReportsKept`, which is proved for any number of them.

In `MCDispatch` two jobs compete for one slot and for a block that has room for one, so a full block, a full
slot and a job that is left for a later tick all occur; a job of one minute with one minute to spare can be early, just in time and
overdue within a clock of 4. Requests may be ones that are refused: too long, no time left, an
unknown provider; and ones that read the clock a minute ago. The bound on active jobs is not reached (`MAX_ACTIVE` equals the number of jobs). `GRACE` of 2 lets a miss be the last and not the last. One incident at any of the steps of a tick is
enough for each hazard listed; the theorems of `DispatchRunProofs` have any number of them. `FREEZE` and `REPLAN` are
0 there, so a job whose prices are missing waits, or not, by `wait_for_prices` alone at the block's own edge; how much margin the
wait needs is what `WaitIsSafe` checks in `MCOffline`, over every length, deadline, offset, time and published curve of
the instance. `MCOffline` has jobs of one and two minutes with different offsets in blocks of two, so that windows
straddle blocks; prices that are extended and prices that are corrected; a report evicted before it has ended
(`MAX_KEEP` 3 of 4), and files of which two jobs want the same block, in the captured week and in another.

Deadlock is checked in every run but `MCOffline`, where both parts really end: all reports have been asked for and are
over, or all jobs are over at the last reading of the clock.

**Fairness.** `FairSpec` has weak fairness of the agent's own steps (the loop of `cli.cmd_run` calls `run_once` again
after any outcome, and systemd restarts it) and of `Exchange`. `Exchange` is enabled as long as the agent waits, so its
fairness says that a request that is neither lost nor delayed is answered; lost ones are incidents, of which there are
finitely many. Nothing is assumed of Slurm, of job owners, of the operator or of release-all. `KillSwitch` is therefore
conditional: if the switch stays on from some point, then from some point on no pending job is on record as deferred.
Failed Slurm commands are not in that run: a release that failed leaves the row as it was, for the next cycle to try.

`Dispatch` has weak fairness of the tick's steps (`runner.py` schedules the tick at an interval and catches what it
throws), of `Restart` (the service is restarted), of the clock, and of the end of a run (Kaggle ends it after a
time-out). Nothing is assumed of submissions, of re-plans, of prices or of the demo. `EveryJobEnds` exempts one case:
the database went away between the claim and the save and the process lived on; nothing but a restart ever looks at
such a job (`odd.cut`). `RunsFairness` says that a request which was let in goes on and that the worker does.

**The findings** (each with the line it contradicts in `PROJECT.json`):
- *A deferral nobody has on record.* If `set_start` times out although Slurm carried it out, or the read that confirms
  it fails, `applied_start` is never saved; the kill switch and release-all pass the job by. It still starts in time
  (`LimitKept`).
- *The owner's begin time is overwritten.* `release_all` does not look at `override`.
- *A late request is not harmless.* A report carries no order, so an old one replaces the applied start of a newer one.
  It is put right if the plan differs from that value: then it is sent again, the agent confirms it as already set,
  and its report restores the record. If the job starts first, or a switch keeps decisions back, the cloud's
  record keeps a start that was not in force.
- *A pinned job is still asked to move.* The planner leaves it alone, but the answer is built from its old plan.
- *A twin keeps its slot for ever.* `recover_on_startup` looks at `jobs` only. A twin that was claimed when the process
  stopped has no handle, so nobody polls it, and its slot is counted as taken from then on.

Some properties name in their antecedent what they do not survive, and TLC finds a counterexample without each of these
exclusions: `DeferralsOnRecord` a failed Slurm command, a crash and an overlapping release-all; `HandsOff` and
`OverrideReported` an overlapping release-all (it saves an older copy of a row); `Agreement` a crash between the save
and its report, and a late request; `OverdueNotRun` a job scheduled again after it had expired and a clock turned during
the tick; `BlocksKept` and `CapacityKept` the windows that are kept, or taken, without a look at the capacity;
`WaitIsSafe` price curves with a missing block: `wait_for_prices` looks at the last priced block only, and those before
it need not be there (an ingest that skipped a period that failed, `ingest_iex.py:73`, can leave such a curve).

## 4. Proofs

`AgentProofs` proves about the agent, for every set of jobs, every clock, budget, mode and answer of any cloud:

- `TypeCorrect`: `Spec => []TypeOK`. Inductive only with `LoopShape` and `RelShape`: a local variable that the next
  step uses is there (for instance, `loop.ref` is a job and `loop.cur` a row while `pc` is between the decision and its
  record).
- `LimitIsKept`: `Spec => []LimitKept`. No begin time of the agent's makes a pending job wait past
  `first_seen + 2 * max_wait + 300 s`, whatever the cloud answers and whatever fails.
- `ReportsAreKept`: `Spec => ReportsKept`. The outcome of a decision waits in the outbox, unchanged, for an answer to a
  request that carried it.
- `HandsAreOff`: `Spec => HandsOff`. Without an overlapping release-all, a job that is off limits is never deferred
  and never becomes manageable again.

`SystemProofs` proves about the composition, with the real `process_sync` and the lossy exchange:

- `SystemTypeCorrect`, `SystemLimitIsKept`: types and the agent's limit, in the composed system.
- `HardLimitIsKept`: `SystemSpec => []WithinHardLimit`, the cloud's own bound on what it plans.
- `NeverMovesBack`: `SystemSpec => NeverBack`, for requests that come late, in any order and any number of times.
- `NoReportIsLost`: `SystemSpec => NoReportLost`: what the agent forgets, the cloud has on record.

`RecordProofs` follows the begin times themselves:

- `DeferralsAreOnRecord`: `Spec => []DeferralsOnRecord`, of the agent against any cloud: between two cycles every
  deferral in force is in the file, as long as no Slurm command failed, nothing crashed and no release-all overlapped.
- `TheyAgree`: `SystemSpec => []Agreement`, of the composition: what is on record as applied at both ends is the same.

`DispatchProofs` and `DispatchRunProofs` prove about the job service and its dispatcher, for any number of jobs and
slots, any prices, and any number of incidents of every kind:

- `DispatchTypeInvariant`: `Spec => []DispatchTypeOK`.
- `DispatchImplementsContract`: `Spec => ContractKept`, the refinement: the phase of a job is read off its row
  (`PhaseOf`), the ledger is `logged`.
- `NeverStartedTwice`: `Spec => []StartedOnce`.
- `SlotsAreKept`: `Spec => []SlotsKept`.
- `WindowsAlwaysFit`: `Spec => []WindowsFit`.
- `OverdueIsNotRun`: `Spec => OverdueNotRun`.
- `SessionsAreKept`: `Spec => []SessionsKept`: what the provider really runs, with the runs nobody has a row for.
- `BlocksAreKept`: `Spec => []BlocksKept`: the capacity ledger, although re-plans write over rows that have changed.

`AllocatorProofs` proves, for blocks of any length, any prices, jitter, bookings and caps:

- `AllocateFindsTheBest`: `allocate` raises `NoCapacityError` only when no start is in time, priced and within the cap;
  otherwise it returns the cheapest of them, the earliest of those that cost the same, and no other is as good.
- `WaitingIsSafe`: where `wait_for_prices` tells a job to wait, it still has a start outside the freeze margin at any
  re-plan up to the next one, at prices without a missing block.

`PlannerProofs` proves about `plan_site`, for any number of jobs, prices, tariff, capacity and clock:

- `PlansAreTheClouds`: `PlannerSpec => PlansAsCloud`, the step that connects the two halves of the planner: each plan is
  one of those `Cloud!Planned` offers, so the theorems about the composition hold with this planner.
- `CapacityIsKept`: `PlannerSpec => []CapacityKept`.
- `ReplanIsStable`: `PlannerSpec => []ReplanStable`.
- `WaitingNeverTraps`: `PlannerSpec => []WaitIsSafe`.

`BacktestProofs` proves about the reports, for any files, bounds and number of reports:

- `ReportsAreWhole`: `RunsSpec => []ReportWhole`. A report that is done has all its parts; and of each replay in it
  (`Credible`) the moved jobs could wait, wait no longer than the slack, run at known prices to their last minute and
  share each block within the capacity (`PlacedWell`), the counts add up, and baseline less scheduled is the saving of
  the moved jobs alone (`AddsUp`). For files in which every job has its own jitter.
- `ReportsGoForward`: `RunsSpec => OnlyForward`.
- `RunsAreBounded`: `RunsSpec => []RunsBounded`.

The arguments:

- *The limit.* `apply_decision` checks the limit against a row it has read; the write comes later, and both the row and
  the job can change in between. So `IInv` says, of every job that is not finished (`Alive`): its row exists whenever
  a begin time of ours is in force (`OnFile`), nobody closes or prunes it, and each copy of the row held anywhere
  (`refresh`'s copies, `apply_decision`'s, those of either `release_all`) has the same `first_seen` as the row in the
  database (`Copied`). `first_seen` is the one column all writers agree on, and that is why whole-row saves from stale
  copies, which do lose other columns, cannot lose the limit. Once Slurm says a job is finished no deferral can be in
  force, and the invariant asks nothing more of it.
- *The outbox.* `ReportsInv`: while a request is out, the outbox is what the request carried; and a job whose decision
  is still to be dealt with has no report waiting. The first makes it safe that an answer clears the keys it sent,
  the second that `put_applied` replaces rows.
- *Off limits.* `HandsInv`: as long as one process works on the file, every row that it still has to write is the row
  in the database, and the one about to be deferred is not off limits. The check in `apply_decision` reads the row
  itself, so the copies it is handed need not be trusted. A release-all process breaks exactly this.
- *The composition.* The lemmas of `AgentProofs` about an answer hold for every answer of the right type (`Reply`), and
  `process_sync` gives no other; every step of `SyncSystem` is such a step of the agent or leaves the agent alone. So
  the agent's invariants carry over, and `SystemInv` adds the cloud's: a job with a decision
  under way or a report waiting is one the cloud has a row for (`Known`); without it `_apply_reports` would skip the
  report and the agent would forget it.

- *One outcome.* `RowsRight`: a row has begun exactly from its claim. `TickRight`: what the tick is about to start, save
  or poll is running or was deleted; only the tick itself takes a job out of `running`, apart from a restart, when
  there is no tick, and a reset. `ReplanRight` is what the missing lock could break: a job that a re-plan is about to schedule has
  not begun, though it may have expired; for a queued job cannot be claimed, so that the older copy is never of a job
  that runs. Every step is then a step of the contract or a stutter.
- *One start.* `StartsRight`: a run that was asked for has been claimed, and the tick is not about to ask for it
  again. It rests on what one step may do to a row (`RowSteps`), to the tick's place (`PlaceSteps`) and to the
  provider: a row of a job never comes back to `scheduled` after it has begun, a twin's never after it was taken.
- *Slots.* What is chosen but not yet claimed must be counted (`Chosen`), otherwise the bound is not inductive. A
  choice takes as many as are free; each claim moves one from chosen to running, or drops it; a submission or a
  re-plan adds nothing that runs.
- *Windows.* `ReplanFits`: also the windows that a re-plan has yet to write end before the deadlines. It needs that
  deadlines and lengths never change, and that the window comes from `allocate`, whose result is one of the starts
  it compares (`AllocateIn`).
- *Deadlines.* `DueRight`: while a tick fires, a job that waits has a deadline no earlier than the tick's reading, or
  was revived. A new job's request read the clock less than a minute ago and its run takes a minute at least, so its deadline
  is not before the clock, which is past the tick's reading unless the demo turned it.
- *On record.* `RecordInv`: a begin time of ours in force is the one in the row, or the one `apply_decision` is about to
  save; no release of it is on its way to the row; and the loop has read the job as waiting. `AgreementInv`: the cloud's
  applied start is the row's, or a report that says so waits in the outbox or is about to be put there; the copies
  `refresh` works from say the same, as it writes whole rows back from them.
- *Sessions.* `SessionsInv`: a run that goes on has its slot (`InSlot`: the row is running and its handle is in it, or on
  its way there), or is a stray, and strays are at most `MAX_RUNNING` for each incident spent (`StraysBounded`): a step
  that takes a run's slot away is one of the incidents, and there are no more than `MAX_RUNNING` slots to take.
- *Blocks.* `BlocksInv`: the rows' windows fit without those that were kept (`LedgerKept`), and so will the rows once the
  re-plan under way has written (`PlanKept`): between its reads and its commit rows only leave the ledger
  (no submission gets past the lock), and an expired row that the commit revives was counted by the re-plan already. That a plan's windows fit
  together is `LastBooked`: of the bookings in a block, the last one made saw all the others.
- *Loads.* The load of a block is the number of minute units the bookings take of it, so that adding a booking is
  adding a finite set, and no fold has to be reasoned about.
- *Recursive definitions.* A re-plan, a plan and a replay are functions of the numbers of the jobs, each value from those
  before it. That such a function exists, and is the only one, is proved in `AllocatorProofs` (`ThereIsOne`, `OnlyOne`)
  from the least number at which it would fail; so nothing about them is assumed. `SumExists` does the same for the sum
  in a bill.
- *Plans.* `PlansRight`: an applied start that is the planned one is that of a planned job, which is what makes a plan
  kept as it is one of `Cloud`'s. `RoomKept`: the starts that were looked at fit together; a run, a report or a price
  only takes bookings away or marks them `loose`. `FreshPlan`: as long as nothing happens after a plan, the rows
  are those of a plan for these very rows; there is only one, so planning again gives the same.
- *Reports.* `RunsRight` says of each report what there is of it by how far its request and its work are: a report that is
  not yet marked running is queued, the parts come before the stage that says so, and a part that is there is what
  `run_backtest` or `sensitivity` gives for its file, which is credible (`ReplayIsCredible`). The totals are loops over the
  file (`LoopExists`); that they add up is shown at the least turn at which they would not. `allocate`
  returns only windows of which every block is priced; `PricedToTheEnd` carries that from the blocks to the minutes. The bound on active
  reports is inductive because only `start` makes a report active, and looks at the bound first.

`IInv`, `ReportsInv`, `HandsInv`, `SystemInv`, `RecordInv` and `AgreementInv` were checked by TLC on the instances above
before they were proved. Each proof has one step per action, or per group of actions alike for the invariant, and below
it one per conjunct the action can disturb.

Assumptions: `BaseAssumption`, `SlurmAssumption`, `AgentAssumption`, `NoneAssumption` and `AbsentAssumption` (the absent
value is no row), `CloudAssumption`, `ReplyAssumption` (decisions are times; only for the agent against any cloud);
`AllocatorAssumption`, `ServiceAssumption`, `DispatchAssumption`; `PlannerAssumption` (finitely many jobs, numbered; the
planner's freeze is the sync's), `BacktestAssumption` (some prices are captured, `price_window` takes the first of them; the blocks they are of lie
within `Horizon`; the tariff gives each block a multiplier) and `RunsAssumption`. TLC evaluates all of them in every run of a module that extends the one that states them.

Every safety invariant and every action property of the passing runs is a theorem. Only model-checked: all liveness
(`EveryJobEnds`, `ReportEnds`, `KillSwitch`, `FinishReported`, `OverrideReported`; fairness and `ENABLED` are out of the
prover's reach), and the properties of the five runs that find them violated. No module declares a `RECURSIVE` operator.

## 5. Not modelled, and why

- *Site views and the summaries* (`site_views.py`, the summary in `measured.py`, the reports of `savings.py`): read-only
  projections of rows that are modelled; no other part reads them back.
- *The amounts of a measurement*: `finalize` is modelled as to when and how often, not as to how much.
- *Tariff zones, catalogue, forecast*: tables and a moving average; the allocator gets a rate for each block, any.
- *Kaggle itself*: the provider is an environment that fails, forgets and ends runs; uploads and polling of kernels are
  not. `providers/fake.py` is one of its behaviours.
- *A restart of the cloud during a backtest*: the table and the pool are in memory and lost together, which no other part
  notices.
- *Parsing* of `squeue`, `scontrol`, `sacct`, CSV and YAML; authentication, rate limits, routing, wording and audit
  logs; the dashboard; the end-to-end lab: input and output without a protocol.

The hazards no property covers yet are in `PROJECT.json` with the reason.

## 6. Plan

1. `Cloud`'s hard limit and `Planner`'s capacity in one composition: `SyncSystem` with `plan_site` for `Cloud!Planned`, so
   that `PlansAreTheClouds` becomes a refinement of specifications and not of steps.
2. The summary of `measured.py` and the display state of `site_views.py` as operators.
3. An outbox longer than a request may be (`agent_sync.py:56`), as a bounded variant of the agent's body.
