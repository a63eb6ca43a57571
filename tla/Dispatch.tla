------------------------------ MODULE Dispatch -------------------------------
(***************************************************************************)
(* The dispatcher: runner.tick in one thread, over the rows of JobService, *)
(* against a provider of GPU runs that dispatch does not control.          *)
(*                                                                         *)
(* A tick is fire_due_jobs, fire_twins, poll_running and poll_twins.  Each *)
(* commit, and each call of the provider, is a step, so that a crash, a    *)
(* re-plan, a request or the demo's reset can come between any two.        *)
(*                                                                         *)
(* A run has a kind, as in JobRun: "with" is the job itself, "without" its *)
(* twin.  Which of several due jobs is started first is left open.         *)
(***************************************************************************)
EXTENDS JobService

CONSTANTS
    MAX_RUNNING,      \* settings.max_concurrent_runs
    GRACE,            \* NOT_FOUND_GRACE_TICKS
    Registries,       \* what build_providers may register: nothing without a Kaggle user
    Anchors,          \* the times of day /demo/replay may be asked to start from
    RealTimes,        \* the real time, whenever the demo's clock is given up
    Sample,           \* the prices of the captured day that /demo/replay loads
    Incidents,        \* the kinds of incident of the instance
    Budget            \* bound: incidents in a run

Kinds == {"with", "without"}
IncidentKinds == {"crash", "abort", "start", "status", "demo"}

ASSUME DispatchAssumption ==
    /\ MAX_RUNNING \in Nat /\ GRACE \in Nat \ {0} /\ Budget \in Nat
    /\ Anchors \cup RealTimes \subseteq 0 .. MaxTime /\ Sample \in Curves
    /\ Incidents \subseteq IncidentKinds

VARIABLES
    disp,      \* the locals of tick
    misses,    \* dispatch._misses
    logged,    \* the jobs with a row in savings_log (and a 'with' row in job_runs)
    prov,      \* external: the state of the real runs, and how often each was started
    providers, \* the providers that were registered at start
    sim,       \* clock._sim is set
    odd,       \* history: turned, the demo turned the clock in this tick; cut, jobs whose start a tick left undone
    spent      \* bound: incidents so far

dispatchVars == <<disp, misses, logged, prov, providers, sim, odd, spent>>
vars == <<now, rate, job, twin, replan, hist, disp, misses, logged, prov, providers, sim, odd, spent>>

(* Where a tick stands: "due" means that the overdue jobs have been failed, "claim" that runs of the *)
(* kind have been chosen, "start" that one is claimed, "save" that the provider was called, "poll"    *)
(* that the runs of the kind have been listed.                                                        *)
Phases == {"down", "idle", "due", "claim", "start", "save", "poll"}
Idle == [pc |-> "idle", kind |-> "with", t |-> 0, todo |-> {}, cur |-> 0, got |-> FALSE]
Down == [Idle EXCEPT !.pc = "down"]

Run == [st : {"none", "live", "over"}, starts : Nat]

DispatchTypeOK ==
    /\ ServiceTypeOK
    /\ disp \in [pc : Phases, kind : Kinds, t : 0 .. MaxTime, todo : SUBSET Jobs, cur : Jobs \cup {0}, got : BOOLEAN]
    /\ disp.pc \in {"start", "save"} => disp.cur # 0
    /\ misses \in [Jobs -> 0 .. GRACE - 1]
    /\ logged \subseteq Jobs
    /\ prov \in [Kinds -> [Jobs -> Run]]
    /\ providers \in Registries
    /\ sim \in BOOLEAN
    /\ odd \in [turned : BOOLEAN, cut : SUBSET Jobs]
    /\ spent \in 0 .. Budget

DispatchInit ==
    /\ ServiceInit
    /\ disp = Idle
    /\ misses = [j \in Jobs |-> 0]
    /\ logged = {}
    /\ prov = [k \in Kinds |-> [j \in Jobs |-> [st |-> "none", starts |-> 0]]]
    /\ providers \in Registries
    /\ sim = FALSE
    /\ odd = [turned |-> FALSE, cut |-> {}]
    /\ spent = 0

Incident(kind) ==
    /\ kind \in Incidents /\ spent < Budget
    /\ spent' = spent + 1

-----------------------------------------------------------------------------
(* The rows as the dispatcher sees them *)

RunningJobs == {j \in Jobs : job[j].status = "running"}
RunningTwins == {j \in Jobs : twin[j].status = "running"}

(* Mutant: twins are not counted. *)
JobsOnly == Cardinality(RunningJobs)

(* _running_count *)
RunningCount == Cardinality(RunningJobs) + Cardinality(RunningTwins)
Free == Latest(0, MAX_RUNNING - RunningCount)

(* A query with a limit: as many as there are, up to n, and none left out that comes before one taken. *)
FirstOf(S, n, key) ==
    {T \in SUBSET S : /\ Cardinality(T) = Earliest(n, Cardinality(S))
                      /\ \A i \in T, k \in S \ T : key[i] <= key[k]}

(* Mutants: expired jobs are not failed; jobs that run past their deadline are. *)
ExpiredKept(t) == job
ExpiredRunning(t) ==
    [j \in Jobs |-> IF job[j].status \in Active /\ job[j].dl < t THEN [job[j] EXCEPT !.status = "failed"] ELSE job[j]]

(* expire_overdue *)
Expired(t) ==
    [j \in Jobs |-> IF job[j].status \in Waiting /\ job[j].dl < t
                    THEN [job[j] EXCEPT !.status = "failed"] ELSE job[j]]

(* The session of the tick ends with an exception: a row it worked on is gone. *)
Abort == disp' = Idle

-----------------------------------------------------------------------------
(* fire_due_jobs and fire_twins *)

TickBegin ==
    /\ disp.pc = "idle"
    /\ job' = Expired(now)
    /\ disp' = [Idle EXCEPT !.pc = "due", !.t = now]
    /\ odd' = [odd EXCEPT !.turned = FALSE]
    /\ UNCHANGED <<now, rate, twin, replan, hist, misses, logged, prov, providers, sim, spent>>

SelectDue ==
    LET due == {j \in Jobs : job[j].status = "scheduled" /\ job[j].win # NoStart /\ job[j].win <= disp.t}
    IN /\ disp.pc = "due"
       /\ \E todo \in FirstOf(due, Free, [j \in Jobs |-> job[j].win]) :
             disp' = [disp EXCEPT !.pc = "claim", !.todo = todo]
       /\ UNCHANGED <<now, rate, job, twin, replan, hist, misses, logged, prov, providers, sim, odd, spent>>

SelectTwins ==
    LET due == {j \in Jobs : twin[j].status = "scheduled"}
    IN /\ disp.pc = "claim" /\ disp.kind = "with" /\ disp.todo = {}
       /\ \E todo \in FirstOf(due, Free, [j \in Jobs |-> j]) :
             disp' = [disp EXCEPT !.kind = "without", !.t = 0, !.todo = todo]
       /\ UNCHANGED <<now, rate, job, twin, replan, hist, misses, logged, prov, providers, sim, odd, spent>>

(* claim: the atomic update, and its commit. *)
Claim(j) ==
    /\ disp.pc = "claim" /\ disp.kind = "with" /\ j \in disp.todo
    /\ IF job[j].status = "scheduled"
       THEN /\ job' = [job EXCEPT ![j].status = "running", ![j].began = TRUE]
            /\ disp' = [disp EXCEPT !.pc = "start", !.cur = j, !.todo = @ \ {j}]
       ELSE /\ disp' = [disp EXCEPT !.todo = @ \ {j}]
            /\ UNCHANGED job
    /\ UNCHANGED <<now, rate, twin, replan, hist, misses, logged, prov, providers, sim, odd, spent>>

(* The same for a twin.  Nothing looks at what has become of its job. *)
ClaimTwin(j) ==
    /\ disp.pc = "claim" /\ disp.kind = "without" /\ j \in disp.todo
    /\ IF twin[j].status = "scheduled"
       THEN /\ twin' = [twin EXCEPT ![j].status = "running"]
            /\ disp' = [disp EXCEPT !.pc = "start", !.cur = j, !.todo = @ \ {j}]
       ELSE /\ disp' = [disp EXCEPT !.todo = @ \ {j}]
            /\ UNCHANGED twin
    /\ UNCHANGED <<now, rate, job, replan, hist, misses, logged, prov, providers, sim, odd, spent>>

(* provider.start: there is a run and a handle; or, as an incident, a handle but no run, no handle *)
(* and no run, or no handle (it timed out) but a run.  A provider that is not configured is not     *)
(* called.  A job the demo deleted ends the tick here, or later, when the handle is saved.          *)
Start ==
    LET called(st) == [prov EXCEPT ![disp.kind][disp.cur] = [st |-> st, starts |-> @.starts + 1]]
    IN /\ disp.pc = "start"
       /\ \/ /\ job[disp.cur].provider \in providers
             /\ \/ /\ prov' = called("live")
                   /\ disp' = [disp EXCEPT !.pc = "save", !.got = TRUE]
                   /\ UNCHANGED spent
                \/ /\ Incident("start")
                   /\ \E st \in {"none", "live"}, got \in BOOLEAN :
                         /\ ~(got /\ st = "live")
                         /\ prov' = called(st)
                         /\ disp' = [disp EXCEPT !.pc = "save", !.got = got]
          \/ /\ job[disp.cur].provider \notin providers
             /\ disp' = [disp EXCEPT !.pc = "save", !.got = FALSE]
             /\ UNCHANGED <<prov, spent>>
          \/ /\ job[disp.cur].status = "deleted"
             /\ Abort
             /\ UNCHANGED <<prov, spent>>
       /\ UNCHANGED <<now, rate, job, twin, replan, hist, misses, logged, providers, sim, odd>>

(* The handle, or the failure, on the row. *)
Saved(row) == IF disp.got THEN [row EXCEPT !.ref = TRUE] ELSE [row EXCEPT !.status = "failed"]

Save ==
    /\ disp.pc = "save"
    /\ IF job[disp.cur].status = "deleted"
       THEN Abort /\ UNCHANGED <<job, twin>>
       ELSE /\ disp' = [disp EXCEPT !.pc = "claim", !.cur = 0, !.got = FALSE]
            /\ IF disp.kind = "with"
               THEN job' = [job EXCEPT ![disp.cur] = Saved(@)] /\ UNCHANGED twin
               ELSE twin' = [twin EXCEPT ![disp.cur] = Saved(@)] /\ UNCHANGED job
    /\ UNCHANGED <<now, rate, replan, hist, misses, logged, prov, providers, sim, odd, spent>>

-----------------------------------------------------------------------------
(* poll_running and poll_twins *)

SelectRunning ==
    /\ disp.pc = "claim" /\ disp.kind = "without" /\ disp.todo = {}
    /\ disp' = [disp EXCEPT !.pc = "poll", !.kind = "with", !.todo = {j \in RunningJobs : job[j].ref}]
    /\ UNCHANGED <<now, rate, job, twin, replan, hist, misses, logged, prov, providers, sim, odd, spent>>

SelectRunningTwins ==
    /\ disp.pc = "poll" /\ disp.kind = "with" /\ disp.todo = {}
    /\ disp' = [disp EXCEPT !.kind = "without", !.todo = {j \in RunningTwins : twin[j].ref}]
    /\ UNCHANGED <<now, rate, job, twin, replan, hist, misses, logged, prov, providers, sim, odd, spent>>

TickEnd ==
    /\ disp.pc = "poll" /\ disp.kind = "without" /\ disp.todo = {}
    /\ disp' = Idle
    /\ UNCHANGED <<now, rate, job, twin, replan, hist, misses, logged, prov, providers, sim, odd, spent>>

Passed(j) == [disp EXCEPT !.todo = @ \ {j}]

(* Mutant: it is asked for ever. *)
NotFoundForever(j) ==
    /\ misses' = [misses EXCEPT ![j] = @ + 1]
    /\ UNCHANGED job

(* The provider has no such run: given up at the GRACE-th time in a row. *)
NotFound(j) ==
    IF misses[j] + 1 >= GRACE
    THEN /\ job' = [job EXCEPT ![j].status = "failed"]
         /\ misses' = [misses EXCEPT ![j] = 0]
    ELSE /\ misses' = [misses EXCEPT ![j] = @ + 1]
         /\ UNCHANGED job

(* Mutant: the savings are left to a later commit. *)
ResolvedLate(j, outcome) ==
    /\ misses' = [misses EXCEPT ![j] = 0]
    /\ job' = [job EXCEPT ![j].status = outcome]
    /\ UNCHANGED logged

(* The run is over; its outcome and the savings are one commit. *)
Resolved(j, outcome) ==
    /\ misses' = [misses EXCEPT ![j] = 0]
    /\ job' = [job EXCEPT ![j].status = outcome]
    /\ logged' = IF outcome = "done" THEN logged \cup {j} ELSE logged

Poll(j) ==
    /\ disp.pc = "poll" /\ disp.kind = "with" /\ j \in disp.todo
    /\ IF job[j].status = "deleted"
       THEN /\ Abort \/ disp' = Passed(j)   \* nothing to write, if the run is still going on
            /\ UNCHANGED <<job, misses, logged, spent>>
       ELSE /\ disp' = Passed(j)
            /\ \/ prov["with"][j].st = "over" /\ (\E outcome \in {"done", "failed"} : Resolved(j, outcome)) /\ UNCHANGED spent
               \/ prov["with"][j].st = "live" /\ misses' = [misses EXCEPT ![j] = 0] /\ UNCHANGED <<job, logged, spent>>
               \/ prov["with"][j].st = "none" /\ NotFound(j) /\ UNCHANGED <<logged, spent>>
               \/ Incident("status") /\ (NotFound(j) \/ UNCHANGED <<job, misses>>) /\ UNCHANGED logged
    /\ UNCHANGED <<now, rate, twin, replan, hist, prov, providers, sim, odd>>

(* A twin that the provider does not know is asked for again, for ever. *)
PollTwin(j) ==
    /\ disp.pc = "poll" /\ disp.kind = "without" /\ j \in disp.todo
    /\ IF job[j].status = "deleted"
       THEN /\ Abort \/ disp' = Passed(j)
            /\ UNCHANGED <<twin, spent>>
       ELSE /\ disp' = Passed(j)
            /\ \/ prov["without"][j].st = "over" /\ UNCHANGED spent
                  /\ \E outcome \in {"done", "failed"} : twin' = [twin EXCEPT ![j].status = outcome]
               \/ prov["without"][j].st # "over" /\ UNCHANGED <<twin, spent>>
               \/ Incident("status") /\ UNCHANGED twin
    /\ UNCHANGED <<now, rate, job, replan, hist, misses, logged, prov, providers, sim, odd>>

-----------------------------------------------------------------------------
(* The provider, crashes, and the demo's clock *)

(* A run ends; Kaggle ends it itself after a time-out.  How it ended shows when it is polled. *)
RunEnds(k, j) ==
    /\ prov[k][j].st = "live"
    /\ prov' = [prov EXCEPT ![k][j].st = "over"]
    /\ UNCHANGED <<now, rate, job, twin, replan, hist, disp, misses, logged, providers, sim, odd, spent>>

(* The process stops: what was not committed is lost, and so is what was only in memory. *)
Crash ==
    /\ disp.pc # "down"
    /\ Incident("crash")
    /\ disp' = Down
    /\ replan' = NoReplan
    /\ misses' = [j \in Jobs |-> 0]
    /\ UNCHANGED <<now, rate, job, twin, hist, logged, prov, providers, sim, odd>>

(* Mutants: the jobs that were being started are left alone, or put back in the queue. *)
RowLeft(row) == row
RequeuedRow(row) == IF row.status = "running" /\ ~row.ref THEN [row EXCEPT !.status = "scheduled"] ELSE row

(* recover_on_startup, of a row of jobs *)
RecoveredRow(row) == IF row.status = "running" /\ ~row.ref THEN [row EXCEPT !.status = "failed"] ELSE row

(* runner.start; the demo's clock was only in memory. *)
Restart ==
    /\ disp.pc = "down"
    /\ job' = [j \in Jobs |-> RecoveredRow(job[j])]
    /\ disp' = Idle
    /\ sim' = FALSE
    /\ now' \in (IF sim THEN RealTimes ELSE {now}) /\ rate' \in (IF sim THEN Curves ELSE {rate})
    /\ odd' = [odd EXCEPT !.cut = {}]
    /\ UNCHANGED <<twin, replan, hist, misses, logged, prov, providers, spent>>

(* The database goes away under a tick: its session ends where it is, and the next tick starts over. *)
TickAborts ==
    /\ disp.pc \notin {"down", "idle"}
    /\ Incident("abort")
    /\ Abort
    /\ odd' = [odd EXCEPT !.cut = IF disp.pc \in {"start", "save"} /\ disp.kind = "with" THEN @ \cup {disp.cur} ELSE @]
    /\ UNCHANGED <<now, rate, job, twin, replan, hist, misses, logged, prov, providers, sim>>

Submitted == {j \in Jobs : job[j].status # "new"}

(* The demo sets the clock, and with it the prices that count. *)
TurnClock(simulated) ==
    /\ disp.pc # "down" /\ Incident("demo")
    /\ sim' = simulated
    /\ odd' = [odd EXCEPT !.turned = TRUE]
    /\ UNCHANGED <<replan, hist, disp, misses, prov, providers>>

(* Mutant: the savings stay. *)
DemoReplayKeeping(reset) ==
    /\ TurnClock(TRUE)
    /\ now' \in Anchors /\ rate' = Sample
    /\ IF reset
       THEN /\ job' = [j \in Jobs |-> IF j \in Submitted THEN [job[j] EXCEPT !.status = "deleted"] ELSE job[j]]
            /\ twin' = [j \in Jobs |-> [status |-> "none", ref |-> FALSE]]
            /\ UNCHANGED logged
       ELSE UNCHANGED <<job, twin, logged>>

(* POST /demo/replay: a simulated day, from any time of it; with reset, all jobs, runs and savings go. *)
DemoReplay(reset) ==
    /\ TurnClock(TRUE)
    /\ now' \in Anchors /\ rate' = Sample
    /\ IF reset
       THEN /\ job' = [j \in Jobs |-> IF j \in Submitted THEN [job[j] EXCEPT !.status = "deleted"] ELSE job[j]]
            /\ twin' = [j \in Jobs |-> [status |-> "none", ref |-> FALSE]]
            /\ logged' = {}
       ELSE UNCHANGED <<job, twin, logged>>

(* POST /demo/live: back to real time and the real prices. *)
DemoLive == TurnClock(FALSE) /\ now' \in RealTimes /\ rate' \in Curves /\ UNCHANGED <<job, twin, logged>>

-----------------------------------------------------------------------------
FireStep ==
    TickBegin \/ SelectDue \/ SelectTwins \/ Start \/ Save \/ (\E j \in Jobs : Claim(j) \/ ClaimTwin(j))

PollStep == SelectRunning \/ SelectRunningTwins \/ TickEnd \/ (\E j \in Jobs : Poll(j) \/ PollTwin(j))

(* The endpoints, the re-plan timer, the ingest and the clock: none touches the dispatcher's own state. *)
(* What is ingested is not what counts while a demo replays the captured day.                            *)
ServiceStep ==
    /\ \/ disp.pc # "down" /\ \/ create_job
                              \/ ReplanRead \/ ReplanWrite \/ (~sim /\ Ingest)
       \/ Tick
    /\ UNCHANGED dispatchVars

ARunEnds == \E k \in Kinds, j \in Jobs : RunEnds(k, j)

Next ==
    \/ FireStep \/ PollStep \/ ServiceStep
    \/ ARunEnds
    \/ Crash \/ Restart \/ TickAborts
    \/ (\E reset \in BOOLEAN : DemoReplay(reset)) \/ DemoLive

Spec == DispatchInit /\ [][Next]_vars

(* The scheduler ticks again after any outcome and the service is restarted; time goes on; a run ends. *)
FairSpec ==
    /\ Spec
    /\ WF_vars(FireStep \/ PollStep) /\ WF_vars(Restart) /\ WF_vars(Tick /\ UNCHANGED dispatchVars)
    /\ WF_vars(ARunEnds)

-----------------------------------------------------------------------------
(* Properties *)

Sessions == {s \in Kinds \X Jobs : prov[s[1]][s[2]].st = "live"}

(* Runs chosen but not yet claimed have their slot kept for them: jobs and twins together never hold  *)
(* more than MAX_RUNNING, whatever is submitted, re-planned, crashes or is reset in the meantime.      *)
SlotsKept ==
    LET taken == Cardinality(RunningJobs) + Cardinality(RunningTwins)
        chosen == IF disp.pc \in {"claim", "start", "save"} THEN Cardinality(disp.todo) ELSE 0
    IN taken + chosen <= MAX_RUNNING

(* The provider's GPU sessions, which no row of ours bounds: as many as there are slots, and the runs of  *)
(* the slots once more for every incident so far: a crash, a failed call or a reset may take the rows of  *)
(* as many runs away (one that takes none is counted as well, so it is an upper bound and not the number).*)
SessionsKept == Cardinality(Sessions) <= MAX_RUNNING * (1 + spent)

(* A window lies before the deadline of its job, also after any number of re-plans. *)
WindowsFit == \A j \in Jobs : job[j].win # NoStart => job[j].win + job[j].dur <= job[j].dl

LoadAt(b) == Load(Bookings(Booked), b)

(* No block is booked beyond the cap, except by a job that a re-plan could not place again and that was *)
(* left in its window.  A job that had expired when a re-plan scheduled it again is no exception.        *)
BlocksKept ==
    \A b \in Blocks : LoadAt(b) > CAP =>
        \E j \in Booked \cap hist.kept : b \in Spans(job[j].win, job[j].dur)

(* The provider is asked for each run of a job at most once: no crash, re-plan or tick starts it again. *)
StartedOnce == \A k \in Kinds, j \in Jobs : prov[k][j].starts <= 1

(* A job is never started after its deadline, by the clock as the tick read it.  Two exceptions: a re-plan *)
(* that read the job before it expired may have scheduled it again, and the demo may turn the clock while  *)
(* the tick goes on.                                                                                       *)
OverdueNotRun ==
    [][\A j \in Jobs : job'[j].status = "running" /\ job[j].status # "running" =>
          disp.t <= job[j].dl \/ j \in hist.revived \/ odd.turned]_vars

(* Every job comes to an end: it runs, expires, or is given up, whatever fails on the way.  Except where a *)
(* tick was cut short between the claim and the save, and the service is never restarted.                  *)
Over == {"done", "failed", "deleted"}
EveryJobEnds == \A j \in Jobs : job[j].status \in Active ~> (job[j].status \in Over \/ j \in odd.cut)

(* "so a restart loses nothing" (dispatch.py:2): a slot that a run takes is given back. *)
SlotsComeBack == \A j \in Jobs : (twin[j].status = "running") ~> (twin[j].status # "running")

(* The promise of JobContract.  A job that failed before it was claimed was never started. *)
PhaseOf(row) ==
    CASE row.status = "deleted" -> "forgotten"
      [] row.status = "running" -> "started"
      [] row.status = "done" -> "done"
      [] row.status = "failed" /\ row.began -> "failed"
      [] OTHER -> "idle"

Contract == INSTANCE JobContract WITH phase <- [j \in Jobs |-> PhaseOf(job[j])], ledger <- logged
ContractKept == Contract!ContractSpec
=============================================================================
