----------------------------- MODULE JobService ------------------------------
(***************************************************************************)
(* The job service of the demo (service.py) and what it works on: the jobs *)
(* and job_runs tables, the published prices, the clock of clock.py.       *)
(*                                                                         *)
(* submit_job and replan_pending hold one advisory lock from their first   *)
(* read to their commit.  submit_job is one step.  replan_pending is two,  *)
(* because the dispatcher does not take that lock: it reads the rows, and  *)
(* later writes those it changed over whatever has become of them.         *)
(*                                                                         *)
(* Jobs are numbered in the order they are submitted, which is the order   *)
(* replan_pending takes them in.  Money is left out: no decision here      *)
(* depends on a bill.                                                      *)
(***************************************************************************)
EXTENDS Allocator

CONSTANTS
    NumJobs,             \* bound: jobs submitted in a run
    Requests,            \* what may be asked for: [dur, slack, provider], minutes to run and minutes to spare
    MAX_DURATION_MIN,    \* service.MAX_DURATION_MIN
    Jitter,              \* [Jobs -> Nat], jitter_minutes
    Curves,              \* what may be published: functions from blocks to rates
    CAP,                 \* settings.cap_minutes_per_block
    MAX_ACTIVE,          \* settings.max_active_jobs
    MaxTime              \* bound: the last reading of the clock

Jobs == 1 .. NumJobs
PROVIDERS == {"kaggle", "github_actions"}

ASSUME ServiceAssumption ==
    /\ NumJobs \in Nat /\ CAP \in Nat /\ MAX_ACTIVE \in Nat /\ MaxTime \in Minute
    /\ MAX_DURATION_MIN \in Nat /\ \A req \in Requests : req.dur \in Int /\ req.slack \in Int
    /\ Jitter \in [Jobs -> Nat]
    /\ \A c \in Curves : DOMAIN c \subseteq Blocks /\ \A b \in DOMAIN c : c[b] \in Int

VARIABLES
    now,       \* clock.now
    rate,      \* the priced blocks of the active source
    job,       \* table jobs
    twin,      \* the 'without' rows of job_runs
    replan,    \* a replan_pending between its reads and its commit
    hist       \* history: kept, jobs left in a window that a replan could not place again; revived, jobs that
               \* had expired when a replan wrote them scheduled

serviceVars == <<now, rate, job, twin, replan, hist>>

(* "new" has no row yet, "deleted" no row any more.  began: executed_at is set; ref: external_ref is. *)
JobStatus == {"new", "queued", "scheduled", "running", "done", "failed", "deleted"}
Job == [status : JobStatus, win : MaybeMinute, dl : 0 .. MaxTime, dur : Nat, provider : PROVIDERS,
        began : BOOLEAN, ref : BOOLEAN]
NoJob == [status |-> "new", win |-> NoStart, dl |-> 0, dur |-> 0, provider |-> "kaggle", began |-> FALSE, ref |-> FALSE]
TwinStatus == {"none", "scheduled", "running", "done", "failed"}
Twin == [status : TwinStatus, ref : BOOLEAN]

Waiting == {"queued", "scheduled"}
Active == {"queued", "scheduled", "running"}

NoReplan == [on |-> FALSE, win |-> [j \in Jobs |-> NoStart], place |-> {}, kept |-> {}, free |-> {}]

ServiceTypeOK ==
    /\ now \in 0 .. MaxTime
    /\ rate \in Curves
    /\ job \in [Jobs -> Job]
    /\ twin \in [Jobs -> Twin]
    /\ replan \in [on : BOOLEAN, win : [Jobs -> MaybeMinute], place : SUBSET Jobs, kept : SUBSET Jobs, free : SUBSET Jobs]
    /\ hist \in [kept : SUBSET Jobs, revived : SUBSET Jobs]

ServiceInit ==
    /\ now = 0
    /\ rate \in Curves
    /\ job = [j \in Jobs |-> NoJob]
    /\ twin = [j \in Jobs |-> [status |-> "none", ref |-> FALSE]]
    /\ replan = NoReplan
    /\ hist = [kept |-> {}, revived |-> {}]

-----------------------------------------------------------------------------
(* The capacity ledger: derived from the rows, never stored. *)

BookingOf(j, start) == [job |-> j, win |-> start, dur |-> job[j].dur, weight |-> 1]
Bookings(jobs) == {BookingOf(j, job[j].win) : j \in jobs}
Ledger(bookings) == [b \in Blocks |-> Load(bookings, b)]

(* derive_ledger *)
Booked == {j \in Jobs : job[j].status \in {"scheduled", "running"} /\ job[j].win # NoStart}

-----------------------------------------------------------------------------
(* Placing a job *)

(* Mutant: the job may end after its deadline. *)
PlacedLate(j, at, dur, deadline, ledger) ==
    allocate(Jitter[j], dur, at, deadline + dur, PricesIn(rate, at, deadline + dur), ledger, CAP, 1)

(* Where submit_job puts job j: nowhere when nothing fits, or when it had better wait for prices. *)
Placed(j, at, dur, deadline, ledger) ==
    LET prices == PricesIn(rate, at, deadline)
        start == allocate(Jitter[j], dur, at, deadline, prices, ledger, CAP, 1)
    IN IF start # NoStart /\ wait_for_prices(prices, start, dur, deadline, at) THEN NoStart ELSE start

(* The clock as a request read it, before it got the lock.  Bound: it waits less than a minute. *)
Readings == {Latest(0, now - 1), now}

(* validate: the deadline leaves time to finish, and so on. *)
validate(req) == req.dur \in 1 .. MAX_DURATION_MIN /\ req.slack >= 0 /\ req.provider \in PROVIDERS

(* submit_job, of a request that came at the time given: one transaction under the lock.  A bad request, or a full queue, is refused: no step. *)
Submit(j, req, at) ==
    LET deadline == at + req.dur + req.slack
        start == Placed(j, at, req.dur, deadline, Ledger(Bookings(Booked)))
    IN /\ validate(req)
       /\ ~replan.on
       /\ job[j].status = "new" /\ \A i \in 1 .. j - 1 : job[i].status # "new"
       /\ deadline < MaxTime
       /\ Cardinality({i \in Jobs : job[i].status \in Active}) < MAX_ACTIVE
       /\ job' = [job EXCEPT ![j] = [status |-> IF start = NoStart THEN "queued" ELSE "scheduled", win |-> start,
                                     dl |-> deadline, dur |-> req.dur, provider |-> req.provider,
                                     began |-> FALSE, ref |-> FALSE]]
       /\ twin' = [twin EXCEPT ![j].status = IF req.provider = "kaggle" THEN "scheduled" ELSE "none"]
       /\ UNCHANGED <<now, rate, replan, hist>>

(* POST /jobs *)
create_job == \E j \in Jobs, req \in Requests, at \in Readings : Submit(j, req, at)

-----------------------------------------------------------------------------
(* replan_pending *)

MovableJobs ==
    {j \in Jobs : \/ job[j].status = "queued"
                  \/ job[j].status = "scheduled" /\ job[j].win # NoStart /\ job[j].win > now + FREEZE}

(* Mutant: a job that runs gives its capacity up. *)
PinnedScheduled == {j \in Jobs \ MovableJobs : job[j].status = "scheduled" /\ job[j].win # NoStart}

PinnedJobs == {j \in Jobs \ MovableJobs : job[j].status \in Active /\ job[j].win # NoStart}

Known == PricesIn(rate, now, Max({job[j].dl : j \in MovableJobs}))

(* Where allocate puts j, given the windows of the movable jobs before it. *)
Found(j, win) ==
    LET before == {i \in MovableJobs : i < j /\ win[i] # NoStart}
    IN allocate(Jitter[j], job[j].dur, now, job[j].dl, Known,
                Ledger(Bookings(PinnedJobs) \cup {BookingOf(i, win[i]) : i \in before}), CAP, 1)

(* One turn of the loop: the window of j, or NoStart where j stays queued. *)
Window(j, win) ==
    LET start == Found(j, win)
    IN IF j \notin MovableJobs THEN NoStart
       ELSE IF start = NoStart THEN job[j].win
       ELSE IF job[j].status = "queued" /\ wait_for_prices(Known, start, job[j].dur, job[j].dl, now) THEN NoStart
       ELSE start

Replanned == LET win[j \in Jobs] == Window(j, win) IN win

Noted(kept, free) == [hist EXCEPT !.kept = (@ \ free) \cup kept]

(* The lock, the reads and the computation; nothing is left to do when no window changes. *)
ReplanRead ==
    LET win == Replanned
        changed == {j \in MovableJobs : win[j] # NoStart /\ (win[j] # job[j].win \/ job[j].status = "queued")}
        kept == {j \in MovableJobs : job[j].status = "scheduled" /\ Found(j, win) = NoStart}
    IN /\ ~replan.on /\ MovableJobs # {}
       /\ IF changed = {}
          THEN hist' = Noted(kept, MovableJobs) /\ UNCHANGED replan
          ELSE /\ replan' = [on |-> TRUE, win |-> [j \in Jobs |-> IF j \in changed THEN win[j] ELSE NoStart],
                             place |-> {j \in changed : job[j].status = "queued"}, kept |-> kept, free |-> MovableJobs]
               /\ UNCHANGED hist
       /\ UNCHANGED <<now, rate, job, twin>>

(* The row of j after the flush: the columns that changed, whatever the row holds by now. *)
Flushed(j) ==
    [job[j] EXCEPT !.win = IF replan.win[j] # NoStart THEN replan.win[j] ELSE @,
                   !.status = IF j \in replan.place THEN "scheduled" ELSE @]

(* The flush and the commit.  A row that is gone fails the whole transaction. *)
ReplanWrite ==
    /\ replan.on
    /\ IF \E j \in Jobs : replan.win[j] # NoStart /\ job[j].status = "deleted"
       THEN UNCHANGED <<job, hist>>
       ELSE /\ job' = [j \in Jobs |-> Flushed(j)]
            /\ hist' = [Noted(replan.kept, replan.free) EXCEPT
                            !.revived = @ \cup {j \in replan.place : job[j].status = "failed"}]
    /\ replan' = NoReplan
    /\ UNCHANGED <<now, rate, twin>>

-----------------------------------------------------------------------------
(* Prices and the clock *)

(* ingest: more days, and new prices for the days it fetches again; nothing is removed. *)
Ingest ==
    /\ \E curve \in Curves \ {rate} : DOMAIN rate \subseteq DOMAIN curve /\ rate' = curve
    /\ UNCHANGED <<now, job, twin, replan, hist>>

Tick ==
    /\ now < MaxTime
    /\ now' = now + 1
    /\ UNCHANGED <<rate, job, twin, replan, hist>>
=============================================================================
