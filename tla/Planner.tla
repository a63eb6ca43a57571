------------------------------- MODULE Planner --------------------------------
(***************************************************************************)
(* planner.plan_site in full: the start times that Cloud leaves open, from *)
(* the prices, the bill and the capacity that other shifted jobs hold.     *)
(*                                                                         *)
(* The rows are those of Cloud.  What moves them between two plans is kept *)
(* short here: a report of the agent, the start and the end of a run, new  *)
(* prices.  SyncSystem has the agent and the network behind it.  Refs are  *)
(* numbered in the order the jobs were submitted in.                       *)
(***************************************************************************)
EXTENDS Cloud, Allocator

CONSTANTS
    Dur, Gpus,       \* [Refs -> Nat], time_limit_min and gpus; no time limit is None
    Offset,          \* [Refs -> Nat], jitter_minutes
    ShareGpus,       \* shift_capacity_share * Site.gpus
    PowerGpus,       \* Site.power_limit_kw / kw_per_gpu, or None
    Tod,             \* [Blocks -> Nat], the tariff's multipliers
    Published,       \* the prices that may be known: functions from blocks to effective rates
    LastArrival,     \* bound: when the last job may be reported
    MaxNow           \* bound: the last reading of the clock

ASSUME PlannerAssumption ==
    /\ Refs \subseteq Nat /\ IsFiniteSet(Refs) /\ FREEZE = Freeze /\ NoStart = None
    /\ Dur \in [Refs -> (Nat \ {0}) \cup {None}] /\ Gpus \in [Refs -> Nat \ {0}] /\ Offset \in [Refs -> Nat]
    /\ ShareGpus \in Nat /\ PowerGpus \in Nat \cup {None}
    /\ Tod \in [Blocks -> Nat] /\ \A rate \in Published : DOMAIN rate \subseteq Blocks
    /\ MaxNow \in Nat /\ None \notin Report

VARIABLES
    price,     \* the priced blocks, at their effective rates
    actual,    \* ManagedJob.actual_start
    loose,     \* history: jobs whose capacity was taken without a look at what is left
    fresh      \* history: nothing has happened since the last plan

planVars == <<now, cjob, site, price, actual, loose, fresh>>

PlannerInit ==
    /\ CloudInit
    /\ now = 0 /\ price \in Published
    /\ actual = [r \in Refs |-> None]
    /\ loose = {} /\ fresh = FALSE

-----------------------------------------------------------------------------
(* Capacity *)

site_cap == (IF PowerGpus = None THEN ShareGpus ELSE Earliest(ShareGpus, PowerGpus)) * BLOCK_MIN

Book(r, start) == [job |-> r, win |-> start, dur |-> Dur[r], weight |-> Gpus[r]]

Known == {r \in Refs : cjob[r] # None}
Waiting == {r \in Known : cjob[r].st = "PENDING" /\ cjob[r].status \in Movable}
PinnedRefs == {r \in Waiting : Pinned(cjob[r])}
MovableRefs == Waiting \ PinnedRefs
ShiftedRuns == {r \in Known : cjob[r].st = "RUNNING" /\ cjob[r].applied # None /\ actual[r] # None}

(* Mutant: runs are not booked. *)
HeldByPinned == {Book(r, cjob[r].applied) : r \in {r \in PinnedRefs : Dur[r] # None}}

(* Mutant: what the last plan gave to the movable jobs is still booked. *)
HeldTwice ==
    {Book(r, actual[r]) : r \in {r \in ShiftedRuns : Dur[r] # None}}
    \cup {Book(r, cjob[r].applied) : r \in {r \in PinnedRefs : Dur[r] # None}}
    \cup {Book(r, cjob[r].planned) : r \in {r \in MovableRefs : Dur[r] # None /\ cjob[r].planned # None}}

(* What plan_site books before it looks at the movable jobs. *)
Held ==
    {Book(r, actual[r]) : r \in {r \in ShiftedRuns : Dur[r] # None}}
    \cup {Book(r, cjob[r].applied) : r \in {r \in PinnedRefs : Dur[r] # None}}

-----------------------------------------------------------------------------
(* plan_site *)

BaseOf(r) == Base(r, cjob[r])
LatestStart(r) == BaseOf(r) + MaxWait[r] - Margin
Windowed == {r \in MovableRefs : Dur[r] # None}
last_end == IF Windowed = {} THEN now ELSE Max({LatestStart(r) + Dur[r] : r \in Windowed})

Bill(r, start) == Cost(Tod, start, Dur[r])

(* Mutant: the margin before the limit is not kept. *)
StartOfNoMargin(r, ledger) ==
    allocate(Offset[r], Dur[r], Later(now, BaseOf(r)), LatestStart(r) + Margin + Dur[r],
             PricesIn(price, now, last_end), ledger, site_cap, Gpus[r])

StartOf(r, ledger) ==
    allocate(Offset[r], Dur[r], Later(now, BaseOf(r)), LatestStart(r) + Dur[r],
             PricesIn(price, now, last_end), ledger, site_cap, Gpus[r])

(* One turn of the loop, after the turns of the jobs before: the row, what is booked for it, and whether *)
(* that was booked without regard to the cap.                                                            *)
Turn(r, plan) ==
    LET j == cjob[r]
        before == {i \in Windowed : i < r /\ plan[i].book # None}
        ledger == [b \in Blocks |-> Load(Held \cup {Book(i, plan[i].book) : i \in before}, b)]
        start == StartOf(r, ledger)
        kept == [status |-> "planned", planned |-> j.planned, book |-> j.planned, loose |-> TRUE]
        back == IF j.applied # None THEN Later(now, BaseOf(r)) ELSE None
    IN IF r \notin Windowed \/ (start = None /\ ~(j.status = "planned" /\ j.planned # None))
       THEN [status |-> "unplaceable", planned |-> j.planned, book |-> None, loose |-> FALSE]
       ELSE IF start = None THEN kept
       ELSE IF Bill(r, start) < Bill(r, BaseOf(r))
       THEN [status |-> "planned", planned |-> start, book |-> start, loose |-> FALSE]
       ELSE [status |-> "planned", planned |-> back, book |-> back, loose |-> TRUE]

PlanOf == LET plan[r \in Refs] == IF r \in MovableRefs THEN Turn(r, plan) ELSE [book |-> None] IN plan

Row(r) == IF r \in MovableRefs THEN [cjob[r] EXCEPT !.status = PlanOf[r].status, !.planned = PlanOf[r].planned] ELSE cjob[r]
plan_site == [r \in Refs |-> Row(r)]

PlanSite ==
    /\ MovableRefs # {}
    /\ cjob' = plan_site
    /\ loose' = (loose \ MovableRefs) \cup {r \in MovableRefs : PlanOf[r].loose}
    /\ fresh' = TRUE
    /\ UNCHANGED <<now, site, price, actual>>

-----------------------------------------------------------------------------
(* What happens between two plans *)

Stale == fresh' = FALSE /\ UNCHANGED site

(* The agent reports a job for the first time. *)
Arrive(r) ==
    /\ cjob[r] = None /\ now <= LastArrival
    /\ \E pred \in {None, now + 1} :
          cjob' = [cjob EXCEPT ![r] = NewJob([st |-> "PENDING", pred |-> pred, skip |-> FALSE, override |-> FALSE, ran |-> FALSE])]
    /\ Stale /\ UNCHANGED <<now, price, actual, loose>>

(* The agent reports that it applied the decision, or refused it. *)
ReportOutcome(r) ==
    /\ Decision(cjob[r]) # None
    /\ \E ok \in BOOLEAN : cjob' = [cjob EXCEPT ![r] = Reported(@, [at |-> Decision(@), ok |-> ok], FALSE)]
    /\ loose' = IF Pinned(cjob[r]) THEN loose \cup {r} ELSE loose
    /\ Stale /\ UNCHANGED <<now, price, actual>>

(* Slurm starts it, at its start time or later. *)
RunStarts(r) ==
    /\ r \in Known /\ cjob[r].st = "PENDING" /\ (cjob[r].applied # None => cjob[r].applied <= now)
    /\ cjob' = [cjob EXCEPT ![r].st = "RUNNING", ![r].ran = TRUE]
    /\ actual' = [actual EXCEPT ![r] = now]
    /\ loose' = IF cjob[r].applied = now THEN loose ELSE loose \cup {r}
    /\ Stale /\ UNCHANGED <<now, price>>

RunFinishes(r) ==
    /\ r \in Known /\ cjob[r].st = "RUNNING"
    /\ cjob' = [cjob EXCEPT ![r].st = "DONE"]
    /\ Stale /\ UNCHANGED <<now, price, actual, loose>>

(* Prices are fetched: more of them, or others for the same blocks. *)
Fetch ==
    /\ \E p \in Published \ {price} : DOMAIN price \subseteq DOMAIN p /\ price' = p
    /\ Stale /\ UNCHANGED <<now, cjob, actual, loose>>

PlannerTick ==
    /\ now < MaxNow /\ now' = now + 1
    /\ Stale /\ UNCHANGED <<cjob, price, actual, loose>>

PlannerNext ==
    \/ PlanSite \/ Fetch \/ PlannerTick
    \/ \E r \in Refs : Arrive(r) \/ ReportOutcome(r) \/ RunStarts(r) \/ RunFinishes(r)

PlannerSpec == PlannerInit /\ [][PlannerNext]_planVars

-----------------------------------------------------------------------------
(* Properties *)

(* Every plan is one of those that Cloud allows: the composition of agent and cloud, which is checked with *)
(* any of them, is right about this planner.                                                             *)
PlansAsCloud == [][fresh' => \A r \in Refs : cjob'[r] \in Planned(r, cjob[r])]_planVars

(* "submission order: an unchanged world re-plans identically" (planner.py:63). *)
ReplanStable == fresh => plan_site = cjob

(* What runs, is in force for a job that is about to start, or is planned for another. *)
StartAt(r) == IF r \in ShiftedRuns THEN actual[r] ELSE IF r \in PinnedRefs THEN cjob[r].applied ELSE cjob[r].planned
Promised ==
    {Book(r, StartAt(r)) : r \in {r \in Known : /\ Dur[r] # None /\ StartAt(r) # None
                                                /\ r \in ShiftedRuns \cup PinnedRefs \/ cjob[r].status = "planned"
                                                /\ r \in ShiftedRuns \cup Waiting}}

(* The shifted work in a block is within the cap, but for jobs that were not placed by a look at it: those *)
(* kept when nothing fits, pulled back, started late, moved by an older decision when already pinned, or   *)
(* whose start in force is not the one last planned.                                                       *)
CapacityKept ==
    \A b \in Blocks : Load(Promised, b) > site_cap =>
        \E k \in Promised : b \in Spans(k.win, k.dur) /\ (k.job \in loose \/ cjob[k.job].applied \notin {None, cjob[k.job].planned})

(* The prices and times at which some job is told to wait, and then cannot be placed. *)
Traps ==
    {<<w.rate, w.at>> : w \in
        {w \in [rate : Published, at : 0 .. MaxNow, deadline : Minute, dur : 1 .. Horizon, jitter : 0 .. BLOCK_MIN - 1] :
            Contiguous(w.rate) /\ ~WaitSafe(w.rate, w.jitter, w.dur, w.deadline, w.at)}}

(* Whenever a job asks, at the prices published so far, it may rely on WaitSafe (service.py:50), if no block is *)
(* missing between two that are priced.                                                                          *)
WaitIsSafe == <<price, now>> \notin Traps
=============================================================================
