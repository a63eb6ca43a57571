-------------------------------- MODULE Cloud --------------------------------
(***************************************************************************)
(* The cloud half of the contract: agent_sync.process_sync, run for one    *)
(* site at a time under its advisory lock, so one step of this module.     *)
(*                                                                         *)
(* cjob is the managed_jobs table of the site, site its two switches.      *)
(* planner.plan_site is kept in its control: which jobs it may plan, the   *)
(* window it may choose from, and what it does when nothing fits.  Which   *)
(* start of the window it takes depends on prices, tariff and the capacity *)
(* booked by other jobs, so any start is possible, and so is none.         *)
(***************************************************************************)
EXTENDS SyncBase

CONSTANTS
    Margin,      \* Site.start_margin_s
    Freeze,      \* settings.freeze_minutes
    Tariffs,     \* can get_tariff fail? {TRUE}: never, {TRUE, FALSE}: on some days
    SiteModes    \* the modes an operator may set for the site

ASSUME CloudAssumption ==
    /\ Margin \in Nat /\ Freeze \in Nat
    /\ Tariffs \subseteq BOOLEAN /\ Tariffs # {}
    /\ SiteModes \subseteq ModeNames /\ SiteModes # {}

VARIABLES cjob, site

cloudVars == <<cjob, site>>

Movable == {"pending", "planned", "unplaceable"}
HandsOffStatus == {"abandoned", "skipped", "released"}

(* models.ManagedJob; measured: actual_cost is set *)
CJob == [st : States, status : Movable \cup HandsOffStatus, first : Nat, pred : MaybeTime,
         planned : MaybeTime, applied : MaybeTime, ran : BOOLEAN, measured : BOOLEAN]

ASSUME AbsentAssumption == None \notin CJob

CloudTypeOK ==
    /\ cjob \in [Refs -> CJob \cup {None}]
    /\ site \in [mode : ModeNames, all : BOOLEAN]

CloudInit ==
    /\ cjob = Nothing
    /\ site \in [mode : SiteModes, all : {FALSE}]

-----------------------------------------------------------------------------
(* _upsert_jobs *)

Rank(st) == CASE st = "PENDING" -> 0 [] st = "RUNNING" -> 1 [] OTHER -> 2

NewJob(f) ==
    [st |-> f.st, status |-> "pending", first |-> now, pred |-> f.pred, planned |-> None,
     applied |-> None, ran |-> f.ran, measured |-> FALSE]

Updated(j, f) ==
    [j EXCEPT !.st = f.st,
              !.pred = IF f.pred # None /\ f.st = "PENDING" /\ j.applied = None THEN f.pred ELSE @,
              !.ran = @ \/ f.ran]

(* Mutant: the owner's change is not looked at. *)
FlaggedSkipOnly(j, f) == [j EXCEPT !.status = IF f.skip /\ @ \in Movable THEN "skipped" ELSE @]

(* The owner changed it, or the agent skips it: not to be planned any more. *)
Flagged(j, f) ==
    [j EXCEPT !.status = IF f.override THEN "abandoned"
                         ELSE IF f.skip /\ @ \in Movable THEN "skipped" ELSE @]

(* Mutant: any report is taken. *)
UpsertedAnyOrder(j, f) ==
    CASE f = None -> j
      [] f # None /\ j = None -> Flagged(NewJob(f), f)
      [] OTHER -> Flagged(Updated(j, f), f)

(* A stale report never moves a job backwards. *)
Upserted(j, f) ==
    CASE f = None -> j
      [] f # None /\ j = None -> Flagged(NewJob(f), f)
      [] f # None /\ j # None /\ Rank(f.st) < Rank(j.st) -> j
      [] OTHER -> Flagged(Updated(j, f), f)

(* Mutants: the start time that is in force is not recorded; a refusal is not looked at. *)
ReportedRefusals(j, a, freed) ==
    IF j = None THEN None
    ELSE [j EXCEPT !.status = IF freed THEN "released"
                              ELSE IF a # None /\ ~a.ok THEN "abandoned" ELSE @]

ReportedApplied(j, a, freed) ==
    IF j = None THEN None
    ELSE [j EXCEPT !.applied = IF a # None /\ a.ok THEN a.at ELSE @,
                   !.status = IF freed THEN "released" ELSE @]

(* _apply_reports: what was applied, what was refused, what release_all released. *)
Reported(j, a, freed) ==
    IF j = None THEN None
    ELSE [j EXCEPT !.applied = IF a # None /\ a.ok THEN a.at ELSE @,
                   !.status = IF freed THEN "released"
                              ELSE IF a # None /\ ~a.ok THEN "abandoned" ELSE @]

(* measure.finalize: once, and only if the day of the real start has a tariff. *)
Finalized(j) ==
    IF j # None /\ j.st = "DONE" /\ j.applied # None /\ ~j.measured /\ j.ran
    THEN {[j EXCEPT !.measured = tariff] : tariff \in Tariffs}
    ELSE {j}

-----------------------------------------------------------------------------
(* plan_site *)

(* Mutant: the baseline of a job without a prediction moves with the clock. *)
BaseMoving(r, j) == IF j.pred # None /\ j.pred <= j.first + MaxWait[r] THEN Later(j.pred, j.first) ELSE now

(* plausible_predicted and baseline_of *)
Base(r, j) == IF j.pred # None /\ j.pred <= j.first + MaxWait[r] THEN Later(j.pred, j.first) ELSE j.first

Pinned(j) == j.applied # None /\ j.applied <= now + Freeze

Planned(r, j) ==
    IF j = None THEN {None}
    ELSE IF j.st # "PENDING" \/ j.status \notin Movable \/ Pinned(j) THEN {j}
    ELSE LET earliest == Later(now, Base(r, j))
             latest == Base(r, j) + MaxWait[r] - Margin
         IN  \* a start with a strictly lower bill
             {[j EXCEPT !.status = "planned", !.planned = s] : s \in earliest .. latest}
             \* there is a start, but not a cheaper one: a deferral that is in force is pulled back
             \cup (IF earliest <= latest
                   THEN {[j EXCEPT !.status = "planned",
                                   !.planned = IF j.applied # None THEN earliest ELSE None]}
                   ELSE {})
             \* no capacity, or no time limit: a planned job is never unscheduled
             \cup {IF j.status = "planned" /\ j.planned # None THEN j
                   ELSE [j EXCEPT !.status = "unplaceable"]}

-----------------------------------------------------------------------------
(* process_sync *)

(* The rows it works on: every job named in the request, and every unfinished one. *)
Loaded(r, body) ==
    \/ body.jobs[r] # None \/ body.applied[r] # None \/ r \in body.released
    \/ cjob[r] # None /\ cjob[r].st # "DONE"

(* What the row of r may become, if planning is possible or not. *)
Outcomes(r, body, plan) ==
    IF ~Loaded(r, body) THEN {cjob[r]}
    ELSE LET known == Reported(Upserted(cjob[r], body.jobs[r]), body.applied[r], r \in body.released)
         IN IF plan THEN UNION {Planned(r, j) : j \in Finalized(known)} ELSE Finalized(known)

Effective(body) == site.mode = "autonomous" /\ body.mode = "autonomous"

Decision(j) ==
    IF j # None /\ j.st = "PENDING" /\ j.status = "planned" /\ j.planned # j.applied
    THEN j.planned ELSE None

Process(body) ==
    /\ site' = [site EXCEPT !.all = @ \/ body.all]
    /\ \E tariff \in Tariffs :
          LET plan == tariff /\ ~site'.all
              after == [r \in Refs |-> Outcomes(r, body, plan)]
          IN cjob' \in {c \in [Refs -> UNION {after[r] : r \in Refs}] : \A r \in Refs : c[r] \in after[r]}

(* The answer, from the state that Process(body) leaves. *)
Answer(body) ==
    [all |-> site'.all,
     dec |-> [r \in Refs |-> IF Effective(body) /\ ~site'.all THEN Decision(cjob'[r]) ELSE None]]

-----------------------------------------------------------------------------
(* The operator's switches *)

SetMode(m) ==
    /\ m \in SiteModes /\ m # site.mode
    /\ site' = [site EXCEPT !.mode = m]
    /\ UNCHANGED cjob

SetReleaseAll(on) ==
    /\ site' = [site EXCEPT !.all = on]
    /\ UNCHANGED cjob

-----------------------------------------------------------------------------
(* Properties *)

(* A start time that the promise to the owner of r allows. *)
InTime(r, j) == j.planned # None => j.planned + Margin <= j.first + 2 * MaxWait[r]

(* The latest start time the cloud may ask for: its own record's hard limit, baseline + max_wait less *)
(* the margin, where a plausible baseline is at most max_wait after the job was first seen.           *)
WithinHardLimit == \A r \in Refs : cjob[r] # None => InTime(r, cjob[r])
=============================================================================
