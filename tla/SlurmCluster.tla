----------------------------- MODULE SlurmCluster -----------------------------
(***************************************************************************)
(* The cluster's scheduler and its users, as far as Wattshift can tell     *)
(* them apart.  Slurm is not part of the repository: this module is the    *)
(* scheduler that agent/wattshift_agent/slurm.py talks to, known from the  *)
(* commands the agent sends and the fields it parses.                      *)
(*                                                                         *)
(* A job keeps only what the agent reads or writes: its state, its begin   *)
(* time (EligibleTime), whether its owner holds it, whether it ever        *)
(* started, and whether it is a job the agent reports as "skipped" (array, *)
(* dependency, or requeued).  The six final states of parse.py are one     *)
(* state, DONE.  "ours" is history: the begin time of the pending job was  *)
(* last written by a deferral of the agent.                                *)
(*                                                                         *)
(* Bounds: MaxTime caps the clock.  The changes by job owners, the runs of *)
(* release-all and the failures are incidents: each costs Cost[kind], and  *)
(* one behaviour can afford Budget of them (a kind too dear never occurs). *)
(***************************************************************************)
EXTENDS SyncBase

CONSTANTS
    MaxTime,     \* bound of the clock
    EstLag,      \* how far beyond the earliest start Slurm's estimate may lie
    Budget,
    Cost         \* [Kinds -> Nat \ {0}]

(* A change by a job's owner, by an operator (of a switch, by release-all), a failed Slurm command, *)
(* a crash, a request or its answer lost, a request processed after the agent gave it up.           *)
Kinds == {"edit", "switch", "cli", "slurm", "crash", "net", "late"}

ASSUME SlurmAssumption ==
    /\ MaxTime \in Nat /\ EstLag \in Nat
    /\ Budget \in Nat /\ Cost \in [Kinds -> Nat \ {0}]

VARIABLES job, incidents

slurmVars == <<now, job, incidents>>

JobStates == {"ABSENT", "PENDING", "RUNNING", "DONE"}

Job == [st : JobStates, begin : Nat, held : BOOLEAN,
        odd : BOOLEAN, ran : BOOLEAN, ours : BOOLEAN]

SlurmTypeOK ==
    /\ now \in Nat
    /\ job \in [Refs -> Job]
    /\ incidents \in [spent : Nat, kinds : SUBSET Kinds]

SlurmInit ==
    /\ now = 0
    /\ job = [r \in Refs |-> [st |-> "ABSENT", begin |-> 0, held |-> FALSE,
                              odd |-> FALSE, ran |-> FALSE, ours |-> FALSE]]
    /\ incidents = [spent |-> 0, kinds |-> {}]

(* One more incident of kind k. *)
Incident(k) ==
    /\ incidents.spent + Cost[k] <= Budget
    /\ incidents' = [spent |-> incidents.spent + Cost[k], kinds |-> incidents.kinds \cup {k}]

-----------------------------------------------------------------------------
(* What the agent's reads return *)

InQueue(r) == job[r].st \in {"PENDING", "RUNNING"}

(* squeue's %S for a pending job: N/A, or an estimate no earlier than its begin time. *)
Estimates(r) ==
    LET soonest == Later(now, job[r].begin) IN {None} \cup (soonest .. soonest + EstLag)

QueueRow == [st : {"PENDING", "RUNNING"}, est : Nat \cup {None}]

RowsOf(r) ==
    CASE job[r].st = "PENDING" -> {[st |-> "PENDING", est |-> e] : e \in Estimates(r)}
      [] job[r].st = "RUNNING" -> {[st |-> "RUNNING", est |-> None]}
      [] OTHER -> {None}

(* squeue -t PENDING,RUNNING: one row per queued job, all taken at one moment. *)
Snapshots ==
    {q \in [Refs -> UNION {RowsOf(r) : r \in Refs}] : \A r \in Refs : q[r] \in RowsOf(r)}

(* scontrol show job: it may have forgotten a finished job, and what it prints may not be readable. *)
detail(r, known) ==
    \/ (known \/ job[r].st = "DONE") /\ UNCHANGED incidents
    \/ ~known /\ Incident("slurm")

-----------------------------------------------------------------------------
(* What the agent's only write does: scontrol update JobId=r StartTime=t.   *)
(* It is refused unless the job is pending.  It can also fail, or time out  *)
(* in the agent although Slurm carried it out.                              *)

Rewritten(r, t, defer) == [job EXCEPT ![r].begin = t, ![r].ours = defer]

WriteStart(r, t, defer, ok) ==
    \/ /\ ok /\ job[r].st = "PENDING"
       /\ job' = Rewritten(r, t, defer)
       /\ UNCHANGED incidents
    \/ /\ ~ok /\ job[r].st # "PENDING"
       /\ UNCHANGED <<job, incidents>>
    \/ /\ ~ok /\ Incident("slurm")
       /\ \/ UNCHANGED job
          \/ job[r].st = "PENDING" /\ job' = Rewritten(r, t, defer)

-----------------------------------------------------------------------------
(* The scheduler's own steps, and the job owners' *)

Tick ==
    /\ now < MaxTime
    /\ now' = now + 1
    /\ UNCHANGED <<job, incidents>>

Submit(r) ==
    /\ job[r].st = "ABSENT"
    /\ \E b \in now .. MaxTime, odd \in BOOLEAN :
          job' = [job EXCEPT ![r] = [@ EXCEPT !.st = "PENDING", !.begin = b, !.odd = odd]]
    /\ UNCHANGED <<now, incidents>>

StartJob(r) ==
    /\ job[r].st = "PENDING" /\ ~job[r].held /\ job[r].begin <= now
    /\ job' = [job EXCEPT ![r].st = "RUNNING", ![r].ran = TRUE, ![r].ours = FALSE]
    /\ UNCHANGED <<now, incidents>>

(* The row of a pending array is gone, unstarted, when its tasks take its place. *)
Unfold(r) ==
    /\ job[r].st = "PENDING" /\ ~job[r].held /\ job[r].begin <= now
    /\ job[r].odd /\ ~job[r].ran
    /\ job' = [job EXCEPT ![r].st = "DONE"]
    /\ UNCHANGED <<now, incidents>>

EndJob(r) ==
    /\ job[r].st = "RUNNING"
    /\ job' = [job EXCEPT ![r].st = "DONE"]
    /\ UNCHANGED <<now, incidents>>

(* A preempted or requeued job is pending again, at a begin time Slurm chose. *)
Requeue(r) ==
    /\ Incident("edit")
    /\ job[r].st = "RUNNING"
    /\ job' = [job EXCEPT ![r].st = "PENDING", ![r].begin = now, ![r].ours = FALSE, ![r].odd = TRUE]
    /\ UNCHANGED now

OwnerSetsBegin(r) ==
    /\ Incident("edit")
    /\ job[r].st = "PENDING"
    /\ \E b \in now .. MaxTime :
          job' = [job EXCEPT ![r].begin = b, ![r].ours = FALSE]
    /\ UNCHANGED now

OwnerHolds(r) ==
    /\ Incident("edit")
    /\ job[r].st = "PENDING"
    /\ job' = [job EXCEPT ![r].held = ~@]
    /\ UNCHANGED now

OwnerCancels(r) ==
    /\ Incident("edit")
    /\ InQueue(r)
    /\ job' = [job EXCEPT ![r].st = "DONE", ![r].held = FALSE, ![r].ours = FALSE]
    /\ UNCHANGED now

SlurmNext ==
    \/ Tick
    \/ \E r \in Refs : \/ Submit(r) \/ StartJob(r) \/ Unfold(r) \/ EndJob(r) \/ Requeue(r)
                       \/ OwnerSetsBegin(r) \/ OwnerHolds(r) \/ OwnerCancels(r)
=============================================================================
