------------------------------- MODULE SyncBase -------------------------------
(***************************************************************************)
(* What the agent and the cloud share: the jobs, the clock (both run on    *)
(* UTC) and the contract of POST /agent/v1/sync.  Times are small numbers; *)
(* a job's wait, fixed by the operator's rules, is MaxWait[r].             *)
(***************************************************************************)
EXTENDS Integers, FiniteSets

CONSTANTS
    Refs,        \* the Slurm job ids an operator's flex rules cover
    None,        \* absent value: NULL, None, N/A
    MaxWait      \* [Refs -> Nat]

ASSUME BaseAssumption == None \notin Nat /\ MaxWait \in [Refs -> Nat]

VARIABLE now

MaybeTime == Nat \cup {None}
Later(a, b) == IF a >= b THEN a ELSE b
Nothing == [r \in Refs |-> None]

(* Every final state of parse.TERMINAL is DONE. *)
States == {"PENDING", "RUNNING", "DONE"}
ModeNames == {"shadow", "autonomous"}

(* One job as the agent reports it (agent_sync.JobFact). *)
Fact == [st : States, pred : MaybeTime, skip : BOOLEAN, override : BOOLEAN, ran : BOOLEAN]

(* The outcome of one decision (agent_sync.Applied). *)
Report == [at : Nat, ok : BOOLEAN]
MaybeReport == Report \cup {None}

(* The request (agent_sync.SyncIn) and the answer (agent_sync.SyncOut). *)
Body == [mode : ModeNames, jobs : [Refs -> Fact \cup {None}],
         applied : [Refs -> MaybeReport], released : SUBSET Refs, all : BOOLEAN]
Reply == [all : BOOLEAN, dec : [Refs -> MaybeTime]]
=============================================================================
