----------------------------- MODULE JobContract -----------------------------
(***************************************************************************)
(* What the job service promises of a job, whatever its threads do: it is  *)
(* started at most once, it has one outcome, and the savings ledger has    *)
(* the jobs that are done and no others.  A job that is over without       *)
(* having been started (it expired, say) is idle here.                     *)
(***************************************************************************)
CONSTANT Jobs

VARIABLES phase, ledger

ContractInit ==
    /\ phase = [j \in Jobs |-> "idle"]
    /\ ledger = {}

Begin(j) ==
    /\ phase[j] = "idle"
    /\ phase' = [phase EXCEPT ![j] = "started"]
    /\ UNCHANGED ledger

Finish(j) ==
    /\ phase[j] = "started"
    /\ phase' = [phase EXCEPT ![j] = "done"]
    /\ ledger' = ledger \cup {j}

Fail(j) ==
    /\ phase[j] = "started"
    /\ phase' = [phase EXCEPT ![j] = "failed"]
    /\ UNCHANGED ledger

(* A restart gives up every job whose start it cannot tell. *)
GiveUp ==
    /\ \E lost \in SUBSET {j \in Jobs : phase[j] = "started"} :
          phase' = [j \in Jobs |-> IF j \in lost THEN "failed" ELSE phase[j]]
    /\ UNCHANGED ledger

(* The demo's reset forgets the jobs and their savings together. *)
Forget ==
    /\ \E gone \in SUBSET Jobs :
          /\ \A j \in Jobs \ gone : phase[j] = "idle"
          /\ phase' = [j \in Jobs |-> IF j \in gone THEN "forgotten" ELSE phase[j]]
    /\ ledger' = {}

ContractNext == (\E j \in Jobs : Begin(j) \/ Finish(j) \/ Fail(j)) \/ GiveUp \/ Forget

ContractSpec == ContractInit /\ [][ContractNext]_<<phase, ledger>>
=============================================================================
