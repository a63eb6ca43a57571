------------------------------- MODULE MCSystem -------------------------------
(* The composed system on small instances. *)
EXTENDS SyncSystem

CONSTANT r1

WaitOne == [r \in Refs |-> 1]

(* Any two of: an operator's switch, a failed Slurm command, a crash, a lost request or answer. *)
CostPairs == [k \in Kinds |-> IF k \in {"switch", "slurm", "crash", "net"} THEN 1 ELSE 9]

(* Any one of: an edit by the owner, a run of release-all, a request processed late. *)
CostOthers == [k \in Kinds |-> IF k \in {"edit", "cli", "late"} THEN 1 ELSE 9]

(* One request processed late; one request or answer lost. *)
CostOnlyLate == [k \in Kinds |-> IF k = "late" THEN 1 ELSE 9]
CostOnlyNet == [k \in Kinds |-> IF k = "net" THEN 1 ELSE 9]

(* A run of release-all; or one lost request or answer, and before or after it another one, an owner's edit or *)
(* an operator's switch.                                                                                       *)
CostLive == [edit |-> 3, switch |-> 3, slurm |-> 9, crash |-> 9, net |-> 2, late |-> 9, cli |-> 5]
=============================================================================
