------------------------------- MODULE MCAgent -------------------------------
(* The agent against any cloud, on small instances. *)
EXTENDS Agent

CONSTANT r1

(* Any two incidents, or one run of release-all beside the loop. *)
CostAgent == [edit |-> 1, slurm |-> 1, crash |-> 1, cli |-> 2,
              switch |-> 9, net |-> 9, late |-> 9]

(* One failed Slurm command; one change by an owner. *)
CostSlurm == [k \in Kinds |-> IF k = "slurm" THEN 1 ELSE 9]
CostEdit == [k \in Kinds |-> IF k = "edit" THEN 1 ELSE 9]

WaitOne == [r \in Refs |-> 1]
=============================================================================
