----------------------------- MODULE AgentProofs -----------------------------
(***************************************************************************)
(* Proofs about Agent: its type invariant, and that no job can be made to  *)
(* wait past its limit, for any set of jobs, any waits, any bound, any     *)
(* answers of the cloud, any failures and crashes.                         *)
(***************************************************************************)
EXTENDS Agent, TLAPS

(* What every step needs of the state before it. *)
Types == TypeOK /\ LoopShape /\ RelShape

-----------------------------------------------------------------------------
(* The values that the actions build have their types *)

LEMMA IdleType == Idle \in RunOnce
BY DEF Idle, RunOnce, PCs, MaybeRow, MaybeTime, Nothing

LEMMA NoReleaseType == NoRelease \in ReleaseAll
BY DEF NoRelease, ReleaseAll, MaybeRow, Nothing

LEMMA RowsType ==
    ASSUME NEW table \in [Refs -> MaybeRow], NEW S \in SUBSET Refs
    PROVE Rows(table, S) \in [Refs -> MaybeRow]
BY DEF Rows, MaybeRow

LEMMA ReleasingType ==
    ASSUME NEW table \in [Refs -> MaybeRow]
    PROVE Releasing(table) \in ReleaseAll
<1>1. ToRelease(table) \in SUBSET Refs
  BY DEF ToRelease, Active
<1> QED
  BY <1>1, RowsType DEF Releasing, ReleaseAll

(* A row that release_all has read is a row. *)
LEMMA ReleasingRows ==
    ASSUME NEW table \in [Refs -> MaybeRow], NEW r \in ToRelease(table)
    PROVE Releasing(table).copy[r] = table[r] /\ table[r] \in Row
BY DEF Releasing, Rows, ToRelease, Active, MaybeRow

LEMMA OutcomeType ==
    ASSUME loop \in RunOnce, NEW pc \in PCs, NEW r \in Refs, NEW t \in MaybeRow, NEW ok \in BOOLEAN,
           Outcome(pc, r, t, ok)
    PROVE loop' \in RunOnce
BY DEF Outcome, RunOnce

LEMMA FactType ==
    ASSUME NEW r \in Refs, NEW t \in Row
    PROVE FactOf(r, t) \in Fact
BY DEF FactOf, Fact, Row, MaybeTime, States

LEMMA BodyType ==
    ASSUME AgentTypeOK
    PROVE BuildBody \in Body
<1>1. \A r \in Active(db) : FactOf(r, db[r]) \in Fact
  BY FactType DEF AgentTypeOK, Active, MaybeRow
<1> QED
  BY <1>1 DEF BuildBody, Body, AgentTypeOK

-----------------------------------------------------------------------------
(* The scheduler *)

LEMMA InitTypes == Init => Types
<1> SUFFICES ASSUME Init PROVE Types
  OBVIOUS
<1>1. SlurmTypeOK
  BY DEF Init, SlurmInit, SlurmTypeOK, Job, JobStates, Kinds
<1>2. AgentTypeOK
  BY IdleType, NoReleaseType, AgentAssumption DEF Init, AgentInit, AgentTypeOK, MaybeRow, MaybeReport, Nothing
<1>3. LoopShape
  BY DEF Init, AgentInit, LoopShape, Idle, Deciding
<1>4. RelShape
  BY DEF Init, AgentInit, RelShape, NoRelease
<1> QED
  BY <1>1, <1>2, <1>3, <1>4 DEF Types, TypeOK

LEMMA IncidentType ==
    ASSUME SlurmTypeOK, NEW k \in Kinds, Incident(k)
    PROVE incidents' \in [spent : Nat, kinds : SUBSET Kinds]
BY SlurmAssumption DEF SlurmTypeOK, Incident, Kinds

LEMMA WriteStartType ==
    ASSUME SlurmTypeOK, NEW r \in Refs, NEW t \in Nat, NEW defer \in BOOLEAN, NEW ok \in BOOLEAN,
           WriteStart(r, t, defer, ok), UNCHANGED now
    PROVE SlurmTypeOK'
<1>1. Rewritten(r, t, defer) \in [Refs -> Job]
  BY DEF SlurmTypeOK, Rewritten, Job
<1>2. job' \in [Refs -> Job]
  BY <1>1 DEF SlurmTypeOK, WriteStart
<1>3. incidents' \in [spent : Nat, kinds : SUBSET Kinds]
  BY IncidentType DEF SlurmTypeOK, WriteStart, Kinds
<1> QED
  BY <1>2, <1>3 DEF SlurmTypeOK

LEMMA DetailType ==
    ASSUME SlurmTypeOK, NEW r \in Refs, NEW known \in BOOLEAN, detail(r, known), UNCHANGED <<now, job>>
    PROVE SlurmTypeOK'
<1>1. incidents' \in [spent : Nat, kinds : SUBSET Kinds]
  BY IncidentType DEF SlurmTypeOK, detail, Kinds
<1> QED
  BY <1>1 DEF SlurmTypeOK

LEMMA SlurmNextType ==
    ASSUME SlurmTypeOK, SlurmNext
    PROVE SlurmTypeOK'
<1> USE DEF SlurmTypeOK
<1>1. CASE Tick
  BY <1>1 DEF Tick
<1>2. ASSUME NEW r \in Refs,
             Submit(r) \/ StartJob(r) \/ Unfold(r) \/ EndJob(r) \/ Requeue(r)
               \/ OwnerSetsBegin(r) \/ OwnerHolds(r) \/ OwnerCancels(r)
      PROVE SlurmTypeOK'
  <2>1. job[r] \in Job
    OBVIOUS
  <2>2. job' \in [Refs -> Job] /\ now' = now
    <3>1. CASE Submit(r)
      <4>1. PICK b \in now .. MaxTime, odd \in BOOLEAN :
              job' = [job EXCEPT ![r] = [job[r] EXCEPT !.st = "PENDING", !.begin = b, !.odd = odd]]
        BY <3>1 DEF Submit
      <4>2. b \in Nat
        BY SlurmAssumption
      <4>3. [job[r] EXCEPT !.st = "PENDING", !.begin = b, !.odd = odd] \in Job
        BY <2>1, <4>2 DEF Job, JobStates
      <4> QED
        BY <4>1, <4>3, <3>1, Zenon DEF Submit
    <3>2. CASE StartJob(r)
      BY <2>1, <3>2 DEF StartJob, Job, JobStates
    <3>3. CASE EndJob(r)
      BY <2>1, <3>3 DEF EndJob, Job, JobStates
    <3>4. CASE Requeue(r)
      BY <2>1, <3>4 DEF Requeue, Job, JobStates
    <3>5. CASE OwnerSetsBegin(r)
      <4>1. PICK b \in now .. MaxTime : job' = [job EXCEPT ![r] = [job[r] EXCEPT !.begin = b, !.ours = FALSE]]
        BY <3>5 DEF OwnerSetsBegin
      <4>2. b \in Nat
        BY SlurmAssumption
      <4>3. [job[r] EXCEPT !.begin = b, !.ours = FALSE] \in Job
        BY <2>1, <4>2 DEF Job
      <4> QED
        BY <4>1, <4>3, <3>5, Zenon DEF OwnerSetsBegin
    <3>6. CASE OwnerHolds(r)
      BY <2>1, <3>6 DEF OwnerHolds, Job, JobStates
    <3>7. CASE OwnerCancels(r)
      BY <2>1, <3>7 DEF OwnerCancels, Job, JobStates
    <3>8. CASE Unfold(r)
      BY <2>1, <3>8 DEF Unfold, Job, JobStates
    <3> QED
      BY <1>2, <3>1, <3>2, <3>3, <3>4, <3>5, <3>6, <3>7, <3>8
  <2>3. incidents' \in [spent : Nat, kinds : SUBSET Kinds]
    <3>1. CASE Incident("edit")
      BY <3>1, IncidentType DEF Kinds
    <3> QED
      BY <1>2, <3>1 DEF Submit, StartJob, Unfold, EndJob, Requeue, OwnerSetsBegin, OwnerHolds, OwnerCancels
  <2> QED
    BY <2>2, <2>3
<1> QED
  BY <1>1, <1>2 DEF SlurmNext

-----------------------------------------------------------------------------
(* Shapes that several actions leave behind *)

LEMMA IdleShape ==
    ASSUME loop' = Idle
    PROVE LoopShape'
BY DEF LoopShape, Idle, Deciding

LEMMA OutcomeShape ==
    ASSUME loop \in RunOnce, NEW pc \in Deciding \cup {"report"}, NEW r \in Refs, loop.dec[r] \in Nat,
           NEW t \in MaybeRow, pc \in Deciding => t \in Row, NEW ok \in BOOLEAN, Outcome(pc, r, t, ok)
    PROVE LoopShape'
BY DEF Outcome, LoopShape, RunOnce, Deciding

(* release_all begins (p is "loop" or "cli") or ends. *)
LEMMA ReleasingShape ==
    ASSUME RelShape, rel \in [Procs -> ReleaseAll], NEW p \in Procs, NEW table \in [Refs -> MaybeRow],
           rel' = [rel EXCEPT ![p] = Releasing(table)]
    PROVE rel' \in [Procs -> ReleaseAll] /\ RelShape'
<1>1. rel' \in [Procs -> ReleaseAll]
  BY ReleasingType
<1>2. RelShape'
  <2> SUFFICES ASSUME NEW q \in Procs
               PROVE (/\ rel[q].stage \in {"save", "post"} => rel[q].ref \in Refs
                      /\ rel[q].stage = "save" => rel[q].copy[rel[q].ref] \in Row
                      /\ \A r \in rel[q].todo : rel[q].copy[r] \in Row)'
    BY DEF RelShape
  <2>1. CASE q = p
    <3>1. rel'[q] = Releasing(table)
      BY <2>1
    <3>2. Releasing(table).stage = "next" /\ Releasing(table).todo = ToRelease(table)
      BY DEF Releasing
    <3> QED
      BY <3>1, <3>2, ReleasingRows
  <2>2. CASE q # p
    BY <2>2 DEF RelShape
  <2> QED
    BY <2>1, <2>2
<1> QED
  BY <1>1, <1>2

LEMMA NoReleaseShape ==
    ASSUME RelShape, rel \in [Procs -> ReleaseAll], NEW p \in Procs, rel' = [rel EXCEPT ![p] = NoRelease]
    PROVE rel' \in [Procs -> ReleaseAll] /\ RelShape'
BY NoReleaseType DEF RelShape, NoRelease

-----------------------------------------------------------------------------
(* The loop reads Slurm *)

LEMMA ReadQueueTypes ==
    ASSUME Types, ReadQueue
    PROVE Types'
<1> USE DEF Types, TypeOK, AgentTypeOK
<1>1. PICK q \in Snapshots : \E some \in SUBSET {r \in Refs : q[r] # None /\ q[r].st = "PENDING" /\ db[r] = None} :
          loop' = [Idle EXCEPT !.pc = "discover", !.now = now, !.rows = q, !.todo = some]
  BY DEF ReadQueue
<1>2. \A r \in Refs : RowsOf(r) \subseteq QueueRow \cup {None}
  BY DEF RowsOf, QueueRow, Estimates, SlurmTypeOK, Job, Later
<1>3. q \in [Refs -> QueueRow \cup {None}]
  BY <1>2 DEF Snapshots
<1>4. loop' \in RunOnce
  BY <1>1, <1>3, IdleType DEF RunOnce, PCs, SlurmTypeOK
<1>5. LoopShape'
  BY <1>1, <1>3, IdleType DEF LoopShape, Deciding, RunOnce
<1> QED
  BY <1>4, <1>5 DEF ReadQueue, slurmVars, durable, SlurmTypeOK, RelShape

LEMMA DiscoverTypes ==
    ASSUME Types, NEW r \in Refs, Discover(r)
    PROVE Types'
<1> USE DEF Types, TypeOK, AgentTypeOK
<1>1. NewRow(r) \in Row
  BY DEF NewRow, Row, Discover, At, LoopShape, QueueRow, RunOnce, MaybeTime, States, MaybeReport, SlurmTypeOK, Job
<1>2. db' \in [Refs -> MaybeRow]
  BY <1>1 DEF Discover, MaybeRow
<1>3. loop' \in RunOnce /\ LoopShape'
  BY DEF Discover, At, RunOnce, LoopShape, Deciding
<1>4. SlurmTypeOK'
  BY DetailType DEF Discover
<1> QED
  BY <1>2, <1>3, <1>4 DEF Discover, RelShape

LEMMA StartRefreshTypes ==
    ASSUME Types, StartRefresh
    PROVE Types'
<1> USE DEF Types, TypeOK, AgentTypeOK
<1>1. Active(db) \in SUBSET Refs /\ \A r \in Active(db) : db[r] \in Row
  BY DEF Active, MaybeRow
<1>2. Rows(db, Active(db)) \in [Refs -> MaybeRow]
  BY <1>1, RowsType
<1>3. loop' \in RunOnce
  BY <1>1, <1>2 DEF StartRefresh, RunOnce, PCs
<1>4. LoopShape'
  BY <1>1 DEF StartRefresh, LoopShape, Deciding, RunOnce, Rows
<1> QED
  BY <1>3, <1>4 DEF StartRefresh, slurmVars, durable, SlurmTypeOK, RelShape

LEMMA RefreshedType ==
    ASSUME NEW r \in Refs, NEW t \in Row, NEW q \in QueueRow, NEW known \in BOOLEAN
    PROVE Refreshed(r, t, q, known) \in Row
<1>1. [t EXCEPT !.st = "RUNNING"] \in Row
  BY DEF Row, States
<1>2. [t EXCEPT !.st = "PENDING", !.skip = TRUE] \in Row
  BY DEF Row, States
<1>3. [t EXCEPT !.pred = q.est] \in Row
  BY DEF Row, QueueRow, MaybeTime
<1>4. [t EXCEPT !.override = ChangedByOwner(r, t)] \in Row
  <2>1. ChangedByOwner(r, t) \in BOOLEAN
    BY DEF ChangedByOwner
  <2> QED
    BY <2>1 DEF Row
<1> QED
  BY <1>1, <1>2, <1>3, <1>4 DEF Refreshed

LEMMA RefreshTypes ==
    ASSUME Types, NEW r \in Refs, Refresh(r)
    PROVE Types'
<1> USE DEF Types, TypeOK, AgentTypeOK
<1>1. loop.copy[r] \in Row /\ loop.rows[r] \in QueueRow
  BY DEF Refresh, At, LoopShape, RunOnce
<1>2. \A known \in BOOLEAN : Refreshed(r, loop.copy[r], loop.rows[r], known) \in Row
  BY <1>1, RefreshedType
<1>3. db' \in [Refs -> MaybeRow]
  BY <1>2 DEF Refresh, MaybeRow
<1>4. loop' \in RunOnce /\ LoopShape'
  BY DEF Refresh, At, RunOnce, LoopShape, Deciding
<1>5. SlurmTypeOK'
  <2>1. (\E known \in BOOLEAN : detail(r, known)) \/ UNCHANGED incidents
    BY DEF Refresh
  <2> QED
    BY <2>1, DetailType DEF Refresh, SlurmTypeOK
<1> QED
  BY <1>3, <1>4, <1>5 DEF Refresh, RelShape

LEMMA CloseTypes ==
    ASSUME Types, NEW r \in Refs, Close(r)
    PROVE Types'
<1> USE DEF Types, TypeOK, AgentTypeOK
<1>1. loop.copy[r] \in Row
  BY DEF Close, At, LoopShape
<1>2. /\ [loop.copy[r] EXCEPT !.st = "DONE", !.ran = job[r].ran] \in Row
      /\ [loop.copy[r] EXCEPT !.st = "RUNNING"] \in Row
      /\ [loop.copy[r] EXCEPT !.st = "DONE"] \in Row
  BY <1>1 DEF Row, States, SlurmTypeOK, Job
<1>3. db' \in [Refs -> MaybeRow]
  BY <1>2 DEF Close, MaybeRow
<1>4. loop' \in RunOnce /\ LoopShape'
  BY DEF Close, At, RunOnce, LoopShape, Deciding
<1>5. SlurmTypeOK'
  BY IncidentType DEF Close, SlurmTypeOK, Kinds
<1> QED
  BY <1>3, <1>4, <1>5 DEF Close, RelShape

-----------------------------------------------------------------------------
(* release_all *)

LEMMA UndoTypes ==
    ASSUME Types, UndoInShadow
    PROVE Types'
<1> USE DEF Types, TypeOK, AgentTypeOK
<1>1. rel' \in [Procs -> ReleaseAll] /\ RelShape'
  <2>1. "loop" \in Procs
    BY DEF Procs
  <2> QED
    BY <2>1, ReleasingShape DEF UndoInShadow
<1>2. loop' \in RunOnce
  BY IdleType DEF UndoInShadow, RunOnce, PCs
<1>3. LoopShape'
  BY IdleType DEF UndoInShadow, LoopShape, Deciding, RunOnce
<1> QED
  BY <1>1, <1>2, <1>3 DEF UndoInShadow, slurmVars, durable, SlurmTypeOK

LEMMA ReleaseJobTypes ==
    ASSUME Types, NEW p \in Procs, NEW r \in Refs, ReleaseJob(p, r)
    PROVE Types'
<1> USE DEF Types, TypeOK, AgentTypeOK
<1>1. PICK ok \in BOOLEAN : WriteStart(r, now, FALSE, ok) /\ rel' = [rel EXCEPT ![p] = Tried(rel[p], r, ok)]
  BY DEF ReleaseJob
<1>2. SlurmTypeOK'
  <2>1. now \in Nat /\ UNCHANGED now
    BY DEF ReleaseJob, SlurmTypeOK
  <2> QED
    BY <1>1, <2>1, WriteStartType
<1>3. rel' \in [Procs -> ReleaseAll]
  <2>1. Tried(rel[p], r, ok) \in ReleaseAll
    BY DEF Tried, ReleaseAll
  <2> QED
    BY <1>1, <2>1
<1>4. RelShape'
  BY <1>1 DEF ReleaseJob, RelShape, ReleaseAll, Tried
<1> QED
  BY <1>2, <1>3, <1>4 DEF ReleaseJob, durable, LoopShape

LEMMA SaveReleaseTypes ==
    ASSUME Types, NEW p \in Procs, SaveRelease(p)
    PROVE Types'
<1> USE DEF Types, TypeOK, AgentTypeOK
<1>1. rel[p].ref \in Refs /\ rel[p].copy[rel[p].ref] \in Row
  BY DEF SaveRelease, RelShape
<1>2. [rel[p].copy[rel[p].ref] EXCEPT !.released = TRUE] \in Row
  BY <1>1 DEF Row
<1>3. db' \in [Refs -> MaybeRow]
  BY <1>1, <1>2 DEF SaveRelease, MaybeRow
<1>4. rel' \in [Procs -> ReleaseAll] /\ RelShape'
  BY DEF SaveRelease, RelShape, ReleaseAll
<1> QED
  BY <1>3, <1>4 DEF SaveRelease, slurmVars, SlurmTypeOK, LoopShape

LEMMA PostReleaseTypes ==
    ASSUME Types, NEW p \in Procs, PostRelease(p)
    PROVE Types'
<1> USE DEF Types, TypeOK, AgentTypeOK
<1>1. rel[p].ref \in Refs
  BY DEF PostRelease, RelShape
<1>2. rel' \in [Procs -> ReleaseAll] /\ RelShape'
  BY DEF PostRelease, RelShape, ReleaseAll
<1> QED
  BY <1>1, <1>2 DEF PostRelease, slurmVars, SlurmTypeOK, LoopShape

LEMMA CliTypes ==
    ASSUME Types, CliStart \/ CliReleased \/ CliCrash
    PROVE Types'
<1> USE DEF Types, TypeOK, AgentTypeOK
<1>1. "cli" \in Procs
  BY DEF Procs
<1>2. CASE CliStart
  <2>1. rel' \in [Procs -> ReleaseAll] /\ RelShape'
    BY <1>1, <1>2, ReleasingShape DEF CliStart
  <2>2. SlurmTypeOK'
    BY <1>2, IncidentType DEF CliStart, SlurmTypeOK, Kinds
  <2> QED
    BY <1>2, <2>1, <2>2 DEF CliStart, durable, LoopShape
<1>3. CASE CliReleased \/ CliCrash
  <2>1. rel' \in [Procs -> ReleaseAll] /\ RelShape'
    BY <1>1, <1>3, NoReleaseShape DEF CliReleased, CliCrash
  <2> QED
    BY <1>3, <2>1 DEF CliReleased, CliCrash, slurmVars, durable, SlurmTypeOK, LoopShape
<1> QED
  BY <1>2, <1>3

-----------------------------------------------------------------------------
(* The request and its answer *)

LEMMA SendSyncTypes ==
    ASSUME Types, SendSync
    PROVE Types'
<1> USE DEF Types, TypeOK, AgentTypeOK
<1>1. BuildBody \in Body
  BY BodyType
<1>2. loop' \in RunOnce
  BY <1>1, IdleType DEF SendSync, RunOnce, PCs
<1>3. LoopShape'
  BY <1>1, IdleType DEF SendSync, LoopShape, Deciding, RunOnce
<1>4. rel' \in [Procs -> ReleaseAll] /\ RelShape'
  BY NoReleaseShape DEF SendSync, Procs
<1> QED
  BY <1>2, <1>3, <1>4 DEF SendSync, slurmVars, durable, SlurmTypeOK

LEMMA CommitsTypes ==
    ASSUME Types, At("wait"), NEW all \in BOOLEAN, NEW k \in 0 .. 4, Commits(all, k)
    PROVE /\ db' \in [Refs -> MaybeRow]
          /\ outA' \in [Refs -> MaybeReport]
          /\ outR' \in SUBSET Refs
          /\ askAll' \in BOOLEAN
<1> USE DEF Types, TypeOK, AgentTypeOK
<1>1. loop.sent \in Body
  BY DEF LoopShape, At
<1>2. \A r \in Refs : db[r] # None => [db[r] EXCEPT !.sent = TRUE] \in Row
  BY DEF MaybeRow, Row
<1>3. db' \in [Refs -> MaybeRow]
  BY <1>2 DEF Commits, MaybeRow
<1>4. outA' \in [Refs -> MaybeReport]
  BY DEF Commits, MaybeReport
<1> QED
  BY <1>1, <1>3, <1>4 DEF Commits, Body

LEMMA AcknowledgeTypes ==
    ASSUME Types, NEW rep \in Reply, Acknowledge(rep)
    PROVE Types'
<1> USE DEF Types, TypeOK, AgentTypeOK
<1>1. rep.all \in BOOLEAN /\ rep.dec \in [Refs -> MaybeTime] /\ Nothing \in [Refs -> MaybeTime]
  BY DEF Reply, Nothing, MaybeTime
<1>2. /\ db' \in [Refs -> MaybeRow]
      /\ outA' \in [Refs -> MaybeReport]
      /\ outR' \in SUBSET Refs
      /\ askAll' \in BOOLEAN
  BY <1>1, CommitsTypes DEF Acknowledge
<1>3. PICK next \in {"kill", "apply", "prune"} :
         /\ loop' = [loop EXCEPT !.pc = next, !.sent = None,
                                 !.dec = IF next = "apply" THEN rep.dec ELSE Nothing]
         /\ rel' = IF next = "kill" THEN [rel EXCEPT !["loop"] = Releasing(db')] ELSE rel
  BY DEF Acknowledge
<1>4. loop' \in RunOnce /\ LoopShape'
  BY <1>1, <1>3 DEF RunOnce, PCs, LoopShape, Deciding
<1>5. rel' \in [Procs -> ReleaseAll] /\ RelShape'
  <2>1. "loop" \in Procs
    BY DEF Procs
  <2>2. CASE next = "kill"
    BY <1>2, <1>3, <2>1, <2>2, ReleasingShape
  <2>3. CASE next # "kill"
    BY <1>3, <2>3 DEF RelShape
  <2> QED
    BY <2>2, <2>3
<1> QED
  BY <1>2, <1>4, <1>5 DEF Acknowledge, slurmVars, SlurmTypeOK

-----------------------------------------------------------------------------
(* apply_decision *)

(* Steps that only choose the next step, perhaps after writing to Slurm. *)
LEMMA OutcomeTypes ==
    ASSUME Types, NEW pc \in Deciding \cup {"report"}, NEW r \in Refs, loop.dec[r] \in Nat,
           NEW t \in MaybeRow, pc \in Deciding => t \in Row, NEW ok \in BOOLEAN, Outcome(pc, r, t, ok),
           SlurmTypeOK', UNCHANGED <<outA, outR, askAll, mode, rel>>, db' \in [Refs -> MaybeRow]
    PROVE Types'
<1>1. pc \in PCs /\ loop \in RunOnce
  BY DEF PCs, Deciding, Types, TypeOK, AgentTypeOK
<1>2. loop' \in RunOnce
  BY <1>1, OutcomeType
<1>3. LoopShape'
  BY <1>1, OutcomeShape
<1> QED
  BY <1>2, <1>3 DEF Types, TypeOK, AgentTypeOK, RelShape

LEMMA DecideTypes ==
    ASSUME Types, NEW r \in Refs, Decide(r)
    PROVE Types'
<1>1. loop.dec[r] \in Nat
  BY DEF Decide, Types, TypeOK, AgentTypeOK, RunOnce, MaybeTime
<1>2. db[r] \in MaybeRow /\ (~Refused(r, db[r], loop.dec[r]) => db[r] \in Row)
  BY DEF Types, TypeOK, AgentTypeOK, MaybeRow, Refused
<1>3. /\ SlurmTypeOK'
      /\ UNCHANGED <<outA, outR, askAll, mode, rel>>
      /\ db' \in [Refs -> MaybeRow]
  BY DEF Decide, Types, TypeOK, AgentTypeOK, slurmVars, durable, SlurmTypeOK
<1>4. None \in MaybeRow /\ {"set", "free"} \subseteq Deciding
  BY DEF MaybeRow, Deciding
<1>5. CASE Outcome("report", r, None, FALSE) \/ Outcome("report", r, None, TRUE)
  BY <1>1, <1>3, <1>4, <1>5, OutcomeTypes, "report" \notin Deciding DEF Deciding
<1>6. CASE db[r] \in Row /\ (Outcome("free", r, db[r], FALSE) \/ Outcome("set", r, db[r], FALSE))
  BY <1>1, <1>2, <1>3, <1>4, <1>6, OutcomeTypes
<1> QED
  BY <1>2, <1>5, <1>6 DEF Decide

LEMMA WritingTypes ==
    ASSUME Types, FreeJob \/ SetStart
    PROVE Types'
<1>1. loop.ref \in Refs /\ loop.dec[loop.ref] \in Nat /\ loop.cur \in Row
  BY DEF FreeJob, SetStart, At, Types, LoopShape, Deciding
<1>2. /\ UNCHANGED <<now, outA, outR, askAll, mode, rel>>
      /\ db' \in [Refs -> MaybeRow]
  BY DEF FreeJob, SetStart, Types, TypeOK, AgentTypeOK, durable
<1>3. PICK t \in Nat, defer \in BOOLEAN, ok \in BOOLEAN, pc \in {"saveFree", "verify"} :
         /\ WriteStart(loop.ref, t, defer, ok)
         /\ IF ok THEN Outcome(pc, loop.ref, loop.cur, FALSE) ELSE Failed
  <2>1. CASE FreeJob
    BY <2>1 DEF FreeJob, Types, TypeOK, SlurmTypeOK
  <2>2. CASE SetStart
    BY <1>1, <2>2 DEF SetStart
  <2> QED
    BY <2>1, <2>2
<1>4. SlurmTypeOK'
  BY <1>1, <1>2, <1>3, WriteStartType DEF Types, TypeOK
<1>5. pc \in Deciding /\ "report" \notin Deciding /\ None \in MaybeRow /\ loop.cur \in MaybeRow
  BY <1>1 DEF Deciding, MaybeRow
<1>6. CASE ok
  BY <1>1, <1>2, <1>3, <1>4, <1>5, <1>6, OutcomeTypes
<1>7. CASE ~ok
  BY <1>1, <1>2, <1>3, <1>4, <1>5, <1>7, OutcomeTypes DEF Failed
<1> QED
  BY <1>6, <1>7

LEMMA VerifyTypes ==
    ASSUME Types, Verify
    PROVE Types'
<1>1. loop.ref \in Refs /\ loop.dec[loop.ref] \in Nat /\ loop.cur \in Row
  BY DEF Verify, At, Types, LoopShape, Deciding
<1>2. /\ UNCHANGED <<now, outA, outR, askAll, mode, rel>>
      /\ db' \in [Refs -> MaybeRow]
  BY DEF Verify, Types, TypeOK, AgentTypeOK, durable
<1>3. SlurmTypeOK'
  BY <1>1, DetailType DEF Verify, Types, TypeOK
<1>4. "save" \in Deciding /\ "report" \notin Deciding /\ None \in MaybeRow /\ loop.cur \in MaybeRow
  BY <1>1 DEF Deciding, MaybeRow
<1>5. Outcome("save", loop.ref, loop.cur, FALSE) \/ Failed
  BY DEF Verify
<1> QED
  BY <1>1, <1>2, <1>3, <1>4, <1>5, OutcomeTypes DEF Failed

LEMMA SavingTypes ==
    ASSUME Types, SaveFreed \/ SaveApplied
    PROVE Types'
<1>1. loop.ref \in Refs /\ loop.dec[loop.ref] \in Nat /\ loop.cur \in Row
  BY DEF SaveFreed, SaveApplied, At, Types, LoopShape, Deciding
<1>2. /\ [loop.cur EXCEPT !.released = TRUE] \in Row
      /\ [loop.cur EXCEPT !.applied = loop.dec[loop.ref]] \in Row
  BY <1>1 DEF Row, MaybeTime
<1>3. /\ SlurmTypeOK'
      /\ UNCHANGED <<outA, outR, askAll, mode, rel>>
      /\ db' \in [Refs -> MaybeRow]
  BY <1>1, <1>2 DEF SaveFreed, SaveApplied, Types, TypeOK, AgentTypeOK, slurmVars, SlurmTypeOK, MaybeRow
<1>4. "report" \notin Deciding /\ None \in MaybeRow
  BY DEF Deciding, MaybeRow
<1>5. Outcome("report", loop.ref, None, TRUE)
  BY DEF SaveFreed, SaveApplied
<1> QED
  BY <1>1, <1>3, <1>4, <1>5, OutcomeTypes

LEMMA PutAppliedTypes ==
    ASSUME Types, PutApplied
    PROVE Types'
<1> USE DEF Types, TypeOK, AgentTypeOK
<1>1. loop.ref \in Refs /\ loop.dec[loop.ref] \in Nat /\ loop.ok \in BOOLEAN
  BY DEF PutApplied, At, LoopShape, RunOnce
<1>2. [at |-> loop.dec[loop.ref], ok |-> loop.ok] \in MaybeReport
  BY <1>1 DEF MaybeReport, Report
<1>3. outA' \in [Refs -> MaybeReport]
  BY <1>2 DEF PutApplied
<1>4. loop' \in RunOnce
  BY <1>1 DEF PutApplied, RunOnce, PCs, MaybeTime
<1>5. LoopShape'
  BY DEF PutApplied, LoopShape, Deciding, RunOnce
<1> QED
  BY <1>3, <1>4, <1>5 DEF PutApplied, slurmVars, SlurmTypeOK, RelShape

LEMMA PruneTypes ==
    ASSUME Types, Prune
    PROVE Types'
<1> USE DEF Types, TypeOK, AgentTypeOK
<1>1. db' \in [Refs -> MaybeRow]
  BY DEF Prune, MaybeRow
<1>2. rel' \in [Procs -> ReleaseAll] /\ RelShape'
  BY NoReleaseShape DEF Prune, Procs
<1> QED
  BY <1>1, <1>2, IdleType, IdleShape DEF Prune, slurmVars, SlurmTypeOK

-----------------------------------------------------------------------------
(* Failures *)

LEMMA FailureTypes ==
    ASSUME Types, \/ ReadFails \/ Crash
                  \/ CloudFails /\ (UNCHANGED incidents \/ \E k \in Kinds : Incident(k))
    PROVE Types'
<1> USE DEF Types, TypeOK, AgentTypeOK
<1>1. loop' \in RunOnce /\ LoopShape'
  BY IdleType, IdleShape DEF ReadFails, CloudFails, Crash
<1>2. rel' \in [Procs -> ReleaseAll] /\ RelShape'
  <2>1. CASE rel' = rel
    BY <2>1 DEF RelShape
  <2>2. CASE rel' = [rel EXCEPT !["loop"] = NoRelease]
    BY <2>2, NoReleaseShape DEF Procs
  <2> QED
    BY <2>1, <2>2 DEF ReadFails, CloudFails, Crash
<1>3. SlurmTypeOK'
  BY IncidentType DEF ReadFails, CloudFails, Crash, SlurmTypeOK, Kinds
<1>4. mode' \in ModeNames /\ UNCHANGED durable
  BY AgentAssumption DEF ReadFails, CloudFails, Crash
<1> QED
  BY <1>1, <1>2, <1>3, <1>4 DEF durable

LEMMA AckCrashTypes ==
    ASSUME Types, NEW all \in BOOLEAN, NEW k \in 0 .. 3, AckCrash(all, k)
    PROVE Types'
<1> USE DEF Types, TypeOK, AgentTypeOK
<1>1. /\ db' \in [Refs -> MaybeRow]
      /\ outA' \in [Refs -> MaybeReport]
      /\ outR' \in SUBSET Refs
      /\ askAll' \in BOOLEAN
  BY CommitsTypes DEF AckCrash
<1>2. SlurmTypeOK'
  BY IncidentType DEF AckCrash, SlurmTypeOK, Kinds
<1>3. mode' \in ModeNames
  BY AgentAssumption DEF AckCrash
<1> QED
  BY <1>1, <1>2, <1>3, IdleType, IdleShape DEF AckCrash, RelShape

-----------------------------------------------------------------------------

(* The cloud that may answer anything still speaks the protocol. *)
LEMMA RepliesAreReplies == AnyReply \subseteq Reply
<1>1. {None} \cup ReplyTimes \subseteq MaybeTime /\ Nothing \in [Refs -> MaybeTime]
  BY ReplyAssumption DEF MaybeTime, Nothing
<1> SUFFICES ASSUME NEW rep \in AnyReply PROVE rep \in Reply
  OBVIOUS
<1>2. CASE rep \in [all : {FALSE}, dec : [Refs -> {None} \cup ReplyTimes]]
  BY <1>1, <1>2 DEF Reply
<1>3. CASE rep = [all |-> TRUE, dec |-> Nothing]
  BY <1>1, <1>3 DEF Reply
<1> QED
  BY <1>2, <1>3 DEF AnyReply

LEMMA NextTypes == Types /\ [Next]_vars => Types'
<1> SUFFICES ASSUME Types, [Next]_vars PROVE Types'
  OBVIOUS
<1> USE DEF Procs
<1>1. CASE SlurmNext /\ UNCHANGED agentVars
  BY <1>1, SlurmNextType DEF Types, TypeOK, AgentTypeOK, LoopShape, RelShape, agentVars
<1>2. CASE LoopStep
  BY <1>2, ReadQueueTypes, StartRefreshTypes, UndoTypes, PruneTypes, DiscoverTypes, RefreshTypes,
     CloseTypes, DecideTypes, ReleaseJobTypes, SaveReleaseTypes, PostReleaseTypes, WritingTypes,
     VerifyTypes, SavingTypes, PutAppliedTypes DEF LoopStep
<1>3. CASE CliStep \/ CliCrash
  BY <1>3, CliTypes, ReleaseJobTypes, SaveReleaseTypes, PostReleaseTypes DEF CliStep
<1>4. CASE SendSync
  BY <1>4, SendSyncTypes
<1>5. CASE ReadFails
  BY <1>5, FailureTypes
<1>8. CASE Crash
  BY <1>8, FailureTypes
<1>6. CASE AnyCloud
  BY <1>6, RepliesAreReplies, AcknowledgeTypes, AckCrashTypes, FailureTypes DEF AnyCloud
<1>7. CASE UNCHANGED vars
  BY <1>7 DEF Types, TypeOK, SlurmTypeOK, AgentTypeOK, LoopShape, RelShape, vars, slurmVars, agentVars
<1> QED
  BY <1>1, <1>2, <1>3, <1>4, <1>5, <1>6, <1>7, <1>8 DEF Next, AgentStep

(* Every variable of the scheduler and of the agent keeps its type, and no step uses a local variable *)
(* that the step before it did not set.                                                               *)
THEOREM TypeCorrect == Spec => []TypeOK
<1>1. Types => TypeOK
  BY DEF Types
<1> QED
  BY <1>1, InitTypes, NextTypes, PTL DEF Spec

-----------------------------------------------------------------------------
(* LimitKept.  The invariant is about one job at a time; three lemmas say   *)
(* what carries its parts over a step.                                      *)

(* A step of Slurm, or a release: no deferral. *)
JobMoves(s) ==
    /\ job'[s].st # "DONE" => job[s].st # "DONE"
    /\ job'[s].st = "ABSENT" => job'[s] = job[s]
    /\ job'[s].st = "PENDING" /\ job'[s].ours =>
          /\ job[s].ours
          /\ job[s].st = "ABSENT" \/ (job[s].st = "PENDING" /\ job'[s].begin = job[s].begin)

(* A row is left alone, or written by someone who read it. *)
RowKept(s) ==
    \/ db'[s] = db[s]
    \/ /\ db[s] # None /\ db'[s] # None
       /\ db'[s].first = db[s].first /\ db'[s].st # "DONE" /\ ~db'[s].sent

LEMMA OnFileKept ==
    ASSUME NEW s \in Refs, OnFile(s), JobMoves(s), RowKept(s)
    PROVE OnFile(s)'
BY DEF OnFile, JobMoves, RowKept

LEMMA InLoopKept ==
    ASSUME NEW s \in Refs, InLoop(s), JobMoves(s), RowKept(s), UNCHANGED loop
    PROVE InLoop(s)'
BY DEF InLoop, JobMoves, RowKept, Copied

(* In these states run_once holds nothing that matters. *)
LEMMA InLoopTrivial ==
    ASSUME NEW s \in Refs, loop'.pc \notin Deciding \cup {"discover", "refresh", "wait"}
    PROVE InLoop(s)'
BY DEF InLoop

LEMMA InReleaseKept ==
    ASSUME NEW s \in Refs, InRelease(s), RowKept(s), UNCHANGED rel
    PROVE InRelease(s)'
BY DEF InRelease, RowKept, Copied

(* One release_all starts, from the rows of the file, ... *)
LEMMA InReleaseStart ==
    ASSUME NEW s \in Refs, NEW p \in Procs, TypeOK, InRelease(s), OnFile(s)', RowKept(s),
           db' \in [Refs -> MaybeRow], rel' = [rel EXCEPT ![p] = Releasing(db')]
    PROVE InRelease(s)'
<1> SUFFICES ASSUME NEW q \in Procs,
                    s \in rel'[q].todo \/ (rel'[q].stage = "save" /\ s = rel'[q].ref)
             PROVE Copied(s, rel[q].copy[s])'
  BY DEF InRelease
<1>1. CASE q = p
  <2>1. rel'[q] = Releasing(db')
    BY <1>1 DEF TypeOK, AgentTypeOK
  <2>2. Releasing(db').stage = "next" /\ Releasing(db').todo = ToRelease(db')
    BY DEF Releasing
  <2>3. s \in ToRelease(db')
    BY <2>1, <2>2
  <2>4. rel'[q].copy[s] = db'[s]
    BY <2>1, <2>3, ReleasingRows
  <2>5. db'[s] # None /\ ~db'[s].sent
    BY <2>3 DEF ToRelease, Active
  <2> QED
    BY <2>4, <2>5 DEF Copied, OnFile, ToRelease
<1>2. CASE q # p
  BY <1>2 DEF InRelease, RowKept, Copied, TypeOK, AgentTypeOK
<1> QED
  BY <1>1, <1>2

(* ... or ends. *)
LEMMA InReleaseEnd ==
    ASSUME NEW s \in Refs, NEW p \in Procs, TypeOK, InRelease(s), RowKept(s),
           rel' = [rel EXCEPT ![p] = NoRelease]
    PROVE InRelease(s)'
BY DEF InRelease, RowKept, Copied, NoRelease, TypeOK, AgentTypeOK

(* The steps of Slurm and the releases do not defer. *)
LEMMA SlurmMoves ==
    ASSUME TypeOK, SlurmNext, NEW s \in Refs
    PROVE JobMoves(s)
<1> USE DEF JobMoves, TypeOK, SlurmTypeOK, Job
<1>1. CASE Tick
  BY <1>1 DEF Tick
<1>2. ASSUME NEW r \in Refs, Submit(r) PROVE JobMoves(s)
  BY <1>2 DEF Submit
<1>3. ASSUME NEW r \in Refs, StartJob(r) PROVE JobMoves(s)
  BY <1>3 DEF StartJob
<1>4. ASSUME NEW r \in Refs, EndJob(r) PROVE JobMoves(s)
  BY <1>4 DEF EndJob
<1>5. ASSUME NEW r \in Refs, Requeue(r) PROVE JobMoves(s)
  BY <1>5 DEF Requeue
<1>6. ASSUME NEW r \in Refs, OwnerSetsBegin(r) PROVE JobMoves(s)
  BY <1>6 DEF OwnerSetsBegin
<1>7. ASSUME NEW r \in Refs, OwnerHolds(r) PROVE JobMoves(s)
  BY <1>7 DEF OwnerHolds
<1>8. ASSUME NEW r \in Refs, OwnerCancels(r) PROVE JobMoves(s)
  BY <1>8 DEF OwnerCancels
<1>9. ASSUME NEW r \in Refs, Unfold(r) PROVE JobMoves(s)
  BY <1>9 DEF Unfold
<1> QED
  BY <1>1, <1>2, <1>3, <1>4, <1>5, <1>6, <1>7, <1>8, <1>9 DEF SlurmNext

LEMMA ReleaseMoves ==
    ASSUME TypeOK, NEW r \in Refs, NEW t \in Nat, NEW ok \in BOOLEAN, WriteStart(r, t, FALSE, ok), NEW s \in Refs
    PROVE JobMoves(s)
BY DEF WriteStart, Rewritten, JobMoves, TypeOK, SlurmTypeOK, Job

LEMMA StillMoves ==
    ASSUME UNCHANGED job, NEW s \in Refs
    PROVE JobMoves(s)
BY DEF JobMoves

-----------------------------------------------------------------------------
(* One lemma per kind of step: what is true of a job stays true of it. *)

LEMMA SlurmAlive ==
    ASSUME TypeOK, SlurmNext, UNCHANGED agentVars, NEW s \in Refs, Alive(s)
    PROVE Alive(s)'
<1>1. JobMoves(s) /\ RowKept(s) /\ UNCHANGED <<loop, rel>>
  BY SlurmMoves DEF RowKept, agentVars
<1> QED
  BY <1>1, OnFileKept, InLoopKept, InReleaseKept DEF Alive, JobMoves

LEMMA ReadQueueAlive ==
    ASSUME Types, ReadQueue, NEW s \in Refs, Alive(s)
    PROVE Alive(s)'
<1> SUFFICES ASSUME job[s].st # "DONE"
             PROVE OnFile(s)' /\ InLoop(s)' /\ InRelease(s)'
  BY DEF Alive, ReadQueue, slurmVars
<1>1. OnFile(s) /\ InRelease(s)
  BY DEF Alive
<1>2. JobMoves(s) /\ RowKept(s)
  BY StillMoves DEF ReadQueue, RowKept, slurmVars, durable
<1>3. OnFile(s)' /\ InRelease(s)'
  BY <1>1, <1>2, OnFileKept, InReleaseKept DEF ReadQueue
<1>4. InLoop(s)'
  <2>1. PICK q \in Snapshots : \E some \in SUBSET {r \in Refs : q[r] # None /\ q[r].st = "PENDING" /\ db[r] = None} :
          loop' = [Idle EXCEPT !.pc = "discover", !.now = now, !.rows = q, !.todo = some]
    BY DEF ReadQueue
  <2>2. q[s] \in RowsOf(s)
    BY DEF Snapshots
  <2>3. q[s] = None => job[s].st = "ABSENT"
    <3>1. CASE job[s].st = "PENDING"
      BY <2>2, <3>1, NoneAssumption DEF RowsOf, QueueRow, Estimates, Types, TypeOK, SlurmTypeOK, Job, Later
    <3>2. CASE job[s].st = "RUNNING"
      BY <2>2, <3>2, NoneAssumption DEF RowsOf, QueueRow
    <3> QED
      BY <3>1, <3>2 DEF Types, TypeOK, SlurmTypeOK, Job, JobStates
  <2>4. q[s] # None => job[s].st # "ABSENT"
    BY <2>2 DEF RowsOf
  <2>5. /\ loop'.pc = "discover" /\ loop'.rows = q
        /\ s \in loop'.todo => q[s] # None /\ db[s] = None
    BY <2>1 DEF Idle
  <2>6. UNCHANGED <<job, db>>
    BY DEF ReadQueue, slurmVars, durable
  <2> QED
    BY <1>1, <2>3, <2>4, <2>5, <2>6 DEF InLoop, OnFile, Deciding
<1> QED
  BY <1>3, <1>4

LEMMA DiscoverAlive ==
    ASSUME Types, NEW r \in Refs, Discover(r), NEW s \in Refs, Alive(s)
    PROVE Alive(s)'
<1> SUFFICES ASSUME job[s].st # "DONE"
             PROVE OnFile(s)' /\ InLoop(s)' /\ InRelease(s)'
  BY DEF Alive, Discover
<1>1. OnFile(s) /\ InLoop(s) /\ InRelease(s) /\ UNCHANGED <<job, rel>>
  BY DEF Alive, Discover
<1>2. loop'.pc = "discover" /\ loop.pc = "discover" /\ loop'.rows = loop.rows /\ loop'.todo = loop.todo \ {r}
  BY DEF Discover, At, Types, TypeOK, AgentTypeOK, RunOnce
<1>3. CASE s # r
  <2>1. RowKept(s) /\ db'[s] = db[s]
    BY <1>3 DEF Discover, RowKept, Types, TypeOK, AgentTypeOK
  <2> QED
    BY <1>1, <1>2, <2>1, StillMoves, OnFileKept, InReleaseKept DEF InLoop, Deciding
<1>4. CASE s = r
  <2>1. db[s] = None /\ loop.rows[s] # None /\ job[s].st # "ABSENT"
    BY <1>1, <1>2, <1>4 DEF InLoop, Discover
  <2>2. db'[s] = NewRow(s) \/ db'[s] = db[s]
    BY <1>4 DEF Discover, Types, TypeOK, AgentTypeOK
  <2>3. InRelease(s)'
    BY <1>1, <2>1 DEF InRelease, Copied
  <2>4. InLoop(s)'
    BY <1>2, <1>4, <2>1 DEF InLoop, Deciding
  <2>5. OnFile(s)'
    BY <1>1, <2>1, <2>2 DEF OnFile, NewRow
  <2> QED
    BY <2>3, <2>4, <2>5
<1> QED
  BY <1>3, <1>4

LEMMA StartRefreshAlive ==
    ASSUME Types, StartRefresh, NEW s \in Refs, Alive(s)
    PROVE Alive(s)'
<1> SUFFICES ASSUME job[s].st # "DONE"
             PROVE OnFile(s)' /\ InLoop(s)' /\ InRelease(s)'
  BY DEF Alive, StartRefresh, slurmVars
<1>1. OnFile(s) /\ InLoop(s) /\ InRelease(s) /\ UNCHANGED <<job, rel, db>>
  BY DEF Alive, StartRefresh, slurmVars, durable
<1>2. OnFile(s)' /\ InRelease(s)'
  BY <1>1, StillMoves, OnFileKept, InReleaseKept DEF RowKept
<1>3. InLoop(s)'
  <2>1. /\ loop.pc = "discover" /\ loop'.pc = "refresh" /\ loop'.rows = loop.rows
        /\ loop'.todo = Active(db) /\ loop'.copy = Rows(db, Active(db))
    BY DEF StartRefresh, At, Types, TypeOK, AgentTypeOK, RunOnce
  <2>2. s \in loop'.todo => loop'.copy[s] = db[s] /\ db[s] # None /\ ~db[s].sent
    BY <2>1 DEF Rows, Active
  <2> QED
    BY <1>1, <2>1, <2>2 DEF InLoop, OnFile, Copied, Deciding
<1> QED
  BY <1>2, <1>3

LEMMA RefreshAlive ==
    ASSUME Types, NEW r \in Refs, Refresh(r), NEW s \in Refs, Alive(s)
    PROVE Alive(s)'
<1> SUFFICES ASSUME job[s].st # "DONE"
             PROVE OnFile(s)' /\ InLoop(s)' /\ InRelease(s)'
  BY DEF Alive, Refresh
<1>1. OnFile(s) /\ InLoop(s) /\ InRelease(s) /\ UNCHANGED <<job, rel>>
  BY DEF Alive, Refresh
<1>2. /\ loop.pc = "refresh" /\ loop'.pc = "refresh" /\ loop'.rows = loop.rows
      /\ loop'.copy = loop.copy /\ loop'.todo = loop.todo \ {r}
  BY DEF Refresh, At, Types, TypeOK, AgentTypeOK, RunOnce
<1>3. RowKept(s)
  <2>1. CASE s # r
    BY <2>1 DEF Refresh, RowKept, Types, TypeOK, AgentTypeOK
  <2>2. CASE s = r
    <3>1. Copied(s, loop.copy[s]) /\ loop.copy[s] \in Row /\ loop.rows[s] \in QueueRow
      BY <1>1, <1>2, <2>2 DEF InLoop, Refresh, LoopShape, Types, TypeOK, AgentTypeOK, RunOnce
    <3>2. PICK known \in BOOLEAN : db' = [db EXCEPT ![s] = Refreshed(s, loop.copy[s], loop.rows[s], known)]
      BY <2>2 DEF Refresh
    <3> DEFINE t == Refreshed(s, loop.copy[s], loop.rows[s], known)
    <3>3. t.first = loop.copy[s].first /\ t.st # "DONE" /\ ~t.sent
      BY <3>1 DEF Refreshed, Copied, Row
    <3>4. t \in Row
      BY <3>1, RefreshedType
    <3> HIDE DEF t
    <3>5. db'[s] = t
      BY <2>2, <3>2 DEF t, Types, TypeOK, AgentTypeOK
    <3> QED
      BY <3>1, <3>3, <3>4, <3>5, NoneAssumption DEF RowKept, Copied
  <2> QED
    BY <2>1, <2>2
<1>4. OnFile(s)' /\ InRelease(s)'
  BY <1>1, <1>3, StillMoves, OnFileKept, InReleaseKept
<1>5. InLoop(s)'
  <2>1. loop.rows[s] = None => s # r
    BY DEF Refresh
  <2> QED
    BY <1>1, <1>2, <1>3, <2>1 DEF InLoop, RowKept, Copied, Deciding, Refresh, Types, TypeOK, AgentTypeOK
<1> QED
  BY <1>4, <1>5

(* Only the row of a finished job is closed. *)
LEMMA CloseAlive ==
    ASSUME Types, NEW r \in Refs, Close(r), Alive(r), NEW s \in Refs, Alive(s)
    PROVE Alive(s)'
<1> SUFFICES ASSUME job[s].st # "DONE"
             PROVE OnFile(s)' /\ InLoop(s)' /\ InRelease(s)'
  BY DEF Alive, Close
<1>1. OnFile(s) /\ InLoop(s) /\ InRelease(s) /\ UNCHANGED <<job, rel>>
  BY DEF Alive, Close
<1>2. /\ loop.pc = "refresh" /\ loop'.pc = "refresh" /\ loop'.rows = loop.rows
      /\ loop'.copy = loop.copy /\ loop'.todo = loop.todo \ {r}
  BY DEF Close, At, Types, TypeOK, AgentTypeOK, RunOnce
<1>3. s # r
  <2> SUFFICES ASSUME s = r PROVE FALSE
    OBVIOUS
  <2>1. loop.rows[r] = None /\ r \in loop.todo
    BY DEF Close
  <2> QED
    BY <1>1, <1>2, <2>1 DEF InLoop, Copied
<1>4. RowKept(s) /\ db'[s] = db[s]
  BY <1>3 DEF Close, RowKept, Types, TypeOK, AgentTypeOK
<1>5. OnFile(s)' /\ InRelease(s)'
  BY <1>1, <1>4, StillMoves, OnFileKept, InReleaseKept
<1>6. InLoop(s)'
  BY <1>1, <1>2, <1>4 DEF InLoop, Copied, Deciding
<1> QED
  BY <1>5, <1>6

LEMMA UndoAlive ==
    ASSUME Types, UndoInShadow, NEW s \in Refs, Alive(s)
    PROVE Alive(s)'
<1> SUFFICES ASSUME job[s].st # "DONE"
             PROVE OnFile(s)' /\ InLoop(s)' /\ InRelease(s)'
  BY DEF Alive, UndoInShadow, slurmVars
<1>1. OnFile(s) /\ InRelease(s) /\ UNCHANGED <<job, db>>
  BY DEF Alive, UndoInShadow, slurmVars, durable
<1>2. OnFile(s)' /\ RowKept(s)
  BY <1>1, StillMoves, OnFileKept DEF RowKept
<1>3. "loop" \in Procs /\ db' \in [Refs -> MaybeRow] /\ rel' = [rel EXCEPT !["loop"] = Releasing(db')]
  BY <1>1 DEF Procs, UndoInShadow, Types, TypeOK, AgentTypeOK
<1>4. InRelease(s)'
  BY <1>1, <1>2, <1>3, InReleaseStart DEF Types
<1>5. InLoop(s)'
  <2>1. loop'.pc = "undo"
    BY DEF UndoInShadow, Idle
  <2> QED
    BY <2>1, InLoopTrivial DEF Deciding
<1> QED
  BY <1>2, <1>4, <1>5

LEMMA ReleaseJobAlive ==
    ASSUME Types, NEW p \in Procs, NEW r \in Refs, ReleaseJob(p, r), NEW s \in Refs, Alive(s)
    PROVE Alive(s)'
<1>1. PICK ok \in BOOLEAN : WriteStart(r, now, FALSE, ok) /\ rel' = [rel EXCEPT ![p] = Tried(rel[p], r, ok)]
  BY DEF ReleaseJob
<1>2. JobMoves(s)
  <2>1. now \in Nat
    BY DEF Types, TypeOK, SlurmTypeOK
  <2> QED
    BY <1>1, <2>1, ReleaseMoves DEF Types
<1> SUFFICES ASSUME job[s].st # "DONE"
             PROVE OnFile(s)' /\ InLoop(s)' /\ InRelease(s)'
  BY <1>2 DEF Alive, JobMoves
<1>3. OnFile(s) /\ InLoop(s) /\ InRelease(s) /\ UNCHANGED <<loop, db>> /\ RowKept(s)
  BY DEF Alive, ReleaseJob, durable, RowKept
<1>4. OnFile(s)' /\ InLoop(s)'
  BY <1>2, <1>3, OnFileKept, InLoopKept
<1>5. InRelease(s)'
  BY <1>1, <1>3 DEF InRelease, Copied, Tried, ReleaseJob, Types, TypeOK, AgentTypeOK, ReleaseAll
<1> QED
  BY <1>4, <1>5

LEMMA SaveReleaseAlive ==
    ASSUME Types, NEW p \in Procs, SaveRelease(p), NEW s \in Refs, Alive(s)
    PROVE Alive(s)'
<1> SUFFICES ASSUME job[s].st # "DONE"
             PROVE OnFile(s)' /\ InLoop(s)' /\ InRelease(s)'
  BY DEF Alive, SaveRelease, slurmVars
<1>1. OnFile(s) /\ InLoop(s) /\ InRelease(s) /\ UNCHANGED <<job, loop>>
  BY DEF Alive, SaveRelease, slurmVars
<1>2. RowKept(s)
  <2>1. CASE s # rel[p].ref
    BY <2>1 DEF SaveRelease, RowKept, Types, TypeOK, AgentTypeOK
  <2>2. CASE s = rel[p].ref
    <3>1. Copied(s, rel[p].copy[s]) /\ rel[p].copy[s] \in Row
      BY <1>1, <2>2 DEF InRelease, SaveRelease, RelShape, Types
    <3>2. db'[s] = [rel[p].copy[s] EXCEPT !.released = TRUE]
      BY <2>2 DEF SaveRelease, Types, TypeOK, AgentTypeOK
    <3>3. db'[s] \in Row
      BY <3>1, <3>2 DEF Row
    <3> QED
      BY <3>1, <3>2, <3>3, NoneAssumption DEF RowKept, Copied, Row
  <2> QED
    BY <2>1, <2>2
<1>3. OnFile(s)' /\ InLoop(s)'
  BY <1>1, <1>2, StillMoves, OnFileKept, InLoopKept
<1>4. InRelease(s)'
  BY <1>1, <1>2 DEF InRelease, RowKept, Copied, SaveRelease, Types, TypeOK, AgentTypeOK, ReleaseAll
<1> QED
  BY <1>3, <1>4

LEMMA PostReleaseAlive ==
    ASSUME Types, NEW p \in Procs, PostRelease(p), NEW s \in Refs, Alive(s)
    PROVE Alive(s)'
<1>1. JobMoves(s) /\ RowKept(s) /\ UNCHANGED <<job, db, loop>>
  BY StillMoves DEF PostRelease, RowKept, slurmVars
<1>2. InRelease(s) => InRelease(s)'
  BY <1>1 DEF InRelease, Copied, PostRelease, Types, TypeOK, AgentTypeOK, ReleaseAll
<1> QED
  BY <1>1, <1>2, OnFileKept, InLoopKept DEF Alive

LEMMA CliAlive ==
    ASSUME Types, CliStart \/ CliReleased \/ CliCrash, NEW s \in Refs, Alive(s)
    PROVE Alive(s)'
<1>1. JobMoves(s) /\ RowKept(s) /\ UNCHANGED <<job, db, loop>> /\ "cli" \in Procs
  BY StillMoves DEF CliStart, CliReleased, CliCrash, RowKept, slurmVars, durable, Procs
<1>2. OnFile(s) /\ InRelease(s) => InRelease(s)'
  <2>1. CASE CliStart
    BY <1>1, <2>1, OnFileKept, InReleaseStart DEF CliStart, Types, TypeOK, AgentTypeOK
  <2>2. CASE CliReleased \/ CliCrash
    BY <1>1, <2>2, InReleaseEnd DEF CliReleased, CliCrash, Types
  <2> QED
    BY <2>1, <2>2
<1> QED
  BY <1>1, <1>2, OnFileKept, InLoopKept DEF Alive

LEMMA SendSyncAlive ==
    ASSUME Types, SendSync, NEW s \in Refs, Alive(s)
    PROVE Alive(s)'
<1> SUFFICES ASSUME job[s].st # "DONE"
             PROVE OnFile(s)' /\ InLoop(s)' /\ InRelease(s)'
  BY DEF Alive, SendSync, slurmVars
<1>1. OnFile(s) /\ InRelease(s) /\ UNCHANGED <<job, db>> /\ RowKept(s) /\ "loop" \in Procs
  BY DEF Alive, SendSync, slurmVars, durable, RowKept, Procs
<1>2. OnFile(s)'
  BY <1>1, StillMoves, OnFileKept
<1>3. InRelease(s)'
  BY <1>1, InReleaseEnd DEF SendSync, Types
<1>4. InLoop(s)'
  <2>1. loop'.pc = "wait" /\ loop'.sent = BuildBody
    BY DEF SendSync, Idle
  <2>2. BuildBody.jobs[s] # None => BuildBody.jobs[s].st # "DONE"
    BY <1>1 DEF BuildBody, FactOf, OnFile, Active
  <2> QED
    BY <2>1, <2>2 DEF InLoop, Deciding
<1> QED
  BY <1>2, <1>3, <1>4

(* Only the row of a finished job is marked as sent. *)
LEMMA CommitsKeep ==
    ASSUME Types, At("wait"), NEW all \in BOOLEAN, NEW k \in 0 .. 4, Commits(all, k),
           NEW s \in Refs, InLoop(s)
    PROVE RowKept(s)
BY DEF Commits, InLoop, At, RowKept

LEMMA AcknowledgeAlive ==
    ASSUME Types, NEW rep \in Reply, Acknowledge(rep), NEW s \in Refs, Alive(s)
    PROVE Alive(s)'
<1> SUFFICES ASSUME job[s].st # "DONE"
             PROVE OnFile(s)' /\ InLoop(s)' /\ InRelease(s)'
  BY DEF Alive, Acknowledge, slurmVars
<1>1. OnFile(s) /\ InLoop(s) /\ InRelease(s) /\ UNCHANGED job /\ "loop" \in Procs
  BY DEF Alive, Acknowledge, slurmVars, Procs
<1>2. rep.all \in BOOLEAN
  BY DEF Reply
<1>3. RowKept(s) /\ db' \in [Refs -> MaybeRow]
  BY <1>1, <1>2, CommitsKeep, CommitsTypes DEF Acknowledge
<1>4. OnFile(s)'
  BY <1>1, <1>3, StillMoves, OnFileKept
<1>5. PICK next \in {"kill", "apply", "prune"} :
         /\ loop'.pc = next
         /\ rel' = IF next = "kill" THEN [rel EXCEPT !["loop"] = Releasing(db')] ELSE rel
  BY DEF Acknowledge, Types, TypeOK, AgentTypeOK, RunOnce
<1>6. InLoop(s)'
  BY <1>5, InLoopTrivial DEF Deciding
<1>7. InRelease(s)'
  <2>1. CASE next = "kill"
    BY <1>1, <1>3, <1>4, <1>5, <2>1, InReleaseStart DEF Types
  <2>2. CASE next # "kill"
    BY <1>1, <1>3, <1>5, <2>2, InReleaseKept
  <2> QED
    BY <2>1, <2>2
<1> QED
  BY <1>4, <1>6, <1>7

LEMMA AckCrashAlive ==
    ASSUME Types, NEW all \in BOOLEAN, NEW k \in 0 .. 3, AckCrash(all, k), NEW s \in Refs, Alive(s)
    PROVE Alive(s)'
<1>1. InLoop(s) => RowKept(s)
  BY CommitsKeep DEF AckCrash
<1>2. JobMoves(s) /\ UNCHANGED <<job, rel>> /\ loop'.pc = "idle"
  BY StillMoves DEF AckCrash, Idle
<1> QED
  BY <1>1, <1>2, OnFileKept, InLoopTrivial, InReleaseKept DEF Alive, Deciding

-----------------------------------------------------------------------------
(* apply_decision: the safety net is checked before the row and the time are kept for the next steps. *)

LEMMA DecideAlive ==
    ASSUME Types, NEW r \in Refs, Decide(r), NEW s \in Refs, Alive(s)
    PROVE Alive(s)'
<1>1. JobMoves(s) /\ RowKept(s) /\ UNCHANGED <<job, db, rel>>
  BY StillMoves DEF Decide, RowKept, slurmVars, durable
<1>2. OnFile(s) => InLoop(s)'
  <2>1. CASE loop'.pc = "report"
    BY <2>1, InLoopTrivial DEF Deciding
  <2>2. CASE /\ ~Refused(r, db[r], loop.dec[r])
             /\ \/ Outcome("free", r, db[r], FALSE)
                \/ Outcome("set", r, db[r], FALSE)
    <3>1. loop'.pc \in {"free", "set"} /\ loop'.ref = r /\ loop'.cur = db[r] /\ loop'.dec = loop.dec
      BY <2>2 DEF Outcome, Types, TypeOK, AgentTypeOK, RunOnce
    <3>2. db[r] \in Row /\ loop.dec[r] \in Nat /\ ~(loop.dec[r] > Limit(r, db[r].first))
      BY <2>2 DEF Refused, Decide, Types, TypeOK, AgentTypeOK, RunOnce, MaybeRow, MaybeTime
    <3>3. Limit(r, db[r].first) \in Nat
      BY <3>2, BaseAssumption, AgentAssumption DEF Limit, Row
    <3>4. loop.dec[r] <= Limit(r, db[r].first)
      BY <3>2, <3>3
    <3> QED
      BY <1>1, <3>1, <3>2, <3>4, NoneAssumption DEF InLoop, OnFile, Copied
  <2>3. loop'.pc = "report" \/
           /\ ~Refused(r, db[r], loop.dec[r])
           /\ Outcome("free", r, db[r], FALSE) \/ Outcome("set", r, db[r], FALSE)
    BY DEF Decide, Outcome, Types, TypeOK, AgentTypeOK, RunOnce
  <2> QED
    BY <2>1, <2>2, <2>3
<1> QED
  BY <1>1, <1>2, OnFileKept, InReleaseKept DEF Alive

LEMMA FreeJobAlive ==
    ASSUME Types, FreeJob, NEW s \in Refs, Alive(s)
    PROVE Alive(s)'
<1>1. loop.ref \in Refs /\ loop.pc \in Deciding
  BY DEF FreeJob, At, Types, LoopShape, Deciding
<1>2. JobMoves(s)
  BY <1>1, ReleaseMoves DEF FreeJob, Types, TypeOK, SlurmTypeOK
<1>3. RowKept(s) /\ UNCHANGED <<db, rel>>
  BY DEF FreeJob, RowKept, durable
<1>4. /\ loop'.dec = loop.dec
      /\ loop'.pc = "report" \/ (loop'.pc = "saveFree" /\ loop'.ref = loop.ref /\ loop'.cur = loop.cur)
  BY DEF FreeJob, Failed, Outcome, Types, TypeOK, AgentTypeOK, RunOnce
<1>5. InLoop(s) => InLoop(s)'
  BY <1>1, <1>3, <1>4 DEF InLoop, Copied, Deciding
<1> QED
  BY <1>2, <1>3, <1>5, OnFileKept, InReleaseKept DEF Alive, JobMoves

(* The one step that makes a job wait: the time is within the limit, and the job is on file. *)
LEMMA SetStartAlive ==
    ASSUME Types, SetStart, NEW s \in Refs, Alive(s)
    PROVE Alive(s)'
<1>1. loop.ref \in Refs /\ loop.pc \in Deciding
  BY DEF SetStart, At, Types, LoopShape, Deciding
<1>2. PICK ok \in BOOLEAN : WriteStart(loop.ref, loop.dec[loop.ref], TRUE, ok)
  BY DEF SetStart
<1>3. /\ job'[s].st = job[s].st
      /\ \/ job'[s] = job[s]
         \/ s = loop.ref /\ job[s].st = "PENDING" /\ job'[s].begin = loop.dec[s]
  BY <1>1, <1>2 DEF WriteStart, Rewritten, Types, TypeOK, SlurmTypeOK, Job
<1>4. UNCHANGED <<db, rel>>
  BY DEF SetStart, durable
<1>5. /\ loop'.dec = loop.dec
      /\ loop'.pc = "report" \/ (loop'.pc = "verify" /\ loop'.ref = loop.ref /\ loop'.cur = loop.cur)
  BY DEF SetStart, Failed, Outcome, Types, TypeOK, AgentTypeOK, RunOnce
<1>6. InLoop(s) => InLoop(s)'
  BY <1>1, <1>4, <1>5 DEF InLoop, Copied, Deciding
<1>7. OnFile(s) /\ InLoop(s) => OnFile(s)'
  BY <1>1, <1>3, <1>4 DEF OnFile, InLoop, Copied
<1> QED
  BY <1>3, <1>4, <1>6, <1>7, InReleaseKept DEF Alive, RowKept

LEMMA VerifyAlive ==
    ASSUME Types, Verify, NEW s \in Refs, Alive(s)
    PROVE Alive(s)'
<1>1. JobMoves(s) /\ RowKept(s) /\ UNCHANGED <<job, db, rel>>
  BY StillMoves DEF Verify, RowKept, durable
<1>2. /\ loop.pc \in Deciding
      /\ loop'.dec = loop.dec
      /\ loop'.pc = "report" \/ (loop'.pc = "save" /\ loop'.ref = loop.ref /\ loop'.cur = loop.cur)
  BY DEF Verify, At, Failed, Outcome, Deciding, Types, TypeOK, AgentTypeOK, RunOnce
<1>3. InLoop(s) => InLoop(s)'
  BY <1>1, <1>2 DEF InLoop, Copied, Deciding
<1> QED
  BY <1>1, <1>3, OnFileKept, InReleaseKept DEF Alive

LEMMA SavingAlive ==
    ASSUME Types, SaveFreed \/ SaveApplied, NEW s \in Refs, Alive(s)
    PROVE Alive(s)'
<1>1. /\ loop.pc \in Deciding /\ loop'.pc = "report" /\ UNCHANGED <<job, rel>>
      /\ loop.cur \in Row /\ loop.dec[loop.ref] \in Nat /\ loop.ref \in Refs
  BY DEF SaveFreed, SaveApplied, At, Outcome, Deciding, slurmVars, Types, LoopShape, TypeOK, AgentTypeOK, RunOnce
<1>2. InLoop(s) => RowKept(s)
  <2>1. CASE s # loop.ref
    BY <2>1 DEF SaveFreed, SaveApplied, RowKept, Types, TypeOK, AgentTypeOK
  <2>2. CASE s = loop.ref
    <3>1. /\ [loop.cur EXCEPT !.released = TRUE] \in Row
          /\ [loop.cur EXCEPT !.applied = loop.dec[loop.ref]] \in Row
      BY <1>1 DEF Row, MaybeTime
    <3>2. \/ db'[s] = [loop.cur EXCEPT !.released = TRUE]
          \/ db'[s] = [loop.cur EXCEPT !.applied = loop.dec[loop.ref]]
      BY <2>2 DEF SaveFreed, SaveApplied, Types, TypeOK, AgentTypeOK
    <3>3. InLoop(s) => Copied(s, loop.cur)
      BY <1>1, <2>2 DEF InLoop
    <3> QED
      BY <1>1, <3>1, <3>2, <3>3, NoneAssumption DEF RowKept, Copied, Row
  <2> QED
    BY <2>1, <2>2
<1>3. InLoop(s)'
  BY <1>1, InLoopTrivial DEF Deciding
<1> QED
  BY <1>1, <1>2, <1>3, StillMoves, OnFileKept, InReleaseKept DEF Alive

LEMMA PutAppliedAlive ==
    ASSUME Types, PutApplied, NEW s \in Refs, Alive(s)
    PROVE Alive(s)'
<1>1. JobMoves(s) /\ RowKept(s) /\ UNCHANGED <<job, db, rel>> /\ loop'.pc = "apply"
  BY StillMoves DEF PutApplied, RowKept, slurmVars, Types, TypeOK, AgentTypeOK, RunOnce
<1> QED
  BY <1>1, OnFileKept, InLoopTrivial, InReleaseKept DEF Alive, Deciding

LEMMA PruneAlive ==
    ASSUME Types, Prune, NEW s \in Refs, Alive(s)
    PROVE Alive(s)'
<1>1. OnFile(s) => RowKept(s)
  BY DEF Prune, OnFile, RowKept
<1>2. UNCHANGED job /\ loop'.pc = "idle" /\ "loop" \in Procs /\ rel' = [rel EXCEPT !["loop"] = NoRelease]
  BY DEF Prune, slurmVars, Idle, Procs
<1> QED
  BY <1>1, <1>2, StillMoves, OnFileKept, InLoopTrivial, InReleaseEnd DEF Alive, Deciding, Types

LEMMA FailureAlive ==
    ASSUME Types, ReadFails \/ CloudFails \/ Crash, NEW s \in Refs, Alive(s)
    PROVE Alive(s)'
<1>1. JobMoves(s) /\ RowKept(s) /\ UNCHANGED <<job, db>> /\ loop'.pc = "idle" /\ "loop" \in Procs
  BY StillMoves DEF ReadFails, CloudFails, Crash, RowKept, durable, Idle, Procs
<1>2. InRelease(s) => InRelease(s)'
  BY <1>1, InReleaseEnd, InReleaseKept DEF ReadFails, CloudFails, Crash, Types
<1> QED
  BY <1>1, <1>2, OnFileKept, InLoopTrivial DEF Alive, Deciding

-----------------------------------------------------------------------------

LEMMA InitInv == Init => IInv
<1> SUFFICES ASSUME Init PROVE IInv
  OBVIOUS
<1>1. \A s \in Refs : Alive(s)
  BY DEF Init, SlurmInit, AgentInit, Alive, OnFile, InLoop, InRelease, Idle, NoRelease, Nothing, Deciding
<1> QED
  BY <1>1, InitTypes DEF IInv, Types

LEMMA NextInv == IInv /\ [Next]_vars => IInv'
<1> SUFFICES ASSUME IInv, [Next]_vars PROVE IInv'
  OBVIOUS
<1>1. Types
  BY DEF IInv, Types
<1>2. Types'
  BY <1>1, NextTypes
<1>3. ASSUME NEW s \in Refs PROVE Alive(s)'
  <2>1. \A r \in Refs : Alive(r)
    BY DEF IInv
  <2> USE DEF Procs
  <2>2. CASE SlurmNext /\ UNCHANGED agentVars
    BY <1>1, <2>1, <2>2, SlurmAlive DEF Types
  <2>3. CASE LoopStep
    BY <1>1, <2>1, <2>3, ReadQueueAlive, StartRefreshAlive, UndoAlive, PruneAlive, DiscoverAlive, RefreshAlive,
       CloseAlive, DecideAlive, ReleaseJobAlive, SaveReleaseAlive, PostReleaseAlive, FreeJobAlive,
       SetStartAlive, VerifyAlive, SavingAlive, PutAppliedAlive DEF LoopStep
  <2>4. CASE CliStep \/ CliCrash
    BY <1>1, <2>1, <2>4, CliAlive, ReleaseJobAlive, SaveReleaseAlive, PostReleaseAlive DEF CliStep
  <2>5. CASE SendSync
    BY <1>1, <2>1, <2>5, SendSyncAlive
  <2>6. CASE ReadFails \/ Crash
    BY <1>1, <2>1, <2>6, FailureAlive
  <2>7. CASE AnyCloud
    BY <1>1, <2>1, <2>7, RepliesAreReplies, AcknowledgeAlive, AckCrashAlive, FailureAlive DEF AnyCloud
  <2>8. CASE UNCHANGED vars
    <3>1. UNCHANGED <<job, db, loop, rel>>
      BY <2>8 DEF vars, slurmVars, agentVars
    <3> QED
      BY <2>1, <3>1 DEF Alive, OnFile, InLoop, InRelease, Copied
  <2> QED
    BY <2>2, <2>3, <2>4, <2>5, <2>6, <2>7, <2>8 DEF Next, AgentStep
<1> QED
  BY <1>2, <1>3 DEF IInv, Types

(* Whatever the cloud answers, whatever fails and whenever the agent dies: a begin time that the agent  *)
(* wrote to a pending job is never beyond the limit of the record it still has of that job.             *)
THEOREM LimitIsKept == Spec => []LimitKept
<1>1. IInv => LimitKept
  BY DEF IInv, Alive, OnFile, LimitKept
<1> QED
  BY <1>1, InitInv, NextInv, PTL DEF Spec

-----------------------------------------------------------------------------
(* The outbox of reports *)

(* What a step of the loop or of release-all does to the outbox, the request and the decisions. *)
Observing == UNCHANGED outA /\ loop'.pc \in {"discover", "refresh", "undo", "idle"}
Sending == UNCHANGED outA /\ loop'.pc = "wait" /\ loop'.sent.applied = outA
Staying == UNCHANGED outA /\ loop'.pc = loop.pc /\ loop'.sent = loop.sent /\ loop'.dec = loop.dec
Working == UNCHANGED outA /\ loop.pc \in Applying /\ loop'.pc \in Applying /\ loop'.dec = loop.dec
Reporting ==
    /\ loop.pc = "report" /\ loop'.pc = "apply"
    /\ loop.ref \in Refs /\ loop.dec[loop.ref] # None
    /\ \A r \in Refs : IF r = loop.ref THEN loop'.dec[r] = None
                       ELSE loop'.dec[r] = loop.dec[r] /\ outA'[r] = outA[r]

LEMMA AgentStepKinds ==
    ASSUME Types, AgentStep
    PROVE Observing \/ Sending \/ Staying \/ Working \/ Reporting
<1> USE DEF At
<1>1. CASE PutApplied
  <2>1. loop.ref \in Refs /\ loop.dec[loop.ref] \in Nat /\ loop.dec[loop.ref] # None
    BY <1>1, BaseAssumption DEF PutApplied, Types, LoopShape
  <2>2. loop'.pc = "apply" /\ loop'.dec = [loop.dec EXCEPT ![loop.ref] = None]
    BY <1>1 DEF PutApplied, Types, TypeOK, AgentTypeOK, RunOnce
  <2>3. \A r \in Refs : r # loop.ref => outA'[r] = outA[r]
    BY <1>1 DEF PutApplied, Types, TypeOK, AgentTypeOK
  <2>4. \A r \in Refs : loop'.dec[r] = IF r = loop.ref THEN None ELSE loop.dec[r]
    BY <2>1, <2>2 DEF Types, TypeOK, AgentTypeOK, RunOnce
  <2> QED
    BY <1>1, <2>1, <2>2, <2>3, <2>4 DEF PutApplied, Reporting
<1>2. CASE SendSync
  BY <1>2 DEF SendSync, BuildBody, Idle, durable, Sending
<1>3. CASE ReadQueue \/ StartRefresh \/ UndoInShadow \/ Prune \/ ReadFails \/ Crash
  <2>1. loop'.pc \in {"discover", "refresh", "undo", "idle"}
    <3>1. CASE StartRefresh
      BY <3>1 DEF StartRefresh, Types, TypeOK, AgentTypeOK, RunOnce
    <3>2. CASE ReadQueue
      <4>1. PICK q \in Snapshots :
                \E some \in SUBSET {r \in Refs : q[r] # None /\ q[r].st = "PENDING" /\ db[r] = None} :
                    loop' = [Idle EXCEPT !.pc = "discover", !.now = now, !.rows = q, !.todo = some]
        BY <3>2 DEF ReadQueue
      <4> QED
        BY <4>1 DEF Idle
    <3>3. CASE UndoInShadow
      BY <3>3 DEF UndoInShadow, Idle
    <3>4. CASE Prune \/ ReadFails \/ Crash
      <4>1. loop' = Idle
        BY <3>4 DEF Prune, ReadFails, Crash
      <4> QED
        BY <4>1 DEF Idle
    <3> QED
      BY <1>3, <3>1, <3>2, <3>3, <3>4
  <2>2. UNCHANGED outA
    BY <1>3 DEF ReadQueue, StartRefresh, UndoInShadow, Prune, ReadFails, Crash, durable
  <2> QED
    BY <2>1, <2>2 DEF Observing
<1>4. CASE \E r \in Refs : Discover(r) \/ Refresh(r) \/ Close(r)
  BY <1>4 DEF Discover, Refresh, Close, Types, TypeOK, AgentTypeOK, RunOnce, Staying
<1>5. CASE \/ \E r \in Refs : Decide(r)
           \/ FreeJob \/ SaveFreed \/ SetStart \/ Verify \/ SaveApplied
  <2> USE DEF Applying, Deciding
  <2>1. \E pc \in Applying : \E r, t, ok : Outcome(pc, r, t, ok)
    <3>1. CASE \E r \in Refs : Decide(r)
      BY <3>1 DEF Decide
    <3>2. CASE FreeJob \/ SaveFreed \/ SetStart
      BY <3>2 DEF FreeJob, SaveFreed, SetStart, Failed
    <3>3. CASE Verify \/ SaveApplied
      BY <3>3 DEF Verify, SaveApplied, Failed
    <3> QED
      BY <1>5, <3>1, <3>2, <3>3
  <2>2. loop'.dec = loop.dec /\ loop'.pc \in Applying
    BY <2>1 DEF Outcome, Types, TypeOK, AgentTypeOK, RunOnce
  <2>3. loop.pc \in Applying
    BY <1>5 DEF Decide, FreeJob, SaveFreed, SetStart, Verify, SaveApplied
  <2>4. UNCHANGED outA
    BY <1>5 DEF Decide, FreeJob, SaveFreed, SetStart, Verify, SaveApplied, durable
  <2> QED
    BY <2>2, <2>3, <2>4 DEF Working
<1>6. CASE CliStart \/ CliReleased \/ CliCrash
  BY <1>6 DEF CliStart, CliReleased, CliCrash, durable, Staying
<1>7. CASE \E p \in Procs : SaveRelease(p) \/ PostRelease(p) \/ \E r \in Refs : ReleaseJob(p, r)
  BY <1>7 DEF SaveRelease, PostRelease, ReleaseJob, durable, Staying
<1> QED
  BY <1>1, <1>2, <1>3, <1>4, <1>5, <1>6, <1>7 DEF AgentStep, LoopStep, CliStep, Procs

(* Of these steps only put_applied touches the outbox, and only where no report is waiting. *)
LEMMA AgentStepReports ==
    ASSUME Types, ReportsInv, AgentStep
    PROVE /\ ReportsInv'
          /\ \A r \in Refs : outA[r] # None => outA'[r] = outA[r]
BY AgentStepKinds DEF Observing, Sending, Staying, Working, Reporting, ReportsInv, At, Applying, Deciding

(* None of them invents a decision, or a report without one. *)
LEMMA AgentStepSources ==
    ASSUME Types, AgentStep
    PROVE \A r \in Refs : outA'[r] # None \/ (loop'.pc \in Applying /\ loop'.dec[r] # None) =>
              outA[r] # None \/ (loop.pc \in Applying /\ loop.dec[r] # None)
BY AgentStepKinds DEF Observing, Sending, Staying, Working, Reporting, Applying, Deciding

(* An answer (all of it, or the commits before a crash) clears what the request carried, no more. *)
LEMMA CommitsReports ==
    ASSUME Types, ReportsInv, At("wait"), NEW all \in BOOLEAN, NEW k \in 0 .. 4, Commits(all, k)
    PROVE /\ \A r \in Refs : outA'[r] # outA[r] => outA'[r] = None /\ loop.sent.applied[r] = outA[r]
          /\ k = 4 => \A r \in Refs : outA'[r] = None
<1> USE DEF Types, TypeOK, AgentTypeOK
<1>1. loop.sent.applied = outA
  BY DEF ReportsInv
<1> QED
  BY <1>1 DEF Commits

LEMMA AnswerReports ==
    ASSUME Types, ReportsInv, NEW rep \in Reply,
           Acknowledge(rep) \/ \E all \in BOOLEAN, k \in 0 .. 3 : AckCrash(all, k)
    PROVE /\ ReportsInv'
          /\ \A r \in Refs : outA'[r] # outA[r] =>
                 outA'[r] = None /\ At("wait") /\ loop.sent.applied[r] = outA[r]
<1>1. CASE Acknowledge(rep)
  <2>1. At("wait") /\ Commits(rep.all, 4) /\ rep.all \in BOOLEAN
    BY <1>1 DEF Acknowledge, Reply
  <2>2. loop'.pc # "wait"
    BY <1>1 DEF Acknowledge, Types, TypeOK, AgentTypeOK, RunOnce
  <2> QED
    BY <2>1, <2>2, CommitsReports DEF ReportsInv, At
<1>2. CASE \E all \in BOOLEAN, k \in 0 .. 3 : AckCrash(all, k)
  <2>1. PICK all \in BOOLEAN, k \in 0 .. 3 : AckCrash(all, k)
    BY <1>2
  <2>2. At("wait") /\ Commits(all, k) /\ k \in 0 .. 4 /\ loop'.pc = "idle"
    BY <2>1 DEF AckCrash, Idle
  <2> QED
    BY <2>2, CommitsReports DEF ReportsInv, At, Applying, Deciding
<1> QED
  BY <1>1, <1>2

LEMMA FailureReports ==
    ASSUME Types, ReportsInv, CloudFails
    PROVE ReportsInv' /\ UNCHANGED outA
BY DEF CloudFails, durable, Idle, ReportsInv, At, Applying, Deciding

LEMMA NextReports ==
    ASSUME Types, ReportsInv, Next
    PROVE /\ ReportsInv'
          /\ \A r \in Refs : outA[r] # None /\ outA'[r] # outA[r] =>
                 outA'[r] = None /\ At("wait") /\ loop.sent.applied[r] = outA[r]
<1>1. CASE SlurmNext /\ UNCHANGED agentVars
  BY <1>1 DEF agentVars, ReportsInv, At
<1>2. CASE AgentStep
  BY <1>2, AgentStepReports
<1>3. CASE AnyCloud
  <2>1. [all |-> TRUE, dec |-> Nothing] \in Reply
    BY DEF Reply, Nothing, MaybeTime
  <2> QED
    BY <1>3, <2>1, RepliesAreReplies, AnswerReports, FailureReports DEF AnyCloud
<1> QED
  BY <1>1, <1>2, <1>3 DEF Next

(* The outcome of a decision waits in the outbox, unchanged, until an answer to a request that carried *)
(* it: neither a later decision of the same job nor a crash drops or replaces it.                      *)
THEOREM ReportsAreKept == Spec => ReportsKept
<1>1. Init => ReportsInv
  BY DEF Init, AgentInit, ReportsInv, At, Idle, Applying, Deciding
<1>2. Types /\ ReportsInv /\ [Next]_vars => ReportsInv'
  BY NextReports DEF vars, agentVars, ReportsInv, At
<1>3. Types /\ ReportsInv /\ [Next]_vars =>
          [\A r \in Refs : outA[r] # None /\ outA'[r] # outA[r] =>
               /\ outA'[r] = None
               /\ At("wait") /\ loop.sent.applied[r] = outA[r]]_vars
  BY NextReports
<1> QED
  BY <1>1, <1>2, <1>3, InitTypes, NextTypes, PTL DEF Spec, ReportsKept

-----------------------------------------------------------------------------
(* Jobs that are off limits *)

(* What HandsOff says of one step and one job. *)
LeftAlone(r) == OneProcess /\ Off(db[r]) => ~Defers(r) /\ (db'[r] = None \/ Off(db'[r]))

Counted == UNCHANGED incidents \/ \E k \in Kinds : Incident(k)

LEMMA OneProcessBefore ==
    ASSUME Counted, OneProcess'
    PROVE OneProcess
BY DEF Counted, Incident, OneProcess

LEMMA WriteStartCounted ==
    ASSUME NEW r \in Refs, NEW t, NEW defer, NEW ok, WriteStart(r, t, defer, ok)
    PROVE Counted
BY DEF WriteStart, Counted, Kinds

(* A write that releases a job, and one that writes to another job, defers none. *)
LEMMA NoDeferral ==
    ASSUME SlurmTypeOK, NEW r \in Refs, NEW t \in Nat, NEW ok \in BOOLEAN, WriteStart(r, t, FALSE, ok),
           NEW s \in Refs
    PROVE ~Defers(s)
BY DEF WriteStart, Rewritten, SlurmTypeOK, Job, Defers

LEMMA DeferralOfOne ==
    ASSUME SlurmTypeOK, NEW r \in Refs, NEW t \in Nat, NEW ok \in BOOLEAN, WriteStart(r, t, TRUE, ok),
           NEW s \in Refs, s # r
    PROVE ~Defers(s)
BY DEF WriteStart, Rewritten, SlurmTypeOK, Job, Defers

(* The scheduler and the owners defer nothing. *)
LEMMA SlurmDefersNothing ==
    ASSUME Types, NEW s \in Refs, Alive(s), SlurmNext
    PROVE ~Defers(s) /\ Counted
<1> USE DEF Types, TypeOK, SlurmTypeOK
<1>1. CASE Tick
  BY <1>1 DEF Tick, Defers, Counted
<1>2. ASSUME NEW r \in Refs, Submit(r)
      PROVE ~Defers(s) /\ Counted
  <2>1. job[r].st = "ABSENT" /\ (\A q \in Refs : q # r => job'[q] = job[q]) /\ job'[r].ours = job[r].ours
    BY <1>2 DEF Submit, Job
  <2>2. s = r => ~job[s].ours
    BY <2>1 DEF Alive, OnFile
  <2> QED
    BY <1>2, <2>1, <2>2 DEF Defers, Submit, Counted
<1>3. ASSUME NEW r \in Refs, StartJob(r) \/ Unfold(r) \/ EndJob(r) \/ OwnerHolds(r) \/ OwnerCancels(r)
      PROVE ~Defers(s) /\ Counted
  <2>1. ~Defers(s)
    BY <1>3 DEF StartJob, Unfold, EndJob, OwnerHolds, OwnerCancels, Defers, Job
  <2> QED
    BY <1>3, <2>1 DEF StartJob, Unfold, EndJob, OwnerHolds, OwnerCancels, Counted, Kinds
<1>4. ASSUME NEW r \in Refs, Requeue(r)
      PROVE ~Defers(s) /\ Counted
  BY <1>4 DEF Requeue, Defers, Job, Counted, Kinds
<1>5. ASSUME NEW r \in Refs, OwnerSetsBegin(r)
      PROVE ~Defers(s) /\ Counted
  BY <1>5 DEF OwnerSetsBegin, Defers, Job, Counted, Kinds
<1> QED
  BY <1>1, <1>2, <1>3, <1>4, <1>5 DEF SlurmNext

LEMMA SlurmCounted ==
    ASSUME SlurmNext
    PROVE Counted
<1>1. Tick \/ (\E r \in Refs : Submit(r) \/ StartJob(r) \/ Unfold(r) \/ EndJob(r)) => Counted
  BY DEF Tick, Submit, StartJob, Unfold, EndJob, Counted
<1>2. ASSUME NEW r \in Refs, OwnerHolds(r) \/ OwnerCancels(r) \/ Requeue(r) \/ OwnerSetsBegin(r)
      PROVE Incident("edit")
  BY <1>2 DEF OwnerHolds, OwnerCancels, Requeue, OwnerSetsBegin
<1> QED
  BY <1>1, <1>2 DEF SlurmNext, Counted, Kinds

(* Refreshing a row that is off limits leaves it so. *)
LEMMA RefreshedOff ==
    ASSUME NEW r \in Refs, NEW t \in Row, NEW q \in QueueRow, NEW known \in BOOLEAN, Off(t)
    PROVE Off(Refreshed(r, t, q, known))
<1> DEFINE u == Refreshed(r, t, q, known)
<1>1. u # None
  BY RefreshedType, NoneAssumption
<1>2. u.skip \/ u.override \/ u.released \/ u.st # "PENDING"
  BY DEF Refreshed, Checked, Row, Off, QueueRow
<1> QED
  BY <1>1, <1>2 DEF Off

-----------------------------------------------------------------------------

LEMMA ReleasingCopies ==
    ASSUME NEW table
    PROVE /\ \A r \in Releasing(table).todo : Releasing(table).copy[r] = table[r]
          /\ Releasing(table).stage = "next"
BY DEF Releasing, Rows, ToRelease, Active

(* The loop is where it holds no row but those that it releases. *)
LEMMA HandsTrivial ==
    ASSUME OneProcess' => /\ rel'["cli"] = NoRelease
                          /\ rel'["loop"] # NoRelease => loop'.pc \in {"undo", "kill"}
                          /\ loop'.pc \notin {"discover", "refresh"} \cup Deciding
                          /\ rel'["loop"].stage = "save" => rel'["loop"].ref \notin rel'["loop"].todo
                          /\ \A r \in rel'["loop"].todo : rel'["loop"].copy[r] = db'[r]
    PROVE HandsInv'
BY DEF HandsInv, At

LEMMA ObserveHands ==
    ASSUME Types, HandsInv, NEW r \in Refs, Discover(r) \/ Refresh(r) \/ Close(r)
    PROVE HandsInv' /\ \A s \in Refs : LeftAlone(s)
<1> USE DEF Types, TypeOK, AgentTypeOK
<1>1. /\ loop.pc \in {"discover", "refresh"} /\ loop'.pc = loop.pc /\ loop'.copy = loop.copy
      /\ loop'.todo = loop.todo \ {r} /\ r \in loop.todo
      /\ UNCHANGED <<job, rel>> /\ \A s \in Refs : s # r => db'[s] = db[s]
  BY DEF Discover, Refresh, Close, At, RunOnce
<1>2. Counted
  BY DEF Discover, Refresh, Close, detail, Counted, Kinds
<1>3. ASSUME OneProcess, Off(db[r])
      PROVE db'[r] = None \/ Off(db'[r])
  <2>1. CASE Discover(r)
    BY <1>3, <2>1 DEF Discover, HandsInv, Off, At
  <2>2. CASE Refresh(r)
    <3>1. loop.copy[r] = db[r] /\ loop.copy[r] \in Row /\ loop.rows[r] \in QueueRow
      BY <1>3, <2>2 DEF Refresh, HandsInv, LoopShape, At, RunOnce
    <3>2. PICK known \in BOOLEAN : db' = [db EXCEPT ![r] = Refreshed(r, loop.copy[r], loop.rows[r], known)]
      BY <2>2 DEF Refresh
    <3>3. Off(Refreshed(r, loop.copy[r], loop.rows[r], known))
      BY <1>3, <3>1, RefreshedOff
    <3> QED
      BY <3>2, <3>3
  <2>3. CASE Close(r)
    <3>1. loop.copy[r] = db[r] /\ loop.copy[r] \in Row
      BY <1>3, <2>3 DEF Close, HandsInv, LoopShape, At
    <3>2. \/ db' = [db EXCEPT ![r] = [loop.copy[r] EXCEPT !.st = "DONE", !.ran = job[r].ran]]
          \/ db' = [db EXCEPT ![r] = [loop.copy[r] EXCEPT !.st = "RUNNING"]]
          \/ db' = [db EXCEPT ![r] = [loop.copy[r] EXCEPT !.st = "DONE"]]
          \/ db' = db
      BY <2>3 DEF Close
    <3>3. /\ [loop.copy[r] EXCEPT !.st = "DONE", !.ran = job[r].ran] \in Row
          /\ [loop.copy[r] EXCEPT !.st = "RUNNING"] \in Row
          /\ [loop.copy[r] EXCEPT !.st = "DONE"] \in Row
      BY <3>1 DEF Row, States, SlurmTypeOK, Job
    <3>4. CASE db' = db
      BY <1>3, <3>4 DEF Off
    <3>5. ASSUME NEW t \in Row, t.st # "PENDING", db' = [db EXCEPT ![r] = t]
          PROVE Off(db'[r])
      BY <3>5, NoneAssumption DEF Off
    <3> QED
      BY <3>1, <3>2, <3>3, <3>4, <3>5 DEF Row
  <2> QED
    BY <2>1, <2>2, <2>3
<1>4. \A s \in Refs : LeftAlone(s)
  BY <1>1, <1>3 DEF LeftAlone, Defers
<1>5. HandsInv'
  <2> SUFFICES ASSUME OneProcess' PROVE HandsInv'
    BY DEF HandsInv
  <2>1. OneProcess /\ rel["loop"] = NoRelease /\ rel["cli"] = NoRelease
    BY <1>1, <1>2, OneProcessBefore DEF HandsInv
  <2>2. \A s \in Refs : s \in loop'.todo => s # r /\ s \in loop.todo
    BY <1>1
  <2> QED
    BY <1>1, <2>1, <2>2 DEF HandsInv, At, Deciding, NoRelease
<1> QED
  BY <1>4, <1>5

LEMMA CycleHands ==
    ASSUME Types, HandsInv,
           ReadQueue \/ StartRefresh \/ UndoInShadow \/ Prune \/ SendSync \/ ReadFails \/ Crash \/ CloudFails,
           Counted
    PROVE HandsInv' /\ \A s \in Refs : LeftAlone(s)
<1> USE DEF Types, TypeOK, AgentTypeOK
<1>1. UNCHANGED job /\ \A s \in Refs : db'[s] = None \/ db'[s] = db[s]
  BY DEF ReadQueue, StartRefresh, UndoInShadow, Prune, SendSync, ReadFails, Crash, CloudFails, slurmVars, durable
<1>2. \A s \in Refs : LeftAlone(s)
  BY <1>1 DEF LeftAlone, Defers
<1>3. HandsInv'
  <2> SUFFICES ASSUME OneProcess' PROVE HandsInv'
    BY DEF HandsInv
  <2>1. /\ rel["cli"] = NoRelease /\ rel'["cli"] = NoRelease /\ "loop" \in Procs /\ NoRelease.todo = {}
        /\ rel["loop"] # NoRelease => loop.pc \in {"undo", "kill"}
    BY OneProcessBefore DEF HandsInv, ReadQueue, StartRefresh, UndoInShadow, Prune, SendSync, ReadFails, Crash,
       CloudFails, Procs, NoRelease
  <2> NoRelease.stage = "off"
    BY DEF NoRelease
  <2>2. CASE ReadQueue
    <3>1. PICK q \in Snapshots :
              \E some \in SUBSET {r \in Refs : q[r] # None /\ q[r].st = "PENDING" /\ db[r] = None} :
                  loop' = [Idle EXCEPT !.pc = "discover", !.now = now, !.rows = q, !.todo = some]
      BY <2>2 DEF ReadQueue
    <3>2. loop'.pc = "discover" /\ (\A r \in loop'.todo : db[r] = None) /\ UNCHANGED <<db, rel>>
      BY <2>2, <3>1 DEF ReadQueue, Idle, durable
    <3> QED
      BY <2>1, <2>2, <3>2 DEF HandsInv, At, Deciding, ReadQueue
  <2>3. CASE StartRefresh
    <3>1. /\ loop'.pc = "refresh" /\ loop'.todo = Active(db) /\ loop'.copy = Rows(db, Active(db))
          /\ UNCHANGED <<db, rel>> /\ loop.pc = "discover"
      BY <2>3 DEF StartRefresh, RunOnce, durable, At
    <3> QED
      BY <2>1, <3>1 DEF HandsInv, At, Deciding, Rows
  <2>4. CASE UndoInShadow
    <3>1. loop'.pc = "undo" /\ UNCHANGED db /\ rel'["loop"] = Releasing(db)
      <4>1. loop' = [Idle EXCEPT !.pc = "undo", !.now = loop.now] /\ rel' = [rel EXCEPT !["loop"] = Releasing(db)]
        BY <2>4 DEF UndoInShadow
      <4> QED
        BY <2>1, <2>4, <4>1 DEF UndoInShadow, Idle, durable
    <3>2. /\ \A r \in rel'["loop"].todo : rel'["loop"].copy[r] = db'[r]
          /\ rel'["loop"].stage = "next"
      BY <3>1, ReleasingCopies
    <3> QED
      BY <2>1, <3>1, <3>2, HandsTrivial DEF Deciding
  <2>5. CASE Prune \/ SendSync \/ Crash
    <3>1. rel' = [rel EXCEPT !["loop"] = NoRelease]
      BY <2>5 DEF Prune, SendSync, Crash
    <3>2. loop'.pc \in {"idle", "wait"}
      <4>1. CASE SendSync
        BY <4>1 DEF SendSync, Idle
      <4>2. CASE Prune \/ Crash
        BY <4>2 DEF Prune, Crash, Idle
      <4> QED
        BY <2>5, <4>1, <4>2
    <3>3. rel'["loop"] = NoRelease
      BY <2>1, <3>1
    <3> QED
      BY <2>1, <3>2, <3>3, HandsTrivial DEF Deciding
  <2>6. CASE ReadFails \/ CloudFails
    <3>1. loop'.pc = "idle" /\ UNCHANGED rel /\ loop.pc \in {"discover", "refresh", "wait"}
      BY <2>6 DEF ReadFails, CloudFails, Idle, At
    <3> QED
      BY <2>1, <3>1, HandsTrivial DEF Deciding
  <2> QED
    BY <2>2, <2>3, <2>4, <2>5, <2>6
<1> QED
  BY <1>2, <1>3

LEMMA CycleCounted ==
    ASSUME ReadQueue \/ StartRefresh \/ UndoInShadow \/ Prune \/ SendSync \/ ReadFails \/ Crash
    PROVE Counted
BY DEF ReadQueue, StartRefresh, UndoInShadow, Prune, SendSync, ReadFails, Crash, Counted, Kinds, slurmVars

LEMMA AnswerHands ==
    ASSUME Types, HandsInv, NEW rep \in Reply,
           Acknowledge(rep) \/ \E all \in BOOLEAN, k \in 0 .. 3 : AckCrash(all, k)
    PROVE HandsInv' /\ \A s \in Refs : LeftAlone(s)
<1> USE DEF Types, TypeOK, AgentTypeOK
<1>1. PICK all \in BOOLEAN, k \in 0 .. 4 : Commits(all, k)
  BY DEF Acknowledge, AckCrash, Reply
<1>2. \A s \in Refs : db'[s] = db[s] \/ (db[s] \in Row /\ db'[s] = [db[s] EXCEPT !.sent = TRUE])
  BY <1>1 DEF Commits, MaybeRow
<1>3. \A s \in Refs : [db[s] EXCEPT !.sent = TRUE] \in Row /\ Off(db[s]) => Off([db[s] EXCEPT !.sent = TRUE])
  BY NoneAssumption DEF Off, Row, MaybeRow
<1>4. UNCHANGED job /\ Counted /\ loop.pc = "wait"
  BY DEF Acknowledge, AckCrash, slurmVars, Counted, Kinds, At
<1>5. \A s \in Refs : db[s] \in Row => [db[s] EXCEPT !.sent = TRUE] \in Row
  BY DEF Row
<1>6. \A s \in Refs : LeftAlone(s)
  BY <1>2, <1>3, <1>4, <1>5 DEF LeftAlone, Defers
<1>7. HandsInv'
  <2> SUFFICES ASSUME OneProcess' PROVE HandsInv'
    BY DEF HandsInv
  <2>1. rel["cli"] = NoRelease /\ rel["loop"] = NoRelease /\ NoRelease.todo = {} /\ "loop" \in Procs
    BY <1>4, OneProcessBefore DEF HandsInv, Procs, NoRelease
  <2> NoRelease.stage = "off"
    BY DEF NoRelease
  <2>2. CASE UNCHANGED rel /\ loop'.pc \in {"idle", "apply", "prune"}
    BY <2>1, <2>2, HandsTrivial DEF Deciding
  <2>3. CASE loop'.pc = "kill" /\ rel' = [rel EXCEPT !["loop"] = Releasing(db')]
    <3>1. rel'["loop"] = Releasing(db') /\ rel'["cli"] = NoRelease
      BY <2>1, <2>3
    <3>2. /\ \A r \in rel'["loop"].todo : rel'["loop"].copy[r] = db'[r]
          /\ rel'["loop"].stage = "next"
      BY <3>1, ReleasingCopies
    <3> QED
      BY <2>3, <3>1, <3>2, HandsTrivial DEF Deciding
  <2>4. \/ UNCHANGED rel /\ loop'.pc \in {"idle", "apply", "prune"}
        \/ loop'.pc = "kill" /\ rel' = [rel EXCEPT !["loop"] = Releasing(db')]
    <3>1. CASE Acknowledge(rep)
      BY <3>1 DEF Acknowledge, RunOnce
    <3>2. CASE \E a \in BOOLEAN, n \in 0 .. 3 : AckCrash(a, n)
      BY <3>2 DEF AckCrash, Idle
    <3> QED
      BY <3>1, <3>2
  <2> QED
    BY <2>2, <2>3, <2>4
<1> QED
  BY <1>6, <1>7

LEMMA ReleaseHands ==
    ASSUME Types, HandsInv, NEW p \in Procs,
           SaveRelease(p) \/ PostRelease(p) \/ \E r \in Refs : ReleaseJob(p, r)
    PROVE HandsInv' /\ \A s \in Refs : LeftAlone(s)
<1> USE DEF Types, TypeOK, AgentTypeOK
<1>1. UNCHANGED loop /\ \A q \in Procs : q # p => rel'[q] = rel[q]
  BY DEF SaveRelease, PostRelease, ReleaseJob
<1>2. \A s \in Refs : ~Defers(s)
  <2>1. CASE \E r \in Refs : ReleaseJob(p, r)
    <3>1. PICK r \in Refs, ok \in BOOLEAN : WriteStart(r, now, FALSE, ok)
      BY <2>1 DEF ReleaseJob
    <3> QED
      BY <3>1, NoDeferral DEF SlurmTypeOK
  <2>2. CASE SaveRelease(p) \/ PostRelease(p)
    BY <2>2 DEF SaveRelease, PostRelease, slurmVars, Defers
  <2> QED
    BY <2>1, <2>2
<1>3. Counted
  <2>1. CASE \E r \in Refs : ReleaseJob(p, r)
    BY <2>1, WriteStartCounted DEF ReleaseJob
  <2>2. CASE SaveRelease(p) \/ PostRelease(p)
    BY <2>2 DEF SaveRelease, PostRelease, slurmVars, Counted
  <2> QED
    BY <2>1, <2>2
<1>4. /\ rel[p].stage # "off" /\ rel'[p].copy = rel[p].copy /\ rel'[p].todo \subseteq rel[p].todo
      /\ rel'[p].stage = "save" => rel'[p].ref \notin rel'[p].todo
  <2>0. rel[p] \in ReleaseAll /\ DOMAIN rel = Procs
    OBVIOUS
  <2>1. CASE SaveRelease(p) \/ PostRelease(p)
    <3>1. CASE SaveRelease(p)
      BY <2>0, <3>1 DEF SaveRelease, ReleaseAll
    <3>2. CASE PostRelease(p)
      BY <2>0, <3>2 DEF PostRelease, ReleaseAll
    <3> QED
      BY <2>1, <3>1, <3>2
  <2>2. ASSUME NEW r \in Refs, ReleaseJob(p, r)
        PROVE /\ rel[p].stage # "off" /\ rel'[p].copy = rel[p].copy /\ rel'[p].todo \subseteq rel[p].todo
              /\ rel'[p].stage = "save" => rel'[p].ref \notin rel'[p].todo
    <3>1. PICK ok \in BOOLEAN : rel' = [rel EXCEPT ![p] = Tried(rel[p], r, ok)]
      BY <2>2 DEF ReleaseJob
    <3>2. rel'[p] = Tried(rel[p], r, ok) /\ rel[p].stage = "next"
      BY <2>0, <2>2, <3>1 DEF ReleaseJob
    <3> QED
      BY <2>0, <3>2 DEF Tried, ReleaseAll
  <2> QED
    BY <2>1, <2>2
<1>5. ASSUME NEW s \in Refs
      PROVE \/ db'[s] = db[s]
            \/ Off(db'[s]) /\ SaveRelease(p) /\ s = rel[p].ref
  <2>1. CASE SaveRelease(p)
    <3>1. rel[p].ref \in Refs /\ rel[p].copy[rel[p].ref] \in Row
      BY <2>1 DEF SaveRelease, RelShape
    <3>2. [rel[p].copy[rel[p].ref] EXCEPT !.released = TRUE] \in Row
      BY <3>1 DEF Row
    <3>3. Off([rel[p].copy[rel[p].ref] EXCEPT !.released = TRUE])
      BY <3>1, <3>2, NoneAssumption DEF Off, Row
    <3> QED
      BY <2>1, <3>1, <3>3 DEF SaveRelease
  <2>2. CASE PostRelease(p) \/ \E r \in Refs : ReleaseJob(p, r)
    BY <2>2 DEF PostRelease, ReleaseJob, durable
  <2> QED
    BY <2>1, <2>2
<1>6. \A s \in Refs : LeftAlone(s)
  BY <1>2, <1>5 DEF LeftAlone
<1>7. HandsInv'
  <2> SUFFICES ASSUME OneProcess' PROVE HandsInv'
    BY DEF HandsInv
  <2>1. OneProcess /\ rel["cli"] = NoRelease /\ (rel["loop"] # NoRelease => loop.pc \in {"undo", "kill"})
    BY <1>3, OneProcessBefore DEF HandsInv
  <2>2. p = "loop" /\ rel["loop"] # NoRelease
    BY <1>4, <2>1 DEF NoRelease, Procs
  <2>3. rel'["cli"] = NoRelease /\ loop'.pc \in {"undo", "kill"}
    BY <1>1, <2>1, <2>2 DEF Procs
  <2>4. rel'["loop"].stage = "save" => rel'["loop"].ref \notin rel'["loop"].todo
    BY <1>4, <2>2
  <2>5. ASSUME NEW s \in rel'["loop"].todo
        PROVE rel'["loop"].copy[s] = db'[s]
    <3>1. s \in rel["loop"].todo /\ s \in Refs
      BY <1>4, <2>2 DEF ReleaseAll
    <3>2. rel["loop"].copy[s] = db[s]
      BY <2>1, <3>1 DEF HandsInv
    <3>3. SaveRelease(p) => s # rel[p].ref
      BY <2>1, <2>2, <3>1 DEF HandsInv, SaveRelease
    <3> QED
      BY <1>4, <1>5, <2>2, <3>1, <3>2, <3>3
  <2> QED
    BY <2>3, <2>4, <2>5, HandsTrivial DEF Deciding
<1> QED
  BY <1>6, <1>7

LEMMA DecisionHands ==
    ASSUME Types, HandsInv,
           \/ \E r \in Refs : Decide(r)
           \/ FreeJob \/ SaveFreed \/ SetStart \/ Verify \/ SaveApplied \/ PutApplied
    PROVE HandsInv' /\ \A s \in Refs : LeftAlone(s)
<1> USE DEF Types, TypeOK, AgentTypeOK
<1>1. loop.pc \in Applying /\ UNCHANGED rel
  BY DEF Decide, FreeJob, SaveFreed, SetStart, Verify, SaveApplied, PutApplied, At, Applying, Deciding
<1>2. Counted
  <2>1. CASE FreeJob \/ SetStart
    BY <2>1, WriteStartCounted DEF FreeJob, SetStart, LoopShape, At, Deciding
  <2>2. CASE \/ \E r \in Refs : Decide(r)
             \/ SaveFreed \/ Verify \/ SaveApplied \/ PutApplied
    BY <2>2 DEF Decide, SaveFreed, Verify, detail, SaveApplied, PutApplied, Counted, Kinds, slurmVars
  <2> QED
    BY <2>1, <2>2
<1>3. ASSUME OneProcess
      PROVE /\ rel["loop"] = NoRelease /\ rel["cli"] = NoRelease
            /\ loop.pc \in Deciding => loop.ref \in Refs /\ loop.cur = db[loop.ref] /\ ~Off(db[loop.ref])
  BY <1>1, <1>3 DEF HandsInv, Applying, Deciding, LoopShape
<1>4. CASE FreeJob \/ SetStart
  <2>1. loop.pc \in Deciding /\ loop.ref \in Refs /\ loop.dec[loop.ref] \in Nat /\ UNCHANGED db
    BY <1>4 DEF FreeJob, SetStart, At, Deciding, LoopShape, durable
  <2>2. ASSUME NEW s \in Refs, s # loop.ref PROVE ~Defers(s)
    BY <1>4, <2>1, <2>2, NoDeferral, DeferralOfOne DEF FreeJob, SetStart, SlurmTypeOK
  <2>3. \A s \in Refs : LeftAlone(s)
    BY <1>3, <2>1, <2>2 DEF LeftAlone
  <2>4. \/ loop'.pc = "report"
        \/ loop'.pc \in Deciding /\ loop'.ref = loop.ref /\ loop'.cur = loop.cur
    BY <1>4 DEF FreeJob, SetStart, Failed, Outcome, Deciding, RunOnce
  <2> QED
    BY <1>1, <1>2, <1>3, <2>1, <2>3, <2>4, OneProcessBefore DEF HandsInv, At, Deciding, NoRelease
<1>5. CASE Verify
  <2>1. loop.pc \in Deciding /\ UNCHANGED <<db, job>>
    BY <1>5 DEF Verify, At, Deciding, durable
  <2>2. \/ loop'.pc = "report"
        \/ loop'.pc \in Deciding /\ loop'.ref = loop.ref /\ loop'.cur = loop.cur
    BY <1>5 DEF Verify, Failed, Outcome, Deciding, RunOnce
  <2> QED
    BY <1>1, <1>2, <1>3, <2>1, <2>2, OneProcessBefore DEF HandsInv, At, Deciding, NoRelease, LeftAlone, Defers
<1>6. CASE SaveFreed \/ SaveApplied \/ PutApplied
  <2>1. UNCHANGED job /\ loop'.pc \in {"report", "apply"}
    BY <1>6 DEF SaveFreed, SaveApplied, PutApplied, Outcome, slurmVars, RunOnce
  <2>2. ASSUME NEW s \in Refs, OneProcess, Off(db[s]) PROVE db'[s] = db[s]
    <3>1. CASE PutApplied
      BY <3>1 DEF PutApplied
    <3>2. CASE SaveFreed \/ SaveApplied
      <4>1. s # loop.ref
        BY <1>3, <2>2, <3>2 DEF SaveFreed, SaveApplied, At, Deciding
      <4> QED
        BY <3>2, <4>1 DEF SaveFreed, SaveApplied
    <3> QED
      BY <1>6, <3>1, <3>2
  <2>3. \A s \in Refs : LeftAlone(s)
    BY <2>1, <2>2 DEF LeftAlone, Defers
  <2>4. HandsInv'
    BY <1>1, <1>2, <1>3, <2>1, OneProcessBefore, HandsTrivial DEF Deciding, NoRelease
  <2> QED
    BY <2>3, <2>4
<1>7. CASE \E r \in Refs : Decide(r)
  <2>1. PICK r \in Refs : Decide(r)
    BY <1>7
  <2>2. /\ UNCHANGED <<db, job>>
        /\ \/ loop'.pc = "report"
           \/ /\ loop'.pc \in Deciding /\ loop'.ref = r /\ loop'.cur = db[r]
              /\ ~Refused(r, db[r], loop.dec[r])
    BY <2>1 DEF Decide, Outcome, Deciding, durable, slurmVars, RunOnce
  <2>3. ~Refused(r, db[r], loop.dec[r]) => ~Off(db[r])
    BY DEF Refused, Off
  <2> QED
    BY <1>1, <1>2, <1>3, <2>2, <2>3, OneProcessBefore DEF HandsInv, At, Deciding, NoRelease, LeftAlone, Defers
<1> QED
  BY <1>4, <1>5, <1>6, <1>7

LEMMA CliHands ==
    ASSUME Types, HandsInv, CliStart \/ CliReleased \/ CliCrash
    PROVE HandsInv' /\ \A s \in Refs : LeftAlone(s)
<1>1. UNCHANGED <<job, db>>
  BY DEF CliStart, CliReleased, CliCrash, slurmVars, durable
<1>2. ~OneProcess'
  <2>1. CASE CliStart
    BY <2>1 DEF CliStart, Incident, OneProcess, Types, TypeOK, SlurmTypeOK
  <2>2. CASE CliReleased \/ CliCrash
    <3>1. rel["cli"].stage # "off" /\ UNCHANGED incidents
      BY <2>2 DEF CliReleased, CliCrash, Released, slurmVars
    <3> QED
      BY <3>1 DEF HandsInv, OneProcess, NoRelease
  <2> QED
    BY <2>1, <2>2
<1> QED
  BY <1>1, <1>2 DEF HandsInv, LeftAlone, Defers

LEMMA NextHands ==
    ASSUME IInv, HandsInv, Next
    PROVE HandsInv' /\ \A s \in Refs : LeftAlone(s)
<1> USE DEF Procs
<1>1. Types /\ \A s \in Refs : Alive(s)
  BY DEF IInv, Types
<1>2. CASE SlurmNext /\ UNCHANGED agentVars
  <2>1. \A s \in Refs : ~Defers(s)
    BY <1>1, <1>2, SlurmDefersNothing
  <2>2. OneProcess' => OneProcess
    BY <1>1, <1>2, SlurmCounted, OneProcessBefore
  <2> QED
    BY <1>2, <2>1, <2>2 DEF agentVars, HandsInv, LeftAlone, At, Off
<1>3. CASE LoopStep \/ SendSync \/ ReadFails \/ Crash
  BY <1>1, <1>3, CycleHands, CycleCounted, ObserveHands, ReleaseHands, DecisionHands DEF LoopStep
<1>4. CASE CliStep \/ CliCrash
  BY <1>1, <1>4, CliHands, ReleaseHands DEF CliStep
<1>5. CASE AnyCloud
  <2>1. [all |-> TRUE, dec |-> Nothing] \in Reply
    BY DEF Reply, Nothing, MaybeTime
  <2> QED
    BY <1>1, <1>5, <2>1, RepliesAreReplies, AnswerHands, CycleHands DEF AnyCloud, Counted
<1> QED
  BY <1>2, <1>3, <1>4, <1>5 DEF Next, AgentStep

(* A job that is recorded as changed by its owner, released, skipped, started or finished is left alone *)
(* for good, as long as no release-all process works on the same file.                                  *)
THEOREM HandsAreOff == Spec => HandsOff
<1>1. Init => HandsInv
  BY DEF Init, AgentInit, HandsInv, At, Idle, Deciding, NoRelease, Procs
<1>2. IInv /\ HandsInv /\ [Next]_vars => HandsInv'
  BY NextHands DEF vars, agentVars, slurmVars, HandsInv, At, Off, OneProcess
<1>3. IInv /\ HandsInv /\ [Next]_vars =>
          [\A r \in Refs :
              OneProcess /\ Off(db[r]) => ~Defers(r) /\ (db'[r] = None \/ Off(db'[r]))]_vars
  BY NextHands DEF LeftAlone
<1> QED
  BY <1>1, <1>2, <1>3, InitInv, NextInv, PTL DEF Spec, HandsOff

=============================================================================
