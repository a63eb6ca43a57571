----------------------------- MODULE RecordProofs -----------------------------
(***************************************************************************)
(* Proofs about what is on record.  Of the agent alone: between two cycles *)
(* every deferral that is in force is in its file.  Of the composed        *)
(* system: the start time in its file is the one the cloud knows.  Both    *)
(* follow one row through every step that reads or writes it.              *)
(***************************************************************************)
EXTENDS SystemProofs

-----------------------------------------------------------------------------
(* Deferrals in force *)

(* What RecordInv says of one job. *)
Recorded(s) == Noted(s) /\ ~BeingUndone(s) /\ SeenWaiting(s)

(* A step after which nothing has failed: nothing had failed before, and a deferral that no step has   *)
(* just made was in force, and on record, already.                                                     *)
LEMMA RecordedBefore ==
    ASSUME RecordInv, Counted, NoFault', OneProcess'
    PROVE NoFault /\ OneProcess /\ \A s \in Refs : InForce(s) => Recorded(s)
BY OneProcessBefore DEF Counted, Incident, NoFault, RecordInv, Recorded

LEMMA InForceBefore ==
    ASSUME NEW s \in Refs, Types, Alive(s), JobMoves(s), InForce(s)'
    PROVE InForce(s) /\ job'[s].begin = job[s].begin /\ job[s].st # "DONE" /\ OnFile(s) /\ InLoop(s)
BY DEF InForce, JobMoves, Alive, OnFile

(* A failure that the budget counts is a failure. *)
LEMMA NoIncident ==
    ASSUME SlurmTypeOK, NEW k \in {"slurm", "crash"}, Incident(k)
    PROVE ~NoFault'
BY DEF Incident, NoFault, SlurmTypeOK

LEMMA ObserveRecorded ==
    ASSUME Types, NEW s \in Refs, Alive(s), HandsInv, OneProcess, Recorded(s), InForce(s), NoFault',
           NEW r \in Refs, Discover(r) \/ Refresh(r) \/ Close(r)
    PROVE Recorded(s)'
<1> USE DEF Types, TypeOK, AgentTypeOK
<1>1. /\ loop.pc \in {"discover", "refresh"} /\ loop'.pc = loop.pc /\ loop'.rows = loop.rows
      /\ r \in loop.todo /\ UNCHANGED <<job, rel>> /\ \A q \in Refs : q # r => db'[q] = db[q]
  BY DEF Discover, Refresh, Close, At, RunOnce
<1>2. s \in ToRelease(db) /\ db[s].applied = job[s].begin
  BY <1>1 DEF Recorded, Noted, OnRecord, InForce
<1>3. s \in ToRelease(db)' /\ db'[s].applied = job[s].begin
  <2>1. CASE s # r
    BY <1>1, <1>2, <2>1 DEF ToRelease, Active
  <2>2. CASE s = r /\ Discover(r)
    BY <1>2, <2>2 DEF Discover, HandsInv, At, ToRelease, Active
  <2>3. CASE s = r /\ Refresh(r)
    <3>1. loop.copy[r] = db[r] /\ loop.rows[r] # None /\ loop.rows[r].st = "PENDING" /\ db[r] \in Row
      BY <1>2, <2>3 DEF Refresh, HandsInv, At, Recorded, SeenWaiting, ToRelease, Active, MaybeRow
    <3>2. PICK known \in BOOLEAN : db' = [db EXCEPT ![r] = Refreshed(r, db[r], loop.rows[r], known)]
      BY <2>3, <3>1 DEF Refresh
    <3> DEFINE t == Refreshed(r, db[r], loop.rows[r], known)
    <3>3. \/ t = db[r]
          \/ t = [db[r] EXCEPT !.override = ChangedByOwner(r, db[r])]
      BY <1>2, <2>3, <3>1 DEF Refreshed, ToRelease
    <3>4. /\ t.st = db[r].st /\ t.applied = db[r].applied /\ t.released = db[r].released
          /\ t.sent = db[r].sent
      BY <3>1, <3>3 DEF Row
    <3>5. t # None
      BY <3>1, RefreshedType, NoneAssumption, <2>3 DEF Refresh, RunOnce
    <3>6. db' = [db EXCEPT ![r] = t]
      BY <3>2
    <3> HIDE DEF t
    <3> QED
      BY <1>2, <2>3, <3>4, <3>5, <3>6 DEF ToRelease, Active
  <2>4. CASE s = r /\ Close(r)
    BY <2>4, NoIncident DEF Close, InForce
  <2> QED
    BY <2>1, <2>2, <2>3, <2>4
<1>4. ~BeingUndone(s)' /\ SeenWaiting(s)'
  BY <1>1 DEF BeingUndone, SeenWaiting, Recorded, At
<1> QED
  BY <1>1, <1>3, <1>4 DEF Recorded, Noted, OnRecord

(* A step that leaves the record of the job, and its place in Slurm, as they are. *)
LEMMA RecordedStays ==
    ASSUME NEW s \in Refs, InForce(s), Recorded(s), ~(loop.pc \in {"verify", "save"} /\ loop.ref = s),
           UNCHANGED <<job[s], db[s]>>,
           ~(loop'.pc \in {"verify", "save"} /\ loop'.ref = s), ~BeingUndone(s)', SeenWaiting(s)'
    PROVE Recorded(s)'
BY DEF Recorded, Noted, OnRecord, ToRelease, Active, InForce

LEMMA CycleRecorded ==
    ASSUME Types, NEW s \in Refs, Alive(s), HandsInv, OneProcess, Recorded(s), InForce(s), NoFault',
           ReadQueue \/ StartRefresh \/ UndoInShadow \/ Prune \/ SendSync \/ ReadFails \/ Crash \/ CloudFails
    PROVE Recorded(s)'
<1> USE DEF Types, TypeOK, AgentTypeOK
<1>0. ReadQueue \/ StartRefresh \/ UndoInShadow \/ Prune \/ SendSync \/ CloudFails
  BY NoIncident DEF ReadFails, Crash
<1>1. /\ ~(loop.pc \in {"verify", "save"} /\ loop.ref = s) /\ UNCHANGED job
      /\ job[s].st = "PENDING"
  BY <1>0 DEF ReadQueue, StartRefresh, UndoInShadow, Prune, SendSync, CloudFails, At, Observed, slurmVars, InForce
<1>2. s \in ToRelease(db) /\ db[s].applied = job[s].begin
  BY <1>1 DEF Recorded, Noted, OnRecord, InForce
<1>3. UNCHANGED db[s]
  BY <1>0, <1>2 DEF ReadQueue, StartRefresh, UndoInShadow, Prune, SendSync, CloudFails, durable, ToRelease, Active
<1>4. CASE ReadQueue
  <2>1. PICK q \in Snapshots :
            \E some \in SUBSET {r \in Refs : q[r] # None /\ q[r].st = "PENDING" /\ db[r] = None} :
                loop' = [Idle EXCEPT !.pc = "discover", !.now = now, !.rows = q, !.todo = some]
    BY <1>4 DEF ReadQueue
  <2>2. q[s].st = "PENDING"
    BY <1>1 DEF Snapshots, RowsOf
  <2>3. loop'.pc = "discover" /\ loop'.rows = q /\ UNCHANGED rel
    BY <1>4, <2>1 DEF ReadQueue, Idle
  <2> QED
    BY <1>1, <1>3, <2>2, <2>3, RecordedStays DEF Recorded, BeingUndone, SeenWaiting, At
<1>5. CASE StartRefresh
  <2>1. loop'.pc = "refresh" /\ loop'.rows = loop.rows /\ UNCHANGED rel
    BY <1>5 DEF StartRefresh, RunOnce
  <2> QED
    BY <1>1, <1>3, <1>5, <2>1, RecordedStays DEF Recorded, BeingUndone, SeenWaiting, At, StartRefresh
<1>6. CASE UndoInShadow
  <2>1. loop'.pc = "undo" /\ rel'["loop"].stage = "next"
    BY <1>6 DEF UndoInShadow, Idle, Releasing, Procs
  <2> QED
    BY <1>1, <1>3, <2>1, RecordedStays DEF BeingUndone, SeenWaiting, At
<1>7. CASE Prune \/ SendSync
  <2>1. loop'.pc \in {"idle", "wait"} /\ rel'["loop"].stage = "off"
    <3>1. CASE Prune
      BY <3>1 DEF Prune, Idle, NoRelease, Procs
    <3>2. CASE SendSync
      BY <3>2 DEF SendSync, Idle, NoRelease, Procs
    <3> QED
      BY <1>7, <3>1, <3>2
  <2> QED
    BY <1>1, <1>3, <2>1, RecordedStays DEF BeingUndone, SeenWaiting, At
<1>8. CASE CloudFails
  <2>1. loop'.pc = "idle" /\ UNCHANGED rel
    BY <1>8 DEF CloudFails, Idle
  <2> QED
    BY <1>1, <1>3, <2>1, RecordedStays DEF Recorded, BeingUndone, SeenWaiting, At
<1> QED
  BY <1>0, <1>4, <1>5, <1>6, <1>7, <1>8

LEMMA AnswerRecorded ==
    ASSUME Types, NEW s \in Refs, Alive(s), HandsInv, OneProcess, Recorded(s), InForce(s), NoFault',
           NEW rep \in Reply, Acknowledge(rep) \/ \E all \in BOOLEAN, k \in 0 .. 3 : AckCrash(all, k)
    PROVE Recorded(s)'
<1> USE DEF Types, TypeOK, AgentTypeOK
<1>1. CASE \E all \in BOOLEAN, k \in 0 .. 3 : AckCrash(all, k)
  BY <1>1, NoIncident DEF AckCrash
<1>2. CASE Acknowledge(rep)
  <2>1. UNCHANGED job /\ loop.pc = "wait" /\ Commits(rep.all, 4)
    BY <1>2 DEF Acknowledge, slurmVars, At
  <2>2. loop'.pc \in {"kill", "apply", "prune"}
    BY <1>2 DEF Acknowledge, RunOnce
  <2>3. \/ UNCHANGED rel
        \/ rel'["loop"] = Releasing(db')
    BY <1>2 DEF Acknowledge, Procs
  <2>4. UNCHANGED db[s]
    <3>1. job[s].st # "DONE"
      BY DEF InForce
    <3>2. loop.sent.jobs[s] # None => loop.sent.jobs[s].st # "DONE"
      BY <2>1, <3>1 DEF Alive, InLoop
    <3> QED
      BY <2>1, <3>2 DEF Commits
  <2>5. ~BeingUndone(s)'
    <3>1. rel'["loop"] = Releasing(db') => rel'["loop"].stage = "next"
      BY DEF Releasing
    <3> QED
      BY <2>1, <2>2, <2>3, <3>1 DEF BeingUndone, Recorded, At
  <2> QED
    BY <2>1, <2>2, <2>4, <2>5, RecordedStays DEF SeenWaiting
<1> QED
  BY <1>1, <1>2

(* release_all, as run by the loop: the job that it releases is not ours any more. *)
LEMMA ReleaseRecorded ==
    ASSUME Types, NEW s \in Refs, Alive(s), HandsInv, OneProcess, Recorded(s), InForce(s), InForce(s)', NoFault',
           NEW p \in Procs, SaveRelease(p) \/ PostRelease(p) \/ \E r \in Refs : ReleaseJob(p, r)
    PROVE Recorded(s)'
<1> USE DEF Types, TypeOK, AgentTypeOK
<1>1. UNCHANGED loop /\ rel[p].stage # "off"
  BY DEF SaveRelease, PostRelease, ReleaseJob
<1>2. p = "loop" /\ loop.pc \in {"undo", "kill"}
  BY <1>1 DEF HandsInv, Procs, NoRelease
<1>3. CASE SaveRelease(p)
  <2>1. s # rel["loop"].ref
    BY <1>2, <1>3 DEF SaveRelease, Recorded, BeingUndone
  <2>2. UNCHANGED <<job, db[s]>> /\ rel'["loop"].stage = "post"
    BY <1>2, <1>3, <2>1 DEF SaveRelease, slurmVars, ReleaseAll
  <2> QED
    BY <1>1, <1>2, <2>2, RecordedStays DEF BeingUndone, SeenWaiting, At
<1>4. CASE PostRelease(p)
  <2>1. UNCHANGED <<job, db>> /\ rel'["loop"].stage = "next"
    BY <1>2, <1>4 DEF PostRelease, slurmVars, ReleaseAll
  <2> QED
    BY <1>1, <1>2, <2>1, RecordedStays DEF BeingUndone, SeenWaiting, At
<1>5. ASSUME NEW r \in Refs, ReleaseJob(p, r)
      PROVE Recorded(s)'
  <2>1. PICK ok \in BOOLEAN : WriteStart(r, now, FALSE, ok) /\ rel' = [rel EXCEPT ![p] = Tried(rel[p], r, ok)]
    BY <1>5 DEF ReleaseJob
  <2>2. UNCHANGED db /\ rel'["loop"] = Tried(rel["loop"], r, ok)
    BY <1>2, <1>5, <2>1 DEF ReleaseJob, durable
  <2>3. s # r /\ UNCHANGED job[s]
    BY <2>1, NoIncident DEF WriteStart, Rewritten, InForce, SlurmTypeOK, Job
  <2>4. rel'["loop"].stage = "save" => rel'["loop"].ref = r
    BY <2>2 DEF Tried, ReleaseAll, Procs
  <2> QED
    BY <1>1, <1>2, <2>2, <2>3, <2>4, RecordedStays DEF BeingUndone, SeenWaiting, At
<1> QED
  BY <1>3, <1>4, <1>5

(* A decision that writes to Slurm: it releases the job, ... *)
LEMMA FreeRecorded ==
    ASSUME Types, NEW s \in Refs, HandsInv, OneProcess, InForce(s) => Recorded(s), InForce(s)', NoFault', FreeJob
    PROVE Recorded(s)'
<1> USE DEF Types, TypeOK, AgentTypeOK
<1>1. /\ loop.pc = "free" /\ loop.ref \in Refs /\ now \in Nat /\ UNCHANGED <<db, rel>>
      /\ rel["loop"] = NoRelease
  BY DEF FreeJob, At, LoopShape, Deciding, SlurmTypeOK, durable, HandsInv
<1>2. PICK ok \in BOOLEAN :
          /\ WriteStart(loop.ref, now, FALSE, ok)
          /\ IF ok THEN Outcome("saveFree", loop.ref, loop.cur, FALSE) ELSE Failed
  BY DEF FreeJob
<1>3. s # loop.ref /\ UNCHANGED job[s]
  BY <1>1, <1>2, NoIncident DEF WriteStart, Rewritten, InForce, SlurmTypeOK, Job
<1>4. loop'.pc \in {"saveFree", "report"} /\ loop'.ref = loop.ref
  BY <1>2 DEF Outcome, Failed, RunOnce
<1> QED
  BY <1>1, <1>3, <1>4, RecordedStays DEF BeingUndone, SeenWaiting, At, NoRelease, InForce

(* ... or defers it: the one step that puts a deferral in force. *)
LEMMA SetStartRecorded ==
    ASSUME Types, NEW s \in Refs, HandsInv, OneProcess, InForce(s) => Recorded(s), InForce(s)', NoFault', SetStart
    PROVE Recorded(s)'
<1> USE DEF Types, TypeOK, AgentTypeOK
<1>1. /\ loop.pc = "set" /\ loop.ref \in Refs /\ loop.dec[loop.ref] \in Nat /\ UNCHANGED <<db, rel>>
      /\ rel["loop"] = NoRelease /\ NoRelease.stage = "off"
  BY DEF SetStart, At, LoopShape, Deciding, durable, HandsInv, NoRelease
<1>2. PICK ok \in BOOLEAN :
          /\ WriteStart(loop.ref, loop.dec[loop.ref], TRUE, ok)
          /\ IF ok THEN Outcome("verify", loop.ref, loop.cur, FALSE) ELSE Failed
  BY DEF SetStart
<1>3. CASE s # loop.ref
  <2>1. UNCHANGED job[s]
    BY <1>1, <1>2, <1>3 DEF WriteStart, Rewritten, SlurmTypeOK
  <2>2. loop'.pc \in {"verify", "report"} /\ loop'.ref = loop.ref
    BY <1>2 DEF Outcome, Failed, RunOnce
  <2> QED
    BY <1>1, <1>3, <2>1, <2>2, RecordedStays DEF BeingUndone, SeenWaiting, At, InForce
<1>4. CASE s = loop.ref
  <2>1. ok /\ job'[s].begin = loop.dec[s]
    BY <1>1, <1>2, <1>4, NoIncident DEF WriteStart, Rewritten, InForce, SlurmTypeOK, Job
  <2>2. loop'.pc = "verify" /\ loop'.ref = s /\ loop'.dec = loop.dec
    BY <1>2, <1>4, <2>1 DEF Outcome, RunOnce
  <2> QED
    BY <1>1, <2>1, <2>2 DEF Recorded, Noted, BeingUndone, SeenWaiting, At
<1> QED
  BY <1>3, <1>4

LEMMA VerifyRecorded ==
    ASSUME Types, NEW s \in Refs, HandsInv, OneProcess, Recorded(s), InForce(s), NoFault', Verify
    PROVE Recorded(s)'
<1> USE DEF Types, TypeOK, AgentTypeOK
<1>1. loop.pc = "verify" /\ UNCHANGED <<job, db, rel>> /\ loop'.ref = loop.ref /\ loop'.dec = loop.dec
      /\ loop'.pc \in {"save", "report"}
  BY DEF Verify, At, durable, Outcome, Failed, RunOnce
<1>2. CASE s # loop.ref
  BY <1>1, <1>2, RecordedStays DEF Recorded, BeingUndone, SeenWaiting, At
<1>3. CASE s = loop.ref
  <2>1. job[s].begin = loop.dec[s] /\ job[s].st = "PENDING"
    BY <1>1, <1>3 DEF Recorded, Noted, InForce
  <2>2. loop'.pc = "save"
    BY <1>3, <2>1, NoIncident DEF Verify, detail, Outcome, RunOnce
  <2> QED
    BY <1>1, <1>3, <2>1, <2>2 DEF Recorded, Noted, BeingUndone, SeenWaiting, At
<1> QED
  BY <1>2, <1>3

LEMMA SaveAppliedRecorded ==
    ASSUME Types, NEW s \in Refs, Alive(s), HandsInv, OneProcess, Recorded(s), InForce(s), SaveApplied
    PROVE Recorded(s)'
<1> USE DEF Types, TypeOK, AgentTypeOK
<1>1. /\ loop.pc = "save" /\ loop.ref \in Refs /\ loop.dec[loop.ref] \in Nat /\ UNCHANGED <<job, rel>>
      /\ loop'.pc = "report" /\ loop.cur = db[loop.ref] /\ ~Off(db[loop.ref]) /\ db[loop.ref] \in Row
      /\ db' = [db EXCEPT ![loop.ref] = [loop.cur EXCEPT !.applied = loop.dec[loop.ref]]]
  BY DEF SaveApplied, At, LoopShape, Deciding, slurmVars, Outcome, RunOnce, HandsInv
<1>2. CASE s # loop.ref
  <2>1. UNCHANGED db[s]
    BY <1>1, <1>2
  <2> QED
    BY <1>1, <1>2, <2>1, RecordedStays DEF Recorded, BeingUndone, SeenWaiting, At
<1>3. CASE s = loop.ref
  <2>1. job[s].begin = loop.dec[s] /\ ~db[s].sent /\ db[s] # None
    BY <1>1, <1>3, NoneAssumption DEF Recorded, Noted, InForce, Alive, OnFile
  <2>2. /\ db'[s].applied = loop.dec[s] /\ db'[s].st = db[s].st /\ db'[s].released = db[s].released
        /\ db'[s].sent = db[s].sent /\ db'[s] \in Row
    BY <1>1, <1>3 DEF Row, MaybeTime
  <2>3. s \in ToRelease(db')
    BY <1>1, <1>3, <2>1, <2>2, NoneAssumption, BaseAssumption DEF ToRelease, Active, Off
  <2> QED
    BY <1>1, <1>3, <2>1, <2>2, <2>3 DEF Recorded, Noted, OnRecord, BeingUndone, SeenWaiting, At
<1> QED
  BY <1>2, <1>3

LEMMA OutcomeRecorded ==
    ASSUME Types, NEW s \in Refs, HandsInv, OneProcess, Recorded(s), InForce(s),
           (\E r \in Refs : Decide(r)) \/ SaveFreed \/ PutApplied
    PROVE Recorded(s)'
<1> USE DEF Types, TypeOK, AgentTypeOK
<1>1. /\ loop.pc \in {"apply", "saveFree", "report"} /\ UNCHANGED <<job, rel>> /\ rel["loop"] = NoRelease
      /\ NoRelease.stage = "off"
  BY DEF Decide, SaveFreed, PutApplied, At, slurmVars, HandsInv, NoRelease
<1>2. loop'.pc \in {"apply", "report", "free", "set"}
  <2>1. CASE \E r \in Refs : Decide(r)
    BY <2>1 DEF Decide, Outcome, RunOnce
  <2>2. CASE SaveFreed \/ PutApplied
    BY <2>2 DEF SaveFreed, PutApplied, Outcome, RunOnce
  <2> QED
    BY <2>1, <2>2
<1>3. UNCHANGED db[s]
  BY DEF Decide, SaveFreed, PutApplied, durable, Recorded, BeingUndone
<1> QED
  BY <1>1, <1>2, <1>3, RecordedStays DEF BeingUndone, SeenWaiting, At

(* The command is not running, as long as there is one process, and its start ends that. *)
LEMMA CliRecorded ==
    ASSUME Types, HandsInv, CliStep \/ CliCrash
    PROVE ~OneProcess'
<1>1. CASE CliStart
  BY <1>1 DEF CliStart, Incident, OneProcess, Types, TypeOK, SlurmTypeOK
<1>2. CASE \/ CliReleased \/ SaveRelease("cli") \/ PostRelease("cli") \/ CliCrash
           \/ \E r \in Refs : ReleaseJob("cli", r)
  <2>1. rel["cli"].stage # "off"
    BY <1>2 DEF CliReleased, SaveRelease, PostRelease, CliCrash, ReleaseJob, Released
  <2>2. ~OneProcess
    BY <2>1 DEF HandsInv, NoRelease
  <2>3. Counted
    BY <1>2, WriteStartCounted DEF CliReleased, SaveRelease, PostRelease, CliCrash, ReleaseJob, slurmVars, Counted,
       Types, TypeOK, SlurmTypeOK
  <2> QED
    BY <2>2, <2>3, OneProcessBefore
<1> QED
  BY <1>1, <1>2 DEF CliStep

LEMMA NextRecorded ==
    ASSUME IInv, HandsInv, RecordInv, Next
    PROVE RecordInv'
<1> USE DEF Procs
<1> SUFFICES ASSUME NoFault', OneProcess', NEW s \in Refs, InForce(s)'
             PROVE Recorded(s)'
  BY DEF RecordInv, Recorded
<1>1. Types /\ Alive(s)
  BY DEF IInv, Types
<1>2. Counted => NoFault /\ OneProcess /\ (InForce(s) => Recorded(s))
  BY RecordedBefore
<1>3. CASE SlurmNext /\ UNCHANGED agentVars
  <2>1. JobMoves(s) /\ Counted
    BY <1>1, <1>3, SlurmMoves, SlurmCounted DEF Types
  <2>2. InForce(s) /\ job'[s].begin = job[s].begin /\ Recorded(s)
    BY <1>1, <1>2, <2>1, InForceBefore
  <2> QED
    BY <1>3, <2>2
    DEF agentVars, Recorded, Noted, OnRecord, InForce, ToRelease, Active, BeingUndone, SeenWaiting, At
<1>4. CASE ReadQueue \/ StartRefresh \/ UndoInShadow \/ Prune \/ SendSync \/ ReadFails \/ Crash
  <2>1. UNCHANGED job /\ Counted
    BY <1>4, CycleCounted
    DEF ReadQueue, StartRefresh, UndoInShadow, Prune, SendSync, ReadFails, Crash, slurmVars
  <2> QED
    BY <1>1, <1>2, <1>4, <2>1, CycleRecorded, InForceBefore, StillMoves
<1>5. ASSUME NEW r \in Refs, Discover(r) \/ Refresh(r) \/ Close(r)
      PROVE Recorded(s)'
  <2>1. UNCHANGED job /\ Counted
    BY <1>5 DEF Discover, Refresh, Close, detail, Counted, Kinds
  <2> QED
    BY <1>1, <1>2, <1>5, <2>1, ObserveRecorded, InForceBefore, StillMoves
<1>6. ASSUME NEW r \in Refs, ReleaseJob("loop", r)
      PROVE Recorded(s)'
  <2>1. PICK ok \in BOOLEAN : WriteStart(r, now, FALSE, ok)
    BY <1>6 DEF ReleaseJob
  <2>2. JobMoves(s) /\ Counted
    BY <1>1, <2>1, ReleaseMoves, WriteStartCounted DEF Types, TypeOK, SlurmTypeOK
  <2> QED
    BY <1>1, <1>2, <1>6, <2>2, ReleaseRecorded, InForceBefore
<1>7. CASE SaveRelease("loop") \/ PostRelease("loop")
  <2>1. UNCHANGED job /\ Counted
    BY <1>7 DEF SaveRelease, PostRelease, slurmVars, Counted
  <2> QED
    BY <1>1, <1>2, <1>7, <2>1, ReleaseRecorded, InForceBefore, StillMoves
<1>8. CASE FreeJob \/ SetStart
  <2>1. Counted
    BY <1>1, <1>8, WriteStartCounted DEF FreeJob, SetStart, LoopShape, At, Deciding, Types
  <2> QED
    BY <1>1, <1>2, <1>8, <2>1, FreeRecorded, SetStartRecorded
<1>9. CASE (\E r \in Refs : Decide(r)) \/ SaveFreed \/ PutApplied \/ Verify \/ SaveApplied
  <2>1. UNCHANGED job /\ Counted
    BY <1>9 DEF Decide, SaveFreed, PutApplied, Verify, detail, SaveApplied, slurmVars, Counted, Kinds
  <2> QED
    BY <1>1, <1>2, <1>9, <2>1, OutcomeRecorded, VerifyRecorded, SaveAppliedRecorded, InForceBefore, StillMoves
<1>10. CASE CliStep \/ CliCrash
  BY <1>1, <1>10, CliRecorded
<1>11. CASE AnyCloud
  <2>1. UNCHANGED job /\ Counted
    BY <1>11 DEF AnyCloud, Acknowledge, AckCrash, CloudFails, slurmVars, Counted, Kinds
  <2>2. [all |-> TRUE, dec |-> Nothing] \in Reply
    BY DEF Reply, Nothing, MaybeTime
  <2> QED
    BY <1>1, <1>2, <1>11, <2>1, <2>2, RepliesAreReplies, AnswerRecorded, CycleRecorded, InForceBefore, StillMoves
    DEF AnyCloud
<1> QED
  BY <1>3, <1>4, <1>5, <1>6, <1>7, <1>8, <1>9, <1>10, <1>11 DEF Next, AgentStep, LoopStep

(* As long as nothing failed and no release-all ran beside the loop: between two cycles, every         *)
(* deferral that is in force in Slurm is in the agent's file as one that release_all would undo.       *)
THEOREM DeferralsAreOnRecord == Spec => []DeferralsOnRecord
<1>1. Init => HandsInv
  BY DEF Init, AgentInit, HandsInv, At, Idle, Deciding, NoRelease, Procs
<1>2. IInv /\ HandsInv /\ [Next]_vars => HandsInv'
  BY NextHands DEF vars, agentVars, slurmVars, HandsInv, At, Off, OneProcess
<1>3. Init => RecordInv
  BY DEF Init, SlurmInit, RecordInv, InForce
<1>4. IInv /\ HandsInv /\ RecordInv /\ [Next]_vars => RecordInv'
  <2>1. UNCHANGED vars /\ RecordInv => RecordInv'
    BY DEF vars, agentVars, slurmVars, RecordInv, NoFault, OneProcess, InForce, Noted, OnRecord, ToRelease,
       Active, BeingUndone, SeenWaiting, At
  <2> QED
    BY <2>1, NextRecorded
<1>5. RecordInv => DeferralsOnRecord
  BY DEF RecordInv, DeferralsOnRecord, Noted, OnRecord, InForce, At
<1> QED
  BY <1>1, <1>2, <1>3, <1>4, <1>5, InitInv, NextInv, PTL DEF Spec

-----------------------------------------------------------------------------
(* The start time in force, in the agent's file and in the cloud's table *)

(* Only a report that says "applied" changes the start time that the cloud holds to be in force. *)
LEMMA AppliedByReport ==
    ASSUME NEW j \in CJob, NEW f \in Fact \cup {None}, NEW a \in MaybeReport, NEW freed,
           ~(a # None /\ a.ok)
    PROVE Reported(Upserted(j, f), a, freed).applied = j.applied
<1>1. j # None
  BY AbsentAssumption
<1>2. Upserted(j, f) \in CJob /\ Upserted(j, f).applied = j.applied
  <2>1. CASE Upserted(j, f) = j
    BY <2>1
  <2>2. CASE Upserted(j, f) # j
    <3>1. f \in Fact /\ ~(Rank(f.st) < Rank(j.st)) /\ Upserted(j, f) = Flagged(Updated(j, f), f)
      BY <1>1, <2>2 DEF Upserted
    <3>2. Updated(j, f) \in CJob /\ Updated(j, f).applied = j.applied
      BY <3>1 DEF Updated, CJob, Fact, MaybeTime
    <3>3. Flagged(Updated(j, f), f) \in CJob /\ Flagged(Updated(j, f), f).applied = Updated(j, f).applied
      BY <3>1, <3>2 DEF Flagged, CJob, HandsOffStatus
    <3> QED
      BY <3>1, <3>2, <3>3
  <2> QED
    BY <2>1, <2>2
<1>3. Upserted(j, f) # None
  BY <1>2, AbsentAssumption
<1> QED
  BY <1>2, <1>3 DEF Reported, CJob

LEMMA ProcessApplied ==
    ASSUME CloudTypeOK, now \in Nat, NEW body \in Body, Process(body), NEW r \in Refs, cjob[r] # None,
           ~(body.applied[r] # None /\ body.applied[r].ok)
    PROVE cjob'[r].applied = cjob[r].applied
<1>1. PICK plan : cjob'[r] \in Outcomes(r, body, plan)
  BY DEF Process
<1> DEFINE known == Reported(Upserted(cjob[r], body.jobs[r]), body.applied[r], r \in body.released)
<1>2. /\ cjob[r] \in CJob /\ body.jobs[r] \in Fact \cup {None} /\ body.applied[r] \in MaybeReport
  BY DEF CloudTypeOK, Body
<1>3. known.applied = cjob[r].applied
  BY <1>2, AppliedByReport
<1>4. known \in CJob
  BY <1>2, UpsertedKeeps, ReportedKeeps DEF Keeps
<1> HIDE DEF known
<1>5. ASSUME NEW m \in Finalized(known)
      PROVE m \in CJob /\ m.applied = known.applied
  BY <1>4, <1>5, FinalizedKeeps DEF Keeps
<1>6. \A m \in Finalized(known) : \A k \in Planned(r, m) : k.applied = m.applied
  BY <1>5, PlannedKeeps
<1>7. CASE ~Loaded(r, body)
  BY <1>1, <1>7 DEF Outcomes
<1>8. CASE Loaded(r, body)
  <2>1. cjob'[r] \in Finalized(known) \/ \E m \in Finalized(known) : cjob'[r] \in Planned(r, m)
    BY <1>1, <1>8 DEF Outcomes, known
  <2> QED
    BY <1>3, <1>5, <1>6, <2>1
<1> QED
  BY <1>7, <1>8

(* What AgreementInv says of one job. *)
FileAgrees(r) ==
    Manages(db[r]) => IF At("report") /\ loop.ref = r /\ loop.ok THEN db[r].applied = loop.dec[r]
                      ELSE Told(r, db[r].applied)
CopyAgrees(r) == At("refresh") /\ r \in loop.todo /\ Manages(loop.copy[r]) => Told(r, loop.copy[r].applied)

Calm == incidents.kinds \cap {"crash", "late"} = {}

LEMMA CalmBefore ==
    ASSUME AgreementInv, Counted, Calm'
    PROVE Calm /\ late = {} /\ \A r \in Refs : FileAgrees(r) /\ CopyAgrees(r)
BY DEF Counted, Incident, Calm, AgreementInv, FileAgrees, CopyAgrees

(* A row of the file that a step writes without a new start time in it. *)
LEMMA SameStart ==
    ASSUME NEW r \in Refs, FileAgrees(r), CopyAgrees(r), UNCHANGED <<outA, cjob>>,
           loop'.pc # "report", loop.pc # "report",
           Manages(db'[r]) => \/ Manages(db[r]) /\ db'[r].applied = db[r].applied
                              \/ /\ At("refresh") /\ r \in loop.todo
                                 /\ Manages(loop.copy[r]) /\ db'[r].applied = loop.copy[r].applied,
           loop'.pc = "refresh" /\ r \in loop'.todo /\ Manages(loop'.copy[r]) =>
               \/ Manages(db[r]) /\ loop'.copy[r].applied = db[r].applied
               \/ /\ At("refresh") /\ r \in loop.todo
                  /\ Manages(loop.copy[r]) /\ loop'.copy[r].applied = loop.copy[r].applied
    PROVE FileAgrees(r)' /\ CopyAgrees(r)'
BY DEF FileAgrees, CopyAgrees, Told, At

LEMMA ObserveAgrees ==
    ASSUME Types, NEW s \in Refs, FileAgrees(s), CopyAgrees(s), UNCHANGED cjob,
           NEW r \in Refs, Discover(r) \/ Refresh(r) \/ Close(r)
    PROVE FileAgrees(s)' /\ CopyAgrees(s)'
<1> USE DEF Types, TypeOK, AgentTypeOK
<1>1. /\ loop.pc \in {"discover", "refresh"} /\ loop'.pc = loop.pc /\ loop'.copy = loop.copy
      /\ loop'.todo = loop.todo \ {r} /\ UNCHANGED outA
      /\ r \in loop.todo /\ \A q \in Refs : q # r => db'[q] = db[q]
  BY DEF Discover, Refresh, Close, At, RunOnce
<1>2. CASE s # r
  BY <1>1, <1>2, SameStart DEF At
<1>3. CASE s = r /\ Discover(r)
  BY <1>1, <1>3, SameStart DEF Discover, NewRow, Manages, At
<1>4. CASE s = r /\ Refresh(r)
  <2>1. loop.copy[r] \in Row /\ loop.rows[r] \in QueueRow
    BY <1>4 DEF Refresh, LoopShape, At, RunOnce
  <2>2. PICK known \in BOOLEAN : db' = [db EXCEPT ![r] = Refreshed(r, loop.copy[r], loop.rows[r], known)]
    BY <1>4 DEF Refresh
  <2> DEFINE t == Refreshed(r, loop.copy[r], loop.rows[r], known)
  <2>3. t.applied = loop.copy[r].applied /\ t.released = loop.copy[r].released
    BY <2>1 DEF Refreshed, Row
  <2>4. db' = [db EXCEPT ![r] = t]
    BY <2>2
  <2> HIDE DEF t
  <2> QED
    BY <1>1, <1>4, <2>1, <2>3, <2>4, SameStart, NoneAssumption DEF Refresh, Manages
<1>5. CASE s = r /\ Close(r)
  <2>1. loop.copy[r] \in Row
    BY <1>5 DEF Close, LoopShape, At
  <2>2. \/ db' = [db EXCEPT ![r] = [loop.copy[r] EXCEPT !.st = "DONE", !.ran = job[r].ran]]
        \/ db' = [db EXCEPT ![r] = [loop.copy[r] EXCEPT !.st = "RUNNING"]]
        \/ db' = [db EXCEPT ![r] = [loop.copy[r] EXCEPT !.st = "DONE"]]
        \/ db' = db
    BY <1>5 DEF Close
  <2>3. \/ db'[r] = db[r]
        \/ db'[r].applied = loop.copy[r].applied /\ db'[r].released = loop.copy[r].released
    BY <2>1, <2>2 DEF Row
  <2> QED
    BY <1>1, <1>5, <2>1, <2>3, SameStart, NoneAssumption DEF Close, Manages
<1> QED
  BY <1>2, <1>3, <1>4, <1>5

LEMMA CycleAgrees ==
    ASSUME Types, NEW s \in Refs, FileAgrees(s), CopyAgrees(s), UNCHANGED cjob,
           ReadQueue \/ StartRefresh \/ UndoInShadow \/ Prune \/ SendSync \/ ReadFails \/ CloudFails
    PROVE FileAgrees(s)' /\ CopyAgrees(s)'
<1> USE DEF Types, TypeOK, AgentTypeOK
<1>1. UNCHANGED outA /\ loop.pc # "report" /\ (db'[s] = db[s] \/ db'[s] = None)
  BY DEF ReadQueue, StartRefresh, UndoInShadow, Prune, SendSync, ReadFails, CloudFails, At, Observed, durable
<1>2. CASE StartRefresh
  <2>1. loop'.pc = "refresh" /\ loop'.copy = Rows(db, Active(db)) /\ loop'.todo = Active(db)
    BY <1>2 DEF StartRefresh, RunOnce
  <2>2. s \in loop'.todo => loop'.copy[s] = db[s]
    BY <2>1 DEF Rows
  <2> QED
    BY <1>1, <2>1, <2>2, SameStart DEF Manages
<1>3. CASE ReadQueue
  <2>1. PICK q \in Snapshots :
            \E some \in SUBSET {r \in Refs : q[r] # None /\ q[r].st = "PENDING" /\ db[r] = None} :
                loop' = [Idle EXCEPT !.pc = "discover", !.now = now, !.rows = q, !.todo = some]
    BY <1>3 DEF ReadQueue
  <2>2. loop'.pc = "discover"
    BY <2>1 DEF Idle
  <2> QED
    BY <1>1, <2>2, SameStart DEF Manages
<1>4. CASE UndoInShadow \/ Prune \/ SendSync \/ ReadFails \/ CloudFails
  <2>1. loop'.pc \in {"undo", "idle", "wait"}
    <3>1. CASE UndoInShadow
      BY <3>1 DEF UndoInShadow, Idle
    <3>2. CASE SendSync
      BY <3>2 DEF SendSync, Idle
    <3>3. CASE Prune \/ ReadFails \/ CloudFails
      BY <3>3 DEF Prune, ReadFails, CloudFails, Idle
    <3> QED
      BY <1>4, <3>1, <3>2, <3>3
  <2> QED
    BY <1>1, <2>1, SameStart DEF Manages
<1> QED
  BY <1>2, <1>3, <1>4

(* A release, of the loop or of the command, only takes rows out of consideration. *)
LEMMA ReleaseAgrees ==
    ASSUME Types, NEW s \in Refs, FileAgrees(s), CopyAgrees(s), UNCHANGED cjob,
           \/ \E p \in Procs : SaveRelease(p) \/ PostRelease(p) \/ \E r \in Refs : ReleaseJob(p, r)
           \/ CliStart \/ CliReleased \/ CliCrash
    PROVE FileAgrees(s)' /\ CopyAgrees(s)'
<1> USE DEF Types, TypeOK, AgentTypeOK
<1>1. UNCHANGED <<loop, outA>>
  BY DEF SaveRelease, PostRelease, ReleaseJob, CliStart, CliReleased, CliCrash, durable
<1>2. db'[s] = db[s] \/ ~Manages(db'[s])
  <2>1. ASSUME NEW p \in Procs, SaveRelease(p)
        PROVE db'[s] = db[s] \/ ~Manages(db'[s])
    <3>1. rel[p].ref \in Refs /\ rel[p].copy[rel[p].ref] \in Row
      BY <2>1 DEF SaveRelease, RelShape
    <3> QED
      BY <2>1, <3>1 DEF SaveRelease, Manages, Row
  <2>2. CASE \/ \E p \in Procs : PostRelease(p) \/ \E r \in Refs : ReleaseJob(p, r)
             \/ CliStart \/ CliReleased \/ CliCrash
    BY <2>2 DEF PostRelease, ReleaseJob, CliStart, CliReleased, CliCrash, durable
  <2> QED
    BY <2>1, <2>2
<1> QED
  BY <1>1, <1>2 DEF FileAgrees, CopyAgrees, Told, At

(* apply_decision: it saves the start time and reports the same. *)
LEMMA DecisionAgrees ==
    ASSUME Types, ReportsInv, NEW s \in Refs, FileAgrees(s), UNCHANGED cjob,
           \/ \E r \in Refs : Decide(r)
           \/ FreeJob \/ SaveFreed \/ SetStart \/ Verify \/ SaveApplied
    PROVE FileAgrees(s)' /\ CopyAgrees(s)'
<1> USE DEF Types, TypeOK, AgentTypeOK
<1>1. /\ loop.pc \in {"apply"} \cup Deciding /\ UNCHANGED outA
      /\ loop.pc # "apply" => loop.ref \in Refs
  BY DEF Decide, FreeJob, SaveFreed, SetStart, Verify, SaveApplied, At, Deciding, durable, LoopShape
<1>2. Manages(db[s]) => Told(s, db[s].applied)
  BY <1>1 DEF FileAgrees, At, Deciding
<1>3. ASSUME loop'.pc # "refresh", loop'.dec = loop.dec,
             Manages(db'[s]) => \/ db'[s] = db[s] /\ ~(loop'.pc = "report" /\ loop'.ref = s /\ loop'.ok)
                                \/ loop'.pc = "report" /\ loop'.ref = s /\ loop'.ok /\ db'[s].applied = loop.dec[s]
      PROVE FileAgrees(s)' /\ CopyAgrees(s)'
  BY <1>1, <1>2, <1>3 DEF FileAgrees, CopyAgrees, Told, At
<1>4. CASE \E r \in Refs : Decide(r)
  <2>1. PICK r \in Refs : Decide(r)
    BY <1>4
  <2>2. UNCHANGED db /\ loop'.dec = loop.dec /\ loop'.pc # "refresh"
    BY <2>1 DEF Decide, durable, Outcome, RunOnce
  <2>3. loop'.pc = "report" /\ loop'.ref = s /\ loop'.ok => db[s].applied = loop.dec[s]
    BY <2>1 DEF Decide, Outcome, RunOnce
  <2> QED
    BY <1>3, <2>2, <2>3
<1>5. CASE FreeJob \/ SetStart
  <2>1. UNCHANGED db /\ loop'.dec = loop.dec /\ loop'.pc # "refresh" /\ ~loop'.ok
    BY <1>5 DEF FreeJob, SetStart, durable, Outcome, Failed, RunOnce
  <2> QED
    BY <1>3, <2>1
<1>6. CASE Verify
  <2>1. UNCHANGED db /\ loop'.dec = loop.dec /\ loop'.pc # "refresh" /\ ~loop'.ok
    BY <1>6 DEF Verify, durable, Outcome, Failed, RunOnce
  <2> QED
    BY <1>3, <2>1
<1>7. CASE SaveFreed
  <2>1. loop.ref \in Refs /\ loop.cur \in Row
    BY <1>7 DEF SaveFreed, At, Deciding, LoopShape
  <2>2. /\ loop'.dec = loop.dec /\ loop'.pc # "refresh" /\ loop'.ref = loop.ref
        /\ s # loop.ref => db'[s] = db[s]
        /\ s = loop.ref => ~Manages(db'[s])
    BY <1>7, <2>1 DEF SaveFreed, Outcome, RunOnce, Manages, Row
  <2> QED
    BY <1>3, <2>2
<1>8. CASE SaveApplied
  <2>1. loop.ref \in Refs /\ loop.cur \in Row /\ loop.dec[loop.ref] \in Nat
    BY <1>8 DEF SaveApplied, At, Deciding, LoopShape
  <2>2. /\ loop'.dec = loop.dec /\ loop'.pc = "report" /\ loop'.ref = loop.ref /\ loop'.ok
        /\ s # loop.ref => db'[s] = db[s]
        /\ s = loop.ref => db'[s].applied = loop.dec[s]
    BY <1>8, <2>1 DEF SaveApplied, Outcome, RunOnce, Row
  <2> QED
    BY <1>3, <2>2
<1> QED
  BY <1>4, <1>5, <1>6, <1>7, <1>8

(* done(): the report says what the row says, and a refusal says nothing of the start time. *)
LEMMA PutAppliedAgrees ==
    ASSUME Types, ReportsInv, NEW s \in Refs, FileAgrees(s), UNCHANGED cjob, PutApplied
    PROVE FileAgrees(s)' /\ CopyAgrees(s)'
<1> USE DEF Types, TypeOK, AgentTypeOK
<1>1. /\ loop.pc = "report" /\ loop.ref \in Refs /\ loop.dec[loop.ref] \in Nat /\ UNCHANGED db
      /\ loop'.pc = "apply" /\ outA' = [outA EXCEPT ![loop.ref] = [at |-> loop.dec[loop.ref], ok |-> loop.ok]]
  BY DEF PutApplied, At, LoopShape, RunOnce
<1>2. outA[loop.ref] = None
  BY <1>1, BaseAssumption DEF ReportsInv, Applying
<1>3. CASE s # loop.ref
  BY <1>1, <1>3 DEF FileAgrees, CopyAgrees, Told, At
<1>4. CASE s = loop.ref
  <2>1. outA'[s] = [at |-> loop.dec[s], ok |-> loop.ok] /\ outA[s] = None
    BY <1>1, <1>2, <1>4
  <2>2. CASE loop.ok /\ outA'[s] # None
    BY <1>1, <1>4, <2>1, <2>2 DEF FileAgrees, CopyAgrees, Told, At
  <2>3. CASE ~loop.ok
    BY <1>1, <1>4, <2>1, <2>3 DEF FileAgrees, CopyAgrees, Told, At
  <2>4. [at |-> loop.dec[s], ok |-> loop.ok] \in Report
    BY <1>1, <1>4 DEF Report, RunOnce
  <2>5. outA'[s] # None
    BY <2>1, <2>4, NoneAssumption
  <2> QED
    BY <2>2, <2>3, <2>5
<1> QED
  BY <1>3, <1>4

(* The request is processed, and its answer lost or received: what the outbox said is now known. *)
LEMMA ProcessAgrees ==
    ASSUME AgentInv, CloudTypeOK, Known, NEW s \in Refs, FileAgrees(s), At("wait"), Process(loop.sent),
           loop'.pc \notin {"report", "refresh"}, UNCHANGED outA \/ outA'[s] = None,
           db'[s] = db[s] \/ (db[s] \in Row /\ db'[s] = [db[s] EXCEPT !.sent = TRUE])
    PROVE FileAgrees(s)' /\ CopyAgrees(s)'
<1>1. loop.sent \in Body /\ loop.sent.applied = outA /\ now \in Nat /\ outA[s] \in MaybeReport
  BY SentType, AgentInvParts DEF Types, TypeOK, SlurmTypeOK, AgentTypeOK
<1> SUFFICES ASSUME Manages(db[s])'
             PROVE Told(s, db[s].applied)'
  BY DEF FileAgrees, CopyAgrees, At
<1>2. Manages(db[s]) /\ db'[s].applied = db[s].applied
  BY NoneAssumption DEF Manages, Row
<1>3. Told(s, db[s].applied)
  BY <1>2 DEF FileAgrees, At
<1>4. CASE outA[s] # None /\ outA[s].ok
  <2>1. cjob[s] # None
    BY <1>4 DEF Known
  <2>2. cjob'[s] # None /\ cjob'[s].applied = outA[s].at
    BY <1>1, <1>4, <2>1, ProcessKeeps DEF Shows
  <2> QED
    BY <1>2, <1>3, <1>4, <2>2 DEF Told
<1>5. CASE ~(outA[s] # None /\ outA[s].ok)
  <2>1. cjob[s] # None /\ cjob[s].applied = db[s].applied
    BY <1>3, <1>5 DEF Told
  <2>2. cjob'[s] # None /\ cjob'[s].applied = cjob[s].applied
    BY <1>1, <1>5, <2>1, ProcessKeeps, ProcessApplied
  <2> QED
    BY <1>2, <1>5, <2>1, <2>2 DEF Told
<1> QED
  BY <1>4, <1>5

LEMMA NextAgrees ==
    ASSUME SystemInv, AgreementInv, SystemNext
    PROVE AgreementInv'
<1> USE DEF Procs
<1>1. AgentInv /\ CloudTypeOK /\ late \in SUBSET Body /\ Known /\ Types /\ ReportsInv /\ SlurmTypeOK
  BY AgentInvParts DEF SystemInv, AgentInv, Types, TypeOK
<1> SUFFICES ASSUME Calm' PROVE late' = {} /\ \A s \in Refs : FileAgrees(s)' /\ CopyAgrees(s)'
  BY DEF AgreementInv, Calm, FileAgrees, CopyAgrees
<1>2. ASSUME NEW k \in {"crash", "late"}, Incident(k)
      PROVE FALSE
  BY <1>1, <1>2 DEF Incident, Calm, SlurmTypeOK
<1>3. Counted => Calm /\ late = {} /\ \A s \in Refs : FileAgrees(s) /\ CopyAgrees(s)
  BY CalmBefore
<1>4. CASE \/ SlurmNext /\ UNCHANGED <<agentVars, cloudVars, late>>
           \/ Operator
  <2>1. Counted /\ UNCHANGED <<agentVars, cjob, late>>
    BY <1>4, SlurmCounted DEF Operator, SetMode, SetReleaseAll, cloudVars, Counted, Kinds
  <2> QED
    BY <1>3, <2>1 DEF agentVars, FileAgrees, CopyAgrees, Told, At
<1>5. CASE AgentStep /\ UNCHANGED <<cloudVars, late>>
  <2>1. UNCHANGED <<cjob, late>> /\ ~Crash
    BY <1>2, <1>5 DEF cloudVars, Crash
  <2>2. CASE ReadQueue \/ StartRefresh \/ UndoInShadow \/ Prune \/ SendSync \/ ReadFails
    BY <1>1, <1>3, <2>1, <2>2, CycleAgrees, CycleCounted
  <2>3. ASSUME NEW r \in Refs, Discover(r) \/ Refresh(r) \/ Close(r)
        PROVE late' = {} /\ \A s \in Refs : FileAgrees(s)' /\ CopyAgrees(s)'
    <3>1. Counted
      BY <2>3 DEF Discover, Refresh, Close, detail, Counted, Kinds
    <3> QED
      BY <1>1, <1>3, <2>1, <2>3, <3>1, ObserveAgrees
  <2>4. CASE CliStep \/ CliCrash \/ SaveRelease("loop") \/ PostRelease("loop") \/ \E r \in Refs : ReleaseJob("loop", r)
    <3>1. \/ \E p \in Procs : SaveRelease(p) \/ PostRelease(p) \/ \E r \in Refs : ReleaseJob(p, r)
          \/ CliStart \/ CliReleased \/ CliCrash
      BY <2>4 DEF CliStep
    <3>2. CASE \E p \in Procs : \E r \in Refs : ReleaseJob(p, r)
      BY <1>1, <1>3, <2>1, <3>2, ReleaseAgrees, WriteStartCounted DEF ReleaseJob, SlurmTypeOK
    <3>3. CASE \/ \E p \in Procs : SaveRelease(p) \/ PostRelease(p)
               \/ CliStart \/ CliReleased \/ CliCrash
      <4>1. Counted
        BY <3>3 DEF SaveRelease, PostRelease, CliStart, CliReleased, CliCrash, slurmVars, Counted, Kinds
      <4> QED
        BY <1>1, <1>3, <2>1, <3>3, <4>1, ReleaseAgrees
    <3> QED
      BY <3>1, <3>2, <3>3
  <2>5. CASE FreeJob \/ SetStart
    <3>1. Counted
      BY <1>1, <2>5, WriteStartCounted DEF FreeJob, SetStart, LoopShape, At, Deciding, Types
    <3> QED
      BY <1>1, <1>3, <2>1, <2>5, <3>1, DecisionAgrees
  <2>6. CASE (\E r \in Refs : Decide(r)) \/ SaveFreed \/ Verify \/ SaveApplied \/ PutApplied
    <3>1. Counted
      BY <2>6 DEF Decide, SaveFreed, Verify, detail, SaveApplied, PutApplied, slurmVars, Counted, Kinds
    <3> QED
      BY <1>1, <1>3, <2>1, <2>6, <3>1, DecisionAgrees, PutAppliedAgrees
  <2> QED
    BY <1>5, <2>1, <2>2, <2>3, <2>4, <2>5, <2>6 DEF AgentStep, LoopStep
<1>6. CASE Exchange
  <2>1. At("wait") /\ Process(loop.sent) /\ Acknowledge(Answer(loop.sent)) /\ UNCHANGED late
    BY <1>6 DEF Exchange
  <2>2. Answer(loop.sent) \in Reply
    BY <1>1, <1>6, <2>1, SentType, AnswerType, CloudStep
  <2>3. /\ \A s \in Refs : outA'[s] = None
        /\ \A s \in Refs : db'[s] = db[s] \/ (db[s] \in Row /\ db'[s] = [db[s] EXCEPT !.sent = TRUE])
    <3>1. Commits(Answer(loop.sent).all, 4) /\ Answer(loop.sent).all \in BOOLEAN
      BY <2>1, <2>2 DEF Acknowledge, Reply
    <3>2. \A s \in Refs : outA'[s] = None
      BY <1>1, <2>1, <3>1, CommitsReports
    <3> QED
      BY <1>1, <3>1, <3>2 DEF Commits, Types, TypeOK, AgentTypeOK, MaybeRow
  <2>4. Counted /\ loop'.pc \in {"kill", "apply", "prune"}
    BY <1>1, <2>1 DEF Acknowledge, slurmVars, Counted, Types, TypeOK, AgentTypeOK, RunOnce
  <2> QED
    BY <1>1, <1>3, <2>1, <2>3, <2>4, ProcessAgrees
<1>7. CASE RequestLost \/ AnswerLost
  <2>1. Counted /\ CloudFails /\ UNCHANGED late
    BY <1>7 DEF RequestLost, AnswerLost, Counted, Kinds
  <2>2. CASE RequestLost
    BY <1>1, <1>3, <2>1, <2>2, CycleAgrees DEF RequestLost, cloudVars
  <2>3. CASE AnswerLost
    <3>1. loop'.pc = "idle" /\ UNCHANGED <<db, outA>> /\ At("wait")
      BY <2>1 DEF CloudFails, Idle, durable
    <3> QED
      BY <1>1, <1>3, <2>1, <2>3, <3>1, ProcessAgrees DEF AnswerLost
  <2> QED
    BY <1>7, <2>2, <2>3
<1>8. CASE (\E k \in 0 .. 3 : ExchangeCrash(k)) \/ RequestDelayed
  BY <1>2, <1>8 DEF ExchangeCrash, AckCrash, RequestDelayed
<1>9. CASE \E body \in late : LateRequest(body)
  <2>1. Counted
    BY <1>9 DEF LateRequest, slurmVars, Counted
  <2> QED
    BY <1>3, <1>9, <2>1
<1> QED
  BY <1>4, <1>5, <1>6, <1>7, <1>8, <1>9 DEF SystemNext

(* Without a crash of the agent, and with no request processed late: between two cycles, the start     *)
(* time that the agent has on record as applied is the one that the cloud holds to be in force,        *)
(* whatever requests and answers were lost and whatever the job owners, Slurm and release-all do.      *)
THEOREM TheyAgree == SystemSpec => []Agreement
<1>1. SystemInit => AgreementInv
  BY DEF SystemInit, AgentInit, AgreementInv, Manages, Nothing, Idle, At
<1>2. SystemInv /\ AgreementInv /\ [SystemNext]_systemVars => AgreementInv'
  <2>1. UNCHANGED systemVars /\ AgreementInv => AgreementInv'
    BY DEF systemVars, slurmVars, agentVars, cloudVars, AgreementInv, Told, At
  <2> QED
    BY <2>1, NextAgrees
<1>3. AgreementInv => Agreement
  BY DEF AgreementInv, Agreement, Manages, Told, At
<1> QED
  BY <1>1, <1>2, <1>3, SystemInitInv, SystemNextInv, PTL DEF SystemSpec
=============================================================================
