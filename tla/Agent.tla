-------------------------------- MODULE Agent --------------------------------
(***************************************************************************)
(* The agent that runs beside Slurm: the loop of cycle.run_once and the    *)
(* separate "wattshift-agent release-all" process, both working on one     *)
(* SQLite file and one Slurm.                                              *)
(*                                                                         *)
(* Durable (state.py): db, one row per tracked job; outA and outR, the     *)
(* outboxes of applied decisions and of releases; askAll, the meta flag    *)
(* release_requested.  Volatile: loop, the local variables of run_once,    *)
(* and rel, those of each running release_all.  A step is one Slurm        *)
(* command or one commit, so a crash, the other process, the clock and the *)
(* job owners can come between any two.                                    *)
(*                                                                         *)
(* A row is read whole and written whole (State.save is INSERT OR REPLACE  *)
(* of every column): loop.copy, loop.cur and rel[p].copy are the copies    *)
(* that code holds between its read and its write.                         *)
(*                                                                         *)
(* The times of a row that only measure money or age (submit, end) are     *)
(* abstracted: "ran" says that start_time and end_time are both known.     *)
(***************************************************************************)
EXTENDS SlurmCluster

CONSTANTS
    NowSlack,     \* NOW_SLACK_S
    Grace,        \* the 300 s of applier.py's safety net
    GiveUp,       \* GIVE_UP_AFTER_S
    MaxNew,       \* MAX_NEW_PER_CYCLE
    Modes         \* the modes an operator configures: subset of {"shadow", "autonomous"}

ASSUME AgentAssumption ==
    /\ NowSlack \in Nat /\ Grace \in Nat /\ GiveUp \in Nat /\ MaxNew \in Nat \ {0}
    /\ Modes \subseteq ModeNames /\ Modes # {}

VARIABLES db, outA, outR, askAll, mode, loop, rel

durable == <<db, outA, outR, askAll>>
agentVars == <<db, outA, outR, askAll, mode, loop, rel>>

Procs == {"loop", "cli"}

(* state.Tracked *)
Row == [first : Nat, st : States, pred : MaybeTime, skip : BOOLEAN,
        applied : MaybeTime, released : BOOLEAN, override : BOOLEAN, ran : BOOLEAN, sent : BOOLEAN]
MaybeRow == Row \cup {None}

PCs == {"idle", "discover", "refresh", "undo", "wait", "kill", "apply",
        "set", "verify", "save", "free", "saveFree", "report", "prune"}

ASSUME NoneAssumption == None \notin QueueRow \cup Row \cup Report

Idle == [pc |-> "idle", now |-> 0, rows |-> Nothing, copy |-> Nothing, todo |-> {},
         sent |-> None, dec |-> Nothing, ref |-> None, cur |-> None, ok |-> FALSE]

NoRelease == [stage |-> "off", copy |-> Nothing, todo |-> {}, ref |-> None]

(* The local variables of run_once and of release_all. *)
RunOnce == [pc : PCs, now : Nat, rows : [Refs -> QueueRow \cup {None}],
            copy : [Refs -> MaybeRow], todo : SUBSET Refs, sent : Body \cup {None},
            dec : [Refs -> MaybeTime], ref : Refs \cup {None}, cur : MaybeRow, ok : BOOLEAN]

ReleaseAll == [stage : {"off", "next", "save", "post"}, copy : [Refs -> MaybeRow],
               todo : SUBSET Refs, ref : Refs \cup {None}]

AgentTypeOK ==
    /\ db \in [Refs -> MaybeRow]
    /\ outA \in [Refs -> MaybeReport]
    /\ outR \in SUBSET Refs
    /\ askAll \in BOOLEAN
    /\ mode \in ModeNames
    /\ loop \in RunOnce
    /\ rel \in [Procs -> ReleaseAll]

AgentInit ==
    /\ db = Nothing
    /\ outA = Nothing
    /\ outR = {}
    /\ askAll = FALSE
    /\ mode \in Modes
    /\ loop = Idle
    /\ rel = [p \in Procs |-> NoRelease]

-----------------------------------------------------------------------------
(* Helpers *)

At(pc) == loop.pc = pc

(* Mutant: a finished row is not active. *)
ActiveUnfinished(table) == {r \in Refs : table[r] # None /\ ~table[r].sent /\ table[r].st # "DONE"}

(* State.active(): final_sent = 0 *)
Active(table) == {r \in Refs : table[r] # None /\ ~table[r].sent}
Rows(table, S) == [r \in Refs |-> IF r \in S THEN table[r] ELSE None]

(* The rows release_all acts on. *)
ToRelease(table) ==
    {r \in Active(table) :
        table[r].applied # None /\ ~table[r].released /\ table[r].st = "PENDING"}

Limit(r, first) == first + 2 * MaxWait[r] + Grace

-----------------------------------------------------------------------------
(* The loop: observe (discover and refresh) *)

(* run_once reads the clock once, squeue once.  discover saves at most MaxNew new rows (one that is   *)
(* gone when scontrol is asked counts here: the next cycle takes the rest).                           *)
ReadQueue ==
    /\ At("idle")
    /\ \E q \in Snapshots :
          LET new == {r \in Refs : q[r] # None /\ q[r].st = "PENDING" /\ db[r] = None} IN
          \E some \in SUBSET new :
             /\ some = new \/ Cardinality(some) = MaxNew
             /\ Cardinality(some) <= MaxNew
             /\ loop' = [Idle EXCEPT !.pc = "discover", !.now = now, !.rows = q, !.todo = some]
    /\ UNCHANGED <<slurmVars, durable, mode, rel>>

(* Mutant: first_seen is left empty. *)
NewRowUnseen(r) ==
    [first |-> None, st |-> "PENDING", pred |-> loop.rows[r].est, skip |-> job[r].odd,
     applied |-> None, released |-> FALSE, override |-> FALSE, ran |-> FALSE, sent |-> FALSE]

NewRow(r) ==
    [first |-> loop.now, st |-> "PENDING", pred |-> loop.rows[r].est, skip |-> job[r].odd,
     applied |-> None, released |-> FALSE, override |-> FALSE, ran |-> FALSE, sent |-> FALSE]

(* A job of which scontrol tells nothing is not tracked: if it is still there, the next cycle sees it. *)
Discover(r) ==
    /\ At("discover") /\ r \in loop.todo
    /\ \E known \in BOOLEAN :
          /\ detail(r, known)
          /\ db' = IF known THEN [db EXCEPT ![r] = NewRow(r)] ELSE db
    /\ loop' = [loop EXCEPT !.todo = @ \ {r}]
    /\ UNCHANGED <<now, job, outA, outR, askAll, mode, rel>>

StartRefresh ==
    /\ At("discover") /\ loop.todo = {}
    /\ loop' = [loop EXCEPT !.pc = "refresh", !.todo = Active(db), !.copy = Rows(db, Active(db))]
    /\ UNCHANGED <<slurmVars, durable, mode, rel>>

(* _check_override: not the begin time we set, or a hold. *)
ChangedByOwner(r, t) == job[r].begin # t.applied \/ job[r].held

(* It is asked of the jobs that were deferred and still wait. *)
Checked(t, q) ==
    q.st = "PENDING" /\ t.st # "RUNNING" /\ t.applied # None /\ ~t.released /\ ~t.override

(* The row refresh saves for a job that squeue shows as q, read before as t; known, if scontrol told of it. *)
Refreshed(r, t, q, known) ==
    CASE q.st = "RUNNING" ->
            [t EXCEPT !.st = "RUNNING"]
      [] q.st = "PENDING" /\ t.st = "RUNNING" ->
            [t EXCEPT !.st = "PENDING", !.skip = TRUE]
      [] q.st = "PENDING" /\ t.st # "RUNNING" /\ t.applied = None /\ ~t.released /\ ~t.skip ->
            [t EXCEPT !.pred = q.est]
      [] Checked(t, q) /\ known ->
            [t EXCEPT !.override = ChangedByOwner(r, t)]
      [] OTHER -> t

Refresh(r) ==
    /\ At("refresh") /\ r \in loop.todo /\ loop.rows[r] # None
    /\ \E known \in BOOLEAN :
          /\ IF Checked(loop.copy[r], loop.rows[r]) THEN detail(r, known) ELSE UNCHANGED incidents
          /\ db' = [db EXCEPT ![r] = Refreshed(r, loop.copy[r], loop.rows[r], known)]
    /\ loop' = [loop EXCEPT !.todo = @ \ {r}]
    /\ UNCHANGED <<now, job, outA, outR, askAll, mode, rel>>

(* _close_finished, after the queued jobs: accounting has the final record, or lags (shows the job *)
(* as running or not at all), and a job that stays unknown for too long is given up.  An array's   *)
(* row, of which sacct cannot be asked, is closed at once, as one that never ran.                  *)
Close(r) ==
    /\ At("refresh") /\ r \in loop.todo
    /\ \A s \in loop.todo : loop.rows[s] = None
    /\ LET t == loop.copy[r] IN
       \/ /\ job[r].st = "DONE"
          /\ db' = [db EXCEPT ![r] = [t EXCEPT !.st = "DONE", !.ran = job[r].ran]]
          /\ UNCHANGED incidents
       \/ /\ Incident("slurm")
          /\ \/ job[r].ran /\ db' = [db EXCEPT ![r] = [t EXCEPT !.st = "RUNNING"]]
             \/ loop.now - t.first > GiveUp /\ db' = [db EXCEPT ![r] = [t EXCEPT !.st = "DONE"]]
             \/ loop.now - t.first <= GiveUp /\ UNCHANGED db
    /\ loop' = [loop EXCEPT !.todo = @ \ {r}]
    /\ UNCHANGED <<now, job, outA, outR, askAll, mode, rel>>

-----------------------------------------------------------------------------
(* release_all, run by the loop (p = "loop") or by the command (p = "cli") *)

Releasing(table) ==
    [stage |-> "next", copy |-> Rows(table, ToRelease(table)), todo |-> ToRelease(table), ref |-> None]

Observed == At("refresh") /\ loop.todo = {}

(* observe is over: a shadow agent first undoes its own earlier deferrals. *)
UndoInShadow ==
    /\ Observed /\ mode = "shadow"
    /\ loop' = [Idle EXCEPT !.pc = "undo", !.now = loop.now]
    /\ rel' = [rel EXCEPT !["loop"] = Releasing(db)]
    /\ UNCHANGED <<slurmVars, durable, mode>>

(* A failed release is left for the next cycle. *)
Tried(local, r, ok) ==
    [local EXCEPT !.todo = @ \ {r},
                  !.stage = IF ok THEN "save" ELSE "next",
                  !.ref = IF ok THEN r ELSE None]

ReleaseJob(p, r) ==
    /\ rel[p].stage = "next" /\ r \in rel[p].todo
    /\ \E ok \in BOOLEAN :
          /\ WriteStart(r, now, FALSE, ok)
          /\ rel' = [rel EXCEPT ![p] = Tried(rel[p], r, ok)]
    /\ UNCHANGED <<now, durable, mode, loop>>

SaveRelease(p) ==
    /\ rel[p].stage = "save"
    /\ db' = [db EXCEPT ![rel[p].ref] = [rel[p].copy[rel[p].ref] EXCEPT !.released = TRUE]]
    /\ rel' = [rel EXCEPT ![p].stage = "post"]
    /\ UNCHANGED <<slurmVars, outA, outR, askAll, mode, loop>>

PostRelease(p) ==
    /\ rel[p].stage = "post"
    /\ outR' = outR \cup {rel[p].ref}
    /\ rel' = [rel EXCEPT ![p] = [@ EXCEPT !.stage = "next", !.ref = None]]
    /\ UNCHANGED <<slurmVars, db, outA, askAll, mode, loop>>

Released(p) == rel[p].stage = "next" /\ rel[p].todo = {}

CliStart ==
    /\ Incident("cli")
    /\ rel["cli"].stage = "off"
    /\ rel' = [rel EXCEPT !["cli"] = Releasing(db)]
    /\ UNCHANGED <<now, job, durable, mode, loop>>

CliReleased ==
    /\ Released("cli")
    /\ askAll' = TRUE
    /\ rel' = [rel EXCEPT !["cli"] = NoRelease]
    /\ UNCHANGED <<slurmVars, db, outA, outR, mode, loop>>

-----------------------------------------------------------------------------
(* One request, one answer *)

FactOf(r, t) ==
    [st |-> t.st, skip |-> t.skip, override |-> t.override, ran |-> t.ran,
     pred |-> IF t.pred # None /\ t.pred > t.first + MaxWait[r] THEN None ELSE t.pred]

BuildBody ==
    [mode |-> mode, applied |-> outA, released |-> outR, all |-> askAll,
     jobs |-> [r \in Refs |-> IF r \in Active(db) THEN FactOf(r, db[r]) ELSE None]]

(* Mutant: the outbox is emptied when the request is built. *)
SendSyncForgetting ==
    /\ (Observed /\ mode = "autonomous") \/ (At("undo") /\ Released("loop"))
    /\ loop' = [Idle EXCEPT !.pc = "wait", !.now = loop.now, !.sent = BuildBody]
    /\ rel' = [rel EXCEPT !["loop"] = NoRelease]
    /\ outA' = Nothing
    /\ UNCHANGED <<slurmVars, db, outR, askAll, mode>>

SendSync ==
    /\ (Observed /\ mode = "autonomous") \/ (At("undo") /\ Released("loop"))
    /\ loop' = [Idle EXCEPT !.pc = "wait", !.now = loop.now, !.sent = BuildBody]
    /\ rel' = [rel EXCEPT !["loop"] = NoRelease]
    /\ UNCHANGED <<slurmVars, durable, mode>>

(* clear_applied, clear_released, mark_sent, set_meta: four commits, of which a crash keeps the first k. *)
Commits(all, k) ==
    LET body == loop.sent IN
    /\ outA' = IF k < 1 THEN outA
               ELSE [r \in Refs |-> IF body.applied[r] # None THEN None ELSE outA[r]]
    /\ outR' = IF k < 2 THEN outR ELSE outR \ body.released
    /\ db' = IF k < 3 THEN db
             ELSE [r \in Refs |-> IF /\ db[r] # None /\ body.jobs[r] # None
                                     /\ body.jobs[r].st = "DONE"
                                  THEN [db[r] EXCEPT !.sent = TRUE] ELSE db[r]]
    /\ askAll' = IF k < 4 THEN askAll ELSE askAll /\ ~(body.all /\ all)

(* Mutant: an answer that says "release all" only ends the cycle. *)
AcknowledgeOnly(rep) ==
    /\ At("wait")
    /\ Commits(rep.all, 4)
    /\ LET next == IF mode = "autonomous" /\ ~rep.all THEN "apply" ELSE "prune" IN
       loop' = [loop EXCEPT !.pc = next, !.sent = None,
                            !.dec = IF next = "apply" THEN rep.dec ELSE Nothing]
    /\ UNCHANGED <<slurmVars, mode, rel>>

(* The answer arrives: the outboxes it acknowledges are cleared, then it is acted on. *)
Acknowledge(rep) ==
    /\ At("wait")
    /\ Commits(rep.all, 4)
    /\ LET next == IF rep.all THEN "kill" ELSE IF mode = "autonomous" THEN "apply" ELSE "prune" IN
       /\ loop' = [loop EXCEPT !.pc = next, !.sent = None,
                               !.dec = IF next = "apply" THEN rep.dec ELSE Nothing]
       /\ rel' = IF next = "kill" THEN [rel EXCEPT !["loop"] = Releasing(db')] ELSE rel
    /\ UNCHANGED <<slurmVars, mode>>

-----------------------------------------------------------------------------
(* apply_decision *)

(* Mutants: no safety net; a job is managed again after it was released or changed by its owner. *)
RefusedNoLimit(r, t, at) == t = None \/ t.st # "PENDING" \/ t.skip \/ t.override \/ t.released

RefusedUnlessSkipped(r, t, at) ==
    t = None \/ t.st # "PENDING" \/ t.skip \/ at > Limit(r, t.first)

(* The cases in which a decision is refused without touching Slurm. *)
Refused(r, t, at) ==
    \/ t = None
    \/ t.st # "PENDING"
    \/ t.skip \/ t.override \/ t.released
    \/ at > Limit(r, t.first)

Outcome(pc, r, t, ok) == loop' = [loop EXCEPT !.pc = pc, !.ref = r, !.cur = t, !.ok = ok]

Decide(r) ==
    /\ At("apply") /\ loop.dec[r] # None
    /\ LET t == db[r]
           at == loop.dec[r] IN
       IF Refused(r, t, at) THEN Outcome("report", r, None, FALSE)
       ELSE \/ at <= loop.now + NowSlack /\ Outcome("free", r, t, FALSE)
            \/ at > loop.now + NowSlack /\ t.applied = at /\ Outcome("report", r, None, TRUE)
            \/ at > loop.now + NowSlack /\ t.applied # at /\ Outcome("set", r, t, FALSE)
    /\ UNCHANGED <<slurmVars, durable, mode, rel>>

Failed == Outcome("report", loop.ref, None, FALSE)

(* A decision for now (or earlier) is a release. *)
FreeJob ==
    /\ At("free")
    /\ \E ok \in BOOLEAN :
          /\ WriteStart(loop.ref, now, FALSE, ok)
          /\ IF ok THEN Outcome("saveFree", loop.ref, loop.cur, FALSE) ELSE Failed
    /\ UNCHANGED <<now, durable, mode, rel>>

SaveFreed ==
    /\ At("saveFree")
    /\ db' = [db EXCEPT ![loop.ref] = [loop.cur EXCEPT !.released = TRUE]]
    /\ Outcome("report", loop.ref, None, TRUE)
    /\ UNCHANGED <<slurmVars, outA, outR, askAll, mode, rel>>

(* slurm.set_start, then slurm.detail, then the save: three steps apart. *)
SetStart ==
    /\ At("set")
    /\ \E ok \in BOOLEAN :
          /\ WriteStart(loop.ref, loop.dec[loop.ref], TRUE, ok)
          /\ IF ok THEN Outcome("verify", loop.ref, loop.cur, FALSE) ELSE Failed
    /\ UNCHANGED <<now, durable, mode, rel>>

Verify ==
    /\ At("verify")
    /\ LET kept == job[loop.ref].begin = loop.dec[loop.ref] IN
       \E known \in BOOLEAN :      \* one that raises ends in the same report as one that tells nothing
          /\ detail(loop.ref, known)
          /\ IF known /\ kept THEN Outcome("save", loop.ref, loop.cur, FALSE) ELSE Failed
    /\ UNCHANGED <<now, job, durable, mode, rel>>

(* Mutant: the row is not saved. *)
SaveAppliedUnsaved ==
    /\ At("save")
    /\ Outcome("report", loop.ref, None, TRUE)
    /\ UNCHANGED <<slurmVars, durable, mode, rel>>

SaveApplied ==
    /\ At("save")
    /\ db' = [db EXCEPT ![loop.ref] = [loop.cur EXCEPT !.applied = loop.dec[loop.ref]]]
    /\ Outcome("report", loop.ref, None, TRUE)
    /\ UNCHANGED <<slurmVars, outA, outR, askAll, mode, rel>>

(* done(): the outcome waits in the outbox for the next sync. *)
PutApplied ==
    /\ At("report")
    /\ outA' = [outA EXCEPT ![loop.ref] = [at |-> loop.dec[loop.ref], ok |-> loop.ok]]
    /\ loop' = [loop EXCEPT !.pc = "apply", !.ref = None, !.ok = FALSE,
                            !.dec = [@ EXCEPT ![loop.ref] = None]]
    /\ UNCHANGED <<slurmVars, db, outR, askAll, mode, rel>>

(* state.prune, by age: any of the rows whose final report was sent.  The cycle is over. *)
Prune ==
    /\ \/ At("prune")                               \* a shadow agent applies nothing
       \/ At("apply") /\ loop.dec = Nothing         \* every decision is dealt with
       \/ At("kill") /\ Released("loop")            \* release_all is done
    /\ \E old \in SUBSET {r \in Refs : db[r] # None /\ db[r].sent} :
          db' = [r \in Refs |-> IF r \in old THEN None ELSE db[r]]
    /\ loop' = Idle
    /\ rel' = [rel EXCEPT !["loop"] = NoRelease]
    /\ UNCHANGED <<slurmVars, outA, outR, askAll, mode>>

-----------------------------------------------------------------------------
(* Failures *)

(* A read of Slurm raises: run_once ends, nothing is sent. *)
ReadFails ==
    /\ At("discover") \/ At("refresh")
    /\ Incident("slurm")
    /\ loop' = Idle
    /\ UNCHANGED <<now, job, durable, mode, rel>>

(* post_sync raises CloudError: run_once ends, the record and the outboxes are kept. *)
CloudFails ==
    /\ At("wait")
    /\ loop' = Idle
    /\ UNCHANGED <<now, job, durable, mode, rel>>

(* The loop dies and is started again, perhaps in another mode. *)
Crash ==
    /\ Incident("crash")
    /\ loop' = Idle
    /\ rel' = [rel EXCEPT !["loop"] = NoRelease]
    /\ mode' \in Modes
    /\ UNCHANGED <<now, job, durable>>

(* It dies among the commits that follow an answer. *)
AckCrash(all, k) ==
    /\ At("wait")
    /\ Incident("crash")
    /\ Commits(all, k)
    /\ loop' = Idle
    /\ mode' \in Modes
    /\ UNCHANGED <<now, job, rel>>

(* release-all is interrupted. *)
CliCrash ==
    /\ rel["cli"].stage # "off"
    /\ rel' = [rel EXCEPT !["cli"] = NoRelease]
    /\ UNCHANGED <<slurmVars, durable, mode, loop>>

-----------------------------------------------------------------------------
(* The steps of the loop that neither send, receive nor fail. *)
LoopStep ==
    \/ ReadQueue \/ StartRefresh \/ UndoInShadow \/ Prune
    \/ \E r \in Refs : Discover(r) \/ Refresh(r) \/ Close(r) \/ Decide(r) \/ ReleaseJob("loop", r)
    \/ SaveRelease("loop") \/ PostRelease("loop")
    \/ FreeJob \/ SaveFreed \/ SetStart \/ Verify \/ SaveApplied \/ PutApplied

CliStep ==
    \/ CliStart \/ CliReleased \/ SaveRelease("cli") \/ PostRelease("cli")
    \/ \E r \in Refs : ReleaseJob("cli", r)

(* Everything but the answers of the cloud. *)
AgentStep == LoopStep \/ CliStep \/ SendSync \/ ReadFails \/ Crash \/ CliCrash

(* The agent against a cloud that may answer anything, or not at all. *)
CONSTANT ReplyTimes   \* the start times a decision may carry
ASSUME ReplyAssumption == ReplyTimes \subseteq Nat

AnyReply ==
    [all : {FALSE}, dec : [Refs -> {None} \cup ReplyTimes]] \cup {[all |-> TRUE, dec |-> Nothing]}

AnyCloud ==
    \/ \E rep \in AnyReply : Acknowledge(rep)
    \/ \E all \in BOOLEAN, k \in 0 .. 3 : AckCrash(all, k)
    \/ CloudFails /\ UNCHANGED incidents

vars == <<slurmVars, agentVars>>

Init == SlurmInit /\ AgentInit

Next == (SlurmNext /\ UNCHANGED agentVars) \/ AgentStep \/ AnyCloud

Spec == Init /\ [][Next]_vars

-----------------------------------------------------------------------------
(* Properties *)

(* Every variable of the scheduler and of the agent has its type. *)
TypeOK == SlurmTypeOK /\ AgentTypeOK

(* No job can be made to wait past its limit, whatever the cloud answers, whatever fails and whenever *)
(* the agent dies: a begin time written by the agent (apply_decision's safety net) stays within       *)
(* first_seen + 2 * max_wait + 300 s of the record the agent still has of that job.                   *)
LimitKept ==
    \A r \in Refs :
        job[r].st = "PENDING" /\ job[r].ours =>
            db[r] # None /\ job[r].begin <= Limit(r, db[r].first)

Off(t) == t # None /\ (t.skip \/ t.override \/ t.released \/ t.st # "PENDING")

Defers(r) == job'[r].ours /\ (~job[r].ours \/ job'[r].begin # job[r].begin)

(* No release-all process has run beside the loop. *)
OneProcess == "cli" \notin incidents.kinds

(* As long as no release-all process works on the same file: a job recorded as changed by its owner,  *)
(* released, skipped, started or finished is never deferred (again), and never becomes manageable.    *)
HandsOff ==
    [][\A r \in Refs :
          OneProcess /\ Off(db[r]) => ~Defers(r) /\ (db'[r] = None \/ Off(db'[r]))]_vars

(* A report waiting for the cloud (put_applied replaces rows) is never replaced by a newer one, and   *)
(* leaves the outbox only after an answer to a request that carried this very report.                 *)
ReportsKept ==
    [][\A r \in Refs :
          outA[r] # None /\ outA'[r] # outA[r] =>
              /\ outA'[r] = None
              /\ At("wait") /\ loop.sent.applied[r] = outA[r]]_vars

OnRecord(r) ==
    job[r].st = "PENDING" /\ job[r].ours =>
        r \in ToRelease(db) /\ db[r].applied = job[r].begin

NoFault == incidents.kinds \cap {"slurm", "crash"} = {}

(* Between two cycles, every deferral that is in force in Slurm is in the agent's record as one that  *)
(* release_all would undo.  It needs that nothing failed, and that no release-all ran beside the loop.*)
DeferralsOnRecord == At("idle") /\ NoFault /\ OneProcess => \A r \in Refs : OnRecord(r)

(* The same without "nothing failed": what agent/README.md says of the kill switch.                   *)
KillSwitchReachesAll == At("idle") /\ OneProcess => \A r \in Refs : OnRecord(r)

(* What applier.py says of release_all, and the design of a change by the owner: once the agent has   *)
(* noted the owner's change, it writes nothing to that job.                                           *)
OwnerHasTheLastWord ==
    [][\A r \in Refs :
          db[r] # None /\ db[r].override /\ job'[r] # job[r] => UNCHANGED <<loop, rel>>]_vars

-----------------------------------------------------------------------------
(* The inductive invariant behind TypeOK and LimitKept *)

Deciding == {"set", "verify", "save", "free", "saveFree"}

(* The local variables that a step is about to use are there. *)
LoopShape ==
    /\ loop.pc \in Deciding \cup {"report"} => loop.ref \in Refs /\ loop.dec[loop.ref] \in Nat
    /\ loop.pc \in Deciding => loop.cur \in Row
    /\ loop.pc = "wait" => loop.sent \in Body
    /\ loop.pc = "discover" => \A r \in loop.todo : loop.rows[r] \in QueueRow
    /\ loop.pc = "refresh" => \A r \in loop.todo : loop.copy[r] \in Row

RelShape ==
    \A p \in Procs :
       /\ rel[p].stage \in {"save", "post"} => rel[p].ref \in Refs
       /\ rel[p].stage = "save" => rel[p].copy[rel[p].ref] \in Row
       /\ \A r \in rel[p].todo : rel[p].copy[r] \in Row

(* A row of r held by some process is not newer or older than the one in the database where it counts. *)
Copied(r, c) == db[r] # None /\ c.first = db[r].first /\ c.st # "DONE" /\ ~c.sent

(* What is true of a job until it is finished: of its record, ... *)
OnFile(r) ==
    /\ job[r].st = "ABSENT" => db[r] = None /\ ~job[r].ours
    /\ db[r] # None => db[r].st # "DONE" /\ ~db[r].sent
    /\ job[r].st = "PENDING" /\ job[r].ours => db[r] # None /\ job[r].begin <= Limit(r, db[r].first)

(* ... of what run_once holds, ... *)
InLoop(r) ==
    /\ loop.pc \in {"discover", "refresh"} /\ loop.rows[r] = None => db[r] = None
    /\ loop.pc = "discover" /\ r \in loop.todo =>
          db[r] = None /\ loop.rows[r] # None /\ job[r].st # "ABSENT"
    /\ loop.pc = "refresh" /\ r \in loop.todo => Copied(r, loop.copy[r])
    /\ loop.pc = "wait" /\ loop.sent.jobs[r] # None => loop.sent.jobs[r].st # "DONE"
    /\ loop.pc \in Deciding /\ loop.ref = r =>
          Copied(r, loop.cur) /\ loop.dec[r] <= Limit(r, loop.cur.first)

(* ... and of what each release_all holds. *)
InRelease(r) ==
    \A p \in Procs :
        r \in rel[p].todo \/ (rel[p].stage = "save" /\ r = rel[p].ref) => Copied(r, rel[p].copy[r])

Alive(r) == job[r].st # "DONE" => OnFile(r) /\ InLoop(r) /\ InRelease(r)

Applying == {"apply", "report"} \cup Deciding

(* Behind ReportsKept: the outbox does not change while a request is out, and has no report yet of a  *)
(* decision that is still to be dealt with.                                                           *)
ReportsInv ==
    /\ At("wait") => loop.sent.applied = outA
    /\ loop.pc \in Applying => \A r \in Refs : loop.dec[r] # None => outA[r] = None

(* Behind HandsOff: as long as one process works on the file, every row that it still has to write is *)
(* the row in the database, and one that is about to be deferred is not off limits.                   *)
HandsInv ==
    OneProcess =>
        /\ rel["cli"] = NoRelease
        /\ rel["loop"].stage = "save" => rel["loop"].ref \notin rel["loop"].todo
        /\ rel["loop"] # NoRelease => loop.pc \in {"undo", "kill"}
        /\ \A r \in Refs :
              /\ At("discover") /\ r \in loop.todo => db[r] = None
              /\ At("refresh") /\ r \in loop.todo => loop.copy[r] = db[r]
              /\ loop.pc \in Deciding /\ r = loop.ref => loop.cur = db[r] /\ ~Off(db[r])
              /\ r \in rel["loop"].todo => rel["loop"].copy[r] = db[r]

(* Behind DeferralsOnRecord: a deferral that is in force is on record, or is the one that run_once is  *)
(* about to verify and save; it is not about to be saved as released; and run_once saw its job waiting.*)
InForce(r) == job[r].st = "PENDING" /\ job[r].ours

Noted(r) ==
    IF loop.pc \in {"verify", "save"} /\ loop.ref = r THEN job[r].begin = loop.dec[r] ELSE OnRecord(r)

BeingUndone(r) ==
    \/ At("saveFree") /\ loop.ref = r
    \/ rel["loop"].stage = "save" /\ rel["loop"].ref = r

SeenWaiting(r) == loop.pc \in {"discover", "refresh"} /\ loop.rows[r] # None => loop.rows[r].st = "PENDING"

RecordInv ==
    NoFault /\ OneProcess =>
        \A r \in Refs : InForce(r) => Noted(r) /\ ~BeingUndone(r) /\ SeenWaiting(r)

IInv == TypeOK /\ LoopShape /\ RelShape /\ \A r \in Refs : Alive(r)
=============================================================================
