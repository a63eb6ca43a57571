------------------------------ MODULE SyncSystem ------------------------------
(***************************************************************************)
(* The whole loop: Slurm and its users, the agent, the cloud, and the HTTP *)
(* request between them.  The agent has one request outstanding; it may be *)
(* lost, its answer may be lost, and a request the agent has given up      *)
(* (client.py waits 20 s) may still be processed later: late holds those.  *)
(***************************************************************************)
EXTENDS Agent, Cloud

VARIABLE late

systemVars == <<slurmVars, agentVars, cloudVars, late>>

SystemInit == SlurmInit /\ AgentInit /\ CloudInit /\ late = {}

(* The cloud processes the request and its answer reaches the agent. *)
Exchange ==
    /\ At("wait")
    /\ Process(loop.sent)
    /\ Acknowledge(Answer(loop.sent))
    /\ UNCHANGED late

(* The same, but the agent dies while it clears its outboxes. *)
ExchangeCrash(k) ==
    /\ At("wait")
    /\ Process(loop.sent)
    /\ AckCrash(Answer(loop.sent).all, k)
    /\ UNCHANGED late

RequestLost ==
    /\ CloudFails
    /\ Incident("net")
    /\ UNCHANGED <<cloudVars, late>>

AnswerLost ==
    /\ CloudFails
    /\ Incident("net")
    /\ Process(loop.sent)
    /\ UNCHANGED late

(* Mutant: the request is read after run_once is gone. *)
RequestDelayedEmpty ==
    /\ CloudFails
    /\ Incident("late")
    /\ late' = late \cup {loop'.sent}
    /\ UNCHANGED cloudVars

RequestDelayed ==
    /\ CloudFails
    /\ Incident("late")
    /\ late' = late \cup {loop.sent}
    /\ UNCHANGED cloudVars

LateRequest(body) ==
    /\ Process(body)
    /\ late' = late \ {body}
    /\ UNCHANGED <<slurmVars, agentVars>>

Operator ==
    /\ Incident("switch")
    /\ \/ \E m \in SiteModes : SetMode(m)
       \/ \E on \in BOOLEAN : on # site.all /\ SetReleaseAll(on)
    /\ UNCHANGED <<now, job, agentVars, late>>

SystemNext ==
    \/ SlurmNext /\ UNCHANGED <<agentVars, cloudVars, late>>
    \/ AgentStep /\ UNCHANGED <<cloudVars, late>>
    \/ Exchange \/ \E k \in 0 .. 3 : ExchangeCrash(k)
    \/ RequestLost \/ AnswerLost \/ RequestDelayed
    \/ \E body \in late : LateRequest(body)
    \/ Operator

SystemSpec == SystemInit /\ [][SystemNext]_systemVars

(* The loop goes on (systemd restarts it), and a request that is not lost is answered. *)
Fairness ==
    /\ WF_systemVars((LoopStep \/ SendSync) /\ UNCHANGED <<cloudVars, late>>)
    /\ WF_systemVars(Exchange)

FairSpec == SystemSpec /\ Fairness

-----------------------------------------------------------------------------
(* Properties *)

SystemTypeOK == TypeOK /\ CloudTypeOK /\ late \in SUBSET Body

(* A report leaves the agent's outbox only when the cloud's record shows what it said: the start time *)
(* that was applied, or that the job is left alone.                                                   *)
NoReportLost ==
    [][\A r \in Refs :
          outA[r] # None /\ outA'[r] = None =>
              /\ cjob'[r] # None
              /\ IF outA[r].ok THEN cjob'[r].applied = outA[r].at
                 ELSE cjob'[r].status \in HandsOffStatus]_systemVars

(* A job that its owner changed, that is skipped, or that was released is never planned again, and    *)
(* the state of a job never moves backwards, whatever requests arrive in whatever order.              *)
NeverBack ==
    [][\A r \in Refs :
          cjob[r] # None =>
              /\ cjob'[r] # None /\ Rank(cjob'[r].st) >= Rank(cjob[r].st)
              /\ cjob[r].status \in HandsOffStatus =>
                     cjob'[r].status \in HandsOffStatus /\ cjob'[r].planned = cjob[r].planned
              /\ cjob[r].measured => cjob'[r].measured]_systemVars

(* Between two cycles, and with its report acknowledged, the agent and the cloud agree on the start   *)
(* time that is in force.  A crash between the save and the report, or a request processed late, can  *)
(* break it.                                                                                          *)
Agreement ==
    At("idle") /\ incidents.kinds \cap {"crash", "late"} = {} =>
        \A r \in Refs :
            db[r] # None /\ db[r].applied # None /\ ~db[r].released /\ outA[r] = None =>
                cjob[r] # None /\ cjob[r].applied = db[r].applied

(* What agent_sync.py says of itself: a request that comes again, or late, changes nothing.  A late    *)
(* one sets the applied start back to what it was when it was sent.  It is put right if an answer      *)
(* sends the plan again, because it differs from the stale value, the agent confirms it ("already     *)
(* set") and reports that; not if the job starts first or a switch keeps decisions back.               *)
RetriesAreHarmless ==
    At("idle") /\ "crash" \notin incidents.kinds =>
        \A r \in Refs :
            db[r] # None /\ db[r].applied # None /\ ~db[r].released /\ outA[r] = None =>
                cjob[r] # None /\ cjob[r].applied = db[r].applied

(* The kill switch works: if the cloud's switch stays on, every deferral on the agent's record is     *)
(* undone (or its job no longer waits), also when a request or an answer is lost, before the switch   *)
(* or after it.                                                                                       *)
KillSwitch ==
    <>[](site.all) => <>[](\A r \in Refs : r \in ToRelease(db) => job[r].st # "PENDING")

(* The end of every tracked job reaches the cloud. *)
FinishReported ==
    \A r \in Refs :
        (db[r] # None /\ job[r].st = "DONE") ~> (cjob[r] # None /\ cjob[r].st = "DONE")

(* A change by the owner that the agent noticed makes the cloud stop managing the job, although the    *)
(* request that tells of it, or its answer, may be lost.  A release-all                               *)
(* process that saves an older copy of the row can erase the note, so it must not run beside the loop.*)
OverrideReported ==
    \A r \in Refs :
        (db[r] # None /\ db[r].override) ~>
            \/ cjob[r] # None /\ (cjob[r].status \in HandsOffStatus \/ cjob[r].st # "PENDING")
            \/ ~OneProcess

(* What planner.py says of a job about to start ("pinned, keeps its capacity"): the answer of a sync  *)
(* never asks to move a job whose start time in force is within the freeze margin.                    *)
PinnedIsNotMoved ==
    [][\A r \in Refs :
          loop.pc = "wait" /\ loop'.pc = "apply" /\ loop'.dec[r] # None => ~Pinned(cjob'[r])]_systemVars

-----------------------------------------------------------------------------
(* The inductive invariant behind the theorems of SystemProofs *)

(* A job with a decision under way or a report waiting is one that the cloud knows. *)
Known ==
    \A r \in Refs :
        outA[r] # None \/ (loop.pc \in Applying /\ loop.dec[r] # None) => cjob[r] # None

(* Behind Agreement: the cloud knows the start time that the agent has on record, or is told by the    *)
(* report that waits in the outbox, or that run_once is about to put there.                            *)
Told(r, at) ==
    IF outA[r] # None /\ outA[r].ok THEN outA[r].at = at ELSE cjob[r] # None /\ cjob[r].applied = at

Manages(t) == t # None /\ t.applied # None /\ ~t.released

AgreementInv ==
    incidents.kinds \cap {"crash", "late"} = {} =>
        /\ late = {}
        /\ \A r \in Refs :
              /\ Manages(db[r]) => IF At("report") /\ loop.ref = r /\ loop.ok
                                   THEN db[r].applied = loop.dec[r]
                                   ELSE Told(r, db[r].applied)
              /\ At("refresh") /\ r \in loop.todo /\ Manages(loop.copy[r]) => Told(r, loop.copy[r].applied)

SystemInv == IInv /\ ReportsInv /\ CloudTypeOK /\ late \in SUBSET Body /\ Known /\ WithinHardLimit
=============================================================================
