----------------------------- MODULE SystemProofs -----------------------------
(***************************************************************************)
(* Proofs about the composed system.  What AgentProofs shows of the agent  *)
(* against a cloud that may answer anything carries over, because an       *)
(* answer of process_sync is a Reply; on top of it come the promises of    *)
(* the cloud, for any requests in any order.                               *)
(***************************************************************************)
EXTENDS SyncSystem, AgentProofs

-----------------------------------------------------------------------------
(* One row of managed_jobs through one sync *)

(* What no step of process_sync may undo in the row j of job r. *)
Keeps(r, j, k) ==
    /\ k \in CJob
    /\ Rank(k.st) >= Rank(j.st)
    /\ j.status \in HandsOffStatus => k.status \in HandsOffStatus /\ k.planned = j.planned
    /\ j.measured => k.measured
    /\ InTime(r, j) => InTime(r, k)

LEMMA RankType == \A st \in States : Rank(st) \in 0 .. 2
BY DEF Rank, States

LEMMA KeepsSelf ==
    ASSUME NEW r \in Refs, NEW j \in CJob
    PROVE Keeps(r, j, j)
BY RankType DEF Keeps, CJob

LEMMA KeepsTransitive ==
    ASSUME NEW r \in Refs, NEW j \in CJob, NEW k, NEW l, Keeps(r, j, k), Keeps(r, k, l)
    PROVE Keeps(r, j, l)
<1>1. Rank(j.st) \in Int /\ Rank(k.st) \in Int /\ Rank(l.st) \in Int
  BY RankType DEF Keeps, CJob
<1> QED
  BY <1>1 DEF Keeps

LEMMA FlaggedKeeps ==
    ASSUME NEW r \in Refs, NEW j \in CJob, NEW f \in Fact
    PROVE Keeps(r, j, Flagged(j, f))
<1>1. /\ Flagged(j, f) \in CJob
      /\ Flagged(j, f).st = j.st /\ Flagged(j, f).planned = j.planned
      /\ Flagged(j, f).first = j.first /\ Flagged(j, f).measured = j.measured
      /\ j.status \in HandsOffStatus => Flagged(j, f).status \in HandsOffStatus
  BY DEF Flagged, CJob, Movable, HandsOffStatus
<1> QED
  BY <1>1, RankType DEF Keeps, InTime, CJob

LEMMA UpdatedKeeps ==
    ASSUME NEW r \in Refs, NEW j \in CJob, NEW f \in Fact, Rank(f.st) >= Rank(j.st)
    PROVE Keeps(r, j, Updated(j, f))
<1>1. /\ Updated(j, f) \in CJob
      /\ Updated(j, f).st = f.st /\ Updated(j, f).planned = j.planned
      /\ Updated(j, f).first = j.first /\ Updated(j, f).measured = j.measured
      /\ Updated(j, f).status = j.status
  BY DEF Updated, CJob, Fact, MaybeTime
<1> QED
  BY <1>1 DEF Keeps, InTime

(* A row that a request creates, and one that it meets. *)
LEMMA UpsertedNew ==
    ASSUME NEW r \in Refs, now \in Nat, NEW f \in Fact \cup {None}, NEW k, k = Upserted(None, f), k # None
    PROVE k \in CJob /\ InTime(r, k)
<1>1. f \in Fact /\ k = Flagged(NewJob(f), f)
  BY DEF Upserted
<1>2. NewJob(f) \in CJob /\ NewJob(f).planned = None
  BY <1>1 DEF NewJob, CJob, Fact, MaybeTime, Movable
<1> QED
  BY <1>1, <1>2, FlaggedKeeps DEF Keeps, InTime

LEMMA UpsertedKeeps ==
    ASSUME NEW r \in Refs, NEW j \in CJob, NEW f \in Fact \cup {None}
    PROVE Keeps(r, j, Upserted(j, f))
<1>1. j # None
  BY AbsentAssumption
<1>2. CASE Upserted(j, f) = j
  BY <1>2, KeepsSelf
<1>3. CASE Upserted(j, f) # j
  <2>1. f \in Fact /\ ~(Rank(f.st) < Rank(j.st)) /\ Upserted(j, f) = Flagged(Updated(j, f), f)
    BY <1>1, <1>3 DEF Upserted
  <2>2. Rank(f.st) >= Rank(j.st)
    BY <2>1, RankType DEF Fact, CJob
  <2>3. Updated(j, f) \in CJob
    BY <2>1, <2>2, UpdatedKeeps DEF Keeps
  <2> QED
    BY <2>1, <2>2, <2>3, UpdatedKeeps, FlaggedKeeps, KeepsTransitive
<1> QED
  BY <1>2, <1>3

(* What the request reports of a job is what the row shows afterwards. *)
Shows(a, k) == a # None => IF a.ok THEN k.applied = a.at ELSE k.status \in HandsOffStatus

LEMMA ReportedKeeps ==
    ASSUME NEW r \in Refs, NEW j \in CJob, NEW a \in MaybeReport, NEW S
    PROVE Keeps(r, j, Reported(j, a, r \in S)) /\ Shows(a, Reported(j, a, r \in S))
<1> DEFINE k == Reported(j, a, r \in S)
<1>1. j # None /\ (a # None => a \in Report)
  BY AbsentAssumption DEF MaybeReport
<1>2. /\ k \in CJob
      /\ k.st = j.st /\ k.planned = j.planned /\ k.first = j.first /\ k.measured = j.measured
      /\ j.status \in HandsOffStatus => k.status \in HandsOffStatus
  BY <1>1 DEF Reported, CJob, Report, MaybeTime, HandsOffStatus
<1>3. Shows(a, k)
  BY <1>1 DEF Reported, CJob, Report, Shows, HandsOffStatus
<1> QED
  BY <1>2, <1>3, RankType DEF Keeps, InTime, CJob

LEMMA FinalizedKeeps ==
    ASSUME NEW r \in Refs, NEW j \in CJob, NEW k \in Finalized(j)
    PROVE Keeps(r, j, k) /\ k.applied = j.applied /\ k.status = j.status
<1>1. CASE k = j
  BY <1>1, KeepsSelf
<1>2. ASSUME NEW tariff \in Tariffs, k = [j EXCEPT !.measured = tariff], ~j.measured
      PROVE Keeps(r, j, k) /\ k.applied = j.applied /\ k.status = j.status
  <2>1. /\ k \in CJob
        /\ k.st = j.st /\ k.planned = j.planned /\ k.first = j.first /\ k.status = j.status
        /\ k.applied = j.applied
    BY <1>2, CloudAssumption DEF CJob
  <2> QED
    BY <1>2, <2>1, RankType DEF Keeps, InTime, CJob
<1> QED
  BY <1>1, <1>2 DEF Finalized

(* The window of the planner lies within the promise. *)
LEMMA WindowInTime ==
    ASSUME NEW r \in Refs, NEW j \in CJob, now \in Nat
    PROVE /\ Base(r, j) \in Nat /\ Later(now, Base(r, j)) \in Nat
          /\ Base(r, j) + MaxWait[r] <= j.first + 2 * MaxWait[r]
BY BaseAssumption DEF Base, Later, CJob, MaybeTime

LEMMA PlannedKeeps ==
    ASSUME NEW r \in Refs, NEW j \in CJob, now \in Nat, NEW k \in Planned(r, j)
    PROVE Keeps(r, j, k) /\ k.applied = j.applied /\ (j.status \in HandsOffStatus => k = j)
<1> DEFINE earliest == Later(now, Base(r, j))
           latest == Base(r, j) + MaxWait[r] - Margin
<1>1. j # None /\ Margin \in Nat /\ MaxWait[r] \in Nat /\ j.first \in Nat
  BY AbsentAssumption, CloudAssumption, BaseAssumption DEF CJob
<1>2. CASE k = j
  BY <1>2, KeepsSelf
<1>3. ASSUME k # j
      PROVE j.status \in Movable /\ k \in CJob /\ k.st = j.st /\ k.first = j.first /\ k.measured = j.measured
            /\ k.applied = j.applied /\ (InTime(r, j) => InTime(r, k))
  <2>1. j.status \in Movable
    BY <1>1, <1>3 DEF Planned
  <2>2. /\ earliest \in Nat /\ latest \in Int
        /\ latest + Margin <= j.first + 2 * MaxWait[r]
    BY <1>1, WindowInTime
  <2>3. \/ \E s \in earliest .. latest : k = [j EXCEPT !.status = "planned", !.planned = s]
        \/ /\ earliest <= latest
           /\ k = [j EXCEPT !.status = "planned", !.planned = IF j.applied # None THEN earliest ELSE None]
        \/ k = [j EXCEPT !.status = "unplaceable"]
    BY <1>1, <1>3 DEF Planned
  <2>4. ASSUME NEW s \in Nat \cup {None}, s # None => s <= latest,
               k = [j EXCEPT !.status = "planned", !.planned = s]
        PROVE k \in CJob /\ k.st = j.st /\ k.first = j.first /\ k.measured = j.measured
              /\ k.applied = j.applied /\ InTime(r, k)
    <3>1. k \in CJob /\ k.planned = s /\ k.first = j.first
      BY <2>4 DEF CJob, Movable, MaybeTime
    <3>2. s # None => s + Margin <= j.first + 2 * MaxWait[r]
      BY <1>1, <2>2, <2>4
    <3> QED
      BY <2>4, <3>1, <3>2 DEF InTime, CJob
  <2>5. CASE k = [j EXCEPT !.status = "unplaceable"]
    BY <2>1, <2>5 DEF CJob, Movable, InTime
  <2>6. CASE \E s \in earliest .. latest : k = [j EXCEPT !.status = "planned", !.planned = s]
    <3>1. PICK s \in earliest .. latest : k = [j EXCEPT !.status = "planned", !.planned = s]
      BY <2>6
    <3>2. s \in Nat /\ s <= latest
      BY <2>2
    <3> QED
      BY <2>1, <2>4, <3>1, <3>2
  <2>7. CASE /\ earliest <= latest
             /\ k = [j EXCEPT !.status = "planned", !.planned = IF j.applied # None THEN earliest ELSE None]
    <3>1. CASE j.applied # None
      BY <2>1, <2>2, <2>4, <2>7, <3>1
    <3>2. CASE j.applied = None
      BY <2>1, <2>2, <2>4, <2>7, <3>2
    <3> QED
      BY <3>1, <3>2
  <2> QED
    BY <2>3, <2>5, <2>6, <2>7
<1>4. j.status \in Movable => j.status \notin HandsOffStatus
  BY DEF Movable, HandsOffStatus
<1> QED
  BY <1>2, <1>3, <1>4, RankType DEF Keeps, CJob

-----------------------------------------------------------------------------
(* One sync *)

LEMMA OutcomesKeep ==
    ASSUME CloudTypeOK, now \in Nat, NEW body \in Body, NEW r \in Refs, NEW plan \in BOOLEAN,
           NEW k \in Outcomes(r, body, plan)
    PROVE /\ k \in CJob \cup {None}
          /\ cjob[r] # None => Keeps(r, cjob[r], k) /\ Shows(body.applied[r], k)
          /\ cjob[r] = None /\ k # None => InTime(r, k)
<1> DEFINE j == cjob[r]
           up == Upserted(j, body.jobs[r])
           known == Reported(up, body.applied[r], r \in body.released)
<1>1. /\ j \in CJob \cup {None} /\ body.jobs[r] \in Fact \cup {None}
      /\ body.applied[r] \in MaybeReport
  BY DEF CloudTypeOK, Body
<1>2. CASE ~Loaded(r, body)
  <2>1. k = j /\ body.applied[r] = None
    BY <1>2 DEF Outcomes, Loaded
  <2> QED
    BY <1>1, <2>1, KeepsSelf DEF Shows
<1>3. CASE Loaded(r, body)
  <2>1. \/ k \in Finalized(known)
        \/ \E m \in Finalized(known) : k \in Planned(r, m)
    BY <1>3 DEF Outcomes
  <2>2. CASE up = None
    <3>1. known = None /\ Finalized(known) = {None} /\ Planned(r, None) = {None}
      BY <2>2 DEF Reported, Finalized, Planned
    <3>2. j = None
      BY <1>1, <2>2, UpsertedKeeps, AbsentAssumption DEF Keeps
    <3> QED
      BY <2>1, <3>1, <3>2
  <2>3. CASE up # None
    <3>1. /\ up \in CJob
          /\ j # None => Keeps(r, j, up)
          /\ j = None => InTime(r, up)
      <4>1. CASE j = None
        BY <1>1, <2>3, <4>1, UpsertedNew, AbsentAssumption
      <4>2. CASE j # None
        BY <1>1, <4>2, UpsertedKeeps DEF Keeps
      <4> QED
        BY <4>1, <4>2
    <3>2. Keeps(r, up, known) /\ Shows(body.applied[r], known) /\ known \in CJob
      BY <1>1, <3>1, ReportedKeeps DEF Keeps
    <3>3. ASSUME NEW m \in Finalized(known)
          PROVE m \in CJob /\ Keeps(r, up, m) /\ m.applied = known.applied /\ m.status = known.status
      BY <3>1, <3>2, FinalizedKeeps, KeepsTransitive DEF Keeps
    <3>4. Keeps(r, up, k) /\ Shows(body.applied[r], k)
      <4>1. CASE k \in Finalized(known)
        BY <3>2, <3>3, <4>1 DEF Shows
      <4>2. CASE \E m \in Finalized(known) : k \in Planned(r, m)
        <5>1. PICK m \in Finalized(known) : k \in Planned(r, m)
          BY <4>2
        <5>2. /\ m \in CJob /\ Keeps(r, up, m) /\ m.applied = known.applied /\ m.status = known.status
              /\ Keeps(r, m, k) /\ k.applied = m.applied /\ (m.status \in HandsOffStatus => k = m)
          BY <3>3, <5>1, PlannedKeeps
        <5> QED
          BY <3>1, <3>2, <5>2, KeepsTransitive DEF Shows
      <4> QED
        BY <2>1, <4>1, <4>2
    <3>5. k \in CJob
      BY <3>4 DEF Keeps
    <3> QED
      BY <3>1, <3>4, <3>5, KeepsTransitive, <1>1 DEF Keeps
  <2> QED
    BY <2>2, <2>3
<1> QED
  BY <1>2, <1>3

LEMMA ProcessKeeps ==
    ASSUME CloudTypeOK, now \in Nat, NEW body \in Body, Process(body)
    PROVE /\ CloudTypeOK'
          /\ \A r \in Refs : cjob[r] # None =>
                 cjob'[r] # None /\ Keeps(r, cjob[r], cjob'[r]) /\ Shows(body.applied[r], cjob'[r])
          /\ \A r \in Refs : cjob[r] = None /\ cjob'[r] # None => InTime(r, cjob'[r])
<1>1. PICK tariff \in Tariffs :
        LET plan == tariff /\ ~site'.all
            after == [r \in Refs |-> Outcomes(r, body, plan)]
        IN cjob' \in {c \in [Refs -> UNION {after[r] : r \in Refs}] : \A r \in Refs : c[r] \in after[r]}
  BY DEF Process
<1> DEFINE plan == tariff /\ ~site'.all
<1>2. site' \in [mode : ModeNames, all : BOOLEAN] /\ plan \in BOOLEAN
  BY CloudAssumption DEF Process, CloudTypeOK, Body
<1> HIDE DEF plan
<1>3. cjob' = [r \in Refs |-> cjob'[r]] /\ \A r \in Refs : cjob'[r] \in Outcomes(r, body, plan)
  BY <1>1 DEF plan
<1>4. \A r \in Refs : cjob'[r] \in CJob \cup {None}
  BY <1>2, <1>3, OutcomesKeep
<1>5. cjob' \in [Refs -> CJob \cup {None}]
  BY <1>3, <1>4
<1> QED
  BY <1>2, <1>3, <1>5, OutcomesKeep, AbsentAssumption DEF CloudTypeOK, Keeps

LEMMA AnswerType ==
    ASSUME CloudTypeOK', NEW body \in Body
    PROVE /\ Answer(body) \in Reply
          /\ \A r \in Refs : Answer(body).dec[r] # None => cjob'[r] # None
<1>1. \A r \in Refs : cjob'[r] \in CJob \cup {None} /\ site'.all \in BOOLEAN
  BY DEF CloudTypeOK
<1>2. \A r \in Refs : Decision(cjob'[r]) \in MaybeTime /\ (Decision(cjob'[r]) # None => cjob'[r] # None)
  BY <1>1 DEF Decision, CJob, MaybeTime
<1>3. site'.all \in BOOLEAN
  BY DEF CloudTypeOK
<1> QED
  BY <1>2, <1>3 DEF Answer, Reply, MaybeTime

-----------------------------------------------------------------------------
(* One step of the system, seen from the agent *)

(* What AgentProofs says of the agent alone, kept by a step. *)
AgentInv == IInv /\ ReportsInv

LEMMA AgentInvParts == AgentInv <=> Types /\ (\A r \in Refs : Alive(r)) /\ ReportsInv
BY DEF AgentInv, IInv, Types

(* A step of Slurm or of the agent by itself is one of Agent's own. *)
LEMMA OwnStepKeeps ==
    ASSUME AgentInv, (SlurmNext /\ UNCHANGED agentVars) \/ AgentStep
    PROVE AgentInv'
<1>1. Next
  BY DEF Next
<1> QED
  BY <1>1, NextInv, NextReports, AgentInvParts DEF AgentInv

LEMMA AnswerKeeps ==
    ASSUME AgentInv, NEW rep \in Reply,
           Acknowledge(rep) \/ \E k \in 0 .. 3 : AckCrash(rep.all, k)
    PROVE AgentInv'
<1>1. Types /\ (\A r \in Refs : Alive(r)) /\ ReportsInv /\ rep.all \in BOOLEAN
  BY AgentInvParts DEF Reply
<1>2. CASE Acknowledge(rep)
  <2>1. Types' /\ (\A r \in Refs : Alive(r)') /\ ReportsInv'
    BY <1>1, <1>2, AcknowledgeTypes, AcknowledgeAlive, AnswerReports
  <2> QED
    BY <2>1 DEF AgentInv, IInv, Types
<1>3. CASE \E k \in 0 .. 3 : AckCrash(rep.all, k)
  <2>1. Types' /\ (\A r \in Refs : Alive(r)') /\ ReportsInv'
    BY <1>1, <1>3, AckCrashTypes, AckCrashAlive, AnswerReports
  <2> QED
    BY <2>1 DEF AgentInv, IInv, Types
<1> QED
  BY <1>2, <1>3

LEMMA NoAnswerKeeps ==
    ASSUME AgentInv, CloudFails, NEW k \in Kinds, Incident(k)
    PROVE AgentInv'
<1>1. Types' /\ (\A r \in Refs : Alive(r)') /\ ReportsInv'
  BY FailureTypes, FailureAlive, FailureReports, AgentInvParts
<1> QED
  BY <1>1 DEF AgentInv, IInv, Types

(* A step elsewhere: at most the count of incidents changes. *)
LEMMA ElsewhereKeeps ==
    ASSUME AgentInv, UNCHANGED <<now, job, agentVars>>,
           UNCHANGED incidents \/ \E k \in Kinds : Incident(k)
    PROVE AgentInv'
<1>1. SlurmTypeOK'
  BY IncidentType, AgentInvParts DEF Types, TypeOK, SlurmTypeOK
<1>2. Types'
  BY <1>1, AgentInvParts DEF Types, TypeOK, AgentTypeOK, LoopShape, RelShape, agentVars
<1>3. \A r \in Refs : Alive(r)'
  BY AgentInvParts DEF Alive, OnFile, InLoop, InRelease, Copied, agentVars
<1>4. ReportsInv'
  BY AgentInvParts DEF ReportsInv, At, agentVars
<1> QED
  BY <1>2, <1>3, <1>4 DEF AgentInv, IInv, Types

-----------------------------------------------------------------------------
(* One step of the system *)

(* What the requests that are out, and those that are late, look like. *)
LEMMA SentType ==
    ASSUME AgentInv, At("wait")
    PROVE loop.sent \in Body /\ loop.sent.applied = outA
BY AgentInvParts DEF Types, LoopShape, ReportsInv, At

(* The steps of the system, sorted by what the cloud does in them. *)
Quiet == UNCHANGED cjob

LEMMA CloudStep ==
    ASSUME AgentInv, CloudTypeOK, late \in SUBSET Body, [SystemNext]_systemVars
    PROVE /\ CloudTypeOK' /\ late' \in SUBSET Body
          /\ Quiet \/ \E body \in Body : Process(body)
<1> USE DEF Quiet
<1>1. CASE UNCHANGED <<cloudVars, late>>
  BY <1>1 DEF cloudVars, CloudTypeOK
<1>2. now \in Nat
  BY AgentInvParts DEF Types, TypeOK, SlurmTypeOK
<1>3. CASE \/ Exchange \/ AnswerLost
           \/ \E k \in 0 .. 3 : ExchangeCrash(k)
  <2>1. At("wait") /\ Process(loop.sent) /\ UNCHANGED late
    BY <1>3 DEF Exchange, AnswerLost, ExchangeCrash, CloudFails
  <2> QED
    BY <2>1, <1>2, SentType, ProcessKeeps
<1>4. CASE RequestDelayed
  BY <1>4, SentType DEF RequestDelayed, CloudFails, cloudVars, CloudTypeOK
<1>5. CASE \E body \in late : LateRequest(body)
  BY <1>5, <1>2, ProcessKeeps DEF LateRequest
<1>6. CASE Operator
  <2>1. UNCHANGED <<cjob, late>> /\ site' \in [mode : ModeNames, all : BOOLEAN]
    BY <1>6, CloudAssumption DEF Operator, SetMode, SetReleaseAll, CloudTypeOK
  <2> QED
    BY <2>1 DEF CloudTypeOK
<1> QED
  BY <1>1, <1>3, <1>4, <1>5, <1>6 DEF SystemNext, RequestLost, systemVars, cloudVars

LEMMA AgentInvKept ==
    ASSUME AgentInv, CloudTypeOK, late \in SUBSET Body, [SystemNext]_systemVars
    PROVE AgentInv'
<1> USE DEF Kinds
<1>1. CloudTypeOK'
  BY CloudStep
<1>2. CASE \/ SlurmNext /\ UNCHANGED <<agentVars, cloudVars, late>>
           \/ AgentStep /\ UNCHANGED <<cloudVars, late>>
  BY <1>2, OwnStepKeeps
<1>3. CASE Exchange \/ \E k \in 0 .. 3 : ExchangeCrash(k)
  <2>1. Answer(loop.sent) \in Reply
    BY <1>1, <1>3, SentType, AnswerType DEF Exchange, ExchangeCrash
  <2> QED
    BY <1>3, <2>1, AnswerKeeps DEF Exchange, ExchangeCrash
<1>4. CASE RequestLost \/ AnswerLost \/ RequestDelayed
  BY <1>4, NoAnswerKeeps DEF RequestLost, AnswerLost, RequestDelayed
<1>5. CASE \/ \E body \in late : LateRequest(body)
           \/ Operator
           \/ UNCHANGED systemVars
  BY <1>5, ElsewhereKeeps DEF LateRequest, Operator, systemVars, slurmVars
<1> QED
  BY <1>2, <1>3, <1>4, <1>5 DEF SystemNext

LEMMA RowsKept ==
    ASSUME AgentInv, CloudTypeOK, late \in SUBSET Body, [SystemNext]_systemVars
    PROVE /\ \A r \in Refs : cjob[r] # None => cjob'[r] # None /\ Keeps(r, cjob[r], cjob'[r])
          /\ \A r \in Refs : cjob[r] = None /\ cjob'[r] # None => InTime(r, cjob'[r])
<1>1. now \in Nat /\ \A r \in Refs : cjob[r] # None => cjob[r] \in CJob
  BY AgentInvParts DEF Types, TypeOK, SlurmTypeOK, CloudTypeOK
<1>2. CASE Quiet
  BY <1>1, <1>2, KeepsSelf DEF Quiet
<1>3. CASE \E body \in Body : Process(body)
  BY <1>1, <1>3, ProcessKeeps
<1> QED
  BY <1>2, <1>3, CloudStep

-----------------------------------------------------------------------------
(* The invariant *)

(* A report in the outbox, and a decision under way, are of a job that the cloud knows. *)
LEMMA KnownKept ==
    ASSUME AgentInv, CloudTypeOK, late \in SUBSET Body, Known, [SystemNext]_systemVars
    PROVE Known'
<1>1. \A r \in Refs : cjob[r] # None => cjob'[r] # None
  BY RowsKept
<1>2. CASE Exchange
  <2>1. Acknowledge(Answer(loop.sent)) /\ At("wait") /\ loop.sent \in Body
    BY <1>2, SentType DEF Exchange
  <2>2. /\ Answer(loop.sent) \in Reply
        /\ \A r \in Refs : Answer(loop.sent).dec[r] # None => cjob'[r] # None
    BY <2>1, CloudStep, AnswerType
  <2>3. \A r \in Refs : outA'[r] = None
    BY <2>1, <2>2, CommitsReports, AgentInvParts DEF Acknowledge, Reply
  <2>4. loop'.dec \in {Answer(loop.sent).dec, Nothing}
    BY <2>1, AgentInvParts DEF Acknowledge, Types, TypeOK, AgentTypeOK, RunOnce
  <2> QED
    BY <2>2, <2>3, <2>4 DEF Known, Nothing
<1>3. CASE \/ \E k \in 0 .. 3 : ExchangeCrash(k)
           \/ RequestLost \/ AnswerLost \/ RequestDelayed
  <2>1. loop'.pc = "idle"
    BY <1>3 DEF ExchangeCrash, AckCrash, RequestLost, AnswerLost, RequestDelayed, CloudFails, Idle
  <2>2. \A r \in Refs : outA'[r] # None => outA[r] # None
    <3>1. CASE \E k \in 0 .. 3 : ExchangeCrash(k)
      <4>1. PICK k \in 0 .. 3 : ExchangeCrash(k)
        BY <3>1
      <4>2. Answer(loop.sent).all \in BOOLEAN /\ Commits(Answer(loop.sent).all, k) /\ At("wait") /\ k \in 0 .. 4
        BY <4>1, SentType, CloudStep, AnswerType DEF ExchangeCrash, AckCrash, Reply
      <4> QED
        BY <4>2, CommitsReports, AgentInvParts
    <3>2. CASE RequestLost \/ AnswerLost \/ RequestDelayed
      BY <3>2 DEF RequestLost, AnswerLost, RequestDelayed, CloudFails, durable
    <3> QED
      BY <1>3, <3>1, <3>2
  <2> QED
    BY <1>1, <2>1, <2>2 DEF Known, Applying, Deciding
<1>4. CASE UNCHANGED <<outA, loop>>
  BY <1>1, <1>4 DEF Known
<1>5. CASE AgentStep
  <2>1. \A r \in Refs : outA'[r] # None \/ (loop'.pc \in Applying /\ loop'.dec[r] # None) =>
            outA[r] # None \/ (loop.pc \in Applying /\ loop.dec[r] # None)
    BY <1>5, AgentStepSources, AgentInvParts
  <2> QED
    BY <1>1, <2>1 DEF Known
<1> QED
  BY <1>2, <1>3, <1>4, <1>5 DEF SystemNext, LateRequest, Operator, agentVars, systemVars

LEMMA SystemInitInv == SystemInit => SystemInv
<1> SUFFICES ASSUME SystemInit PROVE SystemInv
  OBVIOUS
<1>1. IInv
  BY InitInv DEF SystemInit, Init
<1>2. ReportsInv /\ Known /\ WithinHardLimit
  BY DEF SystemInit, AgentInit, CloudInit, ReportsInv, Known, WithinHardLimit, At, Idle, Nothing, Applying, Deciding
<1>3. CloudTypeOK
  BY CloudAssumption DEF SystemInit, CloudInit, CloudTypeOK, Nothing
<1>4. late \in SUBSET Body
  BY DEF SystemInit
<1> QED
  BY <1>1, <1>2, <1>3, <1>4 DEF SystemInv

LEMMA SystemNextInv == SystemInv /\ [SystemNext]_systemVars => SystemInv'
<1> SUFFICES ASSUME SystemInv, [SystemNext]_systemVars PROVE SystemInv'
  OBVIOUS
<1>1. AgentInv /\ CloudTypeOK /\ late \in SUBSET Body /\ Known /\ WithinHardLimit
  BY DEF SystemInv, AgentInv
<1>2. AgentInv' /\ CloudTypeOK' /\ (late \in SUBSET Body)' /\ Known'
  BY <1>1, AgentInvKept, CloudStep, KnownKept
<1>3. WithinHardLimit'
  BY <1>1, RowsKept DEF WithinHardLimit, Keeps
<1> QED
  BY <1>2, <1>3 DEF SystemInv, AgentInv

-----------------------------------------------------------------------------
(* Theorems *)

(* Every variable of the composed system keeps its type. *)
THEOREM SystemTypeCorrect == SystemSpec => []SystemTypeOK
<1>1. SystemInv => SystemTypeOK
  BY DEF SystemInv, IInv, SystemTypeOK
<1> QED
  BY <1>1, SystemInitInv, SystemNextInv, PTL DEF SystemSpec

(* The cloud never plans a job, nor leaves one planned, beyond twice its wait after it saw it first,   *)
(* whatever requests arrive, in whatever order and how often.                                          *)
THEOREM HardLimitIsKept == SystemSpec => []WithinHardLimit
<1>1. SystemInv => WithinHardLimit
  BY DEF SystemInv
<1> QED
  BY <1>1, SystemInitInv, SystemNextInv, PTL DEF SystemSpec

(* With the real cloud, too, no job is made to wait past its limit. *)
THEOREM SystemLimitIsKept == SystemSpec => []LimitKept
<1>1. SystemInv => LimitKept
  BY DEF SystemInv, IInv, Alive, OnFile, LimitKept
<1> QED
  BY <1>1, SystemInitInv, SystemNextInv, PTL DEF SystemSpec

(* No request, however late or often repeated, moves a job back, measures it again, or brings a job    *)
(* that the cloud leaves alone under management.                                                       *)
THEOREM NeverMovesBack == SystemSpec => NeverBack
<1>1. SystemInv /\ [SystemNext]_systemVars =>
        [\A r \in Refs :
            cjob[r] # None =>
              /\ cjob'[r] # None /\ Rank(cjob'[r].st) >= Rank(cjob[r].st)
              /\ cjob[r].status \in HandsOffStatus =>
                     cjob'[r].status \in HandsOffStatus /\ cjob'[r].planned = cjob[r].planned
              /\ cjob[r].measured => cjob'[r].measured]_systemVars
  BY RowsKept DEF SystemInv, AgentInv, Keeps
<1> QED
  BY <1>1, SystemInitInv, SystemNextInv, PTL DEF SystemSpec, NeverBack

(* A report leaves the outbox in an exchange only, and the cloud then knows its job and has noted it. *)
LEMMA ReportsReachCloud ==
    ASSUME SystemInv, SystemNext, NEW r \in Refs, outA[r] # None, outA'[r] = None
    PROVE cjob'[r] # None /\ Shows(outA[r], cjob'[r])
<1>1. AgentInv /\ CloudTypeOK /\ now \in Nat /\ Types /\ ReportsInv
  BY AgentInvParts DEF SystemInv, AgentInv, Types, TypeOK, SlurmTypeOK
<1>2. CASE AgentStep
  BY <1>1, <1>2, AgentStepReports
<1>3. CASE Exchange \/ \E k \in 0 .. 3 : ExchangeCrash(k)
  <2>1. loop.sent \in Body /\ loop.sent.applied = outA /\ Process(loop.sent)
    BY <1>1, <1>3, SentType DEF Exchange, ExchangeCrash
  <2>2. cjob[r] # None
    BY DEF SystemInv, Known
  <2> QED
    BY <1>1, <2>1, <2>2, ProcessKeeps
<1>4. CASE UNCHANGED outA
  BY <1>4
<1> QED
  BY <1>2, <1>3, <1>4
  DEF SystemNext, agentVars, RequestLost, AnswerLost, RequestDelayed, CloudFails, durable, LateRequest, Operator

(* No report is lost: the agent forgets it only when the cloud's record shows what it said. *)
THEOREM NoReportIsLost == SystemSpec => NoReportLost
<1>1. SystemInv /\ [SystemNext]_systemVars =>
        [\A r \in Refs :
            outA[r] # None /\ outA'[r] = None =>
              /\ cjob'[r] # None
              /\ IF outA[r].ok THEN cjob'[r].applied = outA[r].at
                 ELSE cjob'[r].status \in HandsOffStatus]_systemVars
  BY ReportsReachCloud DEF Shows
<1> QED
  BY <1>1, SystemInitInv, SystemNextInv, PTL DEF SystemSpec, NoReportLost

=============================================================================
